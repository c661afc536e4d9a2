-------------------------- MODULE CrawlerCoreProofs --------------------------
(***************************************************************************)
(* CrawlerCore, proved for every number of tasks, every web and every      *)
(* limit: its types and the overshoot of the limit, whatever calls fail;   *)
(* and, as long as none does, what is left at the end and what the counter *)
(* stands for.                                                             *)
(***************************************************************************)
EXTENDS CrawlerCore, SequenceLemmas, FiniteSetTheorems

\* The names for sets of labels are looked through in every proof.
USE DEF Idle, Over, AfterTurn

-----------------------------------------------------------------------------
(* The type invariant, strengthened until it is inductive.                  *)

\* Where run and the tasks are tells which URL they have to do with.
TypeInv ==
  /\ TypeOK
  /\ corePc \in {"clean", "pushStart", "insertStart"} => startUrl \in Url
  /\ \A w \in Worker : pc[w] \in {"acquire", "requeue", "check", "discover"} =>
                         DomainOf[cur[w]] \in Domain

\* fetch_add and fetch_sub stay within usize.
LEMMA WrapType == \A n \in Int : Wrap(n) \in 0..(UsizeMod - 1)
BY CoreAssumption DEF Wrap

\* Every operation on the list leaves a list of URLs and stays within the budget.
LEMMA QueueOperations ==
  ASSUME FrontierTypeOK, NEW urls \in Seq(Url), NEW url,
         \/ PushBulk(urls) \/ PushBulkFails(urls)
         \/ PopFront(url) \/ PopFrontTimesOut \/ PopFrontFails
         \/ IsEmpty \/ IsNotEmpty \/ QueueLen(Len(queue)) \/ QueueLenFails
         \/ CleanQueue \/ CleanQueueFails
         \/ UNCHANGED queue /\ (Works \/ Fails)
  PROVE  queue' \in Seq(Url) /\ faults' \in 0..MaxFaults
<1>1. queue \o urls \in Seq(Url) /\ <<>> \in Seq(Url)
  BY EmptySeq, ConcatProperties DEF FrontierTypeOK
<1>2. queue # <<>> => Tail(queue) \in Seq(Url)
  BY HeadTailProperties DEF FrontierTypeOK
<1>3. queue' \in Seq(Url)
  BY <1>1, <1>2
  DEF FrontierTypeOK, PushBulk, PushBulkFails, PopFront, PopFrontTimesOut,
      PopFrontFails, IsEmpty, IsNotEmpty, QueueLen, QueueLenFails, CleanQueue,
      CleanQueueFails, queueVars
<1>4. faults' = faults \/ (faults < MaxFaults /\ faults' = faults + 1)
  BY Zenon DEF PushBulk, PushBulkFails, PopFront, PopFrontTimesOut,
      PopFrontFails, IsEmpty, IsNotEmpty, QueueLen, QueueLenFails, CleanQueue,
      CleanQueueFails, queueVars, Works, Fails
<1> QED
  BY <1>3, <1>4, MaxFaultsAssumption DEF FrontierTypeOK

LEMMA TypeInit == Init => TypeInv
<1> SUFFICES ASSUME Init PROVE TypeInv
  OBVIOUS
<1>1. PICK s \in Scenarios : /\ startUrl = s.startUrl /\ queue = s.queue
                             /\ seen = s.seen /\ known = s.known
                             /\ events = s.events
                             /\ retired = s.seen \ Range(s.queue)
  BY DEF Init
<1>2. s \in [startUrl : Url \cup {NoUrl}, queue : Seq(Url), seen : SUBSET Url,
             known : SUBSET Domain, events : Seq(Domain)]
  BY CoreAssumption
<1>3. <<>> \in Seq(Url)
  BY EmptySeq
<1>4. FrontierTypeOK
  BY <1>1, <1>2, MaxFaultsAssumption DEF FrontierTypeOK, Init
<1>5. RunTypeOK
  <2>1. UsizeMod \in Nat \ {0}
    BY CoreAssumption
  <2>2. startUrl \in Url \cup {NoUrl}
    BY <1>1, <1>2
  <2>3. activeTasks \in 0..(UsizeMod - 1)
    BY <2>1 DEF Init
  <2> QED
    BY <1>3, <2>2, <2>3 DEF RunTypeOK, Init, CorePcs
<1>6. TaskTypeOK
  BY <1>3 DEF TaskTypeOK, Init, TaskPcs
<1>7. StorageTypeOK
  BY <1>1, <1>2, <1>3 DEF StorageTypeOK, Init
<1>8. HistoryTypeOK
  BY <1>1, <1>2 DEF HistoryTypeOK, Init
<1> QED
  BY <1>4, <1>5, <1>6, <1>7, <1>8 DEF TypeInv, TypeOK, Init

LEMMA FrontierTypeStep ==
  ASSUME TypeInv, Next PROVE FrontierTypeOK'
<1> USE DEF TypeInv, TypeOK
<1>1. \A w \in Worker : cur[w] \in Url => <<cur[w]>> \in Seq(Url)
  OBVIOUS
<1>2. /\ <<>> \in Seq(Url) /\ SeedFile \in Seq(Url)
      /\ corePc = "pushStart" => <<startUrl>> \in Seq(Url)
      /\ sitemapInHand # NoUrl => <<sitemapInHand>> \in Seq(Url)
  BY CoreAssumption, EmptySeq DEF StorageTypeOK
<1>3. /\ seedsLeft # <<>> => Head(seedsLeft) \in Url
      /\ sitemapsLeft # <<>> => Head(sitemapsLeft) \in Url
      /\ \A w \in Worker : out[w] # <<>> => Head(out[w]) \in Url
  <2>1. \A s \in Seq(Url) : s # <<>> => Head(s) \in Url
    BY HeadTailProperties
  <2> QED
    BY <2>1 DEF RunTypeOK, StorageTypeOK, TaskTypeOK
<1>4. seen' \subseteq Url
  <2>1. CASE Run \/ Signal
    BY <2>1, <1>3 DEF Run, Startup, FrontierTypeOK, InsertUrl,
      StartFromEmptyQueue, StartFromLeftovers, CleanLeftovers, PushStartUrl,
      InsertStartUrl, InsertSeed, SeedsOffered, PushSeeds, ResumeLeftovers,
      StartFails, SpawnWorkers, MonitorStops, JoinWorkers, Signal
  <2>2. ASSUME NEW w \in Worker, Task(w) PROVE seen' \subseteq Url
    BY <2>2, <1>3 DEF Task, FrontierTypeOK, InsertUrl,
      LookAtShutdown, PopUrl, PopNothing, Acquire, TooEarly, Requeue, Drop,
      CheckUrl, Discover, Fetch, TaskPanics, SavePage, OfferLink, OfferFails, LinksOffered,
      PushLinks, PushLinksFails, CountLinks, Release
  <2>3. CASE Storage \/ StorageRestarts
    BY <2>3, <1>3 DEF Storage, FrontierTypeOK, InsertUrl, StorageSavesDomain,
      StorageOffersSitemap, StoragePushesSitemap, StoragePushFails,
      StorageRestarts
  <2> QED
    BY <2>1, <2>2, <2>3 DEF Next
<1>5. queue' \in Seq(Url) /\ faults' \in 0..MaxFaults
  <2> USE DEF TypeInv, TypeOK
  <2>1. CASE Run \/ Signal
    <3>1. \E urls \in Seq(Url) : \E url :
            \/ PushBulk(urls) \/ PushBulkFails(urls)
            \/ IsEmpty \/ IsNotEmpty \/ QueueLen(Len(queue)) \/ QueueLenFails
            \/ CleanQueue \/ CleanQueueFails
            \/ UNCHANGED queue /\ (Works \/ Fails)
      BY <2>1, <1>2 DEF Run, Startup,
        StartFromEmptyQueue, StartFromLeftovers, CleanLeftovers, PushStartUrl,
        InsertStartUrl, InsertSeed, SeedsOffered, PushSeeds, ResumeLeftovers,
        StartFails, SpawnWorkers, MonitorStops, JoinWorkers, Signal, queueVars,
        Works
    <3> QED
      BY <3>1, QueueOperations
  <2>2. ASSUME NEW w \in Worker, Task(w)
        PROVE  queue' \in Seq(Url) /\ faults' \in 0..MaxFaults
    <3>1. pc[w] = "requeue" => <<cur[w]>> \in Seq(Url)
      BY <1>1 DEF TaskTypeOK
    <3>2. batch[w] \in Seq(Url)
      BY DEF TaskTypeOK
    <3>3. \E urls \in Seq(Url) : \E url :
            \/ PushBulk(urls) \/ PushBulkFails(urls)
            \/ PopFront(url) \/ PopFrontTimesOut \/ PopFrontFails
            \/ UNCHANGED queue /\ (Works \/ Fails)
      BY <2>2, <3>1, <3>2 DEF Task,
        LookAtShutdown, PopUrl, PopNothing, Acquire, TooEarly, Requeue, Drop,
        CheckUrl, Discover, Fetch, TaskPanics, SavePage, OfferLink, OfferFails,
        LinksOffered, PushLinks, PushLinksFails, CountLinks, Release, queueVars,
        Works
    <3> QED
      BY <3>3, QueueOperations
  <2>3. CASE Storage \/ StorageRestarts
    <3>1. \E urls \in Seq(Url) :
            \/ PushBulk(urls) \/ PushBulkFails(urls)
            \/ UNCHANGED queue /\ (Works \/ Fails)
      BY <2>3, <1>2 DEF Storage, StorageSavesDomain, StorageOffersSitemap,
        StoragePushesSitemap, StoragePushFails, StorageRestarts, queueVars, Works
    <3> QED
      BY <3>1, QueueOperations
  <2> QED
    BY <2>1, <2>2, <2>3 DEF Next
<1> QED
  BY <1>4, <1>5 DEF FrontierTypeOK

LEMMA RunTypeStep ==
  ASSUME TypeInv, Next
  PROVE  /\ RunTypeOK'
         /\ (corePc \in {"clean", "pushStart", "insertStart"} => startUrl \in Url)'
<1> USE DEF TypeInv, TypeOK
<1>1. /\ SeedFile \in Seq(Url) /\ Len(SeedFile) \in Int /\ Len(queue) \in Int
      /\ <<>> \in Seq(Url)
  BY CoreAssumption, EmptySeq, LenProperties DEF FrontierTypeOK
<1>2. seedsLeft # <<>> => Tail(seedsLeft) \in Seq(Url)
  BY HeadTailProperties DEF RunTypeOK
<1>3. Wrap(1) \in 0..(UsizeMod - 1) /\ Wrap(Len(SeedFile)) \in 0..(UsizeMod - 1)
      /\ Wrap(Len(queue)) \in 0..(UsizeMod - 1)
  BY <1>1, WrapType
<1>4. activeTasks \in Int
  BY CoreAssumption DEF RunTypeOK
<1>5. Wrap(activeTasks - 1) \in 0..(UsizeMod - 1)
  BY <1>4, WrapType
<1>6. CASE Run \/ Signal
  <2> USE DEF RunTypeOK, CorePcs, counters
  <2>1. CASE StartFromEmptyQueue \/ StartFromLeftovers \/ CleanLeftovers
    BY <1>1, <2>1 DEF StartFromEmptyQueue, StartFromLeftovers, CleanLeftovers
  <2>2. CASE PushStartUrl \/ InsertStartUrl
    BY <1>3, <2>2 DEF PushStartUrl, InsertStartUrl
  <2>3. CASE InsertSeed \/ SeedsOffered \/ PushSeeds
    BY <1>2, <1>3, <2>3 DEF InsertSeed, SeedsOffered, PushSeeds
  <2>4. CASE ResumeLeftovers \/ StartFails \/ SpawnWorkers
    BY <1>3, <2>4 DEF ResumeLeftovers, StartFails, SpawnWorkers
  <2>5. CASE MonitorStops \/ JoinWorkers \/ Signal
    BY <2>5 DEF MonitorStops, JoinWorkers, Signal
  <2> QED
    BY <1>6, <2>1, <2>2, <2>3, <2>4, <2>5 DEF Run, Startup
<1>7. ASSUME NEW w \in Worker, Task(w)
      PROVE  /\ RunTypeOK'
             /\ (corePc \in {"clean", "pushStart", "insertStart"}
                   => startUrl \in Url)'
  <2>1. Len(batch[w]) \in Int
    BY LenProperties DEF TaskTypeOK
  <2>2. Wrap(activeTasks + Len(batch[w])) \in 0..(UsizeMod - 1)
    BY <1>4, <2>1, WrapType
  <2> QED
    BY <1>5, <1>7, <2>2 DEF RunTypeOK, CorePcs, Task, coreVars, counters,
      LookAtShutdown, PopUrl, PopNothing, Acquire, TooEarly, Requeue, Drop,
      CheckUrl, Discover, Fetch, TaskPanics, SavePage, OfferLink, OfferFails, LinksOffered,
      PushLinks, PushLinksFails, CountLinks, Release, FetchSub
<1>8. CASE Storage \/ StorageRestarts
  BY <1>8 DEF RunTypeOK, CorePcs, Storage, StorageSavesDomain, coreVars,
    counters, StorageOffersSitemap, StoragePushesSitemap, StoragePushFails,
    StorageRestarts
<1> QED
  BY <1>6, <1>7, <1>8 DEF Next

\* What only the tasks write is left alone by run, until it spawns them, and by
\* the storage.
LEMMA TaskFrame ==
  /\ Run \/ Signal =>
       \/ UNCHANGED taskVars
       \/ SpawnWorkers
  /\ Storage \/ StorageRestarts => UNCHANGED taskVars
BY DEF Run, Startup, Storage, StartFromEmptyQueue, StartFromLeftovers,
  CleanLeftovers, PushStartUrl, InsertStartUrl, InsertSeed, SeedsOffered,
  PushSeeds, ResumeLeftovers, StartFails, MonitorStops, JoinWorkers,
  Signal, StorageSavesDomain, StorageOffersSitemap, StoragePushesSitemap,
  StoragePushFails, StorageRestarts

LEMMA TaskTypeStep ==
  ASSUME TypeInv, Next
  PROVE  /\ TaskTypeOK'
         /\ (\A w \in Worker : pc[w] \in {"acquire", "requeue", "check", "discover"}
                               => DomainOf[cur[w]] \in Domain)'
<1> USE DEF TypeInv, TypeOK
<1>1. CASE Run \/ Signal \/ Storage \/ StorageRestarts
  <2>1. CASE UNCHANGED taskVars
    BY <2>1 DEF taskVars, TaskTypeOK
  <2>2. CASE SpawnWorkers
    BY <2>2 DEF SpawnWorkers, TaskTypeOK, TaskPcs
  <2> QED
    BY <1>1, <2>1, <2>2, TaskFrame
<1>2. ASSUME NEW w \in Worker, Task(w)
      PROVE  /\ TaskTypeOK'
             /\ (\A v \in Worker :
                   pc[v] \in {"acquire", "requeue", "check", "discover"}
                     => DomainOf[cur[v]] \in Domain)'
  <2> USE DEF TaskTypeOK, TaskPcs, Goto
  <2>1. /\ out[w] \in Seq(Url) /\ batch[w] \in Seq(Url)
        /\ out[w] # <<>> => Head(out[w]) \in Url /\ Tail(out[w]) \in Seq(Url)
        /\ <<>> \in Seq(Url)
    BY HeadTailProperties, EmptySeq
  <2>2. out[w] # <<>> => Append(batch[w], Head(out[w])) \in Seq(Url)
    BY <2>1, AppendProperties
  <2>3. cur[w] \in Url => LinksAt[cur[w]] \in Seq(Url)
    BY CoreAssumption
  <2>4. \A u \in Url : DomainOf[u] # NoDomain => DomainOf[u] \in Domain
    BY CoreAssumption
  <2>5. CASE LookAtShutdown(w) \/ PopNothing(w)
    BY <2>5 DEF LookAtShutdown, PopNothing
  <2>6. CASE PopUrl(w)
    BY <2>4, <2>6 DEF PopUrl
  <2>7. CASE Acquire(w) \/ TooEarly(w)
    BY <2>7 DEF Acquire, TooEarly
  <2>8. CASE Requeue(w) \/ Drop(w)
    BY <2>8 DEF Requeue, Drop
  <2>9. CASE CheckUrl(w) \/ Discover(w)
    BY <2>9 DEF CheckUrl, Discover
  <2>10. CASE Fetch(w) \/ TaskPanics(w) \/ SavePage(w)
    BY <2>1, <2>3, <2>10 DEF Fetch, TaskPanics, SavePage
  <2>11. CASE OfferLink(w)
    BY <2>1, <2>2, <2>11 DEF OfferLink
  <2>12. CASE OfferFails(w)
    BY <2>1, <2>12 DEF OfferFails
  <2>13. CASE CountLinks(w) \/ Release(w)
    BY <2>1, <2>13 DEF CountLinks, Release
  <2>14. CASE PushLinks(w)
    BY <2>14 DEF PushLinks
  <2>15. CASE PushLinksFails(w)
    <3>1. CASE attempt[w] < 3
      <4>1. attempt' = [attempt EXCEPT ![w] = @ + 1] /\ UNCHANGED <<pc, cur, out, batch>>
        BY <2>15, <3>1 DEF PushLinksFails
      <4>2. attempt[w] + 1 \in 1..3
        <5>1. attempt[w] \in 1..3
          OBVIOUS
        <5> QED
          BY <3>1, <5>1
      <4> QED
        BY <4>1, <4>2
    <3>2. CASE ~(attempt[w] < 3)
      BY <2>1, <2>15, <3>2 DEF PushLinksFails
    <3> QED
      BY <3>1, <3>2
  <2>16. CASE LinksOffered(w)
    <3>1. attempt' \in [Worker -> 1..3] /\ UNCHANGED <<cur, out, batch>>
      BY <2>16 DEF LinksOffered
    <3>2. pc[w] = "offer" /\ \E l \in {"release", "push"} : pc' = [pc EXCEPT ![w] = l]
      BY <2>16 DEF LinksOffered
    <3> QED
      BY <3>1, <3>2
  <2> QED
    BY <1>2, <2>5, <2>6, <2>7, <2>8, <2>9, <2>10, <2>11, <2>12, <2>13, <2>14,
       <2>15, <2>16 DEF Task
<1> QED
  BY <1>1, <1>2 DEF Next

LEMMA StorageTypeStep ==
  ASSUME TypeInv, Next PROVE StorageTypeOK'
<1> USE DEF TypeInv, TypeOK
<1>1. CASE Run \/ Signal
  BY <1>1 DEF Run, Startup, StorageTypeOK, storageVars, StartFromEmptyQueue,
    StartFromLeftovers, CleanLeftovers, PushStartUrl, InsertStartUrl,
    InsertSeed, SeedsOffered, PushSeeds, ResumeLeftovers, StartFails,
    SpawnWorkers, MonitorStops, JoinWorkers, Signal
<1>2. ASSUME NEW w \in Worker, Task(w) PROVE StorageTypeOK'
  <2>1. CASE Discover(w)
    <3>1. Append(events, DomainOf[cur[w]]) \in Seq(Domain)
      BY <2>1, AppendProperties DEF Discover, StorageTypeOK
    <3> QED
      BY <2>1, <3>1 DEF Discover, StorageTypeOK
  <2>2. CASE ~Discover(w)
    BY <1>2, <2>2 DEF Task, StorageTypeOK, storageVars, LookAtShutdown, PopUrl,
      PopNothing, Acquire, TooEarly, Requeue, Drop, CheckUrl, Fetch, TaskPanics, SavePage,
      OfferLink, OfferFails, LinksOffered, PushLinks, PushLinksFails,
      CountLinks, Release
  <2> QED
    BY <2>1, <2>2
<1>3. CASE StorageRestarts
  <2>1. ASSUME NEW n \in 0..Len(events)
        PROVE  SubSeq(events, n + 1, Len(events)) \in Seq(Domain)
    BY SubSeqProperties, LenProperties DEF StorageTypeOK
  <2> QED
    BY <1>3, <2>1, EmptySeq DEF StorageTypeOK, StorageRestarts
<1>4. CASE Storage
  <2>1. events # <<>> => /\ Head(events) \in Domain /\ Tail(events) \in Seq(Domain)
                         /\ SitemapsOf[Head(events)] \in Seq(Url)
    BY HeadTailProperties, CoreAssumption DEF StorageTypeOK
  <2>2. sitemapsLeft # <<>> => /\ Head(sitemapsLeft) \in Url
                               /\ Tail(sitemapsLeft) \in Seq(Url)
    BY HeadTailProperties DEF StorageTypeOK
  <2>3. CASE StorageSavesDomain
    BY <2>1, <2>3 DEF StorageTypeOK, StorageSavesDomain
  <2>4. CASE StorageOffersSitemap
    BY <2>2, <2>4 DEF StorageTypeOK, StorageOffersSitemap
  <2>5. CASE StoragePushesSitemap
    BY <2>5 DEF StorageTypeOK, StoragePushesSitemap
  <2>6. CASE StoragePushFails
    BY <2>6 DEF StorageTypeOK, StoragePushFails
  <2> QED
    BY <1>4, <2>3, <2>4, <2>5, <2>6 DEF Storage
<1> QED
  BY <1>1, <1>2, <1>3, <1>4 DEF Next

LEMMA HistoryTypeStep ==
  ASSUME TypeInv, Next PROVE HistoryTypeOK'
<1> USE DEF TypeInv, TypeOK
<1>1. Range(queue) \subseteq Url
  BY RangeOfSeq DEF FrontierTypeOK
<1>2. CASE Run \/ Signal
  BY <1>1, <1>2 DEF Run, Startup, HistoryTypeOK, history, StartFromEmptyQueue,
    StartFromLeftovers, CleanLeftovers, PushStartUrl, InsertStartUrl,
    InsertSeed, SeedsOffered, PushSeeds, ResumeLeftovers, StartFails,
    SpawnWorkers, MonitorStops, JoinWorkers, Signal
<1>3. ASSUME NEW w \in Worker, Task(w) PROVE HistoryTypeOK'
  BY <1>3 DEF Task, HistoryTypeOK, TaskTypeOK, history, LookAtShutdown, PopUrl,
    PopNothing, Acquire, TooEarly, Requeue, Drop, CheckUrl, Discover, Fetch, TaskPanics,
    SavePage, OfferLink, OfferFails, LinksOffered, PushLinks, PushLinksFails,
    CountLinks, Release
<1>4. CASE Storage \/ StorageRestarts
  <2>1. CASE StoragePushFails
    <3>1. /\ Len(queue) \in Nat
          /\ Len(queue \o <<sitemapInHand>>) = Len(queue) + 1
      BY <2>1, LenProperties, ConcatProperties, SingletonSeq
      DEF FrontierTypeOK, StorageTypeOK, StoragePushFails
    <3> QED
      BY <2>1, <3>1 DEF HistoryTypeOK, StoragePushFails, PushBulkFails
  <2>2. CASE ~StoragePushFails
    BY <1>4, <2>2 DEF Storage, HistoryTypeOK, history, StorageSavesDomain,
      StorageOffersSitemap, StoragePushesSitemap, StorageRestarts
  <2> QED
    BY <2>1, <2>2
<1> QED
  BY <1>2, <1>3, <1>4 DEF Next

LEMMA TypeStep == TypeInv /\ [Next]_vars => TypeInv'
<1> SUFFICES ASSUME TypeInv, [Next]_vars PROVE TypeInv'
  OBVIOUS
<1>1. CASE Next
  BY <1>1, FrontierTypeStep, RunTypeStep, TaskTypeStep, StorageTypeStep,
     HistoryTypeStep DEF TypeInv, TypeOK
<1>2. CASE UNCHANGED vars
  BY <1>2 DEF TypeInv, TypeOK, FrontierTypeOK, RunTypeOK, TaskTypeOK,
    StorageTypeOK, HistoryTypeOK, vars, coreVars, counters, taskVars,
    storageVars, history
<1> QED
  BY <1>1, <1>2

\* Whatever fails and however the tasks interleave, no variable leaves its type:
\* the counters wrap within usize, the retry counters stay within 1..3, and a task
\* past the pop has a URL in hand.
THEOREM TypeCorrect == Spec => []TypeOK
<1>1. TypeInv => TypeOK
  BY DEF TypeInv
<1> QED
  BY <1>1, TypeInit, TypeStep, PTL DEF Spec

-----------------------------------------------------------------------------
(* The tasks and the limit.                                                 *)

\* No task runs before run has filled the list.
IdleBeforeSpawn ==
  corePc \notin {"monitor", "join", "returned"} => \A w \in Worker : pc[w] = "idle"

\* A task takes no step before run has spawned it, and none of run's.
LEMMA TaskRuns ==
  ASSUME NEW w \in Worker, Task(w)
  PROVE  /\ pc[w] # "idle"
         /\ UNCHANGED <<corePc, startUrl, seedsLeft, shutdown, stray>>
         /\ UNCHANGED <<known, sitemapsLeft, sitemapInHand, sitemapAttempt>>
BY DEF Task, coreVars, storageVars, history, LookAtShutdown, PopUrl, PopNothing,
  Acquire, TooEarly, Requeue, Drop, CheckUrl, Discover, Fetch, TaskPanics, SavePage,
  OfferLink, OfferFails, LinksOffered, PushLinks, PushLinksFails, CountLinks,
  Release

LEMMA IdleStep ==
  IdleBeforeSpawn /\ [Next]_vars => IdleBeforeSpawn'
<1> SUFFICES ASSUME IdleBeforeSpawn, [Next]_vars PROVE IdleBeforeSpawn'
  OBVIOUS
<1>1. ASSUME NEW w \in Worker, Task(w) PROVE IdleBeforeSpawn'
  BY <1>1, TaskRuns DEF IdleBeforeSpawn
<1>2. CASE SpawnWorkers
  BY <1>2 DEF SpawnWorkers, IdleBeforeSpawn
<1>3. CASE (Run \/ Signal) /\ UNCHANGED taskVars
  <2>1. corePc \in {"monitor", "join", "returned"}
          => corePc' \in {"monitor", "join", "returned"}
    BY <1>3 DEF Run, Startup, StartFromEmptyQueue, StartFromLeftovers,
      CleanLeftovers, PushStartUrl, InsertStartUrl, InsertSeed, SeedsOffered,
      PushSeeds, ResumeLeftovers, StartFails, SpawnWorkers, MonitorStops,
      JoinWorkers, Signal
  <2> QED
    BY <1>3, <2>1 DEF taskVars, IdleBeforeSpawn
<1>4. CASE Storage \/ StorageRestarts \/ UNCHANGED vars
  BY <1>4 DEF Storage, StorageSavesDomain, StorageOffersSitemap,
    StoragePushesSitemap, StoragePushFails, StorageRestarts, vars, coreVars,
    taskVars, IdleBeforeSpawn
<1> QED
  BY <1>1, <1>2, <1>3, <1>4, TaskFrame DEF Next

\* Tasks that may still save a page before they look at the token.
Savers == {w \in Worker : pc[w] \in {"pop", "acquire", "check", "fetch", "save"}}

\* Once the token is cancelled nobody becomes a saver, and who saves a page is one
\* no more.
LEMMA SaversLeave ==
  ASSUME TypeInv, shutdown, NEW w \in Worker, Task(w)
  PROVE  /\ Savers' \subseteq Savers
         /\ \/ UNCHANGED pagesCrawled
            \/ /\ pagesCrawled' = pagesCrawled + 1
               /\ w \in Savers /\ Savers' \subseteq Savers \ {w}
<1> USE DEF TypeInv, TypeOK, TaskTypeOK, Goto, Savers
<1>1. CASE LookAtShutdown(w)
  BY <1>1 DEF LookAtShutdown, counters
<1>2. CASE SavePage(w)
  BY <1>2 DEF SavePage
<1>3. CASE Task(w) /\ ~LookAtShutdown(w) /\ ~SavePage(w)
  <2>1. UNCHANGED pagesCrawled
    BY <1>3 DEF Task, PopUrl, PopNothing, Acquire, TooEarly, Requeue, Drop,
      CheckUrl, Discover, Fetch, TaskPanics, OfferLink, OfferFails, LinksOffered,
      PushLinks, PushLinksFails, CountLinks, Release, counters, FetchSub
  <2>2. CASE PopUrl(w) \/ PopNothing(w) \/ Acquire(w) \/ TooEarly(w) \/ Requeue(w)
    BY <2>1, <2>2 DEF PopUrl, PopNothing, Acquire, TooEarly, Requeue
  <2>3. CASE Drop(w) \/ CheckUrl(w) \/ Discover(w) \/ Fetch(w) \/ TaskPanics(w)
    BY <2>1, <2>3 DEF Drop, CheckUrl, Discover, Fetch, TaskPanics
  <2>4. CASE OfferLink(w) \/ OfferFails(w) \/ LinksOffered(w) \/ PushLinks(w)
    BY <2>1, <2>4 DEF OfferLink, OfferFails, LinksOffered, PushLinks
  <2>5. CASE PushLinksFails(w) \/ CountLinks(w) \/ Release(w)
    BY <2>1, <2>5 DEF PushLinksFails, CountLinks, Release
  <2> QED
    BY <1>3, <2>2, <2>3, <2>4, <2>5 DEF Task
<1> QED
  BY <1>1, <1>2, <1>3

LEMMA OvershootStep ==
  ASSUME TypeInv, [Next]_vars, shutdown, corePc \in {"monitor", "join"}
  PROVE  Saveable' <= Saveable
<1>1. pagesCrawled \in Nat /\ IsFiniteSet(Worker)
  BY CoreAssumption DEF TypeInv, TypeOK, RunTypeOK
<1>2. IsFiniteSet(Savers) /\ Cardinality(Savers) \in Nat
  BY <1>1, FS_Subset, FS_CardinalityType DEF Savers
<1>3. Saveable = pagesCrawled + Cardinality(Savers)
  BY DEF Saveable, Savers
<1>4. Saveable' = pagesCrawled' + Cardinality(Savers')
  BY DEF Saveable, Savers
<1>5. ASSUME NEW w \in Worker, Task(w) PROVE Saveable' <= Saveable
  <2>1. /\ Savers' \subseteq Savers
        /\ \/ UNCHANGED pagesCrawled
           \/ /\ pagesCrawled' = pagesCrawled + 1
              /\ w \in Savers /\ Savers' \subseteq Savers \ {w}
    BY <1>5, SaversLeave
  <2>2. Cardinality(Savers') \in Nat /\ Cardinality(Savers') <= Cardinality(Savers)
    BY <1>2, <2>1, FS_Subset, FS_CardinalityType
  <2>3. IsFiniteSet(Savers \ {w})
          /\ (w \in Savers => Cardinality(Savers \ {w}) = Cardinality(Savers) - 1)
    BY <1>2, FS_RemoveElement
  <2>4. Savers' \subseteq Savers \ {w} => Cardinality(Savers') <= Cardinality(Savers \ {w})
    BY <2>3, FS_Subset
  <2> QED
    BY <1>1, <1>2, <1>3, <1>4, <2>1, <2>2, <2>3, <2>4
<1>6. CASE Run \/ Signal \/ Storage \/ StorageRestarts \/ UNCHANGED vars
  <2>1. UNCHANGED <<pc, pagesCrawled>>
    BY <1>6 DEF Run, Startup, Storage, StartFromEmptyQueue, StartFromLeftovers,
      CleanLeftovers, PushStartUrl, InsertStartUrl, InsertSeed, SeedsOffered,
      PushSeeds, ResumeLeftovers, StartFails, SpawnWorkers, MonitorStops,
      JoinWorkers, Signal, StorageSavesDomain, StorageOffersSitemap,
      StoragePushesSitemap, StoragePushFails, StorageRestarts, vars, counters,
      taskVars
  <2>2. Savers' = Savers
    BY <2>1 DEF Savers
  <2> QED
    BY <1>1, <1>2, <1>3, <1>4, <2>1, <2>2
<1> QED
  BY <1>5, <1>6 DEF Next

\* Whatever fails, and however late the monitor comes to look at the limit: once the
\* token is cancelled the tasks save at most one page each, so the limit is exceeded
\* after that by no more than the number of tasks.
THEOREM LimitOvershoot == Spec => OvershootBounded
<1>1. TypeInv /\ [Next]_vars =>
        [shutdown /\ corePc \in {"monitor", "join"} => Saveable' <= Saveable]_vars
  BY OvershootStep
<1> QED
  BY <1>1, TypeInit, TypeStep, PTL DEF Spec, OvershootBounded

-----------------------------------------------------------------------------
(* The end of the tasks, when no call fails.                                *)

\* Without a budget no call fails.
LEMMA NothingFails ==
  ASSUME MaxFaults = 0, FrontierTypeOK PROVE ~Fails
BY DEF Fails, FrontierTypeOK

\* No task is on its way out of its last retry, and the storage has only sitemaps
\* to push.
EndInv ==
  /\ TypeInv
  /\ \A w \in Worker : pc[w] # "die"
  /\ Range(sitemapsLeft) \subseteq ListedSitemaps
  /\ sitemapInHand # NoUrl => sitemapInHand \in ListedSitemaps
  /\ NoAbandonedQueue

LEMMA EndStep ==
  ASSUME MaxFaults = 0, Worker # {}
  PROVE  EndInv /\ [Next]_vars => EndInv'
<1> SUFFICES ASSUME EndInv, [Next]_vars PROVE EndInv'
  OBVIOUS
<1>1. ~Fails /\ queue \in Seq(Url) /\ pc \in [Worker -> TaskPcs] /\ TypeInv'
  BY NothingFails, TypeStep DEF EndInv, TypeInv, TypeOK, FrontierTypeOK, TaskTypeOK
<1>2. Range(<<>>) = {}
  BY DEF Range
<1>3. ASSUME NEW w \in Worker, Task(w) PROVE EndInv'
  <2>1. UNCHANGED <<corePc, shutdown, sitemapsLeft, sitemapInHand>>
    BY <1>3, TaskRuns
  <2>2. pc[w] \notin {"die"} \cup Over
    BY <1>3 DEF EndInv, Task, LookAtShutdown, PopUrl, PopNothing, Acquire, TooEarly,
      Requeue, Drop, CheckUrl, Discover, Fetch, TaskPanics, SavePage, OfferLink,
      OfferFails, LinksOffered, PushLinks, PushLinksFails, CountLinks, Release
  <2>3. \A v \in Worker \ {w} : pc'[v] = pc[v]
    BY <1>1, <1>3 DEF Task, Goto, LookAtShutdown, PopUrl, PopNothing, Acquire,
      TooEarly, Requeue, Drop, CheckUrl, Discover, Fetch, TaskPanics, SavePage,
      OfferLink, OfferFails, LinksOffered, PushLinks, PushLinksFails, CountLinks,
      Release
  <2>4. /\ pc'[w] # "die"
        /\ pc'[w] = "exited" => shutdown \/ queue' = <<>>
    <3>1. CASE LookAtShutdown(w) \/ PopNothing(w)
      BY <1>1, <3>1 DEF LookAtShutdown, PopNothing, PopFrontTimesOut, PopFrontFails,
        Goto, queueVars
    <3>2. CASE PopUrl(w) \/ Acquire(w) \/ TooEarly(w) \/ Requeue(w) \/ Drop(w)
      BY <1>1, <3>2 DEF PopUrl, Acquire, TooEarly, Requeue, Drop, Goto
    <3>3. CASE CheckUrl(w) \/ Discover(w) \/ Fetch(w) \/ TaskPanics(w) \/ SavePage(w)
      BY <1>1, <3>3 DEF CheckUrl, Discover, Fetch, TaskPanics, SavePage, Goto
    <3>4. CASE OfferLink(w) \/ OfferFails(w) \/ LinksOffered(w) \/ PushLinks(w)
      BY <1>1, <3>4 DEF OfferLink, OfferFails, LinksOffered, PushLinks, Goto
    <3>5. CASE PushLinksFails(w) \/ CountLinks(w) \/ Release(w)
      BY <1>1, <2>2, <3>5 DEF PushLinksFails, PushBulkFails, CountLinks, Release, Goto
    <3> QED
      BY <1>3, <3>1, <3>2, <3>3, <3>4, <3>5 DEF Task
  <2>5. \A v \in Worker : pc'[v] # "die"
    BY <2>3, <2>4 DEF EndInv
  <2>6. NoAbandonedQueue'
    BY <1>2, <2>1, <2>4 DEF NoAbandonedQueue
  <2> QED
    BY <1>1, <2>1, <2>5, <2>6 DEF EndInv
<1>4. CASE Storage
  <2>1. UNCHANGED <<corePc, shutdown, pc>> /\ pc' = pc
    BY <1>4 DEF Storage, StorageSavesDomain, StorageOffersSitemap,
      StoragePushesSitemap, StoragePushFails, coreVars, taskVars
  <2>2. CASE StorageSavesDomain
    <3>1. events # <<>> => Head(events) \in Domain
      BY HeadTailProperties DEF EndInv, TypeInv, TypeOK, StorageTypeOK
    <3>2. Range(sitemapsLeft') \subseteq ListedSitemaps
      BY <2>2, <3>1 DEF StorageSavesDomain, ListedSitemaps, EndInv
    <3>3. UNCHANGED <<queue, sitemapInHand>>
      BY <2>2 DEF StorageSavesDomain
    <3> QED
      BY <1>1, <2>1, <3>2, <3>3 DEF EndInv, NoAbandonedQueue
  <2>3. CASE StorageOffersSitemap
    <3>1. /\ Head(sitemapsLeft) \in Range(sitemapsLeft)
          /\ Range(Tail(sitemapsLeft)) \subseteq Range(sitemapsLeft)
      BY <2>3, RangeTail DEF StorageOffersSitemap, EndInv, TypeInv, TypeOK, StorageTypeOK
    <3>2. /\ sitemapsLeft' = Tail(sitemapsLeft) /\ UNCHANGED queue
          /\ sitemapInHand' \in {NoUrl, Head(sitemapsLeft)}
      BY <2>3 DEF StorageOffersSitemap, queueVars
    <3> QED
      BY <1>1, <2>1, <3>1, <3>2 DEF EndInv, NoAbandonedQueue
  <2>4. CASE StoragePushesSitemap
    <3>1. /\ sitemapInHand # NoUrl /\ sitemapInHand' = NoUrl
          /\ queue' = queue \o <<sitemapInHand>> /\ UNCHANGED sitemapsLeft
      BY <2>4 DEF StoragePushesSitemap, PushBulk
    <3>2. <<sitemapInHand>> \in Seq(Url) /\ Range(<<sitemapInHand>>) = {sitemapInHand}
      BY <3>1, SingletonSeq DEF EndInv, TypeInv, TypeOK, StorageTypeOK
    <3>3. Range(queue \o <<sitemapInHand>>) = Range(queue) \cup Range(<<sitemapInHand>>)
      BY <1>1, <3>2, RangeConcatenation, Zenon
    <3> QED
      BY <1>1, <2>1, <3>1, <3>2, <3>3 DEF EndInv, NoAbandonedQueue
  <2>5. CASE StoragePushFails
    BY <1>1, <2>5 DEF StoragePushFails, PushBulkFails
  <2> QED
    BY <1>4, <2>2, <2>3, <2>4, <2>5 DEF Storage
<1>5. CASE Run \/ Signal \/ UNCHANGED vars
  <2>1. UNCHANGED <<sitemapsLeft, sitemapInHand>>
    BY <1>5 DEF Run, Startup, StartFromEmptyQueue, StartFromLeftovers,
      CleanLeftovers, PushStartUrl, InsertStartUrl, InsertSeed, SeedsOffered,
      PushSeeds, ResumeLeftovers, StartFails, SpawnWorkers, MonitorStops,
      JoinWorkers, Signal, storageVars, vars
  <2>2. CASE SpawnWorkers
    BY <1>1, <2>1, <2>2 DEF SpawnWorkers, EndInv, NoAbandonedQueue
  <2>3. CASE ~SpawnWorkers
    <3>1. UNCHANGED pc
      BY <1>5, <2>3, TaskFrame DEF taskVars, vars
    <3>2. corePc' = "monitor" /\ ~shutdown' =>
            UNCHANGED <<corePc, shutdown, queue>>
      BY <1>5, <2>3 DEF Run, Startup, StartFromEmptyQueue, StartFromLeftovers,
        CleanLeftovers, PushStartUrl, InsertStartUrl, InsertSeed, SeedsOffered,
        PushSeeds, ResumeLeftovers, StartFails, MonitorStops, JoinWorkers, Signal,
        vars, coreVars
    <3> QED
      BY <1>1, <2>1, <3>1, <3>2 DEF EndInv, NoAbandonedQueue
  <2> QED
    BY <2>2, <2>3
<1> QED
  BY <1>1, <1>3, <1>4, <1>5 DEF Next, StorageRestarts

\* As long as no call fails, the tasks leave the loop early only when nothing they
\* pushed is left: once all are gone and nobody asked them to stop, the list holds
\* at most sitemaps of the storage.  With no task at all (--tokio-workers 0,
\* worker_service/src/main.rs:16) everything would be left.
THEOREM QueueNotAbandoned ==
  ASSUME MaxFaults = 0, Worker # {}
  PROVE  Spec => []NoAbandonedQueue
<1>1. Init => EndInv
  <2> SUFFICES ASSUME Init PROVE EndInv
    OBVIOUS
  <2>1. Range(<<>>) = {}
    BY DEF Range
  <2>2. TypeInv
    BY TypeInit
  <2> QED
    BY <2>1, <2>2 DEF Init, EndInv, NoAbandonedQueue
<1>2. EndInv => NoAbandonedQueue
  BY DEF EndInv
<1>3. EndInv /\ [Next]_vars => EndInv'
  BY EndStep
<1> QED
  BY <1>1, <1>2, <1>3, PTL DEF Spec

-----------------------------------------------------------------------------
(* The counter, when no call fails.                                         *)

\* What active_tasks stands for.
Balance ==
  Len(queue) + Cardinality(Holders) - Cardinality(Uncounted) - stray

\* Before the list is filled the counter is 0, and what is in the list was pushed
\* by the storage.
CountInv ==
  /\ TypeInv /\ IdleBeforeSpawn
  /\ IsFiniteSet(Uncounted)
  /\ corePc \in {"isEmpty", "clean", "pushStart", "seeds", "pushSeeds"} =>
       activeTasks = 0
  /\ corePc \in {"pushStart", "seeds", "pushSeeds"} => Len(queue) = stray
  /\ ActiveTasksExact

\* Division with a remainder.
LEMMA Division ==
  ASSUME NEW m \in Int, NEW n \in Int, m > 0
  PROVE  n \div m \in Int /\ n % m \in 0..(m - 1) /\ n = m * (n \div m) + (n % m)
<1>1. n \div m \in Int
  OBVIOUS
<1>2. n % m \in 0..(m - 1)
  OBVIOUS
<1>3. n = m * (n \div m) + (n % m)
  OBVIOUS
<1> QED
  BY <1>1, <1>2, <1>3

LEMMA WrapQuotient ==
  ASSUME NEW n \in Int
  PROVE  /\ Wrap(n) \in 0..(UsizeMod - 1) /\ Wrap(n) \in Int
         /\ \E q \in Int : n = UsizeMod * q + Wrap(n)
<1>1. UsizeMod \in Int /\ UsizeMod > 0
  BY CoreAssumption
<1>2. /\ n \div UsizeMod \in Int /\ n % UsizeMod \in 0..(UsizeMod - 1)
      /\ n = UsizeMod * (n \div UsizeMod) + (n % UsizeMod)
  BY <1>1, Division
<1>3. Wrap(n) = n % UsizeMod
  BY DEF Wrap
<1>4. \A r \in 0..(UsizeMod - 1) : r \in Int
  BY <1>1
<1> QED
  BY <1>2, <1>3, <1>4, Zenon

\* There is only one remainder.
LEMMA WrapUnique ==
  ASSUME NEW q \in Int, NEW p \in Int,
         NEW r \in 0..(UsizeMod - 1), NEW s \in 0..(UsizeMod - 1),
         UsizeMod * q + r = UsizeMod * p + s
  PROVE  r = s
<1> UsizeMod \in Nat \ {0}
  BY CoreAssumption
<1>1. UsizeMod * (q - p) = s - r
  OBVIOUS
<1>2. CASE q - p >= 1
  <2>1. UsizeMod * (q - p) >= UsizeMod
    BY <1>2
  <2> QED
    BY <1>1, <2>1
<1>3. CASE q - p <= -1
  <2>1. UsizeMod * (q - p) <= -UsizeMod
    BY <1>3
  <2> QED
    BY <1>1, <2>1
<1>4. CASE q = p
  BY <1>4
<1> QED
  BY <1>2, <1>3, <1>4

\* Adding to a counter that has wrapped is adding to what it stands for.
LEMMA WrapAdd ==
  ASSUME NEW a \in Int, NEW b \in Int
  PROVE  Wrap(Wrap(a) + b) = Wrap(a + b)
<1> UsizeMod \in Nat \ {0}
  BY CoreAssumption
<1>1. PICK q \in Int : a = UsizeMod * q + Wrap(a)
  BY WrapQuotient
<1>2. Wrap(a) \in Int /\ Wrap(a) + b \in Int /\ a + b \in Int
  BY WrapQuotient
<1>3. PICK p \in Int : Wrap(a) + b = UsizeMod * p + Wrap(Wrap(a) + b)
  BY <1>2, WrapQuotient
<1>4. PICK z \in Int : a + b = UsizeMod * z + Wrap(a + b)
  BY <1>2, WrapQuotient
<1>5. Wrap(Wrap(a) + b) \in 0..(UsizeMod - 1) /\ Wrap(a + b) \in 0..(UsizeMod - 1)
  BY <1>2, WrapQuotient
<1>6. UsizeMod * (q + p) = UsizeMod * q + UsizeMod * p
  OBVIOUS
<1>7. UsizeMod * (q + p) + Wrap(Wrap(a) + b) = UsizeMod * z + Wrap(a + b)
  BY <1>1, <1>2, <1>3, <1>4, <1>5, <1>6
<1> QED
  <2>1. q + p \in Int
    OBVIOUS
  <2> QED
    BY <1>5, <1>7, <2>1, WrapUnique

LEMMA WrapZero == Wrap(0) = 0
<1>1. PICK q \in Int : 0 = UsizeMod * q + Wrap(0)
  BY WrapQuotient
<1>2. /\ UsizeMod \in Nat \ {0} /\ Wrap(0) \in 0..(UsizeMod - 1)
      /\ UsizeMod * 0 = 0 /\ 0 \in 0..(UsizeMod - 1)
  BY CoreAssumption, WrapQuotient
<1>3. UsizeMod * q + Wrap(0) = UsizeMod * 0 + 0
  BY <1>1, <1>2
<1> QED
  BY <1>2, <1>3, WrapUnique

\* A step of a task leaves the places and the links of the others alone.
LEMMA OthersStay ==
  ASSUME TypeInv, NEW w \in Worker, Task(w)
  PROVE  \A v \in Worker \ {w} : pc'[v] = pc[v] /\ batch'[v] = batch[v]
<1>1. \A v \in Worker \ {w} : pc'[v] = pc[v]
  BY DEF TypeInv, TypeOK, TaskTypeOK, Task, Goto, LookAtShutdown, PopUrl, PopNothing,
    Acquire, TooEarly, Requeue, Drop, CheckUrl, Discover, Fetch, TaskPanics, SavePage,
    OfferLink, OfferFails, LinksOffered, PushLinks, PushLinksFails, CountLinks,
    Release
<1>2. \A v \in Worker \ {w} : batch'[v] = batch[v]
  BY DEF TypeInv, TypeOK, TaskTypeOK, Task, LookAtShutdown, PopUrl, PopNothing,
    Acquire, TooEarly, Requeue, Drop, CheckUrl, Discover, Fetch, TaskPanics, SavePage,
    OfferLink, OfferFails, LinksOffered, PushLinks, PushLinksFails, CountLinks,
    Release
<1> QED
  BY <1>1, <1>2

LEMMA BalanceType ==
  ASSUME TypeInv, IsFiniteSet(Uncounted)
  PROVE  /\ Len(queue) \in Nat /\ stray \in Nat
         /\ IsFiniteSet(Holders) /\ Cardinality(Holders) \in Nat
         /\ Cardinality(Uncounted) \in Nat /\ Balance \in Int
<1>1. IsFiniteSet(Holders)
  BY CoreAssumption, FS_Subset DEF Holders
<1>2. Cardinality(Holders) \in Nat /\ Cardinality(Uncounted) \in Nat
  BY <1>1, FS_CardinalityType
<1>3. Len(queue) \in Nat /\ stray \in Nat
  BY LenProperties DEF TypeInv, TypeOK, FrontierTypeOK, HistoryTypeOK
<1> QED
  BY <1>1, <1>2, <1>3 DEF Balance

\* How a task comes to hold a URL, and how it is rid of it.
LEMMA HoldersChange ==
  ASSUME TypeInv, IsFiniteSet(Uncounted), NEW w \in Worker, Task(w)
  PROVE  /\ pc[w] \in {"top", "pop"} /\ pc'[w] \notin Idle =>
              Cardinality(Holders') = Cardinality(Holders) + 1
         /\ pc[w] \notin Idle /\ pc'[w] \in {"top"} \cup Over =>
              Cardinality(Holders') = Cardinality(Holders) - 1
         /\ (pc[w] \in {"top", "pop"} <=> pc'[w] \in {"top", "pop"} \cup Over)
              /\ pc[w] \notin {"idle"} \cup Over /\ pc'[w] # "idle" =>
                Holders' = Holders
<1>1. \A v \in Worker \ {w} : pc'[v] = pc[v]
  BY OthersStay
<1>2. IsFiniteSet(Holders) /\ Cardinality(Holders) \in Nat
  BY BalanceType
<1>3. ASSUME pc[w] \in {"top", "pop"}, pc'[w] \notin Idle
      PROVE  Cardinality(Holders') = Cardinality(Holders) + 1
  <2>1. Holders' = Holders \cup {w} /\ w \notin Holders
    BY <1>1, <1>3 DEF Holders
  <2> QED
    BY <1>2, <2>1, FS_AddElement
<1>4. ASSUME pc[w] \notin Idle, pc'[w] \in {"top"} \cup Over
      PROVE  Cardinality(Holders') = Cardinality(Holders) - 1
  <2>1. Holders' = Holders \ {w} /\ w \in Holders
    BY <1>1, <1>4 DEF Holders
  <2> QED
    BY <1>2, <2>1, FS_RemoveElement
<1>5. ASSUME pc[w] \in {"top", "pop"} <=> pc'[w] \in {"top", "pop"} \cup Over,
             pc[w] \notin {"idle"} \cup Over, pc'[w] # "idle"
      PROVE  Holders' = Holders
  BY <1>1, <1>5 DEF Holders
<1> QED
  BY <1>3, <1>4, <1>5

\* The links of a task are uncounted between the push and the addition.
LEMMA UncountedChange ==
  ASSUME TypeInv, IsFiniteSet(Uncounted), NEW w \in Worker, Task(w)
  PROVE  /\ pc[w] # "count" /\ pc'[w] # "count" => Uncounted' = Uncounted
         /\ pc[w] # "count" /\ pc'[w] = "count" /\ batch'[w] = batch[w] =>
              /\ IsFiniteSet(Uncounted')
              /\ Cardinality(Uncounted') = Cardinality(Uncounted) + Len(batch[w])
         /\ pc[w] = "count" /\ pc'[w] # "count" =>
              /\ IsFiniteSet(Uncounted')
              /\ Cardinality(Uncounted') = Cardinality(Uncounted) - Len(batch[w])
<1> DEFINE Mine == {w} \X DOMAIN batch[w]
           Others == UNION {{v} \X DOMAIN batch[v] : v \in {u \in Worker \ {w} : pc[u] = "count"}}
<1>1. \A v \in Worker \ {w} : pc'[v] = pc[v] /\ batch'[v] = batch[v]
  BY OthersStay
<1>2. Others' = Others
  BY <1>1
<1>3. Mine \cap Others = {}
  OBVIOUS
<1>4. IsFiniteSet(Mine) /\ Cardinality(Mine) = Len(batch[w])
  <2>1. Len(batch[w]) \in Nat /\ DOMAIN batch[w] = 1..Len(batch[w])
    BY LenProperties DEF TypeInv, TypeOK, TaskTypeOK
  <2>2. /\ IsFiniteSet(DOMAIN batch[w])
        /\ Cardinality(DOMAIN batch[w]) = Len(batch[w])
    BY <2>1, FS_Interval
  <2>3. IsFiniteSet({w}) /\ Cardinality({w}) = 1
    BY FS_Singleton
  <2>4. IsFiniteSet(Mine) /\ Cardinality(Mine) = 1 * Len(batch[w])
    BY <2>2, <2>3, FS_Product
  <2> QED
    BY <2>1, <2>4
<1>5. pc[w] # "count" => Uncounted = Others
  BY DEF Uncounted
<1>6. pc[w] = "count" => Uncounted = Others \cup Mine
  BY DEF Uncounted
<1>7. pc'[w] # "count" => Uncounted' = Others
  BY <1>1 DEF Uncounted
<1>8. pc'[w] = "count" /\ batch'[w] = batch[w] => Uncounted' = Others \cup Mine
  BY <1>1 DEF Uncounted
<1>9. Cardinality({}) = 0
  BY FS_EmptySet
<1> HIDE DEF Mine, Others
<1>10. pc[w] # "count" /\ pc'[w] = "count" /\ batch'[w] = batch[w] =>
         /\ IsFiniteSet(Uncounted')
         /\ Cardinality(Uncounted') = Cardinality(Uncounted) + Len(batch[w])
  <2> SUFFICES ASSUME pc[w] # "count", pc'[w] = "count" /\ batch'[w] = batch[w]
               PROVE  /\ IsFiniteSet(Uncounted')
                      /\ Cardinality(Uncounted') = Cardinality(Uncounted) + Len(batch[w])
    OBVIOUS
  <2>1. ASSUME IsFiniteSet(Others)
        PROVE  /\ IsFiniteSet(Others \cup Mine)
               /\ Cardinality(Others \cup Mine)
                    = Cardinality(Others) + Cardinality(Mine) - Cardinality(Others \cap Mine)
    BY <1>4, <2>1, FS_Union
  <2>2. Cardinality(Others \cap Mine) = 0 /\ Len(batch[w]) \in Nat
    <3>1. Cardinality(Others \cap Mine) = 0
      BY <1>3, <1>9, Zenon
    <3> QED
      BY <3>1, LenProperties DEF TypeInv, TypeOK, TaskTypeOK
  <2>3. IsFiniteSet(Others) => Cardinality(Others) \in Nat
    BY FS_CardinalityType
  <2>4. IsFiniteSet(Others) =>
          /\ IsFiniteSet(Others \cup Mine)
          /\ Cardinality(Others \cup Mine) = Cardinality(Others) + Len(batch[w])
    BY <1>4, <2>1, <2>2, <2>3
  <2> QED
    BY <1>5, <1>8, <2>4
<1>11. pc[w] = "count" /\ pc'[w] # "count" =>
         /\ IsFiniteSet(Uncounted')
         /\ Cardinality(Uncounted') = Cardinality(Uncounted) - Len(batch[w])
  <2>1. /\ IsFiniteSet(Uncounted \ Mine)
        /\ Cardinality(Uncounted \ Mine)
             = Cardinality(Uncounted) - Cardinality(Uncounted \cap Mine)
    BY FS_Difference
  <2>2. pc[w] = "count" => Uncounted \ Mine = Others /\ Uncounted \cap Mine = Mine
    BY <1>3, <1>6
  <2> QED
    BY <1>4, <1>7, <2>1, <2>2
<1> QED
  BY <1>5, <1>7, <1>10, <1>11

\* What a step of a task does to the balance it does to the counter: a URL leaves
\* the list for a hand and comes back, links are pushed before they are added, and
\* each way out of a turn subtracts one.
LEMMA CountTask ==
  ASSUME MaxFaults = 0, CountInv, NEW w \in Worker, Task(w)
  PROVE  /\ IsFiniteSet(Uncounted')
         /\ \E n \in Int : /\ Balance' = Balance + n
                           /\ \/ activeTasks' = Wrap(activeTasks + n)
                              \/ n = 0 /\ activeTasks' = activeTasks
<1> DEFINE Moved(n) ==
      /\ IsFiniteSet(Uncounted')
      /\ Len(queue') + Cardinality(Holders') - Cardinality(Uncounted')
           = Len(queue) + Cardinality(Holders) - Cardinality(Uncounted) + n
<1>1. /\ TypeInv /\ IsFiniteSet(Uncounted) /\ ~Fails /\ stray' = stray
      /\ pc \in [Worker -> TaskPcs] /\ queue \in Seq(Url) /\ batch[w] \in Seq(Url)
  BY NothingFails, TaskRuns
  DEF CountInv, TypeInv, TypeOK, FrontierTypeOK, TaskTypeOK
<1>2. /\ Len(queue) \in Nat /\ stray \in Nat /\ Cardinality(Holders) \in Nat
      /\ Cardinality(Uncounted) \in Nat /\ Len(batch[w]) \in Nat
  BY <1>1, BalanceType, LenProperties
<1>3. /\ Holders' = Holders => Cardinality(Holders') = Cardinality(Holders)
      /\ Uncounted' = Uncounted => /\ IsFiniteSet(Uncounted')
                                   /\ Cardinality(Uncounted') = Cardinality(Uncounted)
  BY <1>1, Zenon
<1> DEFINE Take == /\ pc[w] \in {"top", "pop"}
                   /\ pc'[w] \notin Idle
           Leave == /\ pc[w] \notin Idle
                    /\ pc'[w] \in {"top"} \cup Over
           Keep == /\ pc[w] \in {"top", "pop"} <=> pc'[w] \in {"top", "pop"} \cup Over
                   /\ pc[w] \notin {"idle"} \cup Over /\ pc'[w] # "idle"
<1>4. /\ Take => Cardinality(Holders') = Cardinality(Holders) + 1
      /\ Leave => Cardinality(Holders') = Cardinality(Holders) - 1
      /\ Keep => Cardinality(Holders') = Cardinality(Holders)
  BY <1>1, <1>3, HoldersChange
<1>5. /\ pc[w] # "count" /\ pc'[w] # "count" =>
           /\ IsFiniteSet(Uncounted')
           /\ Cardinality(Uncounted') = Cardinality(Uncounted)
      /\ pc[w] # "count" /\ pc'[w] = "count" /\ batch'[w] = batch[w] =>
           /\ IsFiniteSet(Uncounted')
           /\ Cardinality(Uncounted') = Cardinality(Uncounted) + Len(batch[w])
      /\ pc[w] = "count" /\ pc'[w] # "count" =>
           /\ IsFiniteSet(Uncounted')
           /\ Cardinality(Uncounted') = Cardinality(Uncounted) - Len(batch[w])
  BY <1>1, <1>3, UncountedChange
<1>6. ASSUME NEW n \in Int, Moved(n)
      PROVE  IsFiniteSet(Uncounted') /\ Balance' = Balance + n
  <2>1. Len(queue') \in Nat
    BY TypeStep, LenProperties DEF CountInv, Next, TypeInv, TypeOK, FrontierTypeOK
  <2>2. Cardinality(Holders') \in Nat
    BY CoreAssumption, FS_Subset, FS_CardinalityType DEF Holders
  <2>3. IsFiniteSet(Uncounted') /\ Cardinality(Uncounted') \in Nat
    BY <1>6, FS_CardinalityType
  <2> DEFINE before == Len(queue) + Cardinality(Holders) - Cardinality(Uncounted)
             after == Len(queue') + Cardinality(Holders') - Cardinality(Uncounted')
  <2>4. before \in Int /\ after \in Int /\ after = before + n
    <3>1. after = before + n
      BY <1>6, Zenon
    <3>2. before \in Int /\ after \in Int
      BY <1>2, <2>1, <2>2, <2>3
    <3> QED
      BY <3>1, <3>2, Zenon
  <2>5. Balance = before - stray /\ Balance' = after - stray'
    <3>1. Balance' = Len(queue') + Cardinality(Holders') - Cardinality(Uncounted') - stray'
      BY Zenon DEF Balance
    <3> QED
      BY <1>1, <1>2, <2>1, <2>2, <2>3, <3>1 DEF Balance
  <2>6. stray' = stray
    BY <1>1
  <2> HIDE DEF before, after
  <2> QED
    BY <1>2, <2>3, <2>4, <2>5, <2>6
<1>7. 0 \in Int /\ -1 \in Int /\ Len(batch[w]) \in Int
  BY <1>2
<1>8. CASE PopUrl(w)
  <2>1. Take /\ pc[w] # "count" /\ pc'[w] # "count"
    BY <1>1, <1>8 DEF PopUrl, Goto
  <2>2. /\ queue # <<>> /\ queue' = Tail(queue) /\ activeTasks' = activeTasks
    BY <1>8 DEF PopUrl, PopFront, counters
  <2>3. Len(queue') = Len(queue) - 1
    BY <1>1, <2>2, HeadTailProperties
  <2>4. Moved(0)
    BY <1>2, <1>4, <1>5, <2>1, <2>3
  <2> HIDE DEF Moved
  <2> QED
    BY <1>6, <1>7, <2>2, <2>4
<1>9. CASE Requeue(w)
  <2>1. Leave /\ pc[w] # "count" /\ pc'[w] # "count"
    BY <1>1, <1>9 DEF Requeue, PushBulkFails, Goto
  <2>2. /\ queue' = queue \o <<cur[w]>> /\ activeTasks' = activeTasks
    BY <1>1, <1>9 DEF Requeue, PushBulk, PushBulkFails, counters
  <2>3. cur[w] \in Url
    BY <1>9 DEF CountInv, TypeInv, TypeOK, TaskTypeOK, Requeue
  <2>4. Len(queue') = Len(queue) + 1
    BY <1>1, <2>2, <2>3, SingletonSeq, ConcatProperties
  <2>5. Moved(0)
    BY <1>2, <1>4, <1>5, <2>1, <2>4
  <2> HIDE DEF Moved
  <2> QED
    BY <1>6, <1>7, <2>2, <2>5
<1>10. CASE PushLinks(w)
  <2>1. Keep /\ pc[w] # "count" /\ pc'[w] = "count" /\ batch'[w] = batch[w]
    BY <1>1, <1>10 DEF PushLinks, Goto
  <2>2. /\ queue' = queue \o batch[w] /\ activeTasks' = activeTasks
    BY <1>10 DEF PushLinks, PushBulk, counters
  <2>3. Len(queue') = Len(queue) + Len(batch[w])
    BY <1>1, <2>2, ConcatProperties
  <2>4. Moved(0)
    BY <1>2, <1>4, <1>5, <2>1, <2>3
  <2> HIDE DEF Moved
  <2> QED
    BY <1>6, <1>7, <2>2, <2>4
<1>11. CASE CountLinks(w)
  <2>1. Keep /\ pc[w] = "count" /\ pc'[w] # "count"
    BY <1>1, <1>11 DEF CountLinks, Goto
  <2>2. queue' = queue /\ activeTasks' = Wrap(activeTasks + Len(batch[w]))
    BY <1>11 DEF CountLinks, queueVars
  <2>3. Moved(Len(batch[w]))
    BY <1>2, <1>4, <1>5, <2>1, <2>2
  <2> HIDE DEF Moved
  <2> QED
    BY <1>6, <1>7, <2>2, <2>3
<1>12. CASE Drop(w) \/ Release(w)
  <2>1. Leave /\ pc[w] # "count" /\ pc'[w] # "count"
    BY <1>1, <1>12 DEF Drop, Release, Goto
  <2>2. queue' = queue /\ activeTasks' = Wrap(activeTasks - 1)
    BY <1>12 DEF Drop, Release, FetchSub, queueVars
  <2>3. Moved(-1)
    BY <1>2, <1>4, <1>5, <2>1, <2>2
  <2>4. activeTasks - 1 = activeTasks + (-1)
    BY CoreAssumption DEF CountInv, TypeInv, TypeOK, RunTypeOK
  <2> HIDE DEF Moved
  <2> QED
    BY <1>6, <1>7, <2>2, <2>3, <2>4
<1>13. CASE ~(PopUrl(w) \/ Requeue(w) \/ PushLinks(w) \/ CountLinks(w) \/ Drop(w) \/ Release(w))
  <2>1. Keep /\ pc[w] # "count" /\ pc'[w] # "count"
    <3>1. CASE LookAtShutdown(w) \/ PopNothing(w)
      BY <1>1, <3>1 DEF LookAtShutdown, PopNothing, Goto
    <3>2. CASE Acquire(w) \/ TooEarly(w) \/ CheckUrl(w) \/ Discover(w)
      BY <1>1, <3>2 DEF Acquire, TooEarly, CheckUrl, Discover, Goto
    <3>3. CASE Fetch(w) \/ TaskPanics(w) \/ SavePage(w)
      BY <1>1, <3>3 DEF Fetch, TaskPanics, SavePage, Goto
    <3>4. CASE OfferLink(w) \/ OfferFails(w) \/ LinksOffered(w) \/ PushLinksFails(w)
      BY <1>1, <3>4 DEF OfferLink, OfferFails, LinksOffered, PushLinksFails,
        PushBulkFails, Goto
    <3> QED
      BY <1>13, <3>1, <3>2, <3>3, <3>4 DEF Task
  <2>2. queue' = queue /\ activeTasks' = activeTasks
    BY <1>1, <1>13 DEF Task, LookAtShutdown, PopNothing, PopFrontTimesOut,
      PopFrontFails, Acquire, TooEarly, CheckUrl, Discover, Fetch, TaskPanics,
      SavePage, OfferLink, OfferFails, LinksOffered, PushLinksFails, PushBulkFails,
      queueVars, counters
  <2>3. Moved(0)
    BY <1>2, <1>4, <1>5, <2>1, <2>2
  <2> HIDE DEF Moved
  <2> QED
    BY <1>6, <1>7, <2>2, <2>3
<1> QED
  BY <1>8, <1>9, <1>10, <1>11, <1>12, <1>13

\* Nobody holds a URL, and nothing is uncounted, while the tasks are idle or have
\* just been spawned.
LEMMA NothingHeld ==
  /\ (\A w \in Worker : pc[w] \in {"idle", "top"}) =>
       /\ IsFiniteSet(Uncounted)
       /\ Cardinality(Holders) = 0 /\ Cardinality(Uncounted) = 0
  /\ (\A w \in Worker : pc'[w] \in {"idle", "top"}) =>
       /\ IsFiniteSet(Uncounted')
       /\ Cardinality(Holders') = 0 /\ Cardinality(Uncounted') = 0
<1>1. IsFiniteSet({}) /\ Cardinality({}) = 0
  BY FS_EmptySet
<1>2. ASSUME \A w \in Worker : pc[w] \in {"idle", "top"}
      PROVE  /\ IsFiniteSet(Uncounted)
             /\ Cardinality(Holders) = 0 /\ Cardinality(Uncounted) = 0
  <2>1. Holders = {} /\ Uncounted = {}
    BY <1>2 DEF Holders, Uncounted
  <2> QED
    BY <1>1, <2>1, Zenon
<1>3. ASSUME \A w \in Worker : pc'[w] \in {"idle", "top"}
      PROVE  /\ IsFiniteSet(Uncounted')
             /\ Cardinality(Holders') = 0 /\ Cardinality(Uncounted') = 0
  <2>1. Holders' = {} /\ Uncounted' = {}
    BY <1>3 DEF Holders, Uncounted
  <2> QED
    BY <1>1, <2>1, Zenon
<1> QED
  BY <1>2, <1>3

\* What neither takes nor leaves a URL nor pushes links keeps both sets.
LEMMA SameHands ==
  ASSUME UNCHANGED <<pc, batch>>, IsFiniteSet(Uncounted)
  PROVE  /\ IsFiniteSet(Uncounted')
         /\ Cardinality(Holders') = Cardinality(Holders)
         /\ Cardinality(Uncounted') = Cardinality(Uncounted)
<1>1. Holders' = Holders /\ Uncounted' = Uncounted
  BY DEF Holders, Uncounted
<1> QED
  BY <1>1, Zenon

LEMMA CountInit == Init => CountInv
<1> SUFFICES ASSUME Init PROVE CountInv
  OBVIOUS
<1>1. TypeInv
  BY TypeInit
<1>2. IdleBeforeSpawn /\ \A w \in Worker : pc[w] = "idle"
  BY DEF Init, IdleBeforeSpawn
<1>3. IsFiniteSet(Uncounted)
  BY <1>2, NothingHeld
<1> QED
  BY <1>1, <1>2, <1>3 DEF CountInv, ActiveTasksExact, Init

\* Up to the spawning of the tasks: run counts what it pushes.
LEMMA CountStartup ==
  ASSUME MaxFaults = 0, CountInv, Startup PROVE CountInv'
<1>1. /\ TypeInv /\ TypeInv' /\ IdleBeforeSpawn' /\ ~Fails
      /\ queue \in Seq(Url) /\ Len(queue) \in Nat /\ stray \in Nat
      /\ SeedFile \in Seq(Url) /\ Len(SeedFile) \in Nat
  <2>1. TypeInv /\ TypeInv' /\ IdleBeforeSpawn'
    BY TypeStep, IdleStep DEF CountInv, Next, Run
  <2>2. queue \in Seq(Url) /\ SeedFile \in Seq(Url) /\ stray \in Nat /\ ~Fails
    BY <2>1, CoreAssumption, NothingFails DEF TypeInv, TypeOK, FrontierTypeOK, HistoryTypeOK
  <2> QED
    BY <2>1, <2>2, LenProperties
<1>2. corePc \notin {"monitor", "join", "returned"} /\ \A w \in Worker : pc[w] = "idle"
  BY DEF CountInv, IdleBeforeSpawn, Startup, StartFromEmptyQueue, StartFromLeftovers,
    CleanLeftovers, PushStartUrl, InsertStartUrl, InsertSeed, SeedsOffered,
    PushSeeds, ResumeLeftovers, StartFails, SpawnWorkers
<1>3. \A w \in Worker : pc'[w] \in {"idle", "top"}
  <2>1. CASE UNCHANGED taskVars
    BY <1>2, <2>1 DEF taskVars
  <2>2. CASE SpawnWorkers
    BY <2>2 DEF SpawnWorkers
  <2> QED
    BY <2>1, <2>2, TaskFrame DEF Run
<1>4. /\ IsFiniteSet(Uncounted')
      /\ Cardinality(Holders) = 0 /\ Cardinality(Uncounted) = 0
      /\ Cardinality(Holders') = 0 /\ Cardinality(Uncounted') = 0
  BY <1>2, <1>3, NothingHeld
<1>5. SUFFICES /\ corePc' \in {"isEmpty", "clean", "pushStart", "seeds", "pushSeeds"} =>
                    activeTasks' = 0
               /\ corePc' \in {"pushStart", "seeds", "pushSeeds"} => Len(queue') = stray'
               /\ corePc' \in {"insertStart", "spawn", "monitor", "join", "returned"} =>
                    activeTasks' = Wrap(Len(queue') - stray')
  <2>1. Len(queue') \in Nat /\ stray' \in Nat
    BY <1>1, LenProperties DEF TypeInv, TypeOK, FrontierTypeOK, HistoryTypeOK
  <2>2. Len(queue') + Cardinality(Holders') - Cardinality(Uncounted') - stray'
          = Len(queue') - stray'
    BY <1>4, <2>1
  <2> QED
    BY <1>1, <1>4, <2>2 DEF CountInv, ActiveTasksExact
<1>6. corePc \in {"insertStart", "spawn"} => activeTasks = Wrap(Len(queue) - stray)
  <2>1. Len(queue) + Cardinality(Holders) - Cardinality(Uncounted) - stray
          = Len(queue) - stray
    BY <1>1, <1>4
  <2> QED
    BY <2>1 DEF CountInv, ActiveTasksExact
<1>7. CASE StartFromEmptyQueue \/ StartFromLeftovers
  BY <1>7 DEF StartFromEmptyQueue, StartFromLeftovers, IsEmpty, IsNotEmpty, queueVars,
    counters, history, CountInv
<1>8. CASE CleanLeftovers
  BY <1>8 DEF CleanLeftovers, CleanQueue, counters, CountInv
<1>9. CASE PushStartUrl
  <2>1. startUrl \in Url
    BY <1>9 DEF CountInv, TypeInv, PushStartUrl
  <2>2. /\ queue' = queue \o <<startUrl>> /\ activeTasks' = Wrap(1)
        /\ stray' = stray /\ corePc' = "insertStart" /\ Len(queue) = stray
    BY <1>9 DEF PushStartUrl, PushBulk, CountInv
  <2>3. Len(queue') = Len(queue) + 1
    BY <1>1, <2>1, <2>2, SingletonSeq, ConcatProperties
  <2>4. Len(queue') - stray' = 1
    BY <1>1, <2>2, <2>3
  <2> QED
    BY <2>2, <2>4
<1>10. CASE InsertStartUrl \/ SpawnWorkers
  BY <1>6, <1>10 DEF InsertStartUrl, SpawnWorkers, queueVars, counters, history
<1>11. CASE InsertSeed
  BY <1>1, <1>11 DEF InsertSeed, counters, history, CountInv
<1>12. CASE SeedsOffered
  <2>1. /\ queue' = queue /\ activeTasks' = 0 /\ stray' = stray /\ Len(queue) = stray
        /\ corePc' \in {"returned", "pushSeeds"}
    BY <1>12 DEF SeedsOffered, queueVars, counters, history, CountInv
  <2>2. Len(queue') - stray' = 0
    BY <1>1, <2>1
  <2> QED
    BY <2>1, <2>2, WrapZero
<1>13. CASE PushSeeds
  <2>1. /\ queue' = queue \o SeedFile /\ activeTasks' = Wrap(Len(SeedFile))
        /\ stray' = stray /\ corePc' = "spawn" /\ Len(queue) = stray
    BY <1>13 DEF PushSeeds, PushBulk, CountInv
  <2>2. Len(queue') = Len(queue) + Len(SeedFile)
    BY <1>1, <2>1, ConcatProperties
  <2>3. Len(queue') - stray' = Len(SeedFile)
    BY <1>1, <2>1, <2>2
  <2> QED
    BY <2>1, <2>3
<1>14. CASE ResumeLeftovers
  <2>1. /\ queue' = queue /\ activeTasks' = Wrap(Len(queue)) /\ stray' = 0
        /\ corePc' = "spawn"
    BY <1>14 DEF ResumeLeftovers, QueueLen, queueVars
  <2>2. Len(queue') - stray' = Len(queue)
    BY <1>1, <2>1
  <2> QED
    BY <2>1, <2>2
<1>15. CASE StartFails
  BY <1>15 DEF StartFails
<1> QED
  BY <1>7, <1>8, <1>9, <1>10, <1>11, <1>12, <1>13, <1>14, <1>15 DEF Startup

LEMMA CountStep ==
  ASSUME MaxFaults = 0
  PROVE  CountInv /\ [Next]_vars => CountInv'
<1> SUFFICES ASSUME CountInv, [Next]_vars PROVE CountInv'
  OBVIOUS
<1>1. /\ TypeInv /\ TypeInv' /\ IdleBeforeSpawn' /\ ~Fails
      /\ queue \in Seq(Url) /\ IsFiniteSet(Uncounted)
  <2>1. TypeInv /\ TypeInv' /\ IdleBeforeSpawn' /\ IsFiniteSet(Uncounted)
    BY TypeStep, IdleStep DEF CountInv
  <2> QED
    BY <2>1, NothingFails DEF TypeInv, TypeOK, FrontierTypeOK
<1>2. /\ Len(queue) \in Nat /\ stray \in Nat /\ Cardinality(Holders) \in Nat
      /\ Cardinality(Uncounted) \in Nat /\ Balance \in Int
  BY <1>1, BalanceType
<1>3. ASSUME NEW w \in Worker, Task(w) PROVE CountInv'
  <2>1. corePc' = corePc /\ corePc \in {"monitor", "join", "returned"}
    BY <1>3, TaskRuns DEF CountInv, IdleBeforeSpawn
  <2>2. activeTasks = Wrap(Balance)
    BY <2>1 DEF CountInv, ActiveTasksExact, Balance
  <2>3. IsFiniteSet(Uncounted')
    BY <1>3, CountTask
  <2>4. PICK n \in Int : /\ Balance' = Balance + n
                         /\ \/ activeTasks' = Wrap(activeTasks + n)
                            \/ n = 0 /\ activeTasks' = activeTasks
    BY <1>3, CountTask
  <2>5. activeTasks' = Wrap(Balance')
    <3>1. CASE activeTasks' = Wrap(activeTasks + n)
      BY <1>2, <2>2, <2>4, <3>1, WrapAdd
    <3>2. CASE n = 0 /\ activeTasks' = activeTasks
      <4>1. Balance' = Balance
        BY <1>2, <2>4, <3>2
      <4> QED
        BY <2>2, <3>2, <4>1
    <3> QED
      BY <2>4, <3>1, <3>2
  <2> QED
    BY <1>1, <2>1, <2>3, <2>5 DEF CountInv, ActiveTasksExact, Balance
<1>4. CASE Startup
  BY <1>4, CountStartup
<1>5. CASE Storage /\ ~StoragePushesSitemap
  <2>1. UNCHANGED <<pc, batch, queue, stray, activeTasks, corePc>>
    BY <1>1, <1>5 DEF Storage, StorageSavesDomain, StorageOffersSitemap,
      StoragePushFails, PushBulkFails, queueVars, coreVars, counters, taskVars, history
  <2> QED
    BY <1>1, <2>1, SameHands DEF CountInv, ActiveTasksExact
<1>6. CASE StoragePushesSitemap
  <2>1. /\ UNCHANGED <<pc, batch, activeTasks, corePc>>
        /\ queue' = queue \o <<sitemapInHand>> /\ stray' = stray + 1
    BY <1>6 DEF StoragePushesSitemap, PushBulk, coreVars, counters, taskVars
  <2>2. sitemapInHand \in Url
    BY <1>1, <1>6 DEF TypeInv, TypeOK, StorageTypeOK, StoragePushesSitemap
  <2>3. Len(queue') = Len(queue) + 1
    BY <1>1, <2>1, <2>2, SingletonSeq, ConcatProperties
  <2>4. /\ IsFiniteSet(Uncounted')
        /\ Cardinality(Holders') = Cardinality(Holders)
        /\ Cardinality(Uncounted') = Cardinality(Uncounted)
    BY <1>1, <2>1, SameHands
  <2>5. Len(queue') + Cardinality(Holders') - Cardinality(Uncounted') - stray'
          = Len(queue) + Cardinality(Holders) - Cardinality(Uncounted) - stray
    BY <1>2, <2>1, <2>3, <2>4
  <2>6. corePc \in {"pushStart", "seeds", "pushSeeds"} => Len(queue') = stray'
    BY <1>2, <2>1, <2>3 DEF CountInv
  <2> QED
    BY <1>1, <2>1, <2>4, <2>5, <2>6 DEF CountInv, ActiveTasksExact
<1>7. CASE MonitorStops \/ JoinWorkers \/ Signal \/ UNCHANGED vars
  <2>1. /\ UNCHANGED <<pc, batch, queue, stray, activeTasks>>
        /\ \/ corePc' = corePc
           \/ corePc \in {"monitor", "join"} /\ corePc' \in {"join", "returned"}
    BY <1>7 DEF MonitorStops, JoinWorkers, Signal, vars, queueVars, coreVars, counters,
      taskVars, history
  <2>2. /\ IsFiniteSet(Uncounted')
        /\ Cardinality(Holders') = Cardinality(Holders)
        /\ Cardinality(Uncounted') = Cardinality(Uncounted)
    BY <1>1, <2>1, SameHands
  <2> QED
    BY <1>1, <2>1, <2>2 DEF CountInv, ActiveTasksExact
<1> QED
  BY <1>1, <1>3, <1>4, <1>5, <1>6, <1>7 DEF Next, Run, Storage, StorageRestarts

\* As long as no call fails, active_tasks is, modulo 2^w, the number of URLs queued
\* or in hand, less the links just pushed and not yet added and less the sitemaps
\* pushed by the storage: on no way through the loop a task subtracts twice or not
\* at all, and the wrap of fetch_sub (crawler_core.rs:26) is undone by what is added later.
THEOREM CounterExact ==
  ASSUME MaxFaults = 0
  PROVE  Spec => []ActiveTasksExact
<1>1. CountInv => ActiveTasksExact
  BY DEF CountInv
<1>2. CountInv /\ [Next]_vars => CountInv'
  BY CountStep
<1> QED
  BY <1>1, <1>2, CountInit, PTL DEF Spec
=============================================================================
