-------------------------- MODULE CrawlerOwnerProofs --------------------------
(***************************************************************************)
(* SingleOwner, proved for every number of tasks and every web from any    *)
(* clean start, when no call fails, whichever tasks panic.                 *)
(***************************************************************************)
EXTENDS CrawlerCoreProofs

\* The names for sets of labels are looked through here too.
USE DEF Idle, Over, AfterTurn

-----------------------------------------------------------------------------
(* A URL has one owner.  SingleOwner alone is not inductive: that a link is *)
(* new to the filter must exclude it from every other place, so everything  *)
(* in some place has to be known to the filter, and the places run fills    *)
(* without asking the filter have to be empty of what it pushes.            *)

\* What is in some place is known to the filter, but for the start URL between
\* its push and its insertion.
PlacesSeen ==
  /\ retired \cup StorageHand \subseteq seen
  /\ \A w \in Worker : Own(w) \subseteq seen
  /\ Range(queue) \subseteq
       seen \cup (IF corePc = "insertStart" THEN {startUrl} ELSE {})

\* Links are collected between the filter and the counter only.
BatchesEmpty ==
  \A w \in Worker : pc[w] \notin {"offer", "push", "count"} => batch[w] = <<>>

\* The storage pushes nothing but sitemaps, and nothing else is in the list when
\* run pushes the start URL or the seeds.
SitemapsApart ==
  /\ startUrl \notin ListedSitemaps
  /\ Range(sitemapsLeft) \cup StorageHand \subseteq ListedSitemaps
  /\ corePc \in {"pushStart", "seeds", "pushSeeds"}
       => Range(queue) \subseteq ListedSitemaps

\* The start URL is pushed before it is offered to the filter ...
StartUrlQueued == corePc = "insertStart" => startUrl \in Range(queue)

\* ... and the seeds are offered before they are pushed.
SeedsOfferedFirst ==
  /\ corePc = "seeds" => /\ Range(SeedFile) \subseteq seen \cup Range(seedsLeft)
                         /\ Range(seedsLeft) \subseteq Range(SeedFile)
  /\ corePc = "pushSeeds" => Range(SeedFile) \subseteq seen

OwnerInv ==
  /\ TypeInv /\ faults = 0
  /\ SingleOwner
  /\ PlacesSeen /\ BatchesEmpty /\ IdleBeforeSpawn /\ SitemapsApart
  /\ StartUrlQueued /\ SeedsOfferedFirst

-----------------------------------------------------------------------------
LEMMA OwnerInit == ASSUME CleanStart PROVE Init => OwnerInv
<1> SUFFICES ASSUME Init PROVE OwnerInv
  OBVIOUS
<1>1. PICK s \in Scenarios : /\ startUrl = s.startUrl /\ queue = s.queue
                             /\ seen = s.seen /\ retired = s.seen \ Range(s.queue)
  BY DEF Init
<1>2. /\ IsInjective(queue) /\ Range(queue) \subseteq seen
      /\ startUrl \notin ListedSitemaps
      /\ retired = seen \ Range(queue)
  BY <1>1 DEF CleanStart
<1>3. /\ StorageHand = {} /\ \A w \in Worker : Own(w) = {}
      /\ \A w \in Worker : batch[w] = <<>>
  BY DEF Init, StorageHand, Own
<1>4. IsInjective(<<>>) /\ Range(<<>>) = {}
  BY DEF IsInjective, Range
<1>5. SingleOwner
  BY <1>2, <1>3, <1>4 DEF SingleOwner
<1>6. /\ PlacesSeen /\ BatchesEmpty /\ IdleBeforeSpawn
      /\ StartUrlQueued /\ SeedsOfferedFirst
  BY <1>2, <1>3 DEF PlacesSeen, BatchesEmpty, IdleBeforeSpawn, StartUrlQueued,
    SeedsOfferedFirst, Init
<1>7. SitemapsApart
  BY <1>2, <1>3, <1>4 DEF SitemapsApart, Init
<1> QED
  BY <1>5, <1>6, <1>7, TypeInit DEF OwnerInv, Init

\* A step of a task leaves what the others own.
LEMMA OthersKeep ==
  ASSUME TypeOK, NEW w \in Worker, Task(w), NEW v \in Worker \ {w}
  PROVE  Own(v)' = Own(v) /\ batch'[v] = batch[v] /\ pc'[v] = pc[v]
<1>1. pc'[v] = pc[v]
  BY DEF TypeOK, TaskTypeOK, Task, Goto, taskVars, LookAtShutdown, PopUrl,
    PopNothing, Acquire, TooEarly, Requeue, Drop, CheckUrl, Discover, Fetch, TaskPanics,
    SavePage, OfferLink, OfferFails, LinksOffered, PushLinks, PushLinksFails,
    CountLinks, Release
<1>2. cur'[v] = cur[v]
  BY DEF TypeOK, TaskTypeOK, Task, taskVars, LookAtShutdown, PopUrl,
    PopNothing, Acquire, TooEarly, Requeue, Drop, CheckUrl, Discover, Fetch, TaskPanics,
    SavePage, OfferLink, OfferFails, LinksOffered, PushLinks, PushLinksFails,
    CountLinks, Release
<1>3. batch'[v] = batch[v]
  BY DEF TypeOK, TaskTypeOK, Task, taskVars, LookAtShutdown, PopUrl,
    PopNothing, Acquire, TooEarly, Requeue, Drop, CheckUrl, Discover, Fetch, TaskPanics,
    SavePage, OfferLink, OfferFails, LinksOffered, PushLinks, PushLinksFails,
    CountLinks, Release
<1> QED
  BY <1>1, <1>2, <1>3 DEF Own

\* A task may move URLs between the list, its hands and the past, and add URLs
\* that are new to the filter, as long as it leaves none in two of them.
LEMMA TaskMovesUrls ==
  ASSUME OwnerInv, NEW w \in Worker, Task(w), corePc # "insertStart",
         NEW new, new \cap seen = {}, new \subseteq seen', seen \subseteq seen',
         UNCHANGED <<corePc, sitemapInHand>>,
         Range(queue') \cup retired' \cup Own(w)'
           \subseteq Range(queue) \cup retired \cup Own(w) \cup new,
         IsInjective(queue'), IsInjective(batch'[w]),
         Range(queue') \cap retired' = {},
         Own(w)' \cap (Range(queue') \cup retired') = {},
         (Own(w)' \cup Range(queue') \cup retired') \cap StorageHand = {}
  PROVE  SingleOwner' /\ PlacesSeen'
<1>1. \A v \in Worker \ {w} : Own(v)' = Own(v) /\ batch'[v] = batch[v]
  BY OthersKeep DEF OwnerInv, TypeInv
<1>2. StorageHand' = StorageHand
  BY DEF StorageHand
<1>3. Range(queue) \cup retired \cup Own(w) \subseteq seen
  BY DEF OwnerInv, PlacesSeen
<1>4. PlacesSeen'
  BY <1>1, <1>2, <1>3 DEF OwnerInv, PlacesSeen
<1>5. \A v \in Worker \ {w} :
        Own(v) \cap (Range(queue') \cup retired' \cup Own(w)') = {}
  BY DEF OwnerInv, PlacesSeen, SingleOwner
<1>6. SingleOwner'
  <2>1. IsInjective(queue') /\ \A v \in Worker : IsInjective(batch'[v])
    BY <1>1 DEF OwnerInv, SingleOwner
  <2>2. /\ Range(queue') \cap (StorageHand' \cup retired') = {}
        /\ StorageHand' \cap retired' = {}
    BY <1>2
  <2>3. \A v \in Worker : Own(v)' \cap (Range(queue') \cup StorageHand' \cup retired') = {}
    BY <1>1, <1>2, <1>5 DEF OwnerInv, SingleOwner
  <2>4. \A u, v \in Worker : u # v => Own(u)' \cap Own(v)' = {}
    BY <1>1, <1>5 DEF OwnerInv, SingleOwner
  <2> QED
    BY <2>1, <2>2, <2>3, <2>4 DEF SingleOwner
<1> QED
  BY <1>4, <1>6

\* So the storage does not restart either.
LEMMA NoRestart ==
  ASSUME MaxFaults = 0, OwnerInv
  PROVE  ~StorageRestarts
BY NothingFails DEF StorageRestarts, OwnerInv, TypeInv, TypeOK

\* What all steps of the tasks have in common.
LEMMA TaskContext ==
  ASSUME OwnerInv, NEW w \in Worker, Task(w)
  PROVE  /\ corePc \in {"monitor", "join", "returned"}
         /\ UNCHANGED <<corePc, startUrl, seedsLeft, sitemapsLeft, sitemapInHand>>
         /\ seen \subseteq seen'
         /\ IsInjective(queue) /\ queue \in Seq(Url)
         /\ IsInjective(batch[w]) /\ batch[w] \in Seq(Url) /\ batch \in [Worker -> Seq(Url)]
         /\ pc \in [Worker -> TaskPcs]
         /\ Range(queue) \cap retired = {}
         /\ Own(w) \cap (Range(queue) \cup retired) = {}
         /\ (Own(w) \cup Range(queue) \cup retired) \cap StorageHand = {}
         /\ Range(queue) \cup retired \cup Own(w) \subseteq seen
<1>1. pc[w] # "idle"
  BY DEF Task, LookAtShutdown, PopUrl, PopNothing, Acquire, TooEarly, Requeue,
    Drop, CheckUrl, Discover, Fetch, TaskPanics, SavePage, OfferLink, OfferFails,
    LinksOffered, PushLinks, PushLinksFails, CountLinks, Release
<1>2. corePc \in {"monitor", "join", "returned"}
  BY <1>1 DEF OwnerInv, IdleBeforeSpawn
<1>3. UNCHANGED <<corePc, startUrl, seedsLeft, sitemapsLeft, sitemapInHand>>
  BY DEF Task, coreVars, storageVars, LookAtShutdown, PopUrl, PopNothing,
    Acquire, TooEarly, Requeue, Drop, CheckUrl, Discover, Fetch, TaskPanics, SavePage,
    OfferLink, OfferFails, LinksOffered, PushLinks, PushLinksFails, CountLinks,
    Release
<1>4. seen \subseteq seen'
  BY DEF Task, InsertUrl, LookAtShutdown, PopUrl, PopNothing,
    Acquire, TooEarly, Requeue, Drop, CheckUrl, Discover, Fetch, TaskPanics, SavePage,
    OfferLink, OfferFails, LinksOffered, PushLinks, PushLinksFails, CountLinks,
    Release
<1>5. /\ queue \in Seq(Url) /\ batch \in [Worker -> Seq(Url)]
      /\ pc \in [Worker -> TaskPcs]
  BY DEF OwnerInv, TypeInv, TypeOK, FrontierTypeOK, TaskTypeOK
<1>6. Range(queue) \cup retired \cup Own(w) \subseteq seen
  BY <1>2 DEF OwnerInv, PlacesSeen
<1> QED
  BY <1>2, <1>3, <1>4, <1>5, <1>6 DEF OwnerInv, SingleOwner

\* Only five steps of a task move a URL.
LEMMA TaskOwner ==
  ASSUME MaxFaults = 0, OwnerInv, NEW w \in Worker, Task(w)
  PROVE  SingleOwner' /\ PlacesSeen'
<1>1. FrontierTypeOK /\ ~Fails
  BY NothingFails DEF OwnerInv, TypeInv, TypeOK
<1>2. IsInjective(<<>>) /\ Range(<<>>) = {}
  BY DEF IsInjective, Range
<1> DEFINE Moves(new) ==
      /\ Range(queue') \cup retired' \cup Own(w)'
           \subseteq Range(queue) \cup retired \cup Own(w) \cup new
      /\ IsInjective(queue') /\ IsInjective(batch'[w])
      /\ Range(queue') \cap retired' = {}
      /\ Own(w)' \cap (Range(queue') \cup retired') = {}
      /\ (Own(w)' \cup Range(queue') \cup retired') \cap StorageHand = {}
<1>3. SUFFICES \E new : new \cap seen = {} /\ new \subseteq seen' /\ Moves(new)
  BY TaskContext, TaskMovesUrls
<1>4. ASSUME UNCHANGED <<queue, retired>>, Own(w)' = Own(w),
             batch'[w] \in {batch[w], <<>>}
      PROVE  Moves({})
  BY <1>2, <1>4, TaskContext
<1>5. CASE OfferLink(w)
  <2> DEFINE u == Head(out[w])
  <2>1. PICK isDuplicate \in BOOLEAN :
          /\ InsertUrl(u, isDuplicate)
          /\ batch' = IF isDuplicate THEN batch
                      ELSE [batch EXCEPT ![w] = Append(@, u)]
    BY <1>5 DEF OfferLink
  <2>2. /\ UNCHANGED <<queue, retired, pc>> /\ pc[w] = "offer"
        /\ Own(w) = Range(batch[w]) /\ Own(w)' = Range(batch'[w])
    BY <1>5 DEF OfferLink, queueVars, history, Own
  <2>3. CASE isDuplicate
    BY <2>1, <2>2, <2>3, TaskContext
  <2>4. CASE ~isDuplicate
    <3>1. u \notin seen /\ seen' = seen \cup {u}
      BY <2>1, <2>4 DEF InsertUrl
    <3>2. u \in Url
      BY <1>5, HeadTailProperties
      DEF OwnerInv, TypeInv, TypeOK, TaskTypeOK, OfferLink
    <3>3. u \notin Range(batch[w]) /\ batch'[w] = Append(batch[w], u)
      BY <2>1, <2>2, <2>4, <3>1, TaskContext
    <3>4. IsInjective(batch'[w]) /\ Range(batch'[w]) = Range(batch[w]) \cup {u}
      BY <3>2, <3>3, TaskContext, InjectiveAppend
    <3>5. u \notin StorageHand
      BY <3>1 DEF OwnerInv, PlacesSeen
    <3>6. Moves({u})
      BY <2>2, <3>1, <3>4, <3>5, TaskContext
    <3>7. {u} \cap seen = {} /\ {u} \subseteq seen'
      BY <3>1
    <3> WITNESS {u}
    <3> QED
      BY <3>6, <3>7
  <2> QED
    BY <2>3, <2>4
<1>6. SUFFICES ASSUME ~OfferLink(w) PROVE Moves({})
  <2>1. {} \cap seen = {} /\ {} \subseteq seen'
    OBVIOUS
  <2> QED
    BY <1>5, <2>1
<1>7. CASE LookAtShutdown(w) \/ PopNothing(w)
  <2>1. UNCHANGED <<queue, retired, batch>> /\ Own(w)' = Own(w)
    BY <1>1, <1>7, TaskContext DEF LookAtShutdown, PopNothing, PopFrontTimesOut,
      PopFrontFails, queueVars, history, Own, Goto
  <2> QED
    BY <1>4, <2>1
<1>8. CASE PopUrl(w)
  <2>1. PICK u \in Url :
          /\ queue # <<>> /\ u = Head(queue) /\ queue' = Tail(queue)
          /\ cur' = [cur EXCEPT ![w] = u]
          /\ \/ Goto(w, "drop") /\ retired' = retired \cup {u}
             \/ Goto(w, "acquire") /\ UNCHANGED retired
    BY <1>8 DEF PopUrl, PopFront
  <2>2. /\ IsInjective(queue') /\ u \in Range(queue)
        /\ Range(queue') = Range(queue) \ {u}
    BY <2>1, TaskContext, InjectiveTail
  <2>3. UNCHANGED batch /\ Own(w) = {}
    BY <1>8 DEF PopUrl, Own
  <2>4. cur'[w] = u
    BY <2>1 DEF OwnerInv, TypeInv, TypeOK, TaskTypeOK
  <2>5. \/ Own(w)' = {} /\ retired' = retired \cup {u}
        \/ Own(w)' = {u} /\ retired' = retired
    BY <2>1, <2>4, TaskContext DEF Own, Goto
  <2> QED
    BY <2>2, <2>3, <2>5, TaskContext
<1>9. CASE Acquire(w)
  <2>1. /\ UNCHANGED <<queue, batch>> /\ Own(w) = {cur[w]} /\ Own(w)' = {}
        /\ retired' = retired \cup {cur[w]}
    BY <1>9, TaskContext DEF Acquire, queueVars, Own, Goto
  <2> QED
    BY <2>1, TaskContext
<1>10. CASE TooEarly(w)
  <2>1. UNCHANGED <<queue, retired, batch>> /\ Own(w)' = Own(w)
    BY <1>10, TaskContext DEF TooEarly, queueVars, history, Own, Goto
  <2> QED
    BY <1>4, <2>1
<1>11. CASE Requeue(w)
  <2>1. /\ queue' = queue \o <<cur[w]>> /\ UNCHANGED <<batch, retired>>
        /\ Own(w) = {cur[w]} /\ Own(w)' = {}
    BY <1>1, <1>11, TaskContext
    DEF Requeue, PushBulk, PushBulkFails, history, Own, Goto
  <2>2. cur[w] \in Url
    BY <1>11 DEF Requeue, OwnerInv, TypeInv, TypeOK, TaskTypeOK
  <2>3. <<cur[w]>> \in Seq(Url) /\ IsInjective(<<cur[w]>>) /\ Range(<<cur[w]>>) = {cur[w]}
    BY <2>2, SingletonSeq
  <2>4. Range(queue) \cap Range(<<cur[w]>>) = {}
    BY <2>1, <2>3, TaskContext
  <2>5. IsInjective(queue')
    BY <2>1, <2>3, <2>4, TaskContext, InjectiveConcat
  <2>6. Range(queue') = Range(queue) \cup Range(<<cur[w]>>)
    <3>1. queue \in Seq(Url)
      BY TaskContext
    <3>2. Range(queue \o <<cur[w]>>) = Range(queue) \cup Range(<<cur[w]>>)
      BY <2>3, <3>1, RangeConcatenation, Zenon
    <3> QED
      BY <2>1, <3>2, Zenon
  <2> QED
    BY <2>1, <2>3, <2>5, <2>6, TaskContext
<1>12. CASE Drop(w) \/ CheckUrl(w) \/ Discover(w)
  <2>1. UNCHANGED <<queue, retired, batch>> /\ Own(w)' = Own(w)
    BY <1>12, TaskContext
    DEF Drop, CheckUrl, Discover, queueVars, history, Own, Goto
  <2> QED
    BY <1>4, <2>1
<1>13. CASE Fetch(w) \/ TaskPanics(w) \/ SavePage(w)
  <2>1. /\ UNCHANGED <<queue, retired, batch>>
        /\ pc[w] \in {"discover", "fetch", "save"}
        /\ pc'[w] \in {"release", "offer", "save", "panic"}
    BY <1>13, TaskContext
    DEF Fetch, TaskPanics, SavePage, queueVars, history, Goto
  <2>2. batch[w] = <<>>
    BY <2>1 DEF OwnerInv, BatchesEmpty
  <2>3. Own(w) = {} /\ Own(w)' = {}
    BY <1>2, <2>1, <2>2 DEF Own
  <2> QED
    BY <1>4, <2>1, <2>3
<1>14. CASE OfferLink(w) \/ OfferFails(w)
  BY <1>1, <1>6, <1>14 DEF OfferFails
<1>15. CASE LinksOffered(w)
  <2>1. /\ UNCHANGED <<queue, retired, batch>> /\ pc[w] = "offer"
        /\ IF batch[w] = <<>> THEN pc'[w] = "release" ELSE pc'[w] = "push"
    BY <1>15, TaskContext DEF LinksOffered, queueVars, history, Goto
  <2>2. Own(w)' = Own(w)
    BY <1>2, <2>1 DEF Own
  <2> QED
    BY <1>4, <2>1, <2>2
<1>16. CASE PushLinks(w) \/ PushLinksFails(w)
  <2>1. PushLinks(w)
    BY <1>1, <1>16 DEF PushLinksFails, PushBulkFails
  <2>2. /\ queue' = queue \o batch[w] /\ UNCHANGED <<batch, retired>>
        /\ Own(w) = Range(batch[w]) /\ Own(w)' = {}
    BY <2>1, TaskContext DEF PushLinks, PushBulk, history, Own, Goto
  <2>3. Range(queue) \cap Range(batch[w]) = {}
    BY <2>2, TaskContext
  <2>4. IsInjective(queue')
    BY <2>2, <2>3, TaskContext, InjectiveConcat
  <2>5. Range(queue') = Range(queue) \cup Range(batch[w])
    BY <2>2, TaskContext, RangeConcatenation
  <2> QED
    BY <2>2, <2>4, <2>5, TaskContext
<1>17. CASE CountLinks(w) \/ Release(w)
  <2>1. /\ UNCHANGED <<queue, retired>> /\ Own(w)' = Own(w)
        /\ batch'[w] \in {batch[w], <<>>}
    BY <1>17, TaskContext
    DEF CountLinks, Release, queueVars, history, Own, Goto
  <2> QED
    BY <1>4, <2>1
<1> QED
  BY <1>7, <1>8, <1>9, <1>10, <1>11, <1>12, <1>13, <1>14, <1>15, <1>16, <1>17
  DEF Task

-----------------------------------------------------------------------------
(* The steps of run: no task has anything yet, or nothing moves.            *)

\* With nothing in the hands of the tasks the list, the storage and the past are
\* all there is.
LEMMA NobodyOwns ==
  ASSUME TypeOK, BatchesEmpty, \A w \in Worker : pc[w] \in {"idle", "top"}
  PROVE  \A w \in Worker : Own(w) = {} /\ batch[w] = <<>> /\ IsInjective(batch[w])
<1>1. IsInjective(<<>>)
  BY DEF IsInjective
<1> QED
  BY <1>1 DEF BatchesEmpty, Own

LEMMA RunOwner ==
  ASSUME CleanStart, MaxFaults = 0, OwnerInv, Run \/ Signal
  PROVE  SingleOwner' /\ PlacesSeen'
<1>1. ~Fails /\ queue \in Seq(Url)
  BY NothingFails DEF OwnerInv, TypeInv, TypeOK, FrontierTypeOK
<1>2. UNCHANGED sitemapInHand /\ StorageHand' = StorageHand /\ seen \subseteq seen'
  BY DEF Run, Startup, StorageHand, storageVars, InsertUrl, StartFromEmptyQueue,
    StartFromLeftovers, CleanLeftovers, PushStartUrl, InsertStartUrl,
    InsertSeed, SeedsOffered, PushSeeds, ResumeLeftovers, StartFails,
    SpawnWorkers, MonitorStops, JoinWorkers, Signal
<1>3. CASE MonitorStops \/ JoinWorkers \/ Signal
  <2>1. UNCHANGED <<queue, seen, retired, pc, cur, batch, startUrl>>
    BY <1>3 DEF MonitorStops, JoinWorkers, Signal, queueVars, history, coreVars,
      taskVars
  <2>2. \A w \in Worker : Own(w)' = Own(w)
    BY <2>1 DEF Own
  <2>3. corePc' = "insertStart" <=> corePc = "insertStart"
    BY <1>3 DEF MonitorStops, JoinWorkers, Signal
  <2>4. SingleOwner'
    BY <1>2, <2>1, <2>2 DEF OwnerInv, SingleOwner
  <2>5. PlacesSeen'
    BY <1>2, <2>1, <2>2, <2>3 DEF OwnerInv, PlacesSeen
  <2> QED
    BY <2>4, <2>5
<1>4. CASE Startup
  <2>1. corePc \notin {"monitor", "join", "returned"}
    BY <1>4 DEF Startup, StartFromEmptyQueue, StartFromLeftovers, CleanLeftovers,
      PushStartUrl, InsertStartUrl, InsertSeed, SeedsOffered, PushSeeds,
      ResumeLeftovers, StartFails, SpawnWorkers
  <2>2. \A w \in Worker : pc[w] = "idle"
    BY <2>1 DEF OwnerInv, IdleBeforeSpawn
  <2>3. UNCHANGED batch /\ \A w \in Worker : pc'[w] \in {"idle", "top"}
    BY <1>4, <2>2 DEF Startup, taskVars, StartFromEmptyQueue, StartFromLeftovers,
      CleanLeftovers, PushStartUrl, InsertStartUrl, InsertSeed, SeedsOffered,
      PushSeeds, ResumeLeftovers, StartFails, SpawnWorkers
  <2>4. \A w \in Worker : Own(w) = {} /\ batch[w] = <<>> /\ IsInjective(batch[w])
    BY <2>2, NobodyOwns DEF OwnerInv, TypeInv
  <2>5. \A w \in Worker : Own(w)' = {}
    BY <2>3 DEF Own
  <2> DEFINE Apart ==
        /\ IsInjective(queue')
        /\ Range(queue') \cap (StorageHand \cup retired') = {}
        /\ StorageHand \cap retired' = {}
        /\ retired' \subseteq seen'
        /\ Range(queue') \subseteq
             seen' \cup (IF corePc' = "insertStart" THEN {startUrl} ELSE {})
  <2>6. UNCHANGED startUrl
    BY <1>4 DEF Startup, StartFromEmptyQueue, StartFromLeftovers,
      CleanLeftovers, PushStartUrl, InsertStartUrl, InsertSeed, SeedsOffered,
      PushSeeds, ResumeLeftovers, StartFails, SpawnWorkers, coreVars
  <2>7. SUFFICES Apart
    <3>1. \A w \in Worker : IsInjective(batch'[w])
      BY <2>3, <2>4
    <3>2. StorageHand \subseteq seen'
      BY <1>2 DEF OwnerInv, PlacesSeen
    <3> QED
      BY <1>2, <2>5, <2>6, <3>1, <3>2 DEF SingleOwner, PlacesSeen
  <2>8. /\ IsInjective(queue)
        /\ Range(queue) \cap (StorageHand \cup retired) = {}
        /\ StorageHand \cap retired = {} /\ retired \subseteq seen
        /\ Range(queue) \subseteq
             seen \cup (IF corePc = "insertStart" THEN {startUrl} ELSE {})
    BY DEF OwnerInv, SingleOwner, PlacesSeen
  <2>9. IsInjective(<<>>) /\ Range(<<>>) = {}
    BY DEF IsInjective, Range
  <2>10. CASE StartFromEmptyQueue \/ StartFromLeftovers \/ InsertSeed
              \/ SeedsOffered \/ ResumeLeftovers \/ SpawnWorkers
    <3>1. UNCHANGED <<queue, retired>> /\ corePc # "insertStart"
      BY <2>10 DEF StartFromEmptyQueue, StartFromLeftovers, InsertSeed,
        SeedsOffered, ResumeLeftovers, SpawnWorkers, IsEmpty, IsNotEmpty,
        QueueLen, queueVars, history
    <3> QED
      BY <1>2, <2>8, <3>1
  <2>11. CASE CleanLeftovers
    BY <1>2, <2>8, <2>9, <2>11 DEF CleanLeftovers, CleanQueue
  <2>12. CASE PushStartUrl
    <3>1. startUrl \in Url /\ corePc' = "insertStart"
          /\ queue' = queue \o <<startUrl>> /\ retired' = retired \ {startUrl}
      BY <2>12 DEF PushStartUrl, PushBulk, OwnerInv, TypeInv
    <3>2. startUrl \notin Range(queue) \cup StorageHand
      BY <2>12 DEF PushStartUrl, OwnerInv, SitemapsApart
    <3>3. <<startUrl>> \in Seq(Url) /\ IsInjective(<<startUrl>>)
          /\ Range(<<startUrl>>) = {startUrl}
      BY <3>1, SingletonSeq
    <3>4. Range(queue \o <<startUrl>>) = Range(queue) \cup Range(<<startUrl>>)
      BY <1>1, <3>3, RangeConcatenation, Zenon
    <3>5. Range(queue) \cap Range(<<startUrl>>) = {}
      BY <3>2, <3>3
    <3>6. IsInjective(queue')
      BY <1>1, <2>8, <3>1, <3>3, <3>5, InjectiveConcat
    <3>7. Range(queue') = Range(queue) \cup {startUrl}
      BY <3>1, <3>3, <3>4, Zenon
    <3>8. corePc = "pushStart"
      BY <2>12 DEF PushStartUrl
    <3> QED
      BY <1>2, <2>8, <3>1, <3>2, <3>6, <3>7, <3>8
  <2>13. CASE InsertStartUrl
    BY <2>8, <2>13 DEF InsertStartUrl, InsertUrl, queueVars, history
  <2>14. CASE PushSeeds
    <3>1. /\ corePc = "pushSeeds" /\ corePc' = "spawn" /\ queue' = queue \o SeedFile
          /\ retired' = retired \ Range(SeedFile)
      BY <2>14 DEF PushSeeds, PushBulk
    <3>2. SeedFile \in Seq(Url)
      BY CoreAssumption
    <3>3. Range(SeedFile) \cap (Range(queue) \cup StorageHand) = {}
      BY <3>1 DEF CleanStart, OwnerInv, SitemapsApart
    <3>4. IsInjective(queue')
      BY <1>1, <2>8, <3>1, <3>2, <3>3, InjectiveConcat DEF CleanStart
    <3>5. Range(queue') = Range(queue) \cup Range(SeedFile)
      BY <1>1, <3>1, <3>2, RangeConcatenation
    <3>6. Range(SeedFile) \subseteq seen
      BY <3>1 DEF OwnerInv, SeedsOfferedFirst
    <3> QED
      BY <1>2, <2>8, <3>1, <3>3, <3>4, <3>5, <3>6
  <2>15. CASE StartFails
    BY <1>1, <2>15 DEF StartFails, QueueLenFails, CleanQueueFails, PushBulkFails
  <2> QED
    BY <1>4, <2>10, <2>11, <2>12, <2>13, <2>14, <2>15 DEF Startup
<1> QED
  BY <1>3, <1>4 DEF Run

-----------------------------------------------------------------------------
(* The steps of the storage.                                                *)

LEMMA StorageOwner ==
  ASSUME CleanStart, MaxFaults = 0, OwnerInv, Storage
  PROVE  SingleOwner' /\ PlacesSeen' /\ SitemapsApart'
<1>1. ~Fails /\ queue \in Seq(Url)
  BY NothingFails DEF OwnerInv, TypeInv, TypeOK, FrontierTypeOK
<1>2. UNCHANGED <<pc, cur, batch, corePc, startUrl, retired>>
  BY DEF Storage, StorageSavesDomain, StorageOffersSitemap, StoragePushesSitemap,
    StoragePushFails, taskVars, coreVars, history
<1>3. \A w \in Worker : Own(w)' = Own(w)
  BY <1>2 DEF Own
<1>4. SitemapsApart /\ PlacesSeen /\ SingleOwner
  BY DEF OwnerInv
<1>5. CASE StorageSavesDomain
  <2>1. UNCHANGED <<queue, seen, sitemapInHand>>
        /\ events # <<>> /\ sitemapsLeft' = SitemapsOf[Head(events)]
    BY <1>1, <1>5 DEF StorageSavesDomain
  <2>2. Head(events) \in Domain
    BY <2>1, HeadTailProperties DEF OwnerInv, TypeInv, TypeOK, StorageTypeOK
  <2>3. Range(sitemapsLeft') \subseteq ListedSitemaps
    BY <2>1, <2>2 DEF ListedSitemaps
  <2>4. StorageHand' = StorageHand
    BY <2>1 DEF StorageHand
  <2>5. SingleOwner'
    BY <1>2, <1>3, <1>4, <2>1, <2>4 DEF SingleOwner
  <2> QED
    BY <1>2, <1>3, <1>4, <2>1, <2>3, <2>4, <2>5 DEF PlacesSeen, SitemapsApart
<1>6. CASE StorageOffersSitemap
  <2> DEFINE m == Head(sitemapsLeft)
  <2>1. PICK isDuplicate \in BOOLEAN :
          /\ InsertUrl(m, isDuplicate)
          /\ sitemapInHand' = IF isDuplicate THEN NoUrl ELSE m
    BY <1>6 DEF StorageOffersSitemap
  <2>2. /\ UNCHANGED queue /\ StorageHand = {} /\ sitemapsLeft # <<>>
        /\ sitemapsLeft' = Tail(sitemapsLeft)
    BY <1>6 DEF StorageOffersSitemap, queueVars, StorageHand
  <2>3. sitemapsLeft \in Seq(Url)
    BY DEF OwnerInv, TypeInv, TypeOK, StorageTypeOK
  <2>4. m \in Range(sitemapsLeft) /\ Range(sitemapsLeft') \subseteq Range(sitemapsLeft)
    BY <2>2, <2>3, RangeTail
  <2>5. m \in ListedSitemaps /\ Range(sitemapsLeft') \subseteq ListedSitemaps
    BY <1>4, <2>4 DEF SitemapsApart
  <2>6. seen' = seen \cup {m}
    BY <2>1 DEF InsertUrl
  <2>7. StorageHand' = {} \/ (StorageHand' = {m} /\ m \notin seen)
    BY <2>1 DEF StorageHand, InsertUrl
  <2>8. m \notin seen => m \notin Range(queue) \cup retired
    BY <1>4, <2>5 DEF PlacesSeen, SitemapsApart
  <2>9. m \notin seen => \A w \in Worker : m \notin Own(w)
    BY <1>4 DEF PlacesSeen
  <2>10. SingleOwner'
    BY <1>2, <1>3, <1>4, <2>2, <2>7, <2>8, <2>9 DEF SingleOwner
  <2>11. PlacesSeen'
    BY <1>2, <1>3, <1>4, <2>2, <2>6, <2>7 DEF PlacesSeen
  <2>12. SitemapsApart'
    BY <1>2, <1>4, <2>2, <2>5, <2>7 DEF SitemapsApart
  <2> QED
    BY <2>10, <2>11, <2>12
<1>7. CASE StoragePushesSitemap
  <2> DEFINE m == sitemapInHand
  <2>1. /\ m # NoUrl /\ StorageHand = {m} /\ StorageHand' = {}
        /\ queue' = queue \o <<m>> /\ UNCHANGED <<seen, sitemapsLeft>>
    BY <1>7 DEF StoragePushesSitemap, StorageHand, PushBulk
  <2>2. m \in Url
    BY <2>1 DEF OwnerInv, TypeInv, TypeOK, StorageTypeOK
  <2>3. <<m>> \in Seq(Url) /\ IsInjective(<<m>>) /\ Range(<<m>>) = {m}
    BY <2>2, SingletonSeq
  <2>4. Range(queue \o <<m>>) = Range(queue) \cup Range(<<m>>)
    BY <1>1, <2>3, RangeConcatenation, Zenon
  <2>5. Range(queue') = Range(queue) \cup {m}
    BY <2>1, <2>3, <2>4, Zenon
  <2>6. Range(queue) \cap Range(<<m>>) = {}
    BY <1>4, <2>1, <2>3 DEF SingleOwner
  <2>7. IsInjective(queue')
    BY <1>1, <1>4, <2>1, <2>3, <2>6, InjectiveConcat DEF SingleOwner
  <2>8. SingleOwner'
    BY <1>2, <1>3, <1>4, <2>1, <2>5, <2>7 DEF SingleOwner
  <2>9. PlacesSeen'
    BY <1>2, <1>3, <1>4, <2>1, <2>5 DEF PlacesSeen
  <2>10. SitemapsApart'
    BY <1>2, <1>4, <2>1, <2>5 DEF SitemapsApart
  <2> QED
    BY <2>8, <2>9, <2>10
<1>8. CASE StoragePushFails
  BY <1>1, <1>8 DEF StoragePushFails, PushBulkFails
<1> QED
  BY <1>5, <1>6, <1>7, <1>8 DEF Storage

-----------------------------------------------------------------------------
(* The other parts of the invariant.                                        *)

LEMMA BatchesStep ==
  ASSUME OwnerInv, Next PROVE BatchesEmpty'
<1>1. CASE Run \/ Signal \/ Storage \/ StorageRestarts
  <2>1. CASE UNCHANGED taskVars
    BY <2>1 DEF taskVars, OwnerInv, BatchesEmpty
  <2>2. CASE SpawnWorkers
    BY <2>2 DEF SpawnWorkers, OwnerInv, BatchesEmpty, IdleBeforeSpawn
  <2> QED
    BY <1>1, <2>1, <2>2, TaskFrame
<1>2. ASSUME NEW w \in Worker, Task(w) PROVE BatchesEmpty'
  <2>1. batch \in [Worker -> Seq(Url)] /\ pc \in [Worker -> TaskPcs]
    BY DEF OwnerInv, TypeInv, TypeOK, TaskTypeOK
  <2>2. \A v \in Worker \ {w} : batch'[v] = batch[v] /\ pc'[v] = pc[v]
    BY <1>2, OthersKeep DEF OwnerInv, TypeInv
  <2>3. pc[w] \notin {"offer", "push", "count"} => batch[w] = <<>>
    BY DEF OwnerInv, BatchesEmpty
  <2>4. pc'[w] \notin {"offer", "push", "count"} => batch'[w] = <<>>
    BY <1>2, <2>1, <2>3 DEF Task, Goto, LookAtShutdown, PopUrl, PopNothing,
      Acquire, TooEarly, Requeue, Drop, CheckUrl, Discover, Fetch, TaskPanics, SavePage,
      OfferLink, OfferFails, LinksOffered, PushLinks, PushLinksFails,
      CountLinks, Release
  <2> QED
    BY <2>2, <2>4 DEF OwnerInv, BatchesEmpty
<1> QED
  BY <1>1, <1>2 DEF Next

LEMMA StartupStep ==
  ASSUME CleanStart, MaxFaults = 0, OwnerInv, Next
  PROVE  IdleBeforeSpawn' /\ SeedsOfferedFirst'
<1>1. ~Fails
  BY NothingFails DEF OwnerInv, TypeInv, TypeOK
<1>2. ASSUME NEW w \in Worker, Task(w) PROVE IdleBeforeSpawn' /\ SeedsOfferedFirst'
  BY <1>2, TaskContext DEF IdleBeforeSpawn, SeedsOfferedFirst
<1>3. CASE Storage
  <2>1. UNCHANGED <<corePc, seedsLeft, pc>> /\ seen \subseteq seen'
    BY <1>3 DEF Storage, InsertUrl, StorageSavesDomain, StorageOffersSitemap,
      StoragePushesSitemap, StoragePushFails, coreVars, taskVars
  <2> QED
    BY <2>1 DEF OwnerInv, IdleBeforeSpawn, SeedsOfferedFirst
<1>4. CASE Run \/ Signal
  <2>1. IdleBeforeSpawn'
    BY IdleStep DEF OwnerInv
  <2>2. SeedsOfferedFirst'
    <3>1. CASE InsertSeed
      <4> DEFINE u == Head(seedsLeft)
      <4>1. /\ seedsLeft # <<>> /\ seen' = seen \cup {u} /\ corePc = "seeds"
            /\ seedsLeft' = Tail(seedsLeft) /\ corePc' = "seeds"
        BY <1>1, <3>1 DEF InsertSeed, InsertUrl
      <4>2. seedsLeft \in Seq(Url)
        BY DEF OwnerInv, TypeInv, TypeOK, RunTypeOK
      <4>3. /\ Range(seedsLeft) \subseteq Range(Tail(seedsLeft)) \cup {u}
            /\ Range(Tail(seedsLeft)) \subseteq Range(seedsLeft)
        BY <4>1, <4>2, RangeTail
      <4> QED
        BY <4>1, <4>3 DEF OwnerInv, SeedsOfferedFirst
    <3>2. CASE SeedsOffered
      <4>1. Range(<<>>) = {}
        BY DEF Range
      <4> QED
        BY <3>2, <4>1 DEF SeedsOffered, OwnerInv, SeedsOfferedFirst
    <3>3. CASE StartFromEmptyQueue
      BY <3>3 DEF StartFromEmptyQueue, SeedsOfferedFirst
    <3>4. CASE ~(InsertSeed \/ SeedsOffered \/ StartFromEmptyQueue)
      <4>1. corePc' \notin {"seeds", "pushSeeds"}
              \/ UNCHANGED <<corePc, seedsLeft, seen>>
        BY <1>1, <1>4, <3>4 DEF Run, Startup, StartFromLeftovers,
          CleanLeftovers, PushStartUrl, InsertStartUrl, PushSeeds,
          ResumeLeftovers, StartFails, SpawnWorkers, MonitorStops, JoinWorkers,
          Signal
      <4> QED
        BY <4>1 DEF OwnerInv, SeedsOfferedFirst
    <3> QED
      BY <3>1, <3>2, <3>3, <3>4
  <2> QED
    BY <2>1, <2>2
<1> QED
  BY <1>2, <1>3, <1>4, NoRestart DEF Next

LEMMA StartUrlStep ==
  ASSUME CleanStart, MaxFaults = 0, OwnerInv, Next
  PROVE  StartUrlQueued'
<1> SUFFICES ASSUME corePc' = "insertStart" PROVE startUrl' \in Range(queue')
  BY DEF StartUrlQueued
<1>1. ~Fails /\ queue \in Seq(Url)
  BY NothingFails DEF OwnerInv, TypeInv, TypeOK, FrontierTypeOK
<1>2. ASSUME NEW w \in Worker, Task(w) PROVE FALSE
  BY <1>2, TaskContext
<1>3. CASE Storage
  <2>1. UNCHANGED <<corePc, startUrl>>
    BY <1>3 DEF Storage, StorageSavesDomain, StorageOffersSitemap,
      StoragePushesSitemap, StoragePushFails, coreVars
  <2>2. startUrl \in Range(queue)
    BY <2>1 DEF OwnerInv, StartUrlQueued
  <2>3. CASE StoragePushesSitemap
    <3>1. queue' = queue \o <<sitemapInHand>> /\ <<sitemapInHand>> \in Seq(Url)
      BY <2>3, SingletonSeq
      DEF StoragePushesSitemap, PushBulk, OwnerInv, TypeInv, TypeOK, StorageTypeOK
    <3>2. Range(queue \o <<sitemapInHand>>)
            = Range(queue) \cup Range(<<sitemapInHand>>)
      BY <1>1, <3>1, RangeConcatenation, Zenon
    <3> QED
      BY <2>1, <2>2, <3>1, <3>2
  <2>4. CASE ~StoragePushesSitemap
    BY <1>1, <1>3, <2>1, <2>2, <2>4 DEF Storage, StorageSavesDomain,
      StorageOffersSitemap, StoragePushFails, PushBulkFails, queueVars
  <2> QED
    BY <2>3, <2>4
<1>4. CASE PushStartUrl
  <2>1. /\ queue' = queue \o <<startUrl>> /\ UNCHANGED startUrl
        /\ <<startUrl>> \in Seq(Url) /\ Range(<<startUrl>>) = {startUrl}
    BY <1>4, SingletonSeq DEF PushStartUrl, PushBulk, OwnerInv, TypeInv
  <2>2. Range(queue \o <<startUrl>>) = Range(queue) \cup Range(<<startUrl>>)
    BY <1>1, <2>1, RangeConcatenation, Zenon
  <2> QED
    BY <2>1, <2>2
<1>5. CASE (Run \/ Signal) /\ ~PushStartUrl
  <2>1. UNCHANGED <<corePc, startUrl, queue>>
    BY <1>1, <1>5 DEF Run, Startup, StartFromEmptyQueue, StartFromLeftovers,
      CleanLeftovers, InsertStartUrl, InsertSeed, SeedsOffered, PushSeeds,
      ResumeLeftovers, StartFails, SpawnWorkers, MonitorStops, JoinWorkers,
      Signal, queueVars
  <2> QED
    BY <2>1 DEF OwnerInv, StartUrlQueued
<1> QED
  BY <1>2, <1>3, <1>4, <1>5, NoRestart DEF Next

LEMMA SitemapsStep ==
  ASSUME CleanStart, MaxFaults = 0, OwnerInv, Next
  PROVE  SitemapsApart'
<1>1. ASSUME NEW w \in Worker, Task(w) PROVE SitemapsApart'
  BY <1>1, TaskContext DEF SitemapsApart, StorageHand, OwnerInv
<1>2. CASE Storage
  BY <1>2, StorageOwner
<1>3. CASE Run \/ Signal
  <2>1. UNCHANGED <<startUrl, sitemapsLeft, sitemapInHand>>
    BY <1>3 DEF Run, Startup, StartFromEmptyQueue, StartFromLeftovers,
      CleanLeftovers, PushStartUrl, InsertStartUrl, InsertSeed, SeedsOffered,
      PushSeeds, ResumeLeftovers, StartFails, SpawnWorkers, MonitorStops,
      JoinWorkers, Signal, coreVars, storageVars
  <2>2. corePc' \in {"pushStart", "seeds", "pushSeeds"} =>
          \/ queue' = <<>>
          \/ UNCHANGED queue /\ corePc \in {"pushStart", "seeds", "pushSeeds"}
    BY <1>3 DEF Run, Startup, StartFromEmptyQueue, StartFromLeftovers,
      CleanLeftovers, PushStartUrl, InsertStartUrl, InsertSeed, SeedsOffered,
      PushSeeds, ResumeLeftovers, StartFails, SpawnWorkers, MonitorStops,
      JoinWorkers, Signal, coreVars, IsEmpty, CleanQueue, queueVars
  <2>3. Range(<<>>) = {}
    BY DEF Range
  <2> QED
    BY <2>1, <2>2, <2>3 DEF OwnerInv, SitemapsApart, StorageHand
<1> QED
  BY <1>1, <1>2, <1>3, NoRestart DEF Next

LEMMA OwnerStep ==
  ASSUME CleanStart, MaxFaults = 0
  PROVE  OwnerInv /\ [Next]_vars => OwnerInv'
<1> SUFFICES ASSUME OwnerInv, [Next]_vars PROVE OwnerInv'
  OBVIOUS
<1>1. CASE Next
  <2>1. TypeInv'
    BY <1>1, TypeStep DEF OwnerInv
  <2>2. faults' = 0
    BY <2>1 DEF TypeInv, TypeOK, FrontierTypeOK
  <2>3. SingleOwner' /\ PlacesSeen'
    BY <1>1, TaskOwner, RunOwner, StorageOwner, NoRestart DEF Next
  <2> QED
    BY <1>1, <2>1, <2>2, <2>3, BatchesStep, StartupStep, StartUrlStep, SitemapsStep
    DEF OwnerInv
<1>2. CASE UNCHANGED vars
  <2>1. TypeInv'
    BY TypeStep DEF OwnerInv
  <2>2. UNCHANGED <<queue, faults, seen, corePc, startUrl, seedsLeft, pc, cur,
                    batch, sitemapsLeft, sitemapInHand, retired>>
    BY <1>2 DEF vars, coreVars, taskVars, storageVars, history
  <2> QED
    BY <2>1, <2>2 DEF OwnerInv, SingleOwner, PlacesSeen, BatchesEmpty,
      IdleBeforeSpawn, SitemapsApart, StartUrlQueued, SeedsOfferedFirst,
      StorageHand, Own
<1> QED
  BY <1>1, <1>2

\* As long as no call fails, a URL is in one place: a URL two tasks find at the
\* same time is pushed by one of them, a refused URL is nowhere else while it
\* travels back to the list, and none comes back once it had its turn.
THEOREM UrlHasOneOwner ==
  ASSUME CleanStart, MaxFaults = 0
  PROVE  Spec => []SingleOwner
<1>1. OwnerInv => SingleOwner
  BY DEF OwnerInv
<1>2. Init => OwnerInv
  BY OwnerInit
<1>3. OwnerInv /\ [Next]_vars => OwnerInv'
  BY OwnerStep
<1> QED
  BY <1>1, <1>2, <1>3, PTL DEF Spec

-----------------------------------------------------------------------------
(* Nothing the filter knows is lost: each step keeps in some place what was *)
(* in one, and puts there what it makes known to the filter.                *)

LEMMA TaskLosesNothing ==
  ASSUME MaxFaults = 0, FalsePositives = {}, OwnerInv, NEW w \in Worker, Task(w)
  PROVE  Range(queue) \cup retired \cup Own(w) \cup (seen' \ seen)
           \subseteq Range(queue') \cup retired' \cup Own(w)'
<1>1. FrontierTypeOK /\ ~Fails
  BY NothingFails DEF OwnerInv, TypeInv, TypeOK
<1>2. Range(<<>>) = {}
  BY DEF Range
<1>3. CASE OfferLink(w)
  <2> DEFINE u == Head(out[w])
  <2>1. PICK isDuplicate \in BOOLEAN :
          /\ InsertUrl(u, isDuplicate)
          /\ batch' = IF isDuplicate THEN batch
                      ELSE [batch EXCEPT ![w] = Append(@, u)]
    BY <1>3 DEF OfferLink
  <2>2. /\ UNCHANGED <<queue, retired, pc>> /\ pc[w] = "offer"
        /\ Own(w) = Range(batch[w]) /\ Own(w)' = Range(batch'[w])
    BY <1>3 DEF OfferLink, queueVars, history, Own
  <2>3. CASE isDuplicate
    BY <2>1, <2>2, <2>3 DEF InsertUrl
  <2>4. CASE ~isDuplicate
    <3>1. u \in Url
      BY <1>3, HeadTailProperties
      DEF OwnerInv, TypeInv, TypeOK, TaskTypeOK, OfferLink
    <3>2. batch'[w] = Append(batch[w], u)
      BY <2>1, <2>4, TaskContext
    <3>3. Range(batch'[w]) = Range(batch[w]) \cup {u}
      BY <3>1, <3>2, TaskContext, InjectiveAppend
    <3>4. seen' = seen \cup {u}
      BY <2>1 DEF InsertUrl
    <3> QED
      BY <2>2, <3>3, <3>4
  <2> QED
    BY <2>3, <2>4
<1>4. SUFFICES ASSUME ~OfferLink(w)
               PROVE  /\ UNCHANGED seen
                      /\ Range(queue) \cup retired \cup Own(w)
                           \subseteq Range(queue') \cup retired' \cup Own(w)'
  BY <1>3
<1>5. UNCHANGED seen
  BY <1>1, <1>4 DEF Task, LookAtShutdown, PopUrl, PopNothing, Acquire, TooEarly,
    Requeue, Drop, CheckUrl, Discover, Fetch, TaskPanics, SavePage, OfferFails,
    LinksOffered, PushLinks, PushLinksFails, CountLinks, Release
<1>6. CASE PopUrl(w)
  <2>1. PICK u \in Url :
          /\ queue # <<>> /\ u = Head(queue) /\ queue' = Tail(queue)
          /\ cur' = [cur EXCEPT ![w] = u]
          /\ \/ Goto(w, "drop") /\ retired' = retired \cup {u}
             \/ Goto(w, "acquire") /\ UNCHANGED retired
    BY <1>6 DEF PopUrl, PopFront
  <2>2. Range(queue) \subseteq Range(queue') \cup {u} /\ Own(w) = {}
    BY <1>6, <2>1, TaskContext, RangeTail DEF PopUrl, Own
  <2>3. cur'[w] = u
    BY <2>1 DEF OwnerInv, TypeInv, TypeOK, TaskTypeOK
  <2>4. \/ Own(w)' = {} /\ retired' = retired \cup {u}
        \/ Own(w)' = {u} /\ retired' = retired
    BY <2>1, <2>3, TaskContext DEF Own, Goto
  <2> QED
    BY <1>5, <2>2, <2>4
<1>7. CASE Acquire(w)
  <2>1. /\ UNCHANGED queue /\ Own(w) = {cur[w]}
        /\ retired' = retired \cup {cur[w]}
    BY <1>7 DEF Acquire, queueVars, Own
  <2> QED
    BY <1>5, <2>1
<1>8. CASE Requeue(w)
  <2>1. /\ queue' = queue \o <<cur[w]>> /\ UNCHANGED retired /\ Own(w) = {cur[w]}
    BY <1>1, <1>8 DEF Requeue, PushBulk, PushBulkFails, history, Own
  <2>2. <<cur[w]>> \in Seq(Url) /\ Range(<<cur[w]>>) = {cur[w]}
    BY <1>8, SingletonSeq DEF Requeue, OwnerInv, TypeInv, TypeOK, TaskTypeOK
  <2>3. queue \in Seq(Url)
    BY TaskContext
  <2>4. Range(queue \o <<cur[w]>>) = Range(queue) \cup Range(<<cur[w]>>)
    BY <2>2, <2>3, RangeConcatenation, Zenon
  <2> QED
    BY <1>5, <2>1, <2>2, <2>4
<1>9. CASE PushLinks(w) \/ PushLinksFails(w)
  <2>1. PushLinks(w)
    BY <1>1, <1>9 DEF PushLinksFails, PushBulkFails
  <2>2. /\ queue' = queue \o batch[w] /\ UNCHANGED retired /\ Own(w) = Range(batch[w])
    BY <2>1 DEF PushLinks, PushBulk, history, Own
  <2>3. Range(queue') = Range(queue) \cup Range(batch[w])
    BY <2>2, TaskContext, RangeConcatenation
  <2> QED
    BY <1>5, <2>2, <2>3
<1>10. CASE ~(PopUrl(w) \/ Acquire(w) \/ Requeue(w) \/ PushLinks(w) \/ PushLinksFails(w))
  <2>1. UNCHANGED <<queue, retired>>
    BY <1>1, <1>4, <1>10 DEF Task, LookAtShutdown, PopNothing, PopFrontTimesOut,
      PopFrontFails, TooEarly, Drop, CheckUrl, Discover, Fetch, TaskPanics, SavePage,
      OfferFails, LinksOffered, CountLinks, Release, queueVars, history
  <2>2. Own(w) \subseteq Own(w)'
    <3>1. CASE TooEarly(w)
      BY <3>1, TaskContext DEF TooEarly, Own, Goto
    <3>2. CASE LinksOffered(w)
      BY <1>2, <3>2, TaskContext DEF LinksOffered, Own, Goto
    <3>3. CASE ~(TooEarly(w) \/ LinksOffered(w))
      BY <1>1, <1>4, <1>10, <3>3 DEF Task, Own, LookAtShutdown, PopNothing, Drop,
        CheckUrl, Discover, Fetch, TaskPanics, SavePage, OfferFails,
        CountLinks, Release
    <3> QED
      BY <3>1, <3>2, <3>3
  <2> QED
    BY <1>5, <2>1, <2>2
<1> QED
  BY <1>6, <1>7, <1>8, <1>9, <1>10

LEMMA LossStep ==
  ASSUME CleanStart, MaxFaults = 0, FalsePositives = {}
  PROVE  OwnerInv /\ NoSilentLoss /\ [Next]_vars => NoSilentLoss'
<1> SUFFICES ASSUME OwnerInv, NoSilentLoss, [Next]_vars PROVE NoSilentLoss'
  OBVIOUS
<1>1. ~Fails /\ queue \in Seq(Url) /\ SeedFile \in Seq(Url)
  BY NothingFails, CoreAssumption DEF OwnerInv, TypeInv, TypeOK, FrontierTypeOK
<1> DEFINE Seeds == IF corePc \in {"seeds", "pushSeeds"} THEN Range(SeedFile) ELSE {}
           Owned == UNION {Own(w) : w \in Worker}
<1>2. seen \subseteq Range(queue) \cup retired \cup StorageHand \cup Owned \cup Seeds
  BY DEF NoSilentLoss
<1>3. ASSUME NEW w \in Worker, Task(w) PROVE NoSilentLoss'
  <2>1. StorageHand' = StorageHand /\ Seeds = {}
    BY <1>3, TaskContext DEF StorageHand
  <2>2. \A v \in Worker \ {w} : Own(v)' = Own(v)
    BY <1>3, OthersKeep DEF OwnerInv, TypeInv
  <2>3. Owned \subseteq Own(w) \cup (UNION {Own(v)' : v \in Worker})
    BY <2>2
  <2>4. Own(w)' \subseteq UNION {Own(v)' : v \in Worker}
    OBVIOUS
  <2>5. Range(queue) \cup retired \cup Own(w) \cup (seen' \ seen)
          \subseteq Range(queue') \cup retired' \cup Own(w)'
    BY <1>3, TaskLosesNothing
  <2>6. seen' \subseteq Range(queue') \cup retired' \cup StorageHand'
                         \cup (UNION {Own(v)' : v \in Worker})
    BY <1>2, <2>1, <2>3, <2>4, <2>5
  <2> QED
    BY <2>6 DEF NoSilentLoss
<1>4. SUFFICES ASSUME UNCHANGED <<pc, cur, batch>> \/ SpawnWorkers,
                      Run \/ Signal \/ Storage \/ UNCHANGED vars
               PROVE  NoSilentLoss'
  BY <1>3, TaskFrame, NoRestart DEF Next, taskVars, vars
<1>5. Owned' = Owned
  <2>1. CASE UNCHANGED <<pc, cur, batch>>
    BY <2>1 DEF Own
  <2>2. CASE SpawnWorkers
    <3>1. \A w \in Worker : Own(w) = {} /\ Own(w)' = {}
      BY <2>2 DEF SpawnWorkers, OwnerInv, IdleBeforeSpawn, Own
    <3> QED
      BY <3>1
  <2> QED
    BY <1>4, <2>1, <2>2
<1>6. SUFFICES seen' \subseteq Range(queue') \cup retired' \cup StorageHand' \cup Owned
                                 \cup Seeds'
  BY <1>5 DEF NoSilentLoss
<1>7. CASE Storage
  <2>1. UNCHANGED <<corePc, retired>>
    BY <1>7 DEF Storage, StorageSavesDomain, StorageOffersSitemap,
      StoragePushesSitemap, StoragePushFails, coreVars, history
  <2>2. CASE StorageSavesDomain
    BY <1>2, <2>1, <2>2 DEF StorageSavesDomain, StorageHand, queueVars
  <2>3. CASE StorageOffersSitemap
    <3>1. PICK isDuplicate \in BOOLEAN :
            /\ InsertUrl(Head(sitemapsLeft), isDuplicate)
            /\ sitemapInHand' = IF isDuplicate THEN NoUrl ELSE Head(sitemapsLeft)
      BY <2>3 DEF StorageOffersSitemap
    <3>2. UNCHANGED queue /\ StorageHand = {}
      BY <2>3 DEF StorageOffersSitemap, queueVars, StorageHand
    <3>3. Head(sitemapsLeft) # NoUrl
      BY <2>3, HeadTailProperties, CoreAssumption
      DEF StorageOffersSitemap, OwnerInv, TypeInv, TypeOK, StorageTypeOK
    <3>4. seen' \subseteq seen \cup StorageHand'
      BY <3>1, <3>3 DEF InsertUrl, StorageHand
    <3> QED
      BY <1>2, <2>1, <3>2, <3>4
  <2>4. CASE StoragePushesSitemap
    <3>1. /\ StorageHand = {sitemapInHand} /\ UNCHANGED seen
          /\ queue' = queue \o <<sitemapInHand>>
      BY <2>4 DEF StoragePushesSitemap, StorageHand, PushBulk
    <3>2. <<sitemapInHand>> \in Seq(Url) /\ Range(<<sitemapInHand>>) = {sitemapInHand}
      BY <2>4, SingletonSeq
      DEF StoragePushesSitemap, OwnerInv, TypeInv, TypeOK, StorageTypeOK
    <3>3. Range(queue \o <<sitemapInHand>>)
            = Range(queue) \cup Range(<<sitemapInHand>>)
      BY <1>1, <3>2, RangeConcatenation, Zenon
    <3> QED
      BY <1>2, <2>1, <3>1, <3>2, <3>3
  <2>5. CASE StoragePushFails
    BY <1>1, <2>5 DEF StoragePushFails, PushBulkFails
  <2> QED
    BY <1>7, <2>2, <2>3, <2>4, <2>5 DEF Storage
<1>8. CASE UNCHANGED vars
  BY <1>2, <1>8 DEF vars, coreVars, history, storageVars, StorageHand
<1>9. CASE Run \/ Signal
  <2>1. UNCHANGED sitemapInHand /\ StorageHand' = StorageHand
    BY <1>9 DEF Run, Startup, StorageHand, storageVars, StartFromEmptyQueue,
      StartFromLeftovers, CleanLeftovers, PushStartUrl, InsertStartUrl,
      InsertSeed, SeedsOffered, PushSeeds, ResumeLeftovers, StartFails,
      SpawnWorkers, MonitorStops, JoinWorkers, Signal
  <2>2. Range(<<>>) = {}
    BY DEF Range
  <2>3. CASE CleanLeftovers
    BY <1>2, <2>1, <2>3 DEF CleanLeftovers
  <2>4. CASE PushStartUrl
    <3>1. /\ queue' = queue \o <<startUrl>> /\ retired' = retired \ {startUrl}
          /\ UNCHANGED seen /\ Seeds = {}
      BY <2>4 DEF PushStartUrl, PushBulk
    <3>2. <<startUrl>> \in Seq(Url) /\ Range(<<startUrl>>) = {startUrl}
      BY <2>4, SingletonSeq DEF PushStartUrl, OwnerInv, TypeInv
    <3>3. Range(queue \o <<startUrl>>) = Range(queue) \cup Range(<<startUrl>>)
      BY <1>1, <3>2, RangeConcatenation, Zenon
    <3> QED
      BY <1>2, <2>1, <3>1, <3>2, <3>3
  <2>5. CASE InsertStartUrl
    <3>1. seen' = seen \cup {startUrl} /\ UNCHANGED <<queue, retired>> /\ Seeds = {}
      BY <2>5 DEF InsertStartUrl, InsertUrl, queueVars, history
    <3>2. startUrl \in Range(queue)
      BY <2>5 DEF InsertStartUrl, OwnerInv, StartUrlQueued
    <3> QED
      BY <1>2, <2>1, <3>1, <3>2
  <2>6. CASE InsertSeed
    <3>1. /\ seen' = seen \cup {Head(seedsLeft)} /\ UNCHANGED <<queue, retired>>
          /\ Seeds = Range(SeedFile) /\ Seeds' = Range(SeedFile)
      BY <1>1, <2>6 DEF InsertSeed, InsertUrl, history
    <3>2. Head(seedsLeft) \in Range(SeedFile)
      BY <2>6, RangeTail
      DEF InsertSeed, OwnerInv, SeedsOfferedFirst, TypeInv, TypeOK, RunTypeOK
    <3> QED
      BY <1>2, <2>1, <3>1, <3>2
  <2>7. CASE SeedsOffered
    BY <1>2, <2>1, <2>2, <2>7 DEF SeedsOffered, queueVars, history
  <2>8. CASE PushSeeds
    <3>1. /\ queue' = queue \o SeedFile /\ retired' = retired \ Range(SeedFile)
          /\ UNCHANGED seen
      BY <2>8 DEF PushSeeds, PushBulk
    <3>2. Range(queue') = Range(queue) \cup Range(SeedFile)
      BY <1>1, <3>1, RangeConcatenation
    <3> QED
      BY <1>2, <2>1, <3>1, <3>2
  <2>9. CASE StartFails
    BY <1>1, <2>9 DEF StartFails, QueueLenFails, CleanQueueFails, PushBulkFails
  <2>10. CASE StartFromEmptyQueue \/ StartFromLeftovers \/ ResumeLeftovers
              \/ SpawnWorkers \/ MonitorStops \/ JoinWorkers \/ Signal
    <3>1. UNCHANGED <<queue, seen, retired>> /\ Seeds \subseteq Seeds'
      BY <2>10 DEF StartFromEmptyQueue, StartFromLeftovers, ResumeLeftovers,
        SpawnWorkers, MonitorStops, JoinWorkers, Signal, IsEmpty, IsNotEmpty,
        QueueLen, queueVars, history
    <3> QED
      BY <1>2, <2>1, <3>1
  <2> QED
    BY <1>9, <2>3, <2>4, <2>5, <2>6, <2>7, <2>8, <2>9, <2>10 DEF Run, Startup
<1> QED
  BY <1>4, <1>7, <1>8, <1>9

\* As long as no call fails and no two URLs collide in the filter, a URL the filter
\* refuses from then on is queued, in the hands of a task or of the storage, or had
\* its turn: the filter never hides a URL nobody will crawl.
THEOREM NothingLost ==
  ASSUME CleanStart, MaxFaults = 0, FalsePositives = {}
  PROVE  Spec => []NoSilentLoss
<1>1. Init => OwnerInv
  BY OwnerInit
<1>2. Init => NoSilentLoss
  BY DEF Init, NoSilentLoss
<1>3. OwnerInv /\ [Next]_vars => OwnerInv'
  BY OwnerStep
<1>4. OwnerInv /\ NoSilentLoss /\ [Next]_vars => NoSilentLoss'
  BY LossStep
<1> QED
  BY <1>1, <1>2, <1>3, <1>4, PTL DEF Spec
=============================================================================
