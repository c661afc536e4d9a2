----------------------- MODULE DomainRateLimiterProofs -----------------------
(***************************************************************************)
(* The rate limiter, for every number of tasks, threads and shards, every  *)
(* Crawl-delay and any length of time: its types, and the delay between    *)
(* two downloads from a domain.                                            *)
(***************************************************************************)
EXTENDS DomainRateLimiter, TLAPS

-----------------------------------------------------------------------------
(* The type invariant, strengthened until it is inductive.                  *)

\* A task locks one shard over its sleep, that of its domain, which has an
\* entry there.  Only sitemaps are waited for.
LockInv ==
  /\ \A t \in Task : pc[t] = "sleeping" =>
       holder[ShardOf[Dom(t)]] = t /\ map[Dom(t)] # NoState
  /\ \A t \in Task : pc[t] \in {"locking", "sleeping"} /\ turn[t].op = "await" =>
       Dom(t) \in WithSitemaps
  /\ \A t \in Task : pc[t] = "sleeping" => turn[t].op = "await"
  /\ \A s \in Shard : holder[s] # NoTask =>
       pc[holder[s]] = "sleeping" /\ s = ShardOf[Dom(holder[s])]

LimiterInv == TypeOK /\ LockInv

Entry == [delay : Nat, last : Int]

\* What a call finds or makes of an entry is an entry, and not of the future.
LEMMA EntryType ==
  ASSUME TypeOK, NEW t \in Task, pc[t] = "locking", NEW delay \in Nat
  PROVE  /\ Dom(t) \in Domain /\ turn[t].stamp \in Nat
         /\ EntryOf(t, delay) \in Entry /\ EntryOf(t, delay).last <= clock
         /\ Elapsed(t, EntryOf(t, delay)) \in Nat
<1>1. turn[t] \in Turns /\ turn[t].stamp \in Nat /\ turn[t].stamp <= clock
  BY DEF TypeOK, Turns
<1>2. Dom(t) \in Domain
  BY DEF TypeOK, Dom
<1>3. map[Dom(t)] \in Entry \cup {NoState}
  BY <1>2 DEF TypeOK, Entry
<1>4. clock \in Nat
  BY LimiterAssumption DEF TypeOK
<1>5. EntryOf(t, delay) \in Entry
  BY <1>1, <1>3 DEF EntryOf, Entry
<1>6. EntryOf(t, delay).last <= clock
  BY <1>1, <1>2, <1>4 DEF EntryOf, TypeOK
<1>7. Elapsed(t, EntryOf(t, delay)) \in Nat
  BY <1>1, <1>5 DEF Elapsed, Entry
<1> QED
  BY <1>1, <1>2, <1>5, <1>6, <1>7

LEMMA LimiterInit == Init => LimiterInv
<1> SUFFICES ASSUME Init PROVE LimiterInv
  OBVIOUS
<1>1. NoTurn \in Turns /\ MaxClock \in Nat
  BY LimiterAssumption DEF NoTurn, Turns
<1>2. TypeOK
  <2>1. clock \in 0..MaxClock /\ map \in [Domain -> [delay : Nat, last : Int] \cup {NoState}]
    BY <1>1 DEF Init
  <2>2. /\ holder \in [Shard -> Task \cup {NoTask}] /\ known \subseteq Domain
        /\ shutdown \in BOOLEAN /\ pc \in [Task -> Pcs] /\ turn \in [Task -> Turns]
        /\ downloads = {}
    BY <1>1, LimiterAssumption DEF Init, Pcs
  <2>3. \A t \in Task : turn[t].stamp <= clock /\ turn[t].grantedAt <= clock
    BY DEF Init, NoTurn
  <2>4. \A t \in Task : pc[t] = "top" /\ ~ \E s \in Shard : holder[s] = t
    BY LimiterAssumption DEF Init
  <2>5. \A d \in Domain : map[d] = NoState
    BY DEF Init
  <2> QED
    BY <2>1, <2>2, <2>3, <2>4, <2>5 DEF TypeOK
<1>3. LockInv
  BY DEF Init, LockInv
<1> QED
  BY <1>2, <1>3 DEF LimiterInv

\* A step of one task leaves the others where they are.
LEMMA OtherTasks ==
  ASSUME LimiterInv, NEW t \in Task, Turn(t)
  PROVE  /\ UNCHANGED <<clock, shutdown>>
         /\ pc' \in [Task -> Pcs] /\ turn' \in [Task -> Turns]
         /\ \A u \in Task \ {t} : pc'[u] = pc[u] /\ turn'[u] = turn[u]
         /\ turn'[t].stamp <= clock /\ turn'[t].grantedAt <= clock
<1> USE DEF LimiterInv, TypeOK
<1>1. NoTurn \in Turns /\ clock \in Nat
  BY LimiterAssumption DEF NoTurn, Turns
<1>2. turn[t] \in Turns /\ pc[t] \in Pcs
  OBVIOUS
<1>3. UNCHANGED <<clock, shutdown>>
  BY DEF Turn, PopUrl, LookAtShutdown, TryAcquire, FetchPage, FetchSitemap,
    Discover, GiveUp, UpdateDelay, Publish, AwaitAcquiring, AwaitNothing, WakeUp
<1>4. \E label \in Pcs : pc' = [pc EXCEPT ![t] = label]
  BY Zenon DEF Turn, PopUrl, LookAtShutdown, TryAcquire, FetchPage, FetchSitemap,
    Discover, GiveUp, UpdateDelay, Publish, AwaitAcquiring, AwaitNothing, WakeUp,
    Call, Goto, Grant, TurnOver, Pcs
<1> DEFINE Locals(r) == /\ turn' = [turn EXCEPT ![t] = r]
                        /\ r.stamp <= clock /\ r.grantedAt <= clock
<1>5. \E r \in Turns : Locals(r)
  <2>1. CASE UNCHANGED turn
    BY <1>2, <2>1
  <2>2. CASE TurnOver(t)
    <3>1. NoTurn.stamp <= clock /\ NoTurn.grantedAt <= clock
      BY <1>1 DEF NoTurn
    <3> QED
      BY <1>1, <2>2, <3>1 DEF TurnOver
  <2>3. ASSUME NEW name \in {"try", "await", "update"}, NEW d \in Domain, Call(t, name, d)
        PROVE  \E r \in Turns : Locals(r)
    <3> DEFINE r == [turn[t] EXCEPT !.op = name, !.dom = d, !.stamp = clock]
    <3>1. r \in Turns
      BY <1>1, <1>2 DEF Turns
    <3>2. r.stamp = clock /\ r.grantedAt = turn[t].grantedAt
      BY <1>2 DEF Turns
    <3>3. turn' = [turn EXCEPT ![t] = r]
      BY <2>3 DEF Call
    <3>4. clock <= clock /\ turn[t].grantedAt <= clock
      BY <1>1
    <3> HIDE DEF r
    <3> QED
      BY <3>1, <3>2, <3>3, <3>4
  <2>4. CASE TryAcquire(t)
    <3> DEFINE n == EntryOf(t, DefaultDelay).delay
               r == [turn[t] EXCEPT !.grantedAt = turn[t].stamp, !.delay = n]
    <3>1. n \in Nat
      BY <2>4, EntryType, LimiterAssumption DEF TryAcquire, Locks, Entry
    <3>2. r \in Turns /\ r.stamp = turn[t].stamp /\ r.grantedAt = turn[t].stamp
      <4> HIDE DEF n
      <4> QED
        BY <1>1, <1>2, <3>1 DEF Turns
    <3>3. CASE Grant(t, EntryOf(t, DefaultDelay))
      <4>1. turn' = [turn EXCEPT ![t] = r]
        BY <3>3 DEF Grant
      <4> HIDE DEF r
      <4> QED
        BY <1>2, <3>2, <4>1
    <3> QED
      BY <2>2, <2>4, <3>3 DEF TryAcquire
  <2>5. CASE AwaitAcquiring(t)
    <3> DEFINE e == Elapsed(t, EntryOf(t, DefaultDelay))
               r == [turn[t] EXCEPT !.wakeAt = clock + e]
    <3>1. e \in Nat
      BY <2>5, EntryType, LimiterAssumption DEF AwaitAcquiring, Locks
    <3>2. r \in Turns /\ r.stamp <= clock /\ r.grantedAt <= clock
      BY <1>1, <1>2, <3>1 DEF Turns
    <3>3. turn' = [turn EXCEPT ![t] = r]
      BY <2>5 DEF AwaitAcquiring
    <3> QED
      BY <3>2, <3>3
  <2>6. pc[t] = "granted" => Dom(t) \in Domain
    BY DEF Dom
  <2> QED
    BY <2>1, <2>2, <2>3, <2>4, <2>5, <2>6
    DEF Turn, PopUrl, LookAtShutdown, FetchPage, FetchSitemap,
      Discover, GiveUp, UpdateDelay, Publish, AwaitNothing, WakeUp
<1> QED
  BY <1>3, <1>4, <1>5

\* A task writes at most the entry of its domain, and what it writes is one.
LEMMA EntryWritten ==
  ASSUME LimiterInv, NEW t \in Task, Turn(t)
  PROVE  \/ UNCHANGED map
         \/ /\ Dom(t) \in Domain
            /\ \E e \in Entry : e.last <= clock /\ map' = [map EXCEPT ![Dom(t)] = e]
<1> USE DEF LimiterInv
<1>1. DefaultDelay \in Nat /\ \A d \in Domain : CrawlDelay[d] \in Nat
  BY LimiterAssumption
<1>2. turn[t].stamp \in Nat /\ turn[t].stamp <= clock
  BY DEF TypeOK, Turns
<1>3. \A e \in Entry : /\ [e EXCEPT !.last = turn[t].stamp] \in Entry
                       /\ [e EXCEPT !.last = turn[t].stamp].last = turn[t].stamp
  BY <1>2 DEF Entry
<1>4. \A e \in Entry, n \in Nat : /\ [e EXCEPT !.delay = n] \in Entry
                                  /\ [e EXCEPT !.delay = n].last = e.last
  BY DEF Entry
<1>5. ASSUME pc[t] = "locking", NEW delay \in Nat
      PROVE  /\ Dom(t) \in Domain
             /\ EntryOf(t, delay) \in Entry /\ EntryOf(t, delay).last <= clock
  BY <1>5, EntryType
<1>6. CASE TryAcquire(t) \/ AwaitAcquiring(t) \/ AwaitNothing(t)
  <2> DEFINE e == EntryOf(t, DefaultDelay)
  <2>1. pc[t] = "locking"
    BY <1>6 DEF TryAcquire, AwaitAcquiring, AwaitNothing, Locks
  <2>2. e \in Entry /\ e.last <= clock /\ Dom(t) \in Domain
    BY <1>1, <1>5, <2>1
  <2>3. \/ map' = [map EXCEPT ![Dom(t)] = e]
        \/ map' = [map EXCEPT ![Dom(t)] = [e EXCEPT !.last = turn[t].stamp]]
    BY <1>6 DEF TryAcquire, AwaitAcquiring, AwaitNothing, SetEntry
  <2> HIDE DEF e
  <2> QED
    BY <1>2, <1>3, <2>2, <2>3
<1>7. CASE UpdateDelay(t)
  <2> DEFINE e == EntryOf(t, CrawlDelay[Dom(t)])
  <2>1. pc[t] = "locking" /\ map' = [map EXCEPT ![Dom(t)] =
                                       [e EXCEPT !.delay = CrawlDelay[Dom(t)]]]
    BY <1>7 DEF UpdateDelay, Locks, SetEntry
  <2>2. Dom(t) \in Domain /\ CrawlDelay[Dom(t)] \in Nat
    BY <1>1, <1>5, <2>1
  <2>3. e \in Entry /\ e.last <= clock
    BY <1>5, <2>1, <2>2
  <2> HIDE DEF e
  <2> QED
    BY <1>4, <2>1, <2>2, <2>3
<1>8. CASE WakeUp(t)
  <2> DEFINE e == map[Dom(t)]
  <2>1. pc[t] = "sleeping" /\ map' = [map EXCEPT ![Dom(t)] =
                                        [e EXCEPT !.last = turn[t].stamp]]
    BY <1>8 DEF WakeUp, SetEntry
  <2>2. Dom(t) \in Domain /\ e \in Entry
    BY <2>1 DEF TypeOK, LockInv, Dom, Entry
  <2> HIDE DEF e
  <2> QED
    BY <1>2, <1>3, <2>1, <2>2
<1> QED
  BY <1>6, <1>7, <1>8 DEF Turn, PopUrl, LookAtShutdown, FetchPage, FetchSitemap,
    Discover, GiveUp, Publish

LEMMA TurnKeepsInv ==
  ASSUME LimiterInv, NEW t \in Task, Turn(t)
  PROVE  LimiterInv'
<1> USE DEF LimiterInv
<1>1. clock \in 0..MaxClock /\ MaxClock \in Nat /\ clock \in Nat
  BY LimiterAssumption DEF TypeOK
<1>2. turn[t] \in Turns
  BY DEF TypeOK
<1>3. /\ UNCHANGED <<clock, shutdown>>
      /\ pc' \in [Task -> Pcs] /\ turn' \in [Task -> Turns]
      /\ \A u \in Task \ {t} : pc'[u] = pc[u] /\ turn'[u] = turn[u]
      /\ turn'[t].stamp <= clock /\ turn'[t].grantedAt <= clock
  BY OtherTasks
<1>4. /\ map' \in [Domain -> [delay : Nat, last : Int] \cup {NoState}]
      /\ \A d \in Domain : map[d] # NoState => map'[d] # NoState
      /\ \A d \in Domain : map'[d] # NoState => map'[d].last <= clock
      /\ pc[t] = "locking" /\ pc'[t] = "sleeping" => map'[Dom(t)] # NoState
  <2>1. NoState \notin Entry /\ map \in [Domain -> Entry \cup {NoState}]
    BY LimiterAssumption DEF Entry, TypeOK
  <2>2. \A d \in Domain : map[d] # NoState => map[d].last <= clock
    BY DEF TypeOK
  <2>3. CASE UNCHANGED map
    <3>1. ~(pc[t] = "locking" /\ pc'[t] = "sleeping") \/ map'[Dom(t)] # NoState
      <4>1. CASE AwaitAcquiring(t)
        <5>1. /\ Dom(t) \in Domain /\ EntryOf(t, DefaultDelay) \in Entry
          BY <4>1, EntryType, LimiterAssumption DEF AwaitAcquiring, Locks
        <5> QED
          BY <2>1, <4>1, <5>1 DEF AwaitAcquiring, SetEntry
      <4>2. CASE ~AwaitAcquiring(t)
        BY <4>2 DEF Turn, PopUrl, LookAtShutdown, TryAcquire, FetchPage, FetchSitemap,
          Discover, GiveUp, UpdateDelay, Publish, AwaitNothing, WakeUp, Call, Goto,
          Grant, TurnOver, TypeOK
      <4> QED
        BY <4>1, <4>2
    <3> QED
      BY <2>1, <2>2, <2>3, <3>1 DEF Entry
  <2>4. CASE \E e \in Entry : /\ Dom(t) \in Domain /\ e.last <= clock
                              /\ map' = [map EXCEPT ![Dom(t)] = e]
    BY <2>1, <2>2, <2>4 DEF Entry
  <2> QED
    BY <2>3, <2>4, EntryWritten
<1>5. /\ known' \subseteq Domain
      /\ downloads' \subseteq [domain : Domain, at : 0..clock, delay : Nat, by : Task]
  <2>1. pc[t] \notin {"top", "exited"} => Dom(t) \in Domain
    BY DEF TypeOK, Dom
  <2>2. turn[t].grantedAt \in 0..clock /\ turn[t].delay \in Nat
    BY <1>1, <1>2 DEF TypeOK, Turns
  <2>3. pc[t] \notin {"top", "exited"} =>
          [domain |-> Dom(t), at |-> turn[t].grantedAt, delay |-> turn[t].delay,
           by |-> t] \in [domain : Domain, at : 0..clock, delay : Nat, by : Task]
    BY <2>1, <2>2
  <2> QED
    BY <2>1, <2>3 DEF TypeOK, Turn, PopUrl, LookAtShutdown, TryAcquire, FetchPage,
      FetchSitemap, Discover, GiveUp, UpdateDelay, Publish, AwaitAcquiring,
      AwaitNothing, WakeUp, Locks, Download
<1>6. /\ pc'[t] \notin {"top", "exited"} => turn'[t].dom \in Domain
      /\ pc'[t] = "locking" /\ turn'[t].op = "await" => turn'[t].dom \in WithSitemaps
      /\ pc'[t] = "sleeping" =>
           turn'[t].op = "await" /\ turn'[t].dom = turn[t].dom
             /\ turn[t].dom \in WithSitemaps
  <2>1. pc[t] \notin {"top", "exited"} => turn[t].dom \in Domain
    BY DEF TypeOK
  <2>2. ASSUME NEW name, NEW d, Call(t, name, d)
        PROVE  pc'[t] = "locking" /\ turn'[t].op = name /\ turn'[t].dom = d
    BY <1>2, <2>2 DEF Call, Goto, TypeOK, Turns
  <2>3. CASE TurnOver(t)
    BY <2>3 DEF TurnOver, Goto, TypeOK
  <2>4. CASE PopUrl(t) \/ FetchSitemap(t) \/ Discover(t)
    BY <2>1, <2>2, <2>4 DEF PopUrl, FetchSitemap, Discover, Dom
  <2>5. CASE TryAcquire(t)
    <3>1. CASE Grant(t, EntryOf(t, DefaultDelay))
      BY <1>2, <2>1, <2>5, <3>1 DEF Grant, Goto, TypeOK, Turns, TryAcquire, Locks
    <3> QED
      BY <2>3, <2>5, <3>1 DEF TryAcquire
  <2>6. CASE AwaitAcquiring(t)
    BY <1>2, <2>1, <2>6 DEF AwaitAcquiring, Goto, TypeOK, Turns, Locks, LockInv, Dom
  <2>7. CASE LookAtShutdown(t) \/ UpdateDelay(t)
    BY <2>1, <2>7 DEF LookAtShutdown, UpdateDelay, Goto, TypeOK, Locks
  <2> QED
    BY <2>3, <2>4, <2>5, <2>6, <2>7 DEF Turn, FetchPage, GiveUp, Publish,
      AwaitNothing, WakeUp
<1>7. /\ holder' \in [Shard -> Task \cup {NoTask}]
      /\ \A u \in Task : pc'[u] = "sleeping" => holder'[ShardOf[turn'[u].dom]] = u
      /\ \A s \in Shard : holder'[s] # NoTask =>
           pc'[holder'[s]] = "sleeping" /\ s = ShardOf[turn'[holder'[s]].dom]
  <2>1. NoTask \notin Task /\ \A d \in Domain : ShardOf[d] \in Shard
    BY LimiterAssumption
  <2>2. /\ holder \in [Shard -> Task \cup {NoTask}]
        /\ \A u \in Task : pc[u] = "sleeping" => /\ holder[ShardOf[turn[u].dom]] = u
                                                 /\ turn[u].dom \in Domain
        /\ \A s \in Shard : holder[s] # NoTask =>
             pc[holder[s]] = "sleeping" /\ s = ShardOf[turn[holder[s]].dom]
    BY DEF TypeOK, LockInv, Dom
  <2>3. CASE AwaitAcquiring(t)
    <3>1. /\ pc[t] = "locking" /\ pc'[t] = "sleeping" /\ turn[t].dom \in Domain
          /\ holder[ShardOf[turn[t].dom]] = NoTask
          /\ holder' = [holder EXCEPT ![ShardOf[turn[t].dom]] = t]
      BY <2>3 DEF AwaitAcquiring, Locks, Goto, Dom, TypeOK
    <3> QED
      BY <1>3, <1>6, <2>1, <2>2, <3>1
  <2>4. CASE WakeUp(t)
    <3>1. /\ pc[t] = "sleeping" /\ pc'[t] = "top"
          /\ holder' = [holder EXCEPT ![ShardOf[turn[t].dom]] = NoTask]
      BY <2>4 DEF WakeUp, TurnOver, Goto, Dom, TypeOK
    <3> QED
      BY <1>3, <2>1, <2>2, <3>1
  <2>5. CASE ~AwaitAcquiring(t) /\ ~WakeUp(t)
    <3>1. UNCHANGED holder /\ pc[t] # "sleeping" /\ pc'[t] # "sleeping"
      BY <2>5 DEF Turn, PopUrl, LookAtShutdown, TryAcquire, FetchPage, FetchSitemap,
        Discover, GiveUp, UpdateDelay, Publish, AwaitNothing, Locks, Call, Goto,
        Grant, TurnOver, TypeOK
    <3> QED
      BY <1>3, <2>2, <3>1
  <2> QED
    BY <2>3, <2>4, <2>5
<1>8. \A u \in Task : pc'[u] = "sleeping" =>
                        turn'[u].dom \in Domain /\ map'[turn'[u].dom] # NoState
  <2>1. pc'[t] = "sleeping" => pc[t] = "locking"
    BY DEF Turn, PopUrl, LookAtShutdown, TryAcquire, FetchPage, FetchSitemap,
      Discover, GiveUp, UpdateDelay, Publish, AwaitAcquiring, AwaitNothing, WakeUp,
      Locks, Call, Goto, Grant, TurnOver, TypeOK
  <2>2. \A u \in Task : pc[u] = "sleeping" =>
                          turn[u].dom \in Domain /\ map[turn[u].dom] # NoState
    BY DEF TypeOK, LockInv, Dom
  <2> QED
    BY <1>3, <1>4, <1>6, <2>1, <2>2 DEF Dom
<1>9. \A u \in Task :
        /\ turn'[u].stamp <= clock' /\ turn'[u].grantedAt <= clock'
        /\ pc'[u] \notin {"top", "exited"} => turn'[u].dom \in Domain
        /\ pc'[u] \in {"locking", "sleeping"} /\ turn'[u].op = "await" =>
             turn'[u].dom \in WithSitemaps
        /\ pc'[u] = "sleeping" => turn'[u].op = "await"
  <2>1. \A u \in Task \ {t} :
          /\ turn'[u].stamp <= clock' /\ turn'[u].grantedAt <= clock'
          /\ pc'[u] \notin {"top", "exited"} => turn'[u].dom \in Domain
          /\ pc'[u] \in {"locking", "sleeping"} /\ turn'[u].op = "await" =>
               turn'[u].dom \in WithSitemaps
          /\ pc'[u] = "sleeping" => turn'[u].op = "await"
    BY <1>3 DEF TypeOK, LockInv, Dom
  <2> QED
    BY <1>3, <1>6, <2>1
<1>10. \A u \in Task : pc'[u] = "sleeping" <=> \E s \in Shard : holder'[s] = u
  BY <1>7, <1>8, LimiterAssumption
<1>11. TypeOK'
  <2>1. /\ clock' \in 0..MaxClock
        /\ downloads' \subseteq [domain : Domain, at : 0..clock', delay : Nat, by : Task]
    BY <1>1, <1>3, <1>5
  <2>2. shutdown' \in BOOLEAN
    BY <1>3 DEF TypeOK
  <2>3. \A d \in Domain : map'[d] # NoState => map'[d].last <= clock'
    BY <1>3, <1>4
  <2> QED
    BY <1>3, <1>4, <1>5, <1>7, <1>9, <1>10, <2>1, <2>2, <2>3 DEF TypeOK
<1>12. LockInv'
  BY <1>7, <1>8, <1>9 DEF LockInv, Dom
<1> QED
  BY <1>11, <1>12

LEMMA LimiterStep == LimiterInv /\ [Next]_vars => LimiterInv'
<1> SUFFICES ASSUME LimiterInv, [Next]_vars PROVE LimiterInv'
  OBVIOUS
<1>1. CASE Tick
  <2>1. MaxClock \in Nat /\ clock \in Nat /\ clock' = clock + 1 /\ clock' \in 0..MaxClock
    BY <1>1, LimiterAssumption DEF Tick, LimiterInv, TypeOK
  <2>2. /\ \A t \in Task : /\ turn[t].stamp \in Nat /\ turn[t].grantedAt \in Nat
                           /\ turn[t].stamp <= clock /\ turn[t].grantedAt <= clock
        /\ \A d \in Domain : map[d] # NoState => map[d].last \in Int /\ map[d].last <= clock
        /\ downloads \subseteq [domain : Domain, at : 0..clock, delay : Nat, by : Task]
    BY DEF LimiterInv, TypeOK, Turns
  <2>3. [domain : Domain, at : 0..clock, delay : Nat, by : Task]
          \subseteq [domain : Domain, at : 0..(clock + 1), delay : Nat, by : Task]
    BY <2>1
  <2>4. UNCHANGED <<map, holder, known, shutdown, pc, turn, downloads>>
    BY <1>1 DEF Tick
  <2>5. TypeOK'
    BY <2>1, <2>2, <2>3, <2>4 DEF LimiterInv, TypeOK
  <2> QED
    BY <2>4, <2>5 DEF LimiterInv, LockInv, Dom
<1>2. CASE Signal \/ UNCHANGED vars
  <2>1. UNCHANGED <<clock, map, holder, known, pc, turn, downloads>>
    BY <1>2 DEF Signal, vars
  <2>2. shutdown' \in BOOLEAN
    BY <1>2 DEF Signal, vars, LimiterInv, TypeOK
  <2> QED
    BY <2>1, <2>2 DEF LimiterInv, TypeOK, LockInv, Dom
<1> QED
  BY <1>1, <1>2, TurnKeepsInv DEF Next

\* However the tasks, the threads and the clock interleave: a lock is kept over a
\* sleep by the task that sleeps and nobody else, and no access is remembered with
\* a time that has not come yet.
THEOREM LimiterTypeCorrect == Spec => []TypeOK
<1>1. LimiterInv => TypeOK
  BY DEF LimiterInv
<1> QED
  BY <1>1, LimiterInit, LimiterStep, PTL DEF Spec

-----------------------------------------------------------------------------
(* The delay between downloads.                                             *)

GrantOf(t) == [domain |-> Dom(t), at |-> turn[t].grantedAt,
               delay |-> turn[t].delay, by |-> t]

\* The downloads, and those that tasks have been granted.
Promised == downloads \cup {GrantOf(t) : t \in {u \in Task : pc[u] = "granted"}}

Grants == [domain : Domain, at : Nat, delay : Nat, by : Task]

\* One of x and y keeps its delay from the other, where a delay is kept at all.
Apart(x, y) ==
  x.domain = y.domain /\ x.domain \notin WithSitemaps => Keeps(x, y) \/ Keeps(y, x)

\* The entry of a domain has the default delay or its Crawl-delay and, as long as
\* that is not 0, remembers the last time anything was promised: so whoever is
\* granted next keeps the delay from all that was promised before, downloaded or
\* not.  A delay that has become 0 stays 0, since the default is not.
DelayInv ==
  /\ LimiterInv
  /\ \A d \in Domain : map[d] # NoState => map[d].delay \in {DefaultDelay, CrawlDelay[d]}
  /\ \A x \in Promised : x.domain \notin WithSitemaps =>
       /\ map[x.domain] # NoState
       /\ map[x.domain].delay > 0 => x.at <= map[x.domain].last
  /\ \A x, y \in Promised : x # y => Apart(x, y)

LEMMA PromisedType ==
  ASSUME LimiterInv
  PROVE  Promised \subseteq Grants
<1>1. clock \in Nat /\ 0..clock \subseteq Nat
  BY LimiterAssumption DEF LimiterInv, TypeOK
<1>2. downloads \subseteq Grants
  BY <1>1 DEF LimiterInv, TypeOK, Grants
<1>3. ASSUME NEW t \in Task, pc[t] = "granted"
      PROVE  GrantOf(t) \in Grants
  <2>1. Dom(t) \in Domain /\ turn[t].grantedAt \in Nat /\ turn[t].delay \in Nat
    BY <1>3 DEF LimiterInv, TypeOK, Turns, Dom
  <2> QED
    BY <2>1 DEF GrantOf, Grants
<1> QED
  BY <1>2, <1>3 DEF Promised

\* Without sitemaps no step forgets an entry; none gives it a delay after it had
\* none, or sets its last access back while it has one.
LEMMA EntriesKeepDelay ==
  ASSUME DelayInv, NEW t \in Task, Turn(t), NEW d \in Domain
  PROVE  /\ map'[d] # NoState => map'[d].delay \in {DefaultDelay, CrawlDelay[d]}
         /\ d \notin WithSitemaps /\ map[d] # NoState =>
              /\ map'[d] # NoState
              /\ map'[d].delay > 0 => map[d].delay > 0 /\ map'[d].last >= map[d].last
<1>1. CrawlDelay[d] \in Nat /\ DefaultDelay \in Nat /\ DefaultDelay > 0
  BY LimiterAssumption
<1>2. /\ map \in [Domain -> Entry \cup {NoState}] /\ NoState \notin Entry
      /\ map[d] # NoState =>
           map[d] \in Entry /\ map[d].delay \in {DefaultDelay, CrawlDelay[d]}
      /\ turn[t].stamp \in Nat
  BY LimiterAssumption DEF DelayInv, LimiterInv, TypeOK, Turns, Entry
<1>3. ASSUME NEW delay \in {DefaultDelay, CrawlDelay[d]}, pc[t] = "locking", Dom(t) = d
      PROVE  /\ EntryOf(t, delay) \in Entry
             /\ EntryOf(t, delay).delay \in {DefaultDelay, CrawlDelay[d]}
             /\ map[d] # NoState => EntryOf(t, delay) = map[d]
  <2>1. EntryOf(t, delay) \in Entry
    BY <1>1, <1>3, EntryType DEF DelayInv, LimiterInv
  <2> QED
    BY <1>2, <1>3, <2>1 DEF EntryOf
<1>4. \A e \in Entry, n \in Nat :
        /\ [e EXCEPT !.last = turn[t].stamp] \in Entry
        /\ [e EXCEPT !.last = turn[t].stamp].last = turn[t].stamp
        /\ [e EXCEPT !.last = turn[t].stamp].delay = e.delay
        /\ [e EXCEPT !.delay = n] \in Entry
        /\ [e EXCEPT !.delay = n].last = e.last
        /\ [e EXCEPT !.delay = n].delay = n
  BY <1>2 DEF Entry
<1>5. \A e \in Entry : e.last \in Int /\ e.delay \in Nat
  BY DEF Entry
<1>6. CASE UNCHANGED map \/ map'[d] = map[d]
  BY <1>2, <1>5, <1>6
<1>7. CASE pc[t] = "locking" /\ Dom(t) = d /\ (TryAcquire(t) \/ AwaitAcquiring(t) \/ AwaitNothing(t))
  <2> DEFINE e == EntryOf(t, DefaultDelay)
             f == [e EXCEPT !.last = turn[t].stamp]
  <2>1. /\ e \in Entry /\ e.delay \in {DefaultDelay, CrawlDelay[d]}
        /\ map[d] # NoState => e = map[d]
    BY <1>3, <1>7
  <2>2. f \in Entry /\ f.last = turn[t].stamp /\ f.delay = e.delay
    BY <1>4, <2>1
  <2>3. \/ map'[d] = e
        \/ map'[d] = f /\ (Elapsed(t, e) >= e.delay \/ d \in WithSitemaps)
    BY <1>2, <1>7
    DEF TryAcquire, AwaitAcquiring, AwaitNothing, SetEntry, Locks, DelayInv,
      LimiterInv, LockInv
  <2>4. Elapsed(t, e) >= e.delay /\ e.delay > 0 => turn[t].stamp >= e.last
    BY <1>2, <1>5, <2>1 DEF Elapsed
  <2> HIDE DEF e, f
  <2>5. CASE map'[d] = e
    BY <1>2, <1>5, <2>1, <2>5
  <2>6. CASE map'[d] = f /\ (Elapsed(t, e) >= e.delay \/ d \in WithSitemaps)
    BY <1>2, <1>5, <2>1, <2>2, <2>4, <2>6
  <2> QED
    BY <2>3, <2>5, <2>6
<1>8. CASE UpdateDelay(t) /\ Dom(t) = d
  <2> DEFINE e == EntryOf(t, CrawlDelay[d])
             f == [e EXCEPT !.delay = CrawlDelay[d]]
  <2>1. e \in Entry /\ (map[d] # NoState => e = map[d])
    BY <1>3, <1>8 DEF UpdateDelay, Locks
  <2>2. map'[d] = f
    BY <1>2, <1>8 DEF UpdateDelay, SetEntry
  <2>3. f \in Entry /\ f.last = e.last /\ f.delay = CrawlDelay[d]
    BY <1>1, <1>4, <2>1
  <2> HIDE DEF e, f
  <2> QED
    BY <1>1, <1>2, <1>5, <2>1, <2>2, <2>3
<1>9. CASE WakeUp(t) /\ Dom(t) = d
  <2>1. map[d] # NoState /\ d \in WithSitemaps
    BY <1>9 DEF WakeUp, DelayInv, LimiterInv, LockInv
  <2>2. map'[d] = [map[d] EXCEPT !.last = turn[t].stamp]
    BY <1>2, <1>9 DEF WakeUp, SetEntry
  <2> QED
    BY <1>2, <1>4, <2>1, <2>2
<1>10. CASE Dom(t) # d
  <2>1. map'[d] = map[d]
    BY <1>2, <1>10, EntryWritten DEF DelayInv
  <2> QED
    BY <1>6, <2>1
<1> QED
  BY <1>6, <1>7, <1>8, <1>9, <1>10 DEF Turn, PopUrl, LookAtShutdown, TryAcquire,
    FetchPage, FetchSitemap, Discover, GiveUp, Publish, AwaitAcquiring,
    AwaitNothing, Locks

\* A step promises at most one download, a delay after all the others, and the
\* entry of its domain remembers it.
LEMMA OnePromise ==
  ASSUME DelayInv, NEW t \in Task, Turn(t)
  PROVE  \/ Promised' \subseteq Promised
         \/ \E g \in Grants :
              /\ Promised' \subseteq Promised \cup {g}
              /\ g.domain \notin WithSitemaps =>
                   /\ map'[g.domain] # NoState
                   /\ map'[g.domain].delay > 0 => g.at <= map'[g.domain].last
              /\ \A x \in Promised : Apart(g, x)
<1>1. /\ pc[t] \notin {"top", "exited"} => Dom(t) \in Domain
      /\ turn[t].grantedAt \in Nat /\ turn[t].stamp \in Nat /\ turn[t].delay \in Nat
  BY DEF DelayInv, LimiterInv, TypeOK, Turns, Dom
<1>2. /\ pc' \in [Task -> Pcs] /\ turn' \in [Task -> Turns]
      /\ \A u \in Task \ {t} : pc'[u] = pc[u] /\ turn'[u] = turn[u]
  BY OtherTasks DEF DelayInv
<1>3. \A u \in Task \ {t} : GrantOf(u)' = GrantOf(u)
  BY <1>2 DEF GrantOf, Dom
<1>4. Promised' \subseteq Promised \cup (downloads' \ downloads)
                           \cup {GrantOf(u)' : u \in {v \in {t} : pc'[v] = "granted"}}
  BY <1>2, <1>3 DEF Promised
<1>5. CASE FetchPage(t)
  <2>1. pc[t] = "granted" /\ pc'[t] = "top"
    BY <1>5 DEF FetchPage, TurnOver, Goto, DelayInv, LimiterInv, TypeOK
  <2>2. downloads' = downloads \cup {GrantOf(t)}
    BY <1>5 DEF FetchPage, Download, GrantOf
  <2> QED
    BY <1>4, <2>1, <2>2 DEF Promised
<1>6. CASE AwaitNothing(t) \/ WakeUp(t)
  <2>1. pc'[t] = "top" /\ Dom(t) \in WithSitemaps /\ pc[t] \notin {"top", "exited"}
    BY <1>6 DEF AwaitNothing, WakeUp, TurnOver, Goto, Locks, DelayInv, LimiterInv,
      LockInv, TypeOK
  <2>2. downloads' = downloads \cup {GrantOf(t)}
    BY <1>6 DEF AwaitNothing, WakeUp, Download, GrantOf
  <2>3. GrantOf(t) \in Grants /\ GrantOf(t).domain = Dom(t)
    BY <1>1, <2>1 DEF GrantOf, Grants
  <2>4. Promised' \subseteq Promised \cup {GrantOf(t)}
    BY <1>4, <2>1, <2>2
  <2> QED
    BY <2>1, <2>3, <2>4 DEF Apart
<1>7. CASE TryAcquire(t) /\ pc'[t] = "granted"
  <2> DEFINE e == EntryOf(t, DefaultDelay)
             f == [e EXCEPT !.last = turn[t].stamp]
             d == Dom(t)
             g == [domain |-> d, at |-> turn[t].stamp, delay |-> e.delay, by |-> t]
  <2>1. pc[t] = "locking" /\ d \in Domain
    BY <1>1, <1>7 DEF TryAcquire, Locks
  <2>2. e \in Entry /\ e.delay \in Nat /\ e.last \in Int
    BY <2>1, EntryType, LimiterAssumption DEF DelayInv, LimiterInv, Entry
  <2>3. /\ Elapsed(t, e) >= e.delay
        /\ map' = [map EXCEPT ![d] = f]
        /\ turn' = [turn EXCEPT ![t].grantedAt = turn[t].stamp, ![t].delay = e.delay]
    BY <1>7 DEF TryAcquire, SetEntry, Grant, TurnOver, Goto, DelayInv, LimiterInv, TypeOK
  <2>4. f \in Entry /\ f.last = turn[t].stamp
    <3> HIDE DEF e
    <3> QED
      BY <1>1, <2>2 DEF Entry
  <2>5. GrantOf(t)' = g
    <3>1. /\ turn'[t].grantedAt = turn[t].stamp /\ turn'[t].dom = turn[t].dom
          /\ turn'[t].delay = e.delay
      <4> HIDE DEF e
      <4> QED
        BY <2>3 DEF DelayInv, LimiterInv, TypeOK, Turns
    <3> HIDE DEF e
    <3> QED
      BY <3>1 DEF GrantOf, Dom
  <2>6. UNCHANGED downloads
    BY <1>7 DEF TryAcquire
  <2>7. Promised' \subseteq Promised \cup {g}
    <3> HIDE DEF g
    <3> QED
      BY <1>4, <2>5, <2>6
  <2>8. map'[d] # NoState /\ map'[d].last = turn[t].stamp
    <3>1. NoState \notin Entry /\ map \in [Domain -> Entry \cup {NoState}]
      BY LimiterAssumption DEF Entry, DelayInv, LimiterInv, TypeOK
    <3> HIDE DEF f, d
    <3> QED
      BY <2>1, <2>3, <2>4, <3>1
  <2>9. ASSUME NEW x \in Promised, x.domain = d, d \notin WithSitemaps, e.delay > 0
        PROVE  turn[t].stamp - x.at >= e.delay
    <3>1. map[d] # NoState /\ (map[d].delay > 0 => x.at <= map[d].last)
      BY <2>1, <2>9 DEF DelayInv
    <3>2. e = map[d]
      BY <3>1 DEF EntryOf
    <3>3. x.at \in Nat
      BY <2>9, PromisedType DEF DelayInv, Grants
    <3>4. turn[t].stamp >= e.last /\ Elapsed(t, e) = turn[t].stamp - e.last
      <4> SUFFICES turn[t].stamp >= e.last
        BY DEF Elapsed
      <4> QED
        BY <1>1, <2>2, <2>3, <2>9 DEF Elapsed
    <3> HIDE DEF e, d
    <3> QED
      BY <1>1, <2>2, <2>3, <2>9, <3>1, <3>2, <3>3, <3>4
  <2>10. g \in Grants /\ g.domain = d /\ g.at = turn[t].stamp /\ g.delay = e.delay
    <3> HIDE DEF e
    <3> QED
      BY <1>1, <2>1, <2>2 DEF Grants
  <2> HIDE DEF e, f, d, g
  <2>11. \A x \in Promised : Apart(g, x)
    BY <2>2, <2>9, <2>10 DEF Apart, Keeps
  <2>12. turn[t].stamp <= turn[t].stamp
    BY <1>1
  <2> QED
    BY <2>7, <2>8, <2>10, <2>11, <2>12
<1>8. CASE ~(FetchPage(t) \/ AwaitNothing(t) \/ WakeUp(t))
            /\ ~(TryAcquire(t) /\ pc'[t] = "granted")
  <2>1. UNCHANGED downloads /\ pc'[t] # "granted"
    BY <1>8 DEF Turn, PopUrl, LookAtShutdown, TryAcquire, FetchSitemap, Discover,
      GiveUp, UpdateDelay, Publish, AwaitAcquiring, Call, TurnOver, Goto, DelayInv,
      LimiterInv, TypeOK
  <2> QED
    BY <1>4, <2>1
<1> QED
  BY <1>5, <1>6, <1>7, <1>8

LEMMA DelayStep == DelayInv /\ [Next]_vars => DelayInv'
<1> SUFFICES ASSUME DelayInv, [Next]_vars PROVE DelayInv'
  OBVIOUS
<1>1. LimiterInv'
  BY LimiterStep DEF DelayInv
<1>2. CASE Tick \/ Signal \/ UNCHANGED vars
  <2>1. UNCHANGED <<map, pc, turn, downloads>>
    BY <1>2 DEF Tick, Signal, vars
  <2>2. Promised' = Promised
    BY <2>1 DEF Promised, GrantOf, Dom
  <2> QED
    BY <1>1, <2>1, <2>2 DEF DelayInv, Apart, Keeps
<1>3. ASSUME NEW t \in Task, Turn(t) PROVE DelayInv'
  <2> DEFINE Remembers(x) ==
        x.domain \notin WithSitemaps =>
          /\ map[x.domain] # NoState
          /\ map[x.domain].delay > 0 => x.at <= map[x.domain].last
  <2>1. \A d \in Domain : map'[d] # NoState => map'[d].delay \in {DefaultDelay, CrawlDelay[d]}
    BY <1>3, EntriesKeepDelay
  <2>2. \A x \in Promised : Remembers(x)'
    <3> SUFFICES ASSUME NEW x \in Promised, x.domain \notin WithSitemaps
                 PROVE  /\ map'[x.domain] # NoState
                        /\ map'[x.domain].delay > 0 => x.at <= map'[x.domain].last
      OBVIOUS
    <3>1. x.domain \in Domain /\ x.at \in Nat
      BY PromisedType DEF DelayInv, Grants
    <3>2. /\ map[x.domain] # NoState
          /\ map[x.domain].delay > 0 => x.at <= map[x.domain].last
      BY DEF DelayInv
    <3>3. /\ map'[x.domain] # NoState
          /\ map'[x.domain].delay > 0 =>
               map[x.domain].delay > 0 /\ map'[x.domain].last >= map[x.domain].last
      BY <1>3, <3>1, <3>2, EntriesKeepDelay
    <3>4. map[x.domain].last \in Int /\ map'[x.domain].last \in Int
      BY <1>1, <3>1, <3>2, <3>3 DEF DelayInv, LimiterInv, TypeOK
    <3> QED
      BY <3>1, <3>2, <3>3, <3>4
  <2>3. CASE Promised' \subseteq Promised
    BY <1>1, <2>1, <2>2, <2>3 DEF DelayInv, Apart, Keeps
  <2>4. ASSUME NEW g \in Grants,
               Promised' \subseteq Promised \cup {g}, Remembers(g)',
               \A x \in Promised : Apart(g, x)
        PROVE  DelayInv'
    <3>1. \A x \in Promised : Apart(x, g)
      BY <2>4 DEF Apart
    <3>2. \A x, y \in Promised' : x # y => Apart(x, y)
      BY <2>4, <3>1 DEF DelayInv
    <3>3. \A x \in Promised' : Remembers(x)'
      BY <2>2, <2>4
    <3> QED
      BY <1>1, <2>1, <3>2, <3>3 DEF DelayInv, Apart, Keeps
  <2> QED
    BY <1>3, <2>3, <2>4, OnePromise
<1> QED
  BY <1>2, <1>3 DEF Next

\* However many tasks there are, however late a call comes to its lock, and whenever
\* Crawl-delay replaces the default delay: the later of two downloads from a domain
\* without sitemaps was granted the delay then in force after the earlier one.
THEOREM DelayIsKept == Spec => []DelayKept
<1>1. Init => DelayInv
  <2> SUFFICES ASSUME Init PROVE DelayInv
    OBVIOUS
  <2>1. Promised = {} /\ \A d \in Domain : map[d] = NoState
    BY DEF Init, Promised
  <2> QED
    BY <2>1, LimiterInit DEF DelayInv
<1>2. DelayInv => DelayKept
  <2> SUFFICES ASSUME DelayInv PROVE DelayKept
    OBVIOUS
  <2>1. downloads \subseteq Promised
    BY DEF Promised
  <2>2. \A x, y \in downloads : x # y => Apart(x, y)
    BY <2>1 DEF DelayInv
  <2> QED
    BY <2>2 DEF DelayKept, Apart
<1> QED
  BY <1>1, <1>2, DelayStep, PTL DEF Spec
=============================================================================
