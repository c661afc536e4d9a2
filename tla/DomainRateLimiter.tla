-------------------------- MODULE DomainRateLimiter --------------------------
(***************************************************************************)
(* The limiter the tasks of the worker service share                       *)
(* (crates/worker_service/src/network/domain_rate_limiter.rs), with the    *)
(* calls process_single_url and handle_unknown_domain make into it.        *)
(*                                                                         *)
(* Time is a clock that ticks while tasks are anywhere.  Each call reads   *)
(* the clock first and locks the shard of its domain afterwards.  A lock   *)
(* of the DashMap blocks the thread, and await_acquiring keeps the one it  *)
(* took while it sleeps: so the threads of the runtime are part of the     *)
(* model.  A task that waits for I/O or sleeps occupies none, one on its   *)
(* way to a lock occupies one, and any other step needs a free one.        *)
(***************************************************************************)
EXTENDS Integers, FiniteSets

CONSTANTS
  Task, NoTask,
  Threads,              \* worker threads of the runtime, one per core
  Domain, NoDomain,
  Shard, ShardOf,       \* the shards of the DashMap, and that of each domain
  WithSitemaps,         \* domains that have URLs ending in .xml
  CrawlDelay,           \* Crawl-delay of each robots.txt, 0 without one
  DefaultDelay,         \* the delay run gives to new
  KnownAtFirst,         \* domains the storage knows from an earlier run
  NoState,
  CanSignal,
  MaxClock              \* bound: the clock stops here, and sleeps are over

ASSUME LimiterAssumption ==
  /\ IsFiniteSet(Task) /\ NoTask \notin Task /\ NoDomain \notin Domain
  /\ Threads \in Nat \ {0}
  /\ ShardOf \in [Domain -> Shard]
  /\ WithSitemaps \subseteq Domain /\ KnownAtFirst \subseteq Domain
  /\ CrawlDelay \in [Domain -> Nat] /\ DefaultDelay \in Nat \ {0}
  /\ NoState \notin [delay : Nat, last : Int]
  /\ CanSignal \in BOOLEAN /\ MaxClock \in Nat

VARIABLES
  clock,
  map,                  \* delay and last_accessed of each domain
  holder,               \* the task that sleeps with the shard locked
  known,                \* domains the storage knows
  shutdown,
  pc,                   \* where a task is
  turn,                 \* its locals: its call, the domain of its URL, `now` of
                        \* the call, `now` of the try_acquire that let the URL
                        \* pass, and the end of its sleep; history: the delay
                        \* that was in force when it passed
  downloads             \* history: downloads of pages and sitemaps, with the
                        \* time they were granted and the delay then in force

vars == <<clock, map, holder, known, shutdown, pc, turn, downloads>>

Turns == [op : {"none", "try", "await", "update"}, dom : Domain \cup {NoDomain},
          stamp : Nat, grantedAt : Nat, wakeAt : Nat, delay : Nat]

NoTurn == [op |-> "none", dom |-> NoDomain, stamp |-> 0, grantedAt |-> 0,
           wakeAt |-> 0, delay |-> 0]

Pcs == {"top", "locking", "granted", "sleeping", "publish", "exited"}

\* The type invariant: a task has a domain during its turn, a shard is locked
\* over a sleep by a task that sleeps, and no time lies in the future.
TypeOK ==
  /\ clock \in 0..MaxClock
  /\ map \in [Domain -> [delay : Nat, last : Int] \cup {NoState}]
  /\ holder \in [Shard -> Task \cup {NoTask}]
  /\ known \subseteq Domain /\ shutdown \in BOOLEAN
  /\ pc \in [Task -> Pcs] /\ turn \in [Task -> Turns]
  /\ downloads \subseteq [domain : Domain, at : 0..clock, delay : Nat, by : Task]
  /\ \A t \in Task :
       /\ turn[t].stamp <= clock /\ turn[t].grantedAt <= clock
       /\ pc[t] \notin {"top", "exited"} => turn[t].dom \in Domain
       /\ pc[t] = "sleeping" <=> \E s \in Shard : holder[s] = t
  /\ \A d \in Domain : map[d] # NoState => map[d].last <= clock

Init ==
  /\ clock = 0
  /\ map = [d \in Domain |-> NoState]
  /\ holder = [s \in Shard |-> NoTask]
  /\ known = KnownAtFirst /\ shutdown = FALSE
  /\ pc = [t \in Task |-> "top"] /\ turn = [t \in Task |-> NoTurn]
  /\ downloads = {}

-----------------------------------------------------------------------------
\* Threads that run a task up to its lock, or block there.
Busy == {t \in Task : pc[t] = "locking"}

ThreadFree == Cardinality(Busy) < Threads

Goto(t, label) == pc' = [pc EXCEPT ![t] = label]

TurnOver(t) == Goto(t, "top") /\ turn' = [turn EXCEPT ![t] = NoTurn]

\* A call reads the clock and goes for the shard.
Call(t, name, d) ==
  /\ ThreadFree
  /\ Goto(t, "locking")
  /\ turn' = [turn EXCEPT ![t].op = name, ![t].dom = d, ![t].stamp = clock]

Dom(t) == turn[t].dom

Locks(t, name) ==
  /\ pc[t] = "locking" /\ turn[t].op = name
  /\ holder[ShardOf[Dom(t)]] = NoTask

\* or_insert_with: a domain not seen yet may be accessed at once.
EntryOf(t, delay) ==
  IF map[Dom(t)] = NoState
  THEN [delay |-> delay, last |-> turn[t].stamp - delay] ELSE map[Dom(t)]

SetEntry(t, entry) == map' = [map EXCEPT ![Dom(t)] = entry]

\* saturating_duration_since
Elapsed(t, entry) ==
  IF turn[t].stamp >= entry.last THEN turn[t].stamp - entry.last ELSE 0

Download(t) ==
  downloads' = downloads \cup
                 {[domain |-> Dom(t), at |-> turn[t].grantedAt,
                   delay |-> turn[t].delay, by |-> t]}

\* The URL passes.
Grant(t, entry) ==
  /\ Goto(t, "granted")
  /\ turn' = [turn EXCEPT ![t].grantedAt = turn[t].stamp,
                          ![t].delay = entry.delay]

-----------------------------------------------------------------------------
\* worker_loop pops some URL of some domain.
PopUrl(t) ==
  /\ pc[t] = "top" /\ ~shutdown
  /\ \E d \in Domain : Call(t, "try", d)
  /\ UNCHANGED <<clock, map, holder, known, shutdown, downloads>>

LookAtShutdown(t) ==
  /\ pc[t] = "top" /\ shutdown /\ ThreadFree
  /\ Goto(t, "exited")
  /\ UNCHANGED <<clock, map, holder, known, shutdown, turn, downloads>>

\* Mutation: the time of the access is not written back.
TryAcquireForgets(t) ==
  /\ Locks(t, "try")
  /\ LET entry == EntryOf(t, DefaultDelay) IN
       /\ SetEntry(t, entry)
       /\ IF Elapsed(t, entry) >= entry.delay
          THEN Grant(t, entry) ELSE TurnOver(t)
  /\ UNCHANGED <<clock, holder, known, shutdown, downloads>>

\* A refused URL goes back to the queue, which ends its turn.
TryAcquire(t) ==
  /\ Locks(t, "try")
  /\ LET entry == EntryOf(t, DefaultDelay) IN
       IF Elapsed(t, entry) >= entry.delay
       THEN /\ SetEntry(t, [entry EXCEPT !.last = turn[t].stamp])
            /\ Grant(t, entry)
       ELSE SetEntry(t, entry) /\ TurnOver(t)
  /\ UNCHANGED <<clock, holder, known, shutdown, downloads>>

\* The storage answers that the URL is allowed.
FetchPage(t) ==
  /\ pc[t] = "granted" /\ Dom(t) \in known /\ ThreadFree
  /\ Download(t) /\ TurnOver(t)
  /\ UNCHANGED <<clock, map, holder, known, shutdown>>

FetchSitemap(t) ==
  /\ pc[t] = "granted" /\ Dom(t) \in known \cap WithSitemaps
  /\ Call(t, "await", Dom(t))
  /\ UNCHANGED <<clock, map, holder, known, shutdown, downloads>>

\* It answers that the domain is unknown; robots.txt has been downloaded.
Discover(t) ==
  /\ pc[t] = "granted" /\ Dom(t) \notin known
  /\ Call(t, "update", Dom(t))
  /\ UNCHANGED <<clock, map, holder, known, shutdown, downloads>>

\* The answer is no, or an Err; or robots.txt could not be downloaded.
GiveUp(t) ==
  /\ pc[t] = "granted" /\ ThreadFree
  /\ TurnOver(t)
  /\ UNCHANGED <<clock, map, holder, known, shutdown, downloads>>

UpdateDelay(t) ==
  /\ Locks(t, "update")
  /\ SetEntry(t, [EntryOf(t, CrawlDelay[Dom(t)])
                    EXCEPT !.delay = CrawlDelay[Dom(t)]])
  /\ Goto(t, "publish")
  /\ UNCHANGED <<clock, holder, known, shutdown, turn, downloads>>

\* The domain is published and, as early as can be, saved by the storage; or
\* save_domain_data fails.
Publish(t) ==
  /\ pc[t] = "publish" /\ ThreadFree
  /\ known' \in {known, known \cup {Dom(t)}}
  /\ TurnOver(t)
  /\ UNCHANGED <<clock, map, holder, shutdown, downloads>>

\* await_acquiring sleeps as long as the last access is ago, and keeps the
\* entry, hence the lock.
AwaitAcquiring(t) ==
  /\ Locks(t, "await")
  /\ LET entry == EntryOf(t, DefaultDelay) IN
       /\ Elapsed(t, entry) > 0
       /\ SetEntry(t, entry)
       /\ turn' = [turn EXCEPT ![t].wakeAt = clock + Elapsed(t, entry)]
  /\ holder' = [holder EXCEPT ![ShardOf[Dom(t)]] = t]
  /\ Goto(t, "sleeping")
  /\ UNCHANGED <<clock, known, shutdown, downloads>>

\* A sleep of no length is over at its first poll.
AwaitNothing(t) ==
  /\ Locks(t, "await")
  /\ LET entry == EntryOf(t, DefaultDelay) IN
       /\ Elapsed(t, entry) = 0
       /\ SetEntry(t, [entry EXCEPT !.last = turn[t].stamp])
  /\ Download(t) /\ TurnOver(t)
  /\ UNCHANGED <<clock, holder, known, shutdown>>

\* Mutation: the guard is not dropped at the end.
WakeUpLocked(t) ==
  /\ pc[t] = "sleeping" /\ ThreadFree
  /\ turn[t].wakeAt <= clock \/ clock = MaxClock
  /\ SetEntry(t, [map[Dom(t)] EXCEPT !.last = turn[t].stamp])
  /\ Download(t) /\ TurnOver(t)
  /\ UNCHANGED <<clock, holder, known, shutdown>>

\* It writes the time it read before it slept; the sitemap is downloaded.
WakeUp(t) ==
  /\ pc[t] = "sleeping" /\ ThreadFree
  /\ turn[t].wakeAt <= clock \/ clock = MaxClock
  /\ SetEntry(t, [map[Dom(t)] EXCEPT !.last = turn[t].stamp])
  /\ holder' = [holder EXCEPT ![ShardOf[Dom(t)]] = NoTask]
  /\ Download(t) /\ TurnOver(t)
  /\ UNCHANGED <<clock, known, shutdown>>

Tick ==
  /\ clock < MaxClock
  /\ clock' = clock + 1
  /\ UNCHANGED <<map, holder, known, shutdown, pc, turn, downloads>>

Signal ==
  /\ CanSignal /\ ~shutdown
  /\ shutdown' = TRUE
  /\ UNCHANGED <<clock, map, holder, known, pc, turn, downloads>>

-----------------------------------------------------------------------------
Turn(t) ==
  \/ PopUrl(t) \/ LookAtShutdown(t) \/ TryAcquire(t)
  \/ FetchPage(t) \/ FetchSitemap(t) \/ Discover(t) \/ GiveUp(t)
  \/ UpdateDelay(t) \/ Publish(t) \/ AwaitAcquiring(t)
  \/ AwaitNothing(t) \/ WakeUp(t)

Next == (\E t \in Task : Turn(t)) \/ Tick \/ Signal

Spec == Init /\ [][Next]_vars

\* Time passes, a thread with nothing to do polls a task that can go on, and a
\* lock that is released goes to one of those that wait; tasks that come back
\* to the lock again and again do not keep another from it for ever.
FairSpec ==
  Spec /\ WF_vars(Tick) /\ \A t \in Task : SF_vars(Turn(t))

-----------------------------------------------------------------------------
(* Properties.                                                              *)

\* x was granted the delay then in force after y, if there was one.
Keeps(x, y) == x.delay = 0 \/ x.at - y.at >= x.delay

\* However the tasks interleave, however late a call comes to its lock, and
\* whenever Crawl-delay comes to replace the default (crawler_core.rs:292): the
\* later of two downloads from a domain without sitemaps was granted the delay
\* that was then in force after the earlier one.  It says nothing of a delay of
\* 0, which is what a domain without a Crawl-delay gets, nor of sitemaps:
\* await_acquiring writes back, at line 70, a time it read before it had the lock.
DelayKept ==
  \A x, y \in downloads :
    x # y /\ x.domain = y.domain /\ x.domain \notin WithSitemaps =>
      Keeps(x, y) \/ Keeps(y, x)

\* README.md:125, graceful shutdown: after a signal every task leaves its loop.
SignalHandled == shutdown ~> \A t \in Task : pc[t] = "exited"
=============================================================================
