------------------------------ MODULE DomainCache ------------------------------
(***************************************************************************)
(* Domains in the storage service: the table, the cache in front of it,    *)
(* the stream consumer that saves what the worker discovers, and the gRPC  *)
(* calls of the worker's tasks, which read through the cache and fill it.  *)
(* No lock spans the steps of a call or of the consumer.                   *)
(*                                                                         *)
(* The robots.txt and delay of a domain are told apart by the number of    *)
(* their publication.  A task publishes a domain when the storage did not  *)
(* know it, so several tasks publish the same one; the storage saves them  *)
(* in the order of the stream.                                             *)
(***************************************************************************)
EXTENDS Naturals, Sequences

CONSTANTS
  Domain, NoDomain,
  Task,                 \* tasks of the worker, one call at a time each
  Consumer,             \* the stream consumer
  NoAnswer,
  MaxVersions,          \* how many publications
  MaxCrashes

ASSUME CacheAssumption ==
  /\ NoDomain \notin Domain /\ Consumer \notin Task /\ NoAnswer \notin Nat
  /\ MaxVersions \in Nat /\ MaxCrashes \in Nat

Caller == Task \cup {Consumer}

Version == 1..MaxVersions

VARIABLES
  stream,               \* entries published and not yet read
  published,            \* how many were published so far
  table,                \* the domains table: the version saved, 0 for no row
  saved,                \* history: every version that was saved
  cache,                \* the cache: the version held, 0 for no entry
  pc,                   \* where each caller is
  call,                 \* the call it makes, see Idle
  answer,               \* what it was told
  late,                 \* history: domains whose entry was overwritten with
                        \* a row read before the last save
  crashes

vars == <<stream, published, table, saved, cache, pc, call, answer, late,
          crashes>>

\* Domain asked for or saved, version in hand, i of a retry loop, what is asked,
\* and whether there was a row when the call began.
CallFor(d, v, kind, wasKnown) ==
  [domain |-> d, version |-> v, attempt |-> 1, kind |-> kind,
   wasKnown |-> wasKnown]

Idle == CallFor(NoDomain, 0, "access", FALSE)

LookPcs == {"look", "read", "fill"}

TaskPcs == LookPcs \cup {"free", "told"}

ConsumerPcs == TaskPcs \cup {"write", "insert", "sitemaps"}

Calls == [domain : Domain \cup {NoDomain}, version : 0..MaxVersions,
          attempt : 1..3, kind : {"access", "delay", "id"}, wasKnown : BOOLEAN]

StoreTypeOK ==
  /\ stream \in Seq(Domain \X Version) /\ published \in 0..MaxVersions
  /\ table \in [Domain -> 0..MaxVersions]
  /\ saved \in [Domain -> SUBSET Version]
  /\ cache \in [Domain -> 0..MaxVersions]
  /\ late \subseteq Domain /\ crashes \in 0..MaxCrashes

CallTypeOK ==
  /\ pc \in [Caller -> ConsumerPcs] /\ \A t \in Task : pc[t] \in TaskPcs
  /\ call \in [Caller -> Calls]
  /\ \A c \in Caller :
       /\ pc[c] = "free" <=> call[c].domain = NoDomain
       /\ pc[c] \in {"fill", "write", "insert"} => call[c].version \in Version
  /\ answer \in [Caller -> 0..MaxVersions \cup {NoAnswer}]

TypeOK == StoreTypeOK /\ CallTypeOK

Init ==
  /\ stream = <<>> /\ published = 0
  /\ table = [d \in Domain |-> 0] /\ saved = [d \in Domain |-> {}]
  /\ cache = [d \in Domain |-> 0]
  /\ pc = [c \in Caller |-> "free"] /\ call = [c \in Caller |-> Idle]
  /\ answer = [c \in Caller |-> NoAnswer]
  /\ late = {} /\ crashes = 0

-----------------------------------------------------------------------------
(* A call that reads through the cache.                                     *)

Goto(c, label) == pc' = [pc EXCEPT ![c] = label]

\* The call of the caller is over, and what came of it is used.
Done(c) ==
  /\ Goto(c, "free")
  /\ call' = [call EXCEPT ![c] = Idle]
  /\ answer' = [answer EXCEPT ![c] = NoAnswer]

\* check_url_allowed, get_delay and the look for the id of a page's domain.
Ask(c, d, kind) ==
  /\ Goto(c, "look")
  /\ call' = [call EXCEPT ![c] = CallFor(d, 0, kind, table[d] # 0)]
  /\ answer' = [answer EXCEPT ![c] = NoAnswer]
  /\ UNCHANGED <<stream, published, table, saved, cache, late, crashes>>

AskAccess(t) == pc[t] = "free" /\ \E d \in Domain : Ask(t, d, "access")

\* A task whose URL was allowed asks for the delay.
AskDelay(t) ==
  /\ pc[t] = "told" /\ call[t].kind = "access" /\ answer[t] # 0
  /\ Ask(t, call[t].domain, "delay")

AskId == pc[Consumer] = "free" /\ \E d \in Domain : Ask(Consumer, d, "id")

\* The answer: a version, or 0 for None.  None is UnknownDomain for a URL, 1 s for
\* a delay, an Err for an id.
Reply(c, v) ==
  /\ Goto(c, "told")
  /\ call' = [call EXCEPT ![c] =
                CallFor(call[c].domain, 0, call[c].kind, FALSE)]
  /\ answer' = [answer EXCEPT ![c] = v]

Look(c) ==
  /\ pc[c] = "look"
  /\ IF cache[call[c].domain] # 0
     THEN Reply(c, cache[call[c].domain])
     ELSE Goto(c, "read") /\ UNCHANGED <<call, answer>>
  /\ UNCHANGED <<stream, published, table, saved, cache, late, crashes>>

\* get_cache_info_about_domain
ReadRow(c) ==
  /\ pc[c] = "read"
  /\ LET v == table[call[c].domain] IN
       \/ v = 0 /\ Reply(c, 0)
       \/ /\ v # 0
          /\ call' = [call EXCEPT ![c].version = v]
          /\ Goto(c, "fill") /\ UNCHANGED answer
  /\ UNCHANGED <<stream, published, table, saved, cache, late, crashes>>

\* Mutation: an Err is taken for a missing row.
ReadFailsAsNone(c) ==
  /\ pc[c] = "read"
  /\ Reply(c, 0)
  /\ UNCHANGED <<stream, published, table, saved, cache, late, crashes>>

\* Mutation: the loop counts to four.
ReadFailsOnceMore(c) ==
  /\ pc[c] = "read"
  /\ IF call[c].attempt <= 3
     THEN call' = [call EXCEPT ![c].attempt = @ + 1] /\ UNCHANGED <<pc, answer>>
     ELSE Done(c)
  /\ UNCHANGED <<stream, published, table, saved, cache, late, crashes>>

\* Three failures are an Err.
ReadFails(c) ==
  /\ pc[c] = "read"
  /\ IF call[c].attempt < 3
     THEN call' = [call EXCEPT ![c].attempt = @ + 1] /\ UNCHANGED <<pc, answer>>
     ELSE Done(c)
  /\ UNCHANGED <<stream, published, table, saved, cache, late, crashes>>

\* Mutation: the answer waits until the cache holds an entry.
FillAwaits(c) ==
  /\ pc[c] = "fill" /\ cache[call[c].domain] # 0
  /\ Reply(c, call[c].version)
  /\ UNCHANGED <<stream, published, table, saved, cache, late, crashes>>

\* add_domain with the row read before, then the answer.
Fill(c) ==
  /\ pc[c] = "fill"
  /\ LET d == call[c].domain IN
       /\ cache' = [cache EXCEPT ![d] = call[c].version]
       /\ late' = IF call[c].version = table[d] THEN late \ {d}
                  ELSE late \cup {d}
  /\ Reply(c, call[c].version)
  /\ UNCHANGED <<stream, published, table, saved, crashes>>

\* The client waits 5 s; the handler is dropped at whatever await it is.
CallTimesOut(t) ==
  /\ pc[t] \in LookPcs
  /\ Done(t)
  /\ UNCHANGED <<stream, published, table, saved, cache, late, crashes>>

-----------------------------------------------------------------------------
(* The worker publishes.                                                    *)

\* handle_unknown_domain: XADD, unless robots.txt or XADD fails.
Publish(t) ==
  /\ pc[t] = "told" /\ call[t].kind = "access" /\ answer[t] = 0
  /\ published < MaxVersions /\ published' = published + 1
  /\ stream' = Append(stream, <<call[t].domain, published'>>)
  /\ Done(t)
  /\ UNCHANGED <<table, saved, cache, late, crashes>>

\* The answer is used without another call: the URL is refused, the delay is
\* known, the page is written under the id or left.
Proceed(c) ==
  /\ pc[c] = "told" /\ Done(c)
  /\ UNCHANGED <<stream, published, table, saved, cache, late, crashes>>

-----------------------------------------------------------------------------
(* The consumer saves: the row, the entry, then the sitemaps of the entry.  *)

TakeEntry ==
  /\ pc[Consumer] = "free" /\ stream # <<>>
  /\ call' = [call EXCEPT ![Consumer] =
                CallFor(Head(stream)[1], Head(stream)[2], "access", FALSE)]
  /\ stream' = Tail(stream)
  /\ Goto(Consumer, "write")
  /\ UNCHANGED <<published, table, saved, cache, answer, late, crashes>>

Saving == call[Consumer]

\* Mutation: the entry is made before the row.
InsertFirst ==
  /\ pc[Consumer] = "write"
  /\ cache' = [cache EXCEPT ![Saving.domain] = Saving.version]
  /\ late' = late \ {Saving.domain}
  /\ Goto(Consumer, "insert")
  /\ UNCHANGED <<stream, published, table, saved, call, answer, crashes>>

WriteRow ==
  /\ pc[Consumer] = "write"
  /\ table' = [table EXCEPT ![Saving.domain] = Saving.version]
  /\ saved' = [saved EXCEPT ![Saving.domain] = @ \cup {Saving.version}]
  /\ Goto(Consumer, "insert")
  /\ UNCHANGED <<stream, published, cache, call, answer, late, crashes>>

\* After the third failure the domain is not saved.
WriteFails ==
  /\ pc[Consumer] = "write"
  /\ IF Saving.attempt < 3
     THEN call' = [call EXCEPT ![Consumer].attempt = @ + 1]
          /\ UNCHANGED <<pc, answer>>
     ELSE Done(Consumer)
  /\ UNCHANGED <<stream, published, table, saved, cache, late, crashes>>

\* Mutation: an entry that is there is kept.
InsertIfAbsent ==
  /\ pc[Consumer] = "insert"
  /\ IF cache[Saving.domain] = 0
     THEN /\ cache' = [cache EXCEPT ![Saving.domain] = Saving.version]
          /\ late' = late \ {Saving.domain}
     ELSE UNCHANGED <<cache, late>>
  /\ Goto(Consumer, "sitemaps")
  /\ UNCHANGED <<stream, published, table, saved, call, answer, crashes>>

InsertEntry ==
  /\ pc[Consumer] = "insert"
  /\ cache' = [cache EXCEPT ![Saving.domain] = Saving.version]
  /\ late' = late \ {Saving.domain}
  /\ Goto(Consumer, "sitemaps")
  /\ UNCHANGED <<stream, published, table, saved, call, answer, crashes>>

\* get_sitemaps: those of whatever entry is there now.
TakeSitemaps ==
  /\ pc[Consumer] = "sitemaps"
  /\ Done(Consumer)
  /\ UNCHANGED <<stream, published, table, saved, cache, late, crashes>>

-----------------------------------------------------------------------------
\* time_to_idle: nobody has asked for the domain for six minutes, so the
\* consumer is not between its insertion and its look for the sitemaps.
Expire(d) ==
  /\ cache[d] # 0 /\ ~(pc[Consumer] = "sitemaps" /\ Saving.domain = d)
  /\ cache' = [cache EXCEPT ![d] = 0]
  /\ late' = late \ {d}
  /\ UNCHANGED <<stream, published, table, saved, pc, call, answer, crashes>>

InCall == {c \in Caller : pc[c] \in LookPcs}

\* The service starts again with an empty cache; calls in progress end with an
\* Err, the entries in the hands of the consumer are never read again.
Crash ==
  /\ crashes < MaxCrashes /\ crashes' = crashes + 1
  /\ LET gone == InCall \cup {Consumer} IN
       /\ pc' = [c \in Caller |-> IF c \in gone THEN "free" ELSE pc[c]]
       /\ call' = [c \in Caller |-> IF c \in gone THEN Idle ELSE call[c]]
       /\ answer' = [c \in Caller |-> IF c \in gone THEN NoAnswer ELSE answer[c]]
  /\ cache' = [d \in Domain |-> 0] /\ late' = {}
  /\ \E n \in 0..Len(stream) : stream' = SubSeq(stream, n + 1, Len(stream))
  /\ UNCHANGED <<published, table, saved>>

-----------------------------------------------------------------------------
Lookup(c) == Look(c) \/ ReadRow(c) \/ ReadFails(c) \/ Fill(c) \/ Proceed(c)

Worker(t) ==
  AskAccess(t) \/ AskDelay(t) \/ CallTimesOut(t) \/ Publish(t)

Saves ==
  \/ TakeEntry \/ WriteRow \/ WriteFails \/ InsertEntry \/ TakeSitemaps

Next ==
  \/ \E c \in Caller : Lookup(c)
  \/ \E t \in Task : Worker(t)
  \/ AskId \/ Saves
  \/ \E d \in Domain : Expire(d)
  \/ Crash

Spec == Init /\ [][Next]_vars

\* The runtime polls every handler that can go on.
FairSpec == Spec /\ \A c \in Caller : WF_vars(Lookup(c))

-----------------------------------------------------------------------------
(* Properties.                                                              *)

\* The cache is never ahead of the table: what a caller has been told survives
\* a crash, since a row is written before the entry is made, by the consumer
\* (crawler_storage.rs:155, :157) as by the callers (:98, :105).
CacheBehindTable == \A d \in Domain : cache[d] <= table[d]

\* An entry that is not the last version saved is about to be replaced
\* (crawler_storage.rs:157), or it was put there by a call that had read the row
\* before the save and inserted it after (:105): nothing else leaves an old
\* robots.txt in force.
StaleOnlyByLateFill ==
  \A d \in Domain :
    \/ cache[d] \in {0, table[d]} \/ d \in late
    \/ pc[Consumer] = "insert" /\ Saving.domain = d

\* A task asks for the delay of a domain only when its URL was allowed; then
\* the domain is never unknown, whatever expired, failed or crashed meanwhile:
\* the 1 s of crawler_storage.rs:186 is never made up for a task.
DelayNeverGuessed ==
  [][\A t \in Task :
       pc[t] \in LookPcs /\ call[t].kind = "delay" => answer'[t] # 0]_vars

\* Every question is answered, by an Err if need be: the three attempts end.
EveryCallEnds ==
  \A c \in Caller : pc[c] \in LookPcs ~> pc[c] \notin LookPcs

\* What callers may rely on.
Directory == INSTANCE DomainDirectory WITH
  wanted <- [c \in Caller |-> IF c \in InCall THEN call[c].domain ELSE NoDomain],
  wasKnown <- [c \in Caller |-> c \in InCall /\ call[c].wasKnown]

DirectorySpec == Directory!Spec
=============================================================================
