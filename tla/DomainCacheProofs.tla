-------------------------- MODULE DomainCacheProofs --------------------------
(***************************************************************************)
(* What the storage service promises about domains, proved for every set   *)
(* of domains and of tasks, any number of publications and crashes, and    *)
(* whichever robots.txt are refused: its types, that the cache is never    *)
(* ahead of the table, what can leave an old entry in it, that a delay is  *)
(* never made up for a task, and that it implements DomainDirectory.       *)
(***************************************************************************)
EXTENDS DomainCache, SequenceTheorems, TLAPS

-----------------------------------------------------------------------------
(* Types.                                                                   *)

LEMMA IdleType == Idle \in Calls /\ Idle.domain = NoDomain
<1>1. 0 \in 0..MaxVersions
  BY CacheAssumption
<1> QED
  BY <1>1 DEF Idle, CallFor, Calls

LEMMA TypeInit == Init => TypeOK
<1> SUFFICES ASSUME Init PROVE TypeOK
  OBVIOUS
<1>1. StoreTypeOK
  BY CacheAssumption, EmptySeq DEF Init, StoreTypeOK
<1>2. CallTypeOK
  BY CacheAssumption, IdleType
  DEF Init, CallTypeOK, ConsumerPcs, TaskPcs, LookPcs, Caller
<1> QED
  BY <1>1, <1>2 DEF TypeOK

LEMMA DoneType ==
  ASSUME CallTypeOK, NEW c \in Caller, Done(c) PROVE CallTypeOK'
<1>1. Idle \in Calls /\ Idle.domain = NoDomain
  BY IdleType
<1>2. "free" \in TaskPcs /\ TaskPcs \subseteq ConsumerPcs
  BY DEF TaskPcs, ConsumerPcs
<1> QED
  BY <1>1, <1>2 DEF CallTypeOK, Done, Goto

\* The call of one caller is in some place, with something in hand.
LEMMA CallType ==
  ASSUME CallTypeOK, NEW c \in Caller,
         NEW label \in ConsumerPcs \ {"free"}, c \in Task => label \in TaskPcs,
         NEW r \in Calls, r.domain \in Domain,
         label \in {"fill", "write", "insert"} => r.version \in Version,
         NEW a \in 0..MaxVersions \cup {NoAnswer},
         pc' = [pc EXCEPT ![c] = label], call' = [call EXCEPT ![c] = r],
         answer' = [answer EXCEPT ![c] = a]
  PROVE  CallTypeOK'
BY CacheAssumption DEF CallTypeOK

LEMMA GotoType ==
  ASSUME CallTypeOK, NEW c \in Caller, pc[c] # "free",
         NEW label \in ConsumerPcs \ {"free"}, c \in Task => label \in TaskPcs,
         label \in {"fill", "write", "insert"} => call[c].version \in Version,
         Goto(c, label), UNCHANGED <<call, answer>>
  PROVE  CallTypeOK'
BY DEF CallTypeOK, Goto

LEMMA AskType ==
  ASSUME CallTypeOK, NEW c \in Caller, NEW d \in Domain,
         NEW kind \in {"access", "delay", "id"}, Ask(c, d, kind)
  PROVE  CallTypeOK'
<1> DEFINE r == CallFor(d, 0, kind, table[d] # 0)
<1>1. r \in Calls /\ r.domain = d
  <2>1. 0 \in 0..MaxVersions /\ (table[d] # 0) \in BOOLEAN
    BY CacheAssumption
  <2> QED
    BY <2>1 DEF CallFor, Calls
<1>2. "look" \in TaskPcs /\ "look" \in ConsumerPcs \ {"free"}
  BY DEF TaskPcs, ConsumerPcs, LookPcs
<1> QED
  BY <1>1, <1>2, CallType DEF Ask, Goto

LEMMA ReplyType ==
  ASSUME CallTypeOK, NEW c \in Caller, pc[c] # "free",
         NEW v \in 0..MaxVersions, Reply(c, v)
  PROVE  CallTypeOK'
<1> DEFINE r == CallFor(call[c].domain, 0, call[c].kind, FALSE)
<1>1. call[c] \in Calls /\ call[c].domain \in Domain
  BY DEF CallTypeOK, Calls
<1>2. r \in Calls /\ r.domain = call[c].domain
  <2>1. 0 \in 0..MaxVersions
    BY CacheAssumption
  <2> QED
    BY <1>1, <2>1 DEF CallFor, Calls
<1>3. "told" \in TaskPcs /\ "told" \in ConsumerPcs \ {"free"}
  BY DEF TaskPcs, ConsumerPcs
<1> QED
  BY <1>1, <1>2, <1>3, CallType DEF Reply, Goto

\* What is in hand of a caller that is not free.
LEMMA OnCall ==
  ASSUME TypeOK, NEW c \in Caller, pc[c] # "free"
  PROVE  /\ call[c].domain \in Domain /\ call[c].version \in 0..MaxVersions
         /\ call[c].attempt \in 1..3
         /\ table[call[c].domain] \in 0..MaxVersions
         /\ cache[call[c].domain] \in 0..MaxVersions
BY DEF TypeOK, StoreTypeOK, CallTypeOK, Calls

\* Another attempt, or none.
LEMMA AttemptType ==
  ASSUME TypeOK, NEW c \in Caller, pc[c] # "free",
         IF call[c].attempt < 3
         THEN call' = [call EXCEPT ![c].attempt = @ + 1]
              /\ UNCHANGED <<pc, answer>>
         ELSE Done(c)
  PROVE  CallTypeOK'
<1>1. CASE call[c].attempt < 3
  <2>1. call[c].attempt + 1 \in 1..3
    BY <1>1, OnCall
  <2> QED
    BY <1>1, <2>1 DEF TypeOK, CallTypeOK, Calls
<1>2. CASE ~(call[c].attempt < 3)
  BY <1>2, DoneType DEF TypeOK
<1> QED
  BY <1>1, <1>2

LEMMA LookupType ==
  ASSUME TypeOK, NEW c \in Caller, Lookup(c) PROVE TypeOK'
<1> USE DEF TypeOK
<1>1. CASE Look(c)
  <2>1. pc[c] = "look" /\ UNCHANGED <<stream, published, table, saved, cache,
                                      late, crashes>>
    BY <1>1 DEF Look
  <2>2. CallTypeOK'
    <3>1. CASE cache[call[c].domain] # 0
      BY <1>1, <2>1, <3>1, OnCall, ReplyType DEF Look
    <3>2. CASE cache[call[c].domain] = 0
      <4>1. "read" \in TaskPcs /\ "read" \in ConsumerPcs \ {"free"}
        BY DEF TaskPcs, ConsumerPcs, LookPcs
      <4> QED
        BY <1>1, <2>1, <3>2, <4>1, GotoType DEF Look
    <3> QED
      BY <3>1, <3>2
  <2> QED
    BY <2>1, <2>2 DEF StoreTypeOK
<1>2. CASE ReadRow(c)
  <2> DEFINE v == table[call[c].domain]
  <2>1. pc[c] = "read" /\ UNCHANGED <<stream, published, table, saved, cache,
                                      late, crashes>>
    BY <1>2 DEF ReadRow
  <2>2. CallTypeOK'
    <3>1. CASE v = 0 /\ Reply(c, 0)
      BY <2>1, <3>1, OnCall, ReplyType
    <3>2. CASE Done(c)
      BY <3>2, DoneType
    <3>3. CASE /\ v # 0 /\ call' = [call EXCEPT ![c].version = v]
               /\ Goto(c, "fill") /\ UNCHANGED answer
      <4>1. v \in Version /\ v \in 0..MaxVersions /\ call[c] \in Calls
        BY <2>1, <3>3, OnCall, CacheAssumption DEF CallTypeOK, Version
      <4>2. "fill" \in TaskPcs /\ "fill" \in ConsumerPcs \ {"free"}
        BY DEF TaskPcs, ConsumerPcs, LookPcs
      <4> QED
        BY <2>1, <3>3, <4>1, <4>2 DEF CallTypeOK, Calls, Goto
    <3> QED
      BY <1>2, <3>1, <3>2, <3>3 DEF ReadRow
  <2> QED
    BY <2>1, <2>2 DEF StoreTypeOK
<1>3. CASE ReadFails(c)
  BY <1>3, AttemptType DEF ReadFails, StoreTypeOK
<1>4. CASE Fill(c)
  <2>1. pc[c] = "fill"
    BY <1>4 DEF Fill
  <2>2. CallTypeOK'
    BY <1>4, <2>1, OnCall, ReplyType DEF Fill
  <2>3. StoreTypeOK'
    BY <1>4, <2>1, OnCall DEF Fill, StoreTypeOK
  <2> QED
    BY <2>2, <2>3
<1>5. CASE Proceed(c)
  BY <1>5, DoneType DEF Proceed, StoreTypeOK
<1> QED
  BY <1>1, <1>2, <1>3, <1>4, <1>5 DEF Lookup

LEMMA AskingType ==
  ASSUME TypeOK, AskId \/ \E t \in Task : AskAccess(t) \/ AskDelay(t)
  PROVE  TypeOK'
<1>1. PICK c \in Caller, d \in Domain, kind \in {"access", "delay", "id"} :
        Ask(c, d, kind)
  <2>1. CASE AskId
    BY <2>1 DEF AskId, Caller
  <2>2. CASE \E t \in Task : AskAccess(t)
    BY <2>2 DEF AskAccess, Caller
  <2>3. CASE \E t \in Task : AskDelay(t)
    BY <2>3, OnCall DEF AskDelay, Caller
  <2> QED
    BY <2>1, <2>2, <2>3
<1>2. CallTypeOK'
  BY <1>1, AskType DEF TypeOK
<1> QED
  BY <1>1, <1>2 DEF Ask, TypeOK, StoreTypeOK

LEMMA PublishType ==
  ASSUME TypeOK, NEW t \in Task, Publish(t) PROVE TypeOK'
<1>1. t \in Caller /\ pc[t] = "told"
  BY DEF Publish, Caller
<1>2. published' \in Version /\ published' \in 0..MaxVersions
  BY CacheAssumption DEF Publish, TypeOK, StoreTypeOK, Version
<1>3. <<call[t].domain, published'>> \in Domain \X Version
  BY <1>1, <1>2, OnCall
<1>4. stream' \in Seq(Domain \X Version)
  BY <1>3, AppendProperties DEF Publish, TypeOK, StoreTypeOK
<1>5. CallTypeOK'
  BY <1>1, DoneType DEF Publish, TypeOK
<1> QED
  BY <1>2, <1>4, <1>5 DEF Publish, TypeOK, StoreTypeOK

LEMMA SavesType ==
  ASSUME TypeOK, Saves PROVE TypeOK'
<1> USE DEF TypeOK
<1>1. Consumer \in Caller /\ Consumer \notin Task
  BY CacheAssumption DEF Caller
<1>2. CASE TakeEntry
  <2>1. Head(stream) \in Domain \X Version /\ Tail(stream) \in Seq(Domain \X Version)
    BY <1>2, HeadTailProperties DEF TakeEntry, StoreTypeOK
  <2> DEFINE r == CallFor(Head(stream)[1], Head(stream)[2], "access", FALSE)
  <2>2. /\ Head(stream)[1] \in Domain /\ Head(stream)[2] \in Version
        /\ Head(stream)[2] \in 0..MaxVersions
    BY <2>1, CacheAssumption DEF Version
  <2>3. r \in Calls /\ r.domain \in Domain /\ r.version \in Version
    BY <2>2 DEF CallFor, Calls
  <2>4. "write" \in ConsumerPcs \ {"free"}
    BY DEF ConsumerPcs, TaskPcs, LookPcs
  <2>5. CallTypeOK'
    <3>1. /\ pc' = [pc EXCEPT ![Consumer] = "write"]
          /\ call' = [call EXCEPT ![Consumer] = r] /\ UNCHANGED answer
      BY <1>2 DEF TakeEntry, Goto
    <3> HIDE DEF r
    <3> QED
      BY <1>1, <2>3, <2>4, <3>1, CacheAssumption DEF CallTypeOK
  <2> QED
    BY <1>2, <2>1, <2>5 DEF TakeEntry, StoreTypeOK
<1>3. CASE WriteRow
  <2>1. pc[Consumer] = "write" /\ Saving.domain \in Domain
        /\ Saving.version \in Version
    BY <1>1, <1>3, OnCall DEF WriteRow, Saving, CallTypeOK
  <2>2. "insert" \in ConsumerPcs \ {"free"}
    BY DEF ConsumerPcs
  <2>3. CallTypeOK'
    BY <1>1, <1>3, <2>1, <2>2, GotoType DEF WriteRow, Saving
  <2>4. StoreTypeOK'
    BY <1>3, <2>1 DEF WriteRow, StoreTypeOK, Version
  <2> QED
    BY <2>3, <2>4
<1>4. CASE WriteFails
  BY <1>1, <1>4, AttemptType DEF WriteFails, Saving, StoreTypeOK
<1>5. CASE InsertEntry
  <2>1. pc[Consumer] = "insert" /\ Saving.domain \in Domain
        /\ Saving.version \in 0..MaxVersions
    BY <1>1, <1>5, OnCall DEF InsertEntry, Saving
  <2>2. "sitemaps" \in ConsumerPcs \ {"free"}
    BY DEF ConsumerPcs
  <2>3. CallTypeOK'
    BY <1>1, <1>5, <2>1, <2>2, GotoType DEF InsertEntry
  <2>4. StoreTypeOK'
    BY <1>5, <2>1 DEF InsertEntry, StoreTypeOK
  <2> QED
    BY <2>3, <2>4
<1>6. CASE TakeSitemaps
  BY <1>1, <1>6, DoneType DEF TakeSitemaps, StoreTypeOK
<1> QED
  BY <1>2, <1>3, <1>4, <1>5, <1>6 DEF Saves

LEMMA CrashType ==
  ASSUME TypeOK, Crash PROVE TypeOK'
<1>1. PICK n \in 0..Len(stream) : stream' = SubSeq(stream, n + 1, Len(stream))
  BY DEF Crash
<1>2. /\ Len(stream) \in Nat /\ n + 1 \in Int
      /\ \A i \in (n + 1)..Len(stream) : stream[i] \in Domain \X Version
  BY <1>1, LenProperties DEF TypeOK, StoreTypeOK
<1>3. stream' \in Seq(Domain \X Version)
  BY <1>1, <1>2, SubSeqProperties
<1>4. StoreTypeOK'
  BY <1>3, CacheAssumption DEF Crash, TypeOK, StoreTypeOK
<1>5. Idle \in Calls /\ Idle.domain = NoDomain
  BY IdleType
<1>6. "free" \in TaskPcs /\ TaskPcs \subseteq ConsumerPcs
  BY DEF TaskPcs, ConsumerPcs
<1> DEFINE gone == InCall \cup {Consumer}
<1>7. /\ pc' = [c \in Caller |-> IF c \in gone THEN "free" ELSE pc[c]]
      /\ call' = [c \in Caller |-> IF c \in gone THEN Idle ELSE call[c]]
      /\ answer' = [c \in Caller |-> IF c \in gone THEN NoAnswer ELSE answer[c]]
  BY DEF Crash
<1>8. CallTypeOK'
  <2> HIDE DEF gone
  <2>1. /\ pc' \in [Caller -> ConsumerPcs] /\ \A t \in Task : pc'[t] \in TaskPcs
    BY <1>6, <1>7 DEF TypeOK, CallTypeOK, Caller
  <2>2. call' \in [Caller -> Calls]
    BY <1>5, <1>7 DEF TypeOK, CallTypeOK
  <2>3. answer' \in [Caller -> 0..MaxVersions \cup {NoAnswer}]
    BY <1>7 DEF TypeOK, CallTypeOK
  <2>4. ASSUME NEW c \in Caller
        PROVE  /\ pc'[c] = "free" <=> call'[c].domain = NoDomain
               /\ pc'[c] \in {"fill", "write", "insert"} =>
                    call'[c].version \in Version
    BY <1>5, <1>7 DEF TypeOK, CallTypeOK
  <2> QED
    BY <2>1, <2>2, <2>3, <2>4 DEF CallTypeOK
<1> QED
  BY <1>4, <1>8 DEF TypeOK

LEMMA TypeStep == TypeOK /\ [Next]_vars => TypeOK'
<1> SUFFICES ASSUME TypeOK, [Next]_vars PROVE TypeOK'
  OBVIOUS
<1>1. ASSUME NEW t \in Task, CallTimesOut(t) PROVE TypeOK'
  BY <1>1, DoneType DEF CallTimesOut, TypeOK, StoreTypeOK, Caller
<1>2. ASSUME NEW d \in Domain, Expire(d) PROVE TypeOK'
  <2>1. StoreTypeOK'
    BY <1>2, CacheAssumption DEF Expire, TypeOK, StoreTypeOK
  <2> QED
    BY <1>2, <2>1 DEF Expire, TypeOK, CallTypeOK
<1>3. CASE UNCHANGED vars
  BY <1>3 DEF vars, TypeOK, StoreTypeOK, CallTypeOK
<1> QED
  BY <1>1, <1>2, <1>3, LookupType, AskingType, PublishType, SavesType, CrashType
  DEF Next, Worker

\* The state has its types whatever calls fail, time out or are lost in a
\* crash: every retry loop ends at three (crawler_storage.rs:14), and the
\* consumer has a version in hand whenever it writes one.
THEOREM CacheTypeCorrect == Spec => []TypeOK
BY TypeInit, TypeStep, PTL DEF Spec

-----------------------------------------------------------------------------
(* What was saved.                                                          *)

\* The row and the entry of a domain were saved, the row last.
SavedInv ==
  \A d \in Domain :
    /\ saved[d] = {} <=> table[d] = 0
    /\ table[d] \in saved[d] \cup {0} /\ cache[d] \in saved[d] \cup {0}
    /\ \A v \in saved[d] : v <= table[d]

\* Publications are numbered in the order of the stream, so what is still to be
\* saved is later than every row.
OrderInv ==
  /\ \A i \in 1..Len(stream) :
       stream[i][2] <= published /\ \A d \in Domain : table[d] < stream[i][2]
  /\ \A i, j \in 1..Len(stream) : i < j => stream[i][2] < stream[j][2]
  /\ \A d \in Domain : table[d] <= published
  /\ pc[Consumer] = "write" =>
       /\ Saving.version <= published
       /\ \A d \in Domain : table[d] < Saving.version
       /\ \A i \in 1..Len(stream) : Saving.version < stream[i][2]
  /\ pc[Consumer] = "insert" => Saving.version = table[Saving.domain]

\* A caller that found a row, or was allowed a URL, asks for a saved domain, and
\* what it has in hand or was told was saved.
CallerInv(c) ==
  /\ pc[c] \in LookPcs /\ (call[c].wasKnown \/ call[c].kind = "delay") =>
       saved[call[c].domain] # {}
  /\ pc[c] = "fill" => call[c].version \in saved[call[c].domain]
  /\ pc[c] = "told" => answer[c] \in saved[call[c].domain] \cup {0}
  /\ pc[c] # "told" => answer[c] = NoAnswer

CacheInv ==
  /\ SavedInv /\ OrderInv /\ \A c \in Caller : CallerInv(c)
  /\ StaleOnlyByLateFill

LEMMA CacheInit == Init => CacheInv
<1> SUFFICES ASSUME Init PROVE CacheInv
  OBVIOUS
<1>1. stream = <<>> /\ Len(stream) = 0 /\ Consumer \in Caller
  BY EmptySeq DEF Init, Caller
<1>2. SavedInv
  BY DEF Init, SavedInv
<1>3. OrderInv
  BY <1>1 DEF Init, OrderInv
<1>4. \A c \in Caller : CallerInv(c)
  BY DEF Init, CallerInv, LookPcs
<1>5. StaleOnlyByLateFill
  BY DEF Init, StaleOnlyByLateFill
<1> QED
  BY <1>2, <1>3, <1>4, <1>5 DEF CacheInv

\* A caller that does nothing loses nothing: what was saved stays so.
LEMMA CallerKept ==
  ASSUME TypeOK, NEW c \in Caller, CallerInv(c),
         pc'[c] = pc[c], call'[c] = call[c], answer'[c] = answer[c],
         \A d \in Domain : saved[d] \subseteq saved'[d]
  PROVE  CallerInv(c)'
<1>1. CASE pc[c] = "free"
  BY <1>1 DEF CallerInv, LookPcs
<1>2. CASE pc[c] # "free"
  BY <1>2, OnCall DEF CallerInv
<1> QED
  BY <1>1, <1>2

LEMMA DoneCaller ==
  ASSUME TypeOK, NEW c \in Caller, Done(c) PROVE CallerInv(c)'
BY DEF Done, Goto, TypeOK, CallTypeOK, CallerInv, LookPcs

\* An attempt leaves what is in hand as it is.
LEMMA AttemptCaller ==
  ASSUME TypeOK, NEW c \in Caller, CallerInv(c), UNCHANGED saved,
         IF call[c].attempt < 3
         THEN call' = [call EXCEPT ![c].attempt = @ + 1]
              /\ UNCHANGED <<pc, answer>>
         ELSE Done(c)
  PROVE  CallerInv(c)'
<1>1. CASE call[c].attempt < 3
  <2>1. /\ call'[c].domain = call[c].domain /\ call'[c].kind = call[c].kind
        /\ call'[c].version = call[c].version
        /\ call'[c].wasKnown = call[c].wasKnown
    BY <1>1 DEF TypeOK, CallTypeOK, Calls
  <2> QED
    BY <1>1, <2>1 DEF CallerInv
<1>2. CASE ~(call[c].attempt < 3)
  BY <1>2, DoneCaller
<1> QED
  BY <1>1, <1>2

LEMMA ReplyCaller ==
  ASSUME TypeOK, NEW c \in Caller, UNCHANGED saved,
         NEW v \in saved[call[c].domain] \cup {0}, Reply(c, v)
  PROVE  CallerInv(c)'
<1>1. /\ pc'[c] = "told" /\ answer'[c] = v
      /\ call'[c].domain = call[c].domain
  BY DEF Reply, Goto, TypeOK, CallTypeOK, CallFor
<1> QED
  BY <1>1 DEF CallerInv, LookPcs

\* Whatever one caller does to its own call leaves the others' as they are.
Alone(c) ==
  \A x \in Caller \ {c} :
    pc'[x] = pc[x] /\ call'[x] = call[x] /\ answer'[x] = answer[x]

LEMMA OthersKept ==
  ASSUME TypeOK, CacheInv, NEW c \in Caller, Alone(c), CallerInv(c)',
         \A d \in Domain : saved[d] \subseteq saved'[d]
  PROVE  \A x \in Caller : CallerInv(x)'
<1> SUFFICES ASSUME NEW x \in Caller, x # c PROVE CallerInv(x)'
  OBVIOUS
<1> QED
  BY CallerKept DEF Alone, CacheInv

LEMMA ActsAlone ==
  ASSUME TypeOK, NEW c \in Caller
  PROVE  /\ Done(c) => Alone(c)
         /\ \A v : Reply(c, v) => Alone(c)
         /\ \A d, kind : Ask(c, d, kind) => Alone(c)
         /\ \A label : Goto(c, label) /\ UNCHANGED answer
              /\ (UNCHANGED call \/ \E r : call' = [call EXCEPT ![c] = r]) => Alone(c)
BY DEF Done, Reply, Ask, Goto, Alone, TypeOK, CallTypeOK

\* The stream and the tables stay, and the consumer does not turn to another
\* domain.
LEMMA OrderKept ==
  ASSUME OrderInv, UNCHANGED <<stream, published, table>>,
         pc'[Consumer] \in {"write", "insert"} =>
           /\ pc'[Consumer] = pc[Consumer]
           /\ call'[Consumer].version = call[Consumer].version
           /\ call'[Consumer].domain = call[Consumer].domain
  PROVE  OrderInv'
BY DEF OrderInv, Saving

LEMMA StaleKept ==
  ASSUME StaleOnlyByLateFill, UNCHANGED <<table, cache, late>>,
         pc[Consumer] = "insert" =>
           /\ pc'[Consumer] = "insert"
           /\ call'[Consumer].domain = call[Consumer].domain
  PROVE  StaleOnlyByLateFill'
BY DEF StaleOnlyByLateFill, Saving

\* A step of one caller that leaves the tables and the consumer's place in them.
LEMMA CallKeepsInv ==
  ASSUME TypeOK, CacheInv, NEW c \in Caller, Alone(c), CallerInv(c)',
         UNCHANGED <<stream, published, table, saved, cache, late>>,
         pc[c] \notin {"write", "insert"}, pc'[c] \notin {"write", "insert"}
  PROVE  CacheInv'
<1>1. Consumer \in Caller
  BY DEF Caller
<1>2. SavedInv'
  BY DEF CacheInv, SavedInv
<1>3. OrderInv'
  BY <1>1, OrderKept DEF CacheInv, Alone
<1>4. \A x \in Caller : CallerInv(x)'
  BY OthersKept
<1>5. StaleOnlyByLateFill'
  BY <1>1, StaleKept DEF CacheInv, Alone
<1> QED
  BY <1>2, <1>3, <1>4, <1>5 DEF CacheInv

LEMMA LookupInv ==
  ASSUME TypeOK, CacheInv, NEW c \in Caller, Lookup(c) PROVE CacheInv'
<1> DEFINE d == call[c].domain
<1>0. CallerInv(c) /\ SavedInv
  BY DEF CacheInv
<1>1. CASE Look(c)
  <2>1. pc[c] = "look" /\ d \in Domain
    BY <1>1, OnCall DEF Look
  <2>2. CASE cache[d] # 0
    <3>1. Reply(c, cache[d]) /\ cache[d] \in saved[d] \cup {0}
      BY <1>0, <1>1, <2>1, <2>2 DEF Look, SavedInv
    <3>2. CallerInv(c)'
      BY <1>1, <3>1, ReplyCaller DEF Look
    <3>3. pc'[c] = "told"
      BY <3>1 DEF Reply, Goto, TypeOK, CallTypeOK
    <3> QED
      BY <1>1, <2>1, <3>1, <3>2, <3>3, ActsAlone, CallKeepsInv DEF Look
  <2>3. CASE cache[d] = 0
    <3>1. Goto(c, "read") /\ UNCHANGED <<call, answer, saved>>
      BY <1>1, <2>3 DEF Look
    <3>2. pc'[c] = "read"
      BY <3>1 DEF Goto, TypeOK, CallTypeOK
    <3>3. CallerInv(c)'
      BY <1>0, <2>1, <3>1, <3>2 DEF CallerInv, LookPcs
    <3> QED
      BY <1>1, <2>1, <3>1, <3>2, <3>3, ActsAlone, CallKeepsInv DEF Look
  <2> QED
    BY <2>2, <2>3
<1>2. CASE ReadRow(c)
  <2> DEFINE v == table[d]
  <2>1. pc[c] = "read" /\ d \in Domain
    BY <1>2, OnCall DEF ReadRow
  <2>2. CASE v = 0 /\ Reply(c, 0)
    <3>1. CallerInv(c)'
      BY <1>2, <2>2, ReplyCaller DEF ReadRow
    <3>2. pc'[c] = "told"
      BY <2>2 DEF Reply, Goto, TypeOK, CallTypeOK
    <3> QED
      BY <1>2, <2>1, <2>2, <3>1, <3>2, ActsAlone, CallKeepsInv DEF ReadRow
  <2>3. CASE Done(c)
    <3>1. pc'[c] = "free"
      BY <2>3 DEF Done, Goto, TypeOK, CallTypeOK
    <3> QED
      BY <1>2, <2>1, <2>3, <3>1, DoneCaller, ActsAlone, CallKeepsInv DEF ReadRow
  <2>4. CASE /\ v # 0 /\ call' = [call EXCEPT ![c].version = v]
             /\ Goto(c, "fill") /\ UNCHANGED answer
    <3>1. /\ pc'[c] = "fill" /\ call'[c].version = v /\ call'[c].domain = d
          /\ call'[c].wasKnown = call[c].wasKnown
          /\ call'[c].kind = call[c].kind
      BY <2>4 DEF Goto, TypeOK, CallTypeOK, Calls
    <3>2. v \in saved[d] /\ UNCHANGED <<saved, answer>>
      BY <1>0, <1>2, <2>1, <2>4 DEF SavedInv, ReadRow
    <3>3. CallerInv(c)'
      BY <1>0, <2>1, <3>1, <3>2 DEF CallerInv, LookPcs
    <3>4. Alone(c)
      BY <2>4 DEF Goto, Alone, TypeOK, CallTypeOK
    <3> QED
      BY <1>2, <2>1, <3>1, <3>3, <3>4, CallKeepsInv DEF ReadRow
  <2> QED
    BY <1>2, <2>2, <2>3, <2>4 DEF ReadRow
<1>3. CASE ReadFails(c)
  <2>1. pc[c] = "read" /\ pc'[c] \in {"read", "free"} /\ Alone(c)
    BY <1>3 DEF ReadFails, Done, Goto, Alone, TypeOK, CallTypeOK
  <2>2. CallerInv(c)'
    BY <1>0, <1>3, AttemptCaller DEF ReadFails
  <2> QED
    BY <1>3, <2>1, <2>2, CallKeepsInv DEF ReadFails
<1>4. CASE Fill(c)
  <2> DEFINE v == call[c].version
  <2>1. /\ pc[c] = "fill" /\ d \in Domain /\ v \in saved[d]
        /\ cache' = [cache EXCEPT ![d] = v] /\ Reply(c, v)
        /\ late' = IF v = table[d] THEN late \ {d} ELSE late \cup {d}
        /\ UNCHANGED <<stream, published, table, saved>>
    BY <1>0, <1>4, OnCall DEF Fill, CallerInv
  <2>2. CallerInv(c)' /\ Alone(c) /\ pc'[c] = "told"
    BY <2>1, ReplyCaller, ActsAlone DEF Reply, Goto, TypeOK, CallTypeOK
  <2>3. SavedInv'
    BY <1>0, <2>1 DEF SavedInv, TypeOK, StoreTypeOK
  <2>4. pc[Consumer] \in {"write", "insert"} \/ pc'[Consumer] \in {"write", "insert"}
          => pc'[Consumer] = pc[Consumer] /\ call'[Consumer] = call[Consumer]
    BY <2>1, <2>2 DEF Alone, Caller
  <2>5. OrderInv'
    BY <2>1, <2>4, OrderKept DEF CacheInv
  <2>6. \A x \in Caller : CallerInv(x)'
    BY <2>1, <2>2, OthersKept
  <2>7. StaleOnlyByLateFill'
    BY <2>1, <2>4
    DEF CacheInv, StaleOnlyByLateFill, Saving, TypeOK, StoreTypeOK
  <2> QED
    BY <2>3, <2>5, <2>6, <2>7 DEF CacheInv
<1>5. CASE Proceed(c)
  <2>1. pc[c] = "told" /\ pc'[c] = "free"
    BY <1>5 DEF Proceed, Done, Goto, TypeOK, CallTypeOK
  <2> QED
    BY <1>5, <2>1, DoneCaller, ActsAlone, CallKeepsInv DEF Proceed
<1> QED
  BY <1>1, <1>2, <1>3, <1>4, <1>5 DEF Lookup

\* Who may ask, for what.
LEMMA Asking ==
  ASSUME TypeOK, CacheInv,
         AskId \/ \E t \in Task : AskAccess(t) \/ AskDelay(t)
  PROVE  \E c \in Caller, d \in Domain, kind \in {"access", "delay", "id"} :
           /\ Ask(c, d, kind) /\ pc[c] \in {"free", "told"}
           /\ kind = "delay" => saved[d] # {}
           /\ c = Consumer => kind = "id"
<1>1. CASE AskId
  BY <1>1 DEF AskId, Caller
<1>2. ASSUME NEW t \in Task, AskAccess(t)
      PROVE  \E d \in Domain : Ask(t, d, "access") /\ pc[t] = "free"
  BY <1>2 DEF AskAccess
<1>3. ASSUME NEW t \in Task, AskDelay(t)
      PROVE  /\ Ask(t, call[t].domain, "delay") /\ call[t].domain \in Domain
             /\ pc[t] = "told" /\ saved[call[t].domain] # {}
  <2>1. pc[t] = "told" /\ t \in Caller /\ answer[t] # 0
    BY <1>3 DEF AskDelay, Caller
  <2> QED
    BY <1>3, <2>1, OnCall DEF AskDelay, CacheInv, CallerInv
<1> QED
  BY <1>1, <1>2, <1>3, CacheAssumption DEF Caller

LEMMA AskingInv ==
  ASSUME TypeOK, CacheInv,
         AskId \/ \E t \in Task : AskAccess(t) \/ AskDelay(t)
  PROVE  CacheInv'
<1>1. PICK c \in Caller, d \in Domain, kind \in {"access", "delay", "id"} :
        /\ Ask(c, d, kind) /\ pc[c] \in {"free", "told"}
        /\ kind = "delay" => saved[d] # {}
  BY Asking
<1>2. /\ pc'[c] = "look" /\ call'[c] = CallFor(d, 0, kind, table[d] # 0)
      /\ answer'[c] = NoAnswer /\ UNCHANGED saved
  BY <1>1 DEF Ask, Goto, TypeOK, CallTypeOK
<1>3. /\ call'[c].domain = d /\ call'[c].kind = kind
      /\ call'[c].wasKnown => table[d] # 0
  <2>1. CASE table[d] # 0
    BY <1>2, <2>1 DEF CallFor
  <2>2. CASE table[d] = 0
    <3>1. (table[d] # 0) = FALSE
      BY <2>2
    <3>2. call'[c] = CallFor(d, 0, kind, FALSE)
      BY <1>2, <3>1
    <3> QED
      BY <3>2 DEF CallFor
  <2> QED
    BY <2>1, <2>2
<1>4. CallerInv(c)'
  BY <1>1, <1>2, <1>3 DEF CallerInv, CacheInv, SavedInv
<1> QED
  BY <1>1, <1>2, <1>4, ActsAlone, CallKeepsInv DEF Ask

LEMMA TimesOutInv ==
  ASSUME TypeOK, CacheInv, NEW t \in Task, CallTimesOut(t) PROVE CacheInv'
<1>1. t \in Caller /\ pc[t] \in LookPcs /\ Done(t) /\ pc'[t] = "free"
  BY DEF CallTimesOut, Done, Goto, TypeOK, CallTypeOK, Caller
<1> QED
  BY <1>1, DoneCaller, ActsAlone, CallKeepsInv DEF CallTimesOut, LookPcs

LEMMA PublishInv ==
  ASSUME TypeOK, CacheInv, NEW t \in Task, Publish(t) PROVE CacheInv'
<1>1. /\ t \in Caller /\ t # Consumer /\ pc[t] = "told" /\ pc'[t] = "free"
      /\ Done(t) /\ UNCHANGED <<table, saved, cache, late>>
  BY CacheAssumption
  DEF Publish, Done, Goto, TypeOK, CallTypeOK, Caller
<1>2. Alone(t) /\ \A x \in Caller : CallerInv(x)'
  BY <1>1, ActsAlone, DoneCaller, OthersKept
<1>3. pc'[Consumer] = pc[Consumer] /\ call'[Consumer] = call[Consumer]
  BY <1>1, <1>2 DEF Alone, Caller
<1>4. SavedInv' /\ StaleOnlyByLateFill'
  BY <1>1, <1>3, StaleKept DEF CacheInv, SavedInv
<1>5. OrderInv'
  <2>1. /\ published \in Nat /\ published' = published + 1
        /\ stream \in Seq(Domain \X Version) /\ call[t].domain \in Domain
        /\ published' \in Version
    BY <1>1, OnCall, CacheAssumption
    DEF Publish, TypeOK, StoreTypeOK, Version
  <2> DEFINE e == <<call[t].domain, published'>>
  <2>2. e \in Domain \X Version /\ e[2] = published' /\ Len(stream) \in Nat
    BY <2>1, LenProperties
  <2>3. stream' = Append(stream, e)
    BY DEF Publish
  <2>4. /\ Len(stream') = Len(stream) + 1 /\ stream'[Len(stream) + 1] = e
        /\ \A i \in 1..Len(stream) : stream'[i] = stream[i]
    BY <2>1, <2>2, <2>3, AppendProperties
  <2>5. \A i \in 1..Len(stream') : i \in 1..Len(stream) \/ i = Len(stream) + 1
    BY <2>2, <2>4
  <2>6. \A i \in 1..Len(stream) : stream[i] \in Domain \X Version
    BY <2>1, LenProperties
  <2>7. /\ \A i \in 1..Len(stream) : stream[i][2] \in Nat
        /\ \A d \in Domain : table[d] \in Nat
    BY <2>6, CacheAssumption DEF Version, TypeOK, StoreTypeOK
  <2>8. OrderInv /\ (pc[Consumer] = "write" => Saving.version \in Nat)
    BY OnCall, CacheAssumption DEF CacheInv, Saving, Caller
  <2>9. \A i \in 1..Len(stream') :
          /\ stream'[i][2] <= published'
          /\ \A d \in Domain : table'[d] < stream'[i][2]
    BY <1>1, <2>1, <2>2, <2>4, <2>5, <2>7, <2>8 DEF OrderInv
  <2>10. \A i, j \in 1..Len(stream') : i < j => stream'[i][2] < stream'[j][2]
    BY <2>1, <2>2, <2>4, <2>5, <2>7, <2>8 DEF OrderInv
  <2>11. \A d \in Domain : table'[d] <= published'
    BY <1>1, <2>1, <2>7, <2>8 DEF OrderInv
  <2>12. pc'[Consumer] = "write" =>
           /\ Saving'.version <= published'
           /\ \A d \in Domain : table'[d] < Saving'.version
           /\ \A i \in 1..Len(stream') : Saving'.version < stream'[i][2]
    <3> SUFFICES ASSUME pc'[Consumer] = "write"
                 PROVE  /\ Saving'.version <= published'
                        /\ \A d \in Domain : table'[d] < Saving'.version
                        /\ \A i \in 1..Len(stream') :
                             Saving'.version < stream'[i][2]
      OBVIOUS
    <3>1. Saving' = Saving /\ Saving.version \in Nat /\ Saving.version <= published
      BY <1>3, <2>8 DEF OrderInv, Saving
    <3>2. \A d \in Domain : table'[d] < Saving'.version
      BY <1>1, <1>3, <2>8, <3>1 DEF OrderInv
    <3>3. \A i \in 1..Len(stream) : Saving.version < stream[i][2]
      BY <1>3, <2>8 DEF OrderInv
    <3>4. Saving'.version <= published'
      BY <2>1, <3>1
    <3>5. ASSUME NEW i \in 1..Len(stream')
          PROVE Saving'.version < stream'[i][2]
      <4>1. Saving'.version = Saving.version /\ Saving.version < published'
        BY <2>1, <3>1
      <4>2. CASE i \in 1..Len(stream)
        BY <2>4, <3>3, <4>1, <4>2
      <4>3. CASE i = Len(stream) + 1
        BY <2>2, <2>4, <4>1, <4>3
      <4> QED
        BY <2>5, <4>2, <4>3
    <3> QED
      BY <3>2, <3>4, <3>5
  <2>13. pc'[Consumer] = "insert" => Saving'.version = table'[Saving'.domain]
    BY <1>1, <1>3, <2>8 DEF OrderInv, Saving
  <2> QED
    BY <2>9, <2>10, <2>11, <2>12, <2>13 DEF OrderInv
<1> QED
  BY <1>2, <1>4, <1>5 DEF CacheInv

LEMMA TakeEntryInv ==
  ASSUME TypeOK, CacheInv, TakeEntry PROVE CacheInv'
<1>1. Consumer \in Caller /\ OrderInv /\ SavedInv
  BY DEF Caller, CacheInv
<1>2. /\ pc[Consumer] = "free" /\ pc'[Consumer] = "write"
      /\ call'[Consumer].domain = Head(stream)[1]
      /\ call'[Consumer].version = Head(stream)[2]
      /\ UNCHANGED <<published, table, saved, cache, answer, late>>
      /\ Alone(Consumer)
  BY <1>1 DEF TakeEntry, Goto, CallFor, Alone, TypeOK, CallTypeOK
<1>3. CallerInv(Consumer)'
  BY <1>1, <1>2 DEF CallerInv, CacheInv, LookPcs
<1>4. \A x \in Caller : CallerInv(x)'
  BY <1>1, <1>2, <1>3, OthersKept
<1>5. /\ stream \in Seq(Domain \X Version) /\ stream # <<>>
      /\ stream' = Tail(stream)
  BY DEF TakeEntry, TypeOK, StoreTypeOK
<1>6. /\ Len(stream) \in Nat \ {0} /\ Len(stream') = Len(stream) - 1
      /\ \A i \in 1..Len(stream') : stream'[i] = stream[i + 1]
      /\ Head(stream) = stream[1]
  BY <1>5, EmptySeq, LenProperties, HeadTailProperties
<1>7. OrderInv'
  <2>1. \A i \in 1..Len(stream') : i + 1 \in 1..Len(stream) /\ 1 < i + 1
    BY <1>6
  <2>2. 1 \in 1..Len(stream)
    BY <1>6
  <2>3. \A i \in 1..Len(stream') :
          /\ stream'[i][2] <= published
          /\ \A d \in Domain : table[d] < stream'[i][2]
          /\ stream[1][2] < stream'[i][2]
    BY <1>1, <1>6, <2>1, <2>2 DEF OrderInv
  <2>4. ASSUME NEW i \in 1..Len(stream'), NEW j \in 1..Len(stream'), i < j
        PROVE  stream'[i][2] < stream'[j][2]
    <3>1. i + 1 < j + 1
      BY <1>6, <2>4
    <3> QED
      BY <1>1, <1>6, <2>1, <3>1 DEF OrderInv
  <2>5. /\ stream[1][2] <= published
        /\ \A d \in Domain : table[d] < stream[1][2] /\ table[d] <= published
    BY <1>1, <2>2 DEF OrderInv
  <2> QED
    BY <1>2, <1>6, <2>3, <2>4, <2>5 DEF OrderInv, Saving
<1>8. SavedInv' /\ StaleOnlyByLateFill'
  BY <1>1, <1>2, StaleKept DEF CacheInv, SavedInv
<1> QED
  BY <1>4, <1>7, <1>8 DEF CacheInv

LEMMA WriteRowInv ==
  ASSUME TypeOK, CacheInv, WriteRow PROVE CacheInv'
<1> DEFINE d == Saving.domain  v == Saving.version
<1>1. Consumer \in Caller /\ OrderInv /\ SavedInv
  BY DEF Caller, CacheInv
<1>2. /\ pc[Consumer] = "write" /\ pc'[Consumer] = "insert"
      /\ d \in Domain /\ v \in Version /\ v \in Nat \ {0}
      /\ table' = [table EXCEPT ![d] = v]
      /\ saved' = [saved EXCEPT ![d] = @ \cup {v}]
      /\ UNCHANGED <<stream, published, cache, call, answer, late>>
      /\ Alone(Consumer)
  BY <1>1, OnCall, CacheAssumption
  DEF WriteRow, Goto, Saving, Alone, Version, TypeOK, CallTypeOK
<1>3. /\ v <= published /\ \A x \in Domain : table[x] < v
      /\ \A i \in 1..Len(stream) : v < stream[i][2]
  BY <1>1, <1>2 DEF OrderInv
<1>4. /\ table \in [Domain -> Nat] /\ saved \in [Domain -> SUBSET Version]
      /\ \A x \in Domain : saved[x] \subseteq Nat
  BY CacheAssumption DEF TypeOK, StoreTypeOK, Version
<1>5. SavedInv'
  <2> SUFFICES ASSUME NEW x \in Domain
               PROVE  /\ saved'[x] = {} <=> table'[x] = 0
                      /\ table'[x] \in saved'[x] \cup {0}
                      /\ cache'[x] \in saved'[x] \cup {0}
                      /\ \A y \in saved'[x] : y <= table'[x]
    BY DEF SavedInv
  <2>1. CASE x = d
    <3>1. table'[x] = v /\ saved'[x] = saved[x] \cup {v}
      BY <1>2, <1>4, <2>1
    <3>2. \A y \in saved[x] : y <= v
      BY <1>1, <1>2, <1>3, <1>4 DEF SavedInv
    <3> QED
      BY <1>1, <1>2, <3>1, <3>2 DEF SavedInv
  <2>2. CASE x # d
    BY <1>1, <1>2, <1>4, <2>2 DEF SavedInv
  <2> QED
    BY <2>1, <2>2
<1>6. OrderInv'
  <2>1. \A x \in Domain : table'[x] = (IF x = d THEN v ELSE table[x])
    BY <1>2, <1>4
  <2> QED
    BY <1>1, <1>2, <1>3, <2>1 DEF OrderInv, Saving
<1>7. CallerInv(Consumer)'
  BY <1>1, <1>2 DEF CacheInv, CallerInv, LookPcs
<1>8. \A x \in Domain : saved[x] \subseteq saved'[x]
  BY <1>2, <1>4
<1>9. \A x \in Caller : CallerInv(x)'
  BY <1>1, <1>2, <1>7, <1>8, OthersKept
<1>10. StaleOnlyByLateFill'
  BY <1>2, <1>4 DEF CacheInv, StaleOnlyByLateFill, Saving
<1> QED
  BY <1>5, <1>6, <1>9, <1>10 DEF CacheInv

LEMMA InsertEntryInv ==
  ASSUME TypeOK, CacheInv, InsertEntry PROVE CacheInv'
<1> DEFINE d == Saving.domain  v == Saving.version
<1>1. Consumer \in Caller /\ OrderInv /\ SavedInv
  BY DEF Caller, CacheInv
<1>2. /\ pc[Consumer] = "insert" /\ pc'[Consumer] = "sitemaps"
      /\ d \in Domain
      /\ cache' = [cache EXCEPT ![d] = v] /\ late' = late \ {d}
      /\ UNCHANGED <<stream, published, table, saved, call, answer>>
      /\ Alone(Consumer)
  BY <1>1, OnCall DEF InsertEntry, Goto, Saving, Alone, TypeOK, CallTypeOK
<1>3. v = table[d]
  BY <1>1, <1>2 DEF OrderInv
<1>4. SavedInv'
  BY <1>1, <1>2, <1>3 DEF SavedInv, TypeOK, StoreTypeOK
<1>5. OrderInv'
  BY <1>1, <1>2, OrderKept
<1>6. CallerInv(Consumer)'
  BY <1>1, <1>2 DEF CacheInv, CallerInv, LookPcs
<1>7. \A x \in Caller : CallerInv(x)'
  BY <1>1, <1>2, <1>6, OthersKept
<1>8. StaleOnlyByLateFill'
  BY <1>2, <1>3 DEF CacheInv, StaleOnlyByLateFill, TypeOK, StoreTypeOK, Saving
<1> QED
  BY <1>4, <1>5, <1>7, <1>8 DEF CacheInv

LEMMA SavesInv ==
  ASSUME TypeOK, CacheInv, Saves PROVE CacheInv'
<1>1. Consumer \in Caller /\ OrderInv /\ SavedInv /\ CallerInv(Consumer)
  BY DEF Caller, CacheInv
<1>2. CASE WriteFails
  <2>1. /\ pc[Consumer] = "write" /\ pc'[Consumer] \in {"write", "free"}
        /\ Alone(Consumer)
        /\ UNCHANGED <<stream, published, table, saved, cache, late>>
        /\ pc'[Consumer] = "write" =>
             /\ call'[Consumer].version = call[Consumer].version
             /\ call'[Consumer].domain = call[Consumer].domain
    BY <1>1, <1>2
    DEF WriteFails, Done, Goto, Alone, Saving, TypeOK, CallTypeOK, Calls
  <2>2. \A x \in Caller : CallerInv(x)'
    <3>1. CallerInv(Consumer)'
      BY <1>1, <1>2, AttemptCaller DEF WriteFails, Saving
    <3> QED
      BY <1>1, <2>1, <3>1, OthersKept
  <2>3. OrderInv'
    BY <1>1, <2>1, OrderKept
  <2>4. SavedInv' /\ StaleOnlyByLateFill'
    BY <1>1, <2>1, StaleKept DEF CacheInv, SavedInv
  <2> QED
    BY <2>2, <2>3, <2>4 DEF CacheInv
<1>3. CASE TakeSitemaps
  <2>1. /\ pc[Consumer] = "sitemaps" /\ pc'[Consumer] = "free" /\ Done(Consumer)
        /\ UNCHANGED <<stream, published, table, saved, cache, late>>
    BY <1>1, <1>3 DEF TakeSitemaps, Done, Goto, TypeOK, CallTypeOK
  <2> QED
    BY <1>1, <2>1, ActsAlone, DoneCaller, CallKeepsInv
<1> QED
  BY <1>2, <1>3, TakeEntryInv, WriteRowInv, InsertEntryInv DEF Saves

LEMMA ExpireInv ==
  ASSUME TypeOK, CacheInv, NEW d \in Domain, Expire(d) PROVE CacheInv'
<1>1. /\ cache' = [cache EXCEPT ![d] = 0] /\ late' = late \ {d}
      /\ UNCHANGED <<stream, published, table, saved, pc, call, answer>>
  BY DEF Expire
<1>2. SavedInv'
  BY <1>1 DEF CacheInv, SavedInv, TypeOK, StoreTypeOK
<1>3. OrderInv'
  BY <1>1, OrderKept DEF CacheInv
<1>4. \A x \in Caller : CallerInv(x)'
  BY <1>1 DEF CacheInv, CallerInv
<1>5. StaleOnlyByLateFill'
  BY <1>1 DEF CacheInv, StaleOnlyByLateFill, Saving, TypeOK, StoreTypeOK
<1> QED
  BY <1>2, <1>3, <1>4, <1>5 DEF CacheInv

LEMMA CrashInv ==
  ASSUME TypeOK, CacheInv, Crash PROVE CacheInv'
<1> DEFINE gone == InCall \cup {Consumer}
<1>1. /\ pc' = [c \in Caller |-> IF c \in gone THEN "free" ELSE pc[c]]
      /\ call' = [c \in Caller |-> IF c \in gone THEN Idle ELSE call[c]]
      /\ answer' = [c \in Caller |-> IF c \in gone THEN NoAnswer ELSE answer[c]]
      /\ cache' = [d \in Domain |-> 0] /\ late' = {}
      /\ UNCHANGED <<published, table, saved>>
  BY DEF Crash
<1> HIDE DEF gone
<1>2. SavedInv'
  BY <1>1 DEF CacheInv, SavedInv
<1>3. OrderInv'
  <2>1. pc'[Consumer] = "free"
    BY <1>1 DEF gone, Caller
  <2>2. PICK n \in 0..Len(stream) : stream' = SubSeq(stream, n + 1, Len(stream))
    BY DEF Crash
  <2>3. /\ Len(stream) \in Nat
        /\ \A i \in (n + 1)..Len(stream) : stream[i] \in Domain \X Version
    BY <2>2, LenProperties DEF TypeOK, StoreTypeOK
  <2>4. /\ Len(stream') = IF n + 1 <= Len(stream) THEN Len(stream) - (n + 1) + 1 ELSE 0
        /\ \A i \in 1..(Len(stream) - (n + 1) + 1) :
             stream'[i] = stream[(n + 1) + i - 1]
    BY <2>2, <2>3, SubSeqProperties
  <2>5. \A i \in 1..Len(stream') :
          n + i \in 1..Len(stream) /\ stream'[i] = stream[n + i]
    BY <2>3, <2>4
  <2>6. \A i, j \in 1..Len(stream') : i < j => n + i < n + j
    BY <2>3, <2>4
  <2> QED
    BY <1>1, <2>1, <2>5, <2>6 DEF CacheInv, OrderInv
<1>4. ASSUME NEW x \in Caller PROVE CallerInv(x)'
  <2>1. CASE x \in gone
    BY <1>1, <2>1 DEF CallerInv, LookPcs
  <2>2. CASE x \notin gone
    BY <1>1, <2>2, CallerKept DEF CacheInv
  <2> QED
    BY <2>1, <2>2
<1>5. StaleOnlyByLateFill'
  BY <1>1 DEF StaleOnlyByLateFill
<1> QED
  BY <1>2, <1>3, <1>4, <1>5 DEF CacheInv

LEMMA CacheStep == TypeOK /\ CacheInv /\ [Next]_vars => CacheInv'
<1> SUFFICES ASSUME TypeOK, CacheInv, [Next]_vars PROVE CacheInv'
  OBVIOUS
<1>1. CASE UNCHANGED vars
  BY <1>1 DEF vars, CacheInv, SavedInv, OrderInv, CallerInv,
    StaleOnlyByLateFill, Saving
<1> QED
  BY <1>1, LookupInv, AskingInv, TimesOutInv, PublishInv, SavesInv, ExpireInv,
    CrashInv DEF Next, Worker

LEMMA CacheInvariant == Spec => [](TypeOK /\ CacheInv)
<1>1. Init => TypeOK /\ CacheInv
  BY TypeInit, CacheInit
<1>2. (TypeOK /\ CacheInv) /\ [Next]_vars => (TypeOK /\ CacheInv)'
  BY TypeStep, CacheStep
<1> QED
  BY <1>1, <1>2, PTL DEF Spec

\* A row is written before its entry is made, by the consumer as by the callers,
\* and rows are written in the order of the stream (crawler_storage.rs:98, :105,
\* :155, :157): the cache is never ahead of the table, whatever is lost.
THEOREM CacheNeverAhead == Spec => []CacheBehindTable
<1>1. TypeOK /\ CacheInv => CacheBehindTable
  <2> SUFFICES ASSUME TypeOK, CacheInv, NEW d \in Domain
               PROVE  cache[d] <= table[d]
    BY DEF CacheBehindTable
  <2>1. table[d] \in Nat
    BY CacheAssumption DEF TypeOK, StoreTypeOK
  <2>2. cache[d] = 0 \/ cache[d] <= table[d]
    BY DEF CacheInv, SavedInv
  <2> QED
    BY <2>1, <2>2
<1> QED
  BY <1>1, CacheInvariant, PTL

\* An old entry stays in force only if a robots.txt was refused when the row was
\* there (crawler_storage.rs:159), or if a call inserted what it had read before
\* the save (:105); expiry, failures, timeouts and crashes leave none.
THEOREM StaleEntriesExplained == Spec => []StaleOnlyByLateFill
<1>1. CacheInv => StaleOnlyByLateFill
  BY DEF CacheInv
<1> QED
  BY <1>1, CacheInvariant, PTL

-----------------------------------------------------------------------------
(* Answers.                                                                 *)

\* A caller gets an answer from its own look-up alone.
LEMMA AnswersOnlyByLookup ==
  ASSUME TypeOK, NEW c \in Caller, [Next]_vars, ~Lookup(c)
  PROVE  answer'[c] \in {answer[c], NoAnswer}
<1>1. ASSUME NEW x \in Caller, Lookup(x), x # c PROVE answer'[c] = answer[c]
  BY <1>1 DEF Lookup, Look, ReadRow, ReadFails, Fill, Proceed, Reply, Done,
    TypeOK, CallTypeOK
<1>2. ASSUME NEW t \in Task, Worker(t) PROVE answer'[c] \in {answer[c], NoAnswer}
  BY <1>2 DEF Worker, AskAccess, AskDelay, CallTimesOut, Publish, Ask, Done,
    TypeOK, CallTypeOK
<1>3. CASE AskId \/ Saves
  BY <1>3 DEF AskId, Ask, Saves, TakeEntry, WriteRow, WriteFails, InsertEntry,
    TakeSitemaps, Done, TypeOK, CallTypeOK
<1>4. CASE Crash \/ UNCHANGED vars \/ \E d \in Domain : Expire(d)
  BY <1>4 DEF Crash, vars, Expire
<1> QED
  BY <1>1, <1>2, <1>3, <1>4 DEF Next

\* The answer to one who asked about a domain that was saved.
LEMMA KnownIsFound ==
  ASSUME TypeOK, CacheInv, NEW c \in Caller, pc[c] \in LookPcs, Lookup(c),
         saved[call[c].domain] # {}
  PROVE  answer'[c] # 0
<1> DEFINE d == call[c].domain
<1>1. /\ answer[c] = NoAnswer /\ NoAnswer # 0 /\ table[d] # 0 /\ d \in Domain
      /\ pc[c] = "fill" => call[c].version \in Version /\ call[c].version # 0
  BY OnCall, CacheAssumption
  DEF CacheInv, CallerInv, SavedInv, LookPcs, TypeOK, CallTypeOK, Version
<1>2. CASE Look(c) \/ Fill(c)
  BY <1>1, <1>2 DEF Look, Fill, Reply, TypeOK, CallTypeOK
<1>3. CASE ReadRow(c) \/ ReadFails(c) \/ Proceed(c)
  BY <1>1, <1>3 DEF ReadRow, ReadFails, Proceed, Done, TypeOK, CallTypeOK
<1> QED
  BY <1>2, <1>3 DEF Lookup

\* A task that asks for a delay is never told that the domain is unknown: the row
\* that allowed its URL is still there (crawler_storage.rs:186).
THEOREM DelaysAreKnown == Spec => DelayNeverGuessed
<1>1. TypeOK /\ CacheInv /\ [Next]_vars =>
        [\A t \in Task : pc[t] \in LookPcs /\ call[t].kind = "delay"
                          => answer'[t] # 0]_vars
  <2> SUFFICES ASSUME TypeOK, CacheInv, [Next]_vars, NEW t \in Task,
                      pc[t] \in LookPcs, call[t].kind = "delay"
               PROVE  answer'[t] # 0
    OBVIOUS
  <2>1. t \in Caller /\ CallerInv(t) /\ saved[call[t].domain] # {}
    BY DEF Caller, CacheInv, CallerInv
  <2>2. CASE Lookup(t)
    BY <2>1, <2>2, KnownIsFound
  <2>3. CASE ~Lookup(t)
    <3>1. answer[t] = NoAnswer /\ NoAnswer # 0
      BY <2>1, CacheAssumption DEF CallerInv, LookPcs
    <3> QED
      BY <2>1, <2>3, <3>1, AnswersOnlyByLookup
  <2> QED
    BY <2>2, <2>3
<1> QED
  BY <1>1, CacheInvariant, PTL DEF Spec, DelayNeverGuessed

-----------------------------------------------------------------------------
(* The cache and the table implement DomainDirectory.                       *)

LEMMA DirectoryInit == Init => Directory!Init
BY DEF Init, Directory!Init, InCall, LookPcs

\* Nobody asks, and nobody is answered.
LEMMA DirectoryStutters ==
  ASSUME UNCHANGED <<saved, answer>>,
         \A c \in Caller :
           /\ pc'[c] \in LookPcs <=> pc[c] \in LookPcs
           /\ pc[c] \in LookPcs =>
                /\ call'[c].domain = call[c].domain
                /\ call'[c].wasKnown = call[c].wasKnown
  PROVE  UNCHANGED Directory!vars
<1>1. InCall' = InCall
  BY DEF InCall
<1> QED
  BY <1>1 DEF Directory!vars, InCall

LEMMA DirectoryReply ==
  ASSUME TypeOK, NEW c \in Caller, pc[c] \in LookPcs, UNCHANGED saved,
         NEW v \in Version \cup {0}, Reply(c, v),
         v \in saved[call[c].domain] \/ (v = 0 /\ ~call[c].wasKnown)
  PROVE  Directory!Next
<1>1. pc[c] # "free" /\ call[c].domain \in Domain /\ call[c].domain # NoDomain
  BY OnCall, CacheAssumption DEF LookPcs
<1>2. /\ pc' = [pc EXCEPT ![c] = "told"] /\ answer' = [answer EXCEPT ![c] = v]
      /\ \A x \in Caller \ {c} : call'[x] = call[x]
  BY DEF Reply, Goto, TypeOK, CallTypeOK
<1>3. InCall' = InCall \ {c} /\ c \in InCall
  BY <1>2 DEF InCall, LookPcs, TypeOK, CallTypeOK
<1>4. Directory!Reply(c, v)
  BY <1>1, <1>2, <1>3 DEF Directory!Reply
<1> QED
  BY <1>4 DEF Directory!Next

LEMMA DirectoryAsk ==
  ASSUME TypeOK, CacheInv, NEW c \in Caller, pc[c] \notin LookPcs,
         NEW d \in Domain, NEW kind, Ask(c, d, kind)
  PROVE  Directory!Next
<1>1. /\ pc' = [pc EXCEPT ![c] = "look"]
      /\ answer' = [answer EXCEPT ![c] = NoAnswer]
      /\ call' = [call EXCEPT ![c] = CallFor(d, 0, kind, table[d] # 0)]
      /\ UNCHANGED saved
  BY DEF Ask, Goto
<1>2. InCall' = InCall \cup {c} /\ c \notin InCall
  BY <1>1 DEF InCall, LookPcs, TypeOK, CallTypeOK
<1>3. /\ call'[c] = CallFor(d, 0, kind, table[d] # 0)
      /\ \A x \in Caller \ {c} : call'[x] = call[x]
  BY <1>1 DEF TypeOK, CallTypeOK
<1>4. call'[c].domain = d /\ call'[c].wasKnown = (table[d] # 0)
  BY <1>3 DEF CallFor
<1>5. (table[d] # 0) = (saved[d] # {})
  BY DEF CacheInv, SavedInv
<1> DEFINE known == [x \in Caller |-> x \in InCall /\ call[x].wasKnown]
<1>6. known' = [known EXCEPT ![c] = saved[d] # {}]
  <2>1. ASSUME NEW x \in Caller
        PROVE  (x \in InCall' /\ call'[x].wasKnown) =
               (IF x = c THEN saved[d] # {} ELSE x \in InCall /\ call[x].wasKnown)
    <3>1. CASE x = c
      <4>1. x \in InCall' /\ call'[x].wasKnown = (saved[d] # {})
        BY <1>2, <1>4, <1>5, <3>1
      <4> QED
        BY <3>1, <4>1
    <3>2. CASE x # c
      <4>1. (x \in InCall') = (x \in InCall) /\ call'[x] = call[x]
        BY <1>2, <1>3, <3>2
      <4> QED
        BY <3>2, <4>1
    <3> QED
      BY <3>1, <3>2
  <2> QED
    BY <2>1
<1> DEFINE wanted == [x \in Caller |-> IF x \in InCall THEN call[x].domain
                                      ELSE NoDomain]
<1>7. wanted[c] = NoDomain /\ wanted' = [wanted EXCEPT ![c] = d]
  BY <1>2, <1>3, <1>4
<1>8. Directory!Ask(c, d)
  <2>1. answer' = [answer EXCEPT ![c] = NoAnswer] /\ UNCHANGED saved
    BY <1>1
  <2> QED
    BY <1>6, <1>7, <2>1, Zenon DEF Directory!Ask
<1> QED
  BY <1>8 DEF Directory!Next

LEMMA DirectoryGivesUp ==
  ASSUME TypeOK, UNCHANGED saved, NEW C \in SUBSET Caller,
         pc' = [c \in Caller |-> IF c \in C THEN "free" ELSE pc[c]],
         call' = [c \in Caller |-> IF c \in C THEN Idle ELSE call[c]],
         answer' = [c \in Caller |-> IF c \in C THEN NoAnswer ELSE answer[c]]
  PROVE  Directory!Next
<1>1. InCall' = InCall \ C
  BY DEF InCall, LookPcs
<1>2. Directory!GiveUp(C)
  BY <1>1 DEF Directory!GiveUp
<1> QED
  BY <1>2 DEF Directory!Next

LEMMA DirectoryDone ==
  ASSUME TypeOK, NEW c \in Caller, Done(c), UNCHANGED saved
  PROVE  Directory!Next
<1>1. /\ pc' = [x \in Caller |-> IF x \in {c} THEN "free" ELSE pc[x]]
      /\ call' = [x \in Caller |-> IF x \in {c} THEN Idle ELSE call[x]]
      /\ answer' = [x \in Caller |-> IF x \in {c} THEN NoAnswer ELSE answer[x]]
  BY DEF Done, Goto, TypeOK, CallTypeOK
<1> QED
  BY <1>1, DirectoryGivesUp

\* Another attempt is nothing new, the last one is an Err.
LEMMA DirectoryAttempt ==
  ASSUME TypeOK, NEW c \in Caller, UNCHANGED saved,
         IF call[c].attempt < 3
         THEN call' = [call EXCEPT ![c].attempt = @ + 1]
              /\ UNCHANGED <<pc, answer>>
         ELSE Done(c)
  PROVE  [Directory!Next]_(Directory!vars)
<1>1. CASE call[c].attempt < 3
  <2>1. \A x \in Caller : /\ call'[x].domain = call[x].domain
                          /\ call'[x].wasKnown = call[x].wasKnown
    BY <1>1 DEF TypeOK, CallTypeOK, Calls
  <2> QED
    BY <1>1, <2>1, DirectoryStutters
<1>2. CASE ~(call[c].attempt < 3)
  BY <1>2, DirectoryDone
<1> QED
  BY <1>1, <1>2

LEMMA DirectoryLookup ==
  ASSUME TypeOK, CacheInv, NEW c \in Caller, Lookup(c)
  PROVE  [Directory!Next]_(Directory!vars)
<1> DEFINE d == call[c].domain
<1>0. CallerInv(c) /\ SavedInv
  BY DEF CacheInv
<1>1. CASE Look(c)
  <2>1. pc[c] = "look" /\ pc[c] \in LookPcs /\ d \in Domain /\ UNCHANGED saved
    BY <1>1, OnCall DEF Look, LookPcs
  <2>2. CASE cache[d] # 0
    <3>1. Reply(c, cache[d]) /\ cache[d] \in saved[d] /\ cache[d] \in Version
      BY <1>0, <1>1, <2>1, <2>2 DEF Look, SavedInv, TypeOK, StoreTypeOK
    <3> QED
      BY <2>1, <3>1, DirectoryReply
  <2>3. CASE cache[d] = 0
    <3>1. Goto(c, "read") /\ UNCHANGED <<call, answer>>
      BY <1>1, <2>3 DEF Look
    <3>2. \A x \in Caller : pc'[x] \in LookPcs <=> pc[x] \in LookPcs
      BY <2>1, <3>1 DEF Goto, LookPcs, TypeOK, CallTypeOK
    <3> QED
      BY <2>1, <3>1, <3>2, DirectoryStutters
  <2> QED
    BY <2>2, <2>3
<1>2. CASE ReadRow(c)
  <2>1. pc[c] = "read" /\ pc[c] \in LookPcs /\ d \in Domain /\ UNCHANGED saved
    BY <1>2, OnCall DEF ReadRow, LookPcs
  <2>2. CASE table[d] = 0 /\ Reply(c, 0)
    <3>1. ~call[c].wasKnown
      BY <1>0, <2>1, <2>2 DEF CallerInv, SavedInv
    <3> QED
      BY <2>1, <2>2, <3>1, DirectoryReply
  <2>3. CASE Done(c)
    BY <2>1, <2>3, DirectoryDone
  <2>4. CASE /\ call' = [call EXCEPT ![c].version = table[d]]
             /\ Goto(c, "fill") /\ UNCHANGED answer
    <3>1. \A x \in Caller : /\ pc'[x] \in LookPcs <=> pc[x] \in LookPcs
                            /\ call'[x].domain = call[x].domain
                            /\ call'[x].wasKnown = call[x].wasKnown
      BY <2>1, <2>4 DEF Goto, LookPcs, TypeOK, CallTypeOK, Calls
    <3> QED
      BY <2>1, <2>4, <3>1, DirectoryStutters
  <2> QED
    BY <1>2, <2>2, <2>3, <2>4 DEF ReadRow
<1>3. CASE ReadFails(c)
  BY <1>3, DirectoryAttempt DEF ReadFails
<1>4. CASE Fill(c)
  <2>1. /\ pc[c] = "fill" /\ pc[c] \in LookPcs /\ Reply(c, call[c].version)
        /\ call[c].version \in saved[d] /\ call[c].version \in Version
        /\ UNCHANGED saved
    BY <1>0, <1>4 DEF Fill, LookPcs, CallerInv, TypeOK, CallTypeOK
  <2> QED
    BY <2>1, DirectoryReply
<1>5. CASE Proceed(c)
  BY <1>5, DirectoryDone DEF Proceed
<1> QED
  BY <1>1, <1>2, <1>3, <1>4, <1>5 DEF Lookup

LEMMA DirectorySaves ==
  ASSUME TypeOK, Saves PROVE [Directory!Next]_(Directory!vars)
<1>1. Consumer \in Caller
  BY DEF Caller
<1>2. CASE WriteRow
  <2>1. Saving.domain \in Domain /\ Saving.version \in Version
    BY <1>1, <1>2, OnCall DEF WriteRow, Saving, TypeOK, CallTypeOK
  <2>2. /\ UNCHANGED <<call, answer>>
        /\ \A x \in Caller : pc'[x] \in LookPcs <=> pc[x] \in LookPcs
    BY <1>2 DEF WriteRow, Goto, LookPcs, TypeOK, CallTypeOK
  <2>3. InCall' = InCall
    BY <2>2 DEF InCall
  <2>4. Directory!Save(Saving.domain, Saving.version)
    BY <1>2, <2>2, <2>3 DEF WriteRow, Directory!Save
  <2> QED
    BY <2>1, <2>4 DEF Directory!Next
<1>3. CASE WriteFails
  BY <1>1, <1>3, DirectoryAttempt DEF WriteFails, Saving
<1>4. CASE TakeEntry \/ InsertEntry
  <2>1. /\ UNCHANGED <<saved, answer>>
        /\ \A x \in Caller :
             /\ pc'[x] \in LookPcs <=> pc[x] \in LookPcs
             /\ pc[x] \in LookPcs => call'[x] = call[x]
    BY <1>4
    DEF TakeEntry, InsertEntry, Goto, LookPcs, TypeOK, CallTypeOK
  <2> QED
    BY <2>1, DirectoryStutters
<1>5. CASE TakeSitemaps
  BY <1>1, <1>5, DirectoryDone DEF TakeSitemaps
<1> QED
  BY <1>2, <1>3, <1>4, <1>5 DEF Saves

LEMMA DirectoryStep ==
  ASSUME TypeOK, CacheInv, [Next]_vars PROVE [Directory!Next]_(Directory!vars)
<1>1. CASE AskId \/ \E t \in Task : AskAccess(t) \/ AskDelay(t)
  <2>1. PICK c \in Caller, d \in Domain, kind \in {"access", "delay", "id"} :
          Ask(c, d, kind) /\ pc[c] \in {"free", "told"}
    BY <1>1, Asking
  <2> QED
    BY <2>1, DirectoryAsk DEF LookPcs
<1>2. ASSUME NEW t \in Task, CallTimesOut(t) \/ Publish(t)
      PROVE  [Directory!Next]_(Directory!vars)
  BY <1>2, DirectoryDone DEF CallTimesOut, Publish, Caller
<1>3. CASE Crash
  <2>1. InCall \cup {Consumer} \in SUBSET Caller
    BY DEF InCall, Caller
  <2> QED
    BY <1>3, <2>1, DirectoryGivesUp DEF Crash
<1>4. CASE UNCHANGED vars \/ \E d \in Domain : Expire(d)
  BY <1>4, DirectoryStutters DEF vars, Expire
<1> QED
  BY <1>1, <1>2, <1>3, <1>4, DirectoryLookup, DirectorySaves DEF Next, Worker

\* Through expiry, late fills, refused entries, timeouts and crashes the storage
\* keeps what DomainDirectory promises: an answer was saved, and a domain that
\* was saved when the question was asked is not unknown
\* (crawler_storage.rs:89-108).
THEOREM ImplementsDirectory == Spec => DirectorySpec
<1>1. TypeOK /\ CacheInv /\ [Next]_vars => [Directory!Next]_(Directory!vars)
  BY DirectoryStep
<1> QED
  BY <1>1, DirectoryInit, CacheInvariant, PTL
  DEF Spec, DirectorySpec, Directory!Spec
=============================================================================
