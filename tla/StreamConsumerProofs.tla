------------------------ MODULE StreamConsumerProofs ------------------------
(***************************************************************************)
(* What the storage service does with the stream, proved for every set of  *)
(* events, every web and every hash of every text, whatever calls fail and *)
(* wherever the service crashes: its types, that the pages table holds no  *)
(* near-duplicates, and that it implements EventDelivery; and with two     *)
(* failed calls at most, that what is acknowledged is done.                *)
(***************************************************************************)
EXTENDS StreamConsumer, SequenceLemmas, ContentDeduplicatorProofs

-----------------------------------------------------------------------------
(* Lemmas about the steps.                                                  *)

\* Entries are only appended.
LEMMA StreamGrows ==
  ASSUME TypeOK, [Next]_vars
  PROVE  /\ stream' \in Seq(Event)
         /\ Len(stream) \in Nat /\ Len(stream') \in Nat
         /\ Len(stream) <= Len(stream')
         /\ \A i \in 1..Len(stream) : stream'[i] = stream[i]
<1>1. stream \in Seq(Event)
  BY DEF TypeOK, RedisTypeOK
<1>2. CASE Publish
  <2>1. PICK e \in Event : stream' = Append(stream, e)
    BY <1>2 DEF Publish
  <2>2. /\ Append(stream, e) \in Seq(Event)
        /\ Len(Append(stream, e)) = Len(stream) + 1
        /\ \A i \in 1..Len(stream) : Append(stream, e)[i] = stream[i]
    BY <1>1, AppendProperties
  <2> QED
    BY <1>1, <2>1, <2>2, LenProperties
<1>3. CASE UNCHANGED stream
  BY <1>1, <1>3, LenProperties
<1>4. ASSUME Consumer PROVE UNCHANGED stream
  BY <1>4 DEF Consumer, Reads, Entry, CreateGroup, CreateGroupFails, SendRead,
    ReadTimesOut, ReadReturns, ReadFails, StopsReading, LeavePage, TakePage,
    SavePage, SaveDomain, DbFails, OfferSitemap, SitemapsDone,
    PushSitemap, PushSitemapFails, Ack, AckFails, redisVars
<1>5. ASSUME Redis \/ Main PROVE UNCHANGED stream
  BY <1>5 DEF Redis, RedisDelivers, LateDelivery, Main, Signal, Exit, Crash,
    Restart, redisVars
<1>6. ASSUME UNCHANGED vars PROVE UNCHANGED stream
  BY <1>6 DEF vars, redisVars
<1> QED
  BY <1>2, <1>3, <1>4, <1>5, <1>6 DEF Next

\* The page the consumer is about to write does not change under its hands.
LEMMA CurrentKept ==
  ASSUME TypeOK, [Next]_vars, cursor <= handedOut, UNCHANGED cursor
  PROVE  /\ stream[cursor] \in Event
         /\ stream'[cursor'] = stream[cursor]
<1>1. /\ stream \in Seq(Event) /\ cursor \in 1..Len(stream)
  BY LenProperties DEF TypeOK, RedisTypeOK, ConsumerTypeOK
<1> QED
  BY <1>1, StreamGrows, ElementOfSeq

\* An event is a page or a domain, with the fields of its kind.
LEMMA EventKinds ==
  \A e \in Event :
    /\ e.kind = "page" => e.url \in Url /\ e.text \in Text \cup {NoText}
    /\ e.kind # "page" => e.domain \in Domain
BY ConsumerAssumption DEF PageEvent, DomainEvent

\* While an entry is in hand it is one of the stream.
LEMMA InHand ==
  ASSUME TypeOK, pc \in InHandPcs
  PROVE  Current \in Event /\ cursor \in 1..Len(stream)
BY ElementOfSeq, LenProperties
DEF TypeOK, RedisTypeOK, ConsumerTypeOK, Current

-----------------------------------------------------------------------------
(* The type invariant.                                                      *)

LEMMA TypeInit == Init => TypeOK
<1> SUFFICES ASSUME Init PROVE TypeOK
  OBVIOUS
<1>1. /\ <<>> \in Seq(Url) /\ <<>> \in Seq(Event) /\ Len(stream) = 0
  BY EmptySeq DEF Init
<1>2. RedisTypeOK
  <2>1. queue \in Seq(Url) /\ stream \in Seq(Event)
    BY <1>1, Zenon DEF Init
  <2>2. faults \in 0..MaxFaults
    BY MaxFaultsAssumption DEF Init
  <2>3. handedOut \in 0..Len(stream) /\ openedAt \in 0..handedOut
    BY <1>1 DEF Init
  <2>4. seen \subseteq Url /\ group \in BOOLEAN /\ acked \subseteq 1..Len(stream)
    BY DEF Init
  <2> QED
    BY <2>1, <2>2, <2>3, <2>4, Zenon DEF RedisTypeOK
<1>3. StorageTypeOK
  <2>1. rows \in [Url -> Text \cup {NoText, NoRow}]
    BY DEF Init
  <2>2. crashes \in 0..MaxCrashes
    BY ConsumerAssumption DEF Init
  <2>3. /\ domainRows \subseteq Domain /\ dedup \subseteq Text
        /\ written \subseteq Url \X (Text \cup {NoText})
        /\ shutdown \in BOOLEAN
    BY Zenon DEF Init
  <2> QED
    BY <2>1, <2>2, <2>3, Zenon DEF StorageTypeOK
<1>4. ConsumerTypeOK
  BY <1>1 DEF Init, ConsumerTypeOK, Pcs, InHandPcs
<1> QED
  BY <1>2, <1>3, <1>4 DEF TypeOK

LEMMA RedisTypeStep ==
  ASSUME TypeOK, [Next]_vars PROVE RedisTypeOK'
<1> USE DEF TypeOK
<1>1. queue' \in Seq(Url) /\ faults' \in 0..MaxFaults
  <2> DEFINE pushed == queue \o <<Head(sitemapsLeft)>>
  <2>1. pc = "push" => pushed \in Seq(Url)
    BY HeadTailProperties, SingletonSeq, ConcatProperties
    DEF RedisTypeOK, ConsumerTypeOK
  <2>2. CASE UNCHANGED queueVars
    BY <2>2 DEF queueVars, RedisTypeOK
  <2>3. CASE UNCHANGED queue /\ (Works \/ Fails)
    BY <2>3, MaxFaultsAssumption DEF Works, Fails, RedisTypeOK
  <2>4. CASE PushSitemap \/ PushSitemapFails
    <3>1. queue' \in {queue, pushed} /\ pc = "push"
      BY <2>4, Zenon DEF PushSitemap, PushSitemapFails, PushBulk, PushBulkFails
    <3>2. Works \/ Fails
      BY <2>4, Zenon DEF PushSitemap, PushSitemapFails, PushBulk, PushBulkFails
    <3>3. queue' \in Seq(Url)
      <4> HIDE DEF pushed
      <4> QED
        BY <2>1, <3>1 DEF RedisTypeOK
    <3>4. faults' \in 0..MaxFaults
      BY <3>2, MaxFaultsAssumption DEF Works, Fails, RedisTypeOK
    <3> QED
      BY <3>3, <3>4
  <2>5. CASE Publish \/ Redis \/ Main \/ UNCHANGED vars
    BY <2>2, <2>5, Zenon DEF Publish, Redis, RedisDelivers, LateDelivery, Main,
      Signal, Exit, Crash, Restart, vars, queueVars
  <2>6. CASE Reads
    BY <2>2, <2>3, <2>6, Zenon DEF Reads, CreateGroup, CreateGroupFails,
      SendRead, ReadTimesOut, ReadReturns, ReadFails, StopsReading
  <2>7. CASE Entry
    BY <2>2, <2>3, <2>4, <2>7, Zenon DEF Entry, LeavePage, TakePage, SavePage,
      SaveDomain, DbFails, OfferSitemap, SitemapsDone, Ack,
      AckFails
  <2> QED
    BY <2>5, <2>6, <2>7 DEF Next, Consumer
<1>2. seen' \subseteq Url
  <2>1. CASE OfferSitemap
    BY <2>1, HeadTailProperties
    DEF OfferSitemap, InsertUrl, RedisTypeOK, ConsumerTypeOK
  <2>2. CASE seen' \in {seen, {}}
    BY <2>2 DEF RedisTypeOK
  <2>3. CASE Publish \/ Redis \/ Main \/ Reads \/ UNCHANGED vars
    BY <2>3, <2>2 DEF Publish, Redis, RedisDelivers, LateDelivery, Main,
      Signal, Exit, Crash, Restart, Reads, CreateGroup, CreateGroupFails,
      SendRead, ReadTimesOut, ReadReturns, ReadFails, StopsReading, vars
  <2>4. CASE Entry /\ ~OfferSitemap
    BY <2>4, <2>2 DEF Entry, LeavePage, TakePage, SavePage, SaveDomain,
      DbFails, SitemapsDone, PushSitemap, PushSitemapFails, Ack,
      AckFails
  <2> QED
    BY <2>1, <2>3, <2>4 DEF Next, Consumer
<1>3. group' \in BOOLEAN
  BY DEF RedisTypeOK, Next, Publish, Redis, RedisDelivers, LateDelivery, Main,
    Signal, Exit, Crash, Restart, Consumer, Reads, Entry, CreateGroup,
    CreateGroupFails, SendRead, ReadTimesOut, ReadReturns, ReadFails,
    StopsReading, LeavePage, TakePage, SavePage, SaveDomain,
    DbFails, OfferSitemap, SitemapsDone, PushSitemap, PushSitemapFails, Ack,
    AckFails, vars, redisVars
<1>4. handedOut' \in 0..Len(stream') /\ openedAt' \in 0..handedOut'
  <2>1. handedOut' \in 0..Len(stream) /\ openedAt' \in 0..handedOut'
    <3>1. CASE CreateGroup
      BY <3>1, StreamGrows DEF CreateGroup, RedisTypeOK
    <3>2. CASE Redis
      BY <3>2, StreamGrows, ConsumerAssumption
      DEF Redis, RedisDelivers, LateDelivery, HandOut, RedisTypeOK
    <3>3. CASE Publish \/ Main \/ UNCHANGED vars
      BY <3>3 DEF Publish, Main, Signal, Exit, Crash, Restart, vars,
        redisVars, RedisTypeOK
    <3>4. CASE Entry
      BY <3>4 DEF Entry, LeavePage, TakePage, SavePage, SaveDomain,
        DbFails, OfferSitemap, SitemapsDone, PushSitemap,
        PushSitemapFails, Ack, AckFails, redisVars, RedisTypeOK
    <3>5. CASE Reads /\ ~CreateGroup
      BY <3>5 DEF Reads, CreateGroupFails, SendRead, ReadTimesOut,
        ReadReturns, ReadFails, StopsReading, redisVars, RedisTypeOK
    <3> QED
      BY <3>1, <3>2, <3>3, <3>4, <3>5 DEF Next, Consumer
  <2> QED
    BY <2>1, StreamGrows
<1>5. acked' \subseteq 1..Len(stream')
  <2>1. acked' \subseteq 1..Len(stream)
    <3>1. CASE Ack \/ AckFails
      <4>1. cursor \in 1..Len(stream)
        BY <3>1, InHand DEF Ack, AckFails, InHandPcs
      <4> QED
        BY <3>1, <4>1 DEF Ack, AckFails, RedisTypeOK
    <3>2. CASE Publish \/ Redis \/ Main \/ Reads \/ UNCHANGED vars
      BY <3>2 DEF RedisTypeOK, Publish, Redis, RedisDelivers, LateDelivery,
        Main, Signal, Exit, Crash, Restart, Reads, CreateGroup,
        CreateGroupFails, SendRead, ReadTimesOut, ReadReturns, ReadFails,
        StopsReading, vars, redisVars
    <3>3. CASE Entry /\ ~Ack /\ ~AckFails
      BY <3>3 DEF RedisTypeOK, Entry, LeavePage, TakePage, SavePage,
        SaveDomain, DbFails, OfferSitemap, SitemapsDone,
        PushSitemap, PushSitemapFails, redisVars
    <3> QED
      BY <3>1, <3>2, <3>3 DEF Next, Consumer
  <2> QED
    BY <2>1, StreamGrows
<1> QED
  BY <1>1, <1>2, <1>3, <1>4, <1>5, StreamGrows DEF RedisTypeOK

LEMMA StorageTypeStep ==
  ASSUME TypeOK, [Next]_vars PROVE StorageTypeOK'
<1> USE DEF TypeOK
<1>1. CASE TakePage
  <2>1. Current.text \in Text \cup {NoText}
    BY <1>1, InHand, EventKinds DEF TakePage, InHandPcs, IsPage
  <2> QED
    BY <1>1, <2>1 DEF TakePage, StorageTypeOK, dbVars
<1>2. CASE SavePage
  <2>1. /\ Current \in Event /\ pc = "save"
    BY <1>2, InHand DEF SavePage, InHandPcs
  <2>2. Current.kind = "page"
    BY <2>1 DEF ConsumerTypeOK, Current
  <2>3. Current.url \in Url /\ Current.text \in Text \cup {NoText}
    BY <2>1, <2>2, EventKinds
  <2> QED
    BY <1>2, <2>3 DEF SavePage, StorageTypeOK, processVars
<1>3. CASE SaveDomain
  <2>1. Current.domain \in Domain
    BY <1>3, InHand, EventKinds DEF SaveDomain, InHandPcs, IsPage
  <2> QED
    BY <1>3, <2>1 DEF SaveDomain, StorageTypeOK, processVars
<1>4. CASE Crash
  BY <1>4, ConsumerAssumption DEF Crash, StorageTypeOK, dbVars
<1>5. CASE Restart
  BY <1>5 DEF Restart, TextsIn, StorageTypeOK, dbVars
<1>6. CASE Signal \/ Exit
  BY <1>6 DEF Signal, Exit, StorageTypeOK, dbVars, processVars
<1>7. CASE UNCHANGED <<dbVars, processVars>>
  BY <1>7 DEF StorageTypeOK, dbVars, processVars
<1>8. CASE Publish \/ Redis \/ Reads \/ UNCHANGED vars
  BY <1>7, <1>8, Zenon DEF Publish, Redis, RedisDelivers, LateDelivery, Reads,
    CreateGroup, CreateGroupFails, SendRead, ReadTimesOut, ReadReturns,
    ReadFails, StopsReading, vars
<1>9. CASE Entry
  BY <1>1, <1>2, <1>3, <1>7, <1>9, Zenon DEF Entry, LeavePage, DbFails,
    OfferSitemap, SitemapsDone, PushSitemap, PushSitemapFails, Ack, AckFails
<1> QED
  BY <1>4, <1>5, <1>6, <1>8, <1>9 DEF Next, Consumer, Main

\* When the entry is left or acknowledged, the next one in hand is looked at.
LEMMA NextEntryType ==
  ASSUME TypeOK, [Next]_vars, NextEntry, pc \in InHandPcs,
         UNCHANGED handedOut, sitemapsLeft' \in Seq(Url)
  PROVE  ConsumerTypeOK'
<1>1. cursor \in 1..handedOut /\ handedOut \in Nat
  BY LenProperties DEF TypeOK, RedisTypeOK, ConsumerTypeOK
<1> QED
  BY <1>1 DEF NextEntry, Goto, ConsumerTypeOK, Pcs, InHandPcs

LEMMA ConsumerTypeStep ==
  ASSUME TypeOK, [Next]_vars PROVE ConsumerTypeOK'
<1> USE DEF TypeOK, Goto
<1>1. handedOut \in Nat /\ Len(stream) \in Nat
  BY LenProperties DEF RedisTypeOK
<1>2. sitemapsLeft # <<>> => Tail(sitemapsLeft) \in Seq(Url)
  BY HeadTailProperties DEF ConsumerTypeOK
<1>3. CASE UNCHANGED <<handedOut, consumerVars>>
  <2>1. pc = "save" => stream'[cursor'] = stream[cursor]
    BY <1>3, CurrentKept DEF ConsumerTypeOK, InHandPcs, consumerVars
  <2> QED
    BY <1>3, <2>1 DEF ConsumerTypeOK, consumerVars
<1>4. CASE Publish \/ Signal \/ UNCHANGED vars
  BY <1>3, <1>4, Zenon DEF Publish, Signal, vars, redisVars
<1>5. CASE CreateGroup
  BY <1>1, <1>5 DEF CreateGroup, ConsumerTypeOK, Pcs, InHandPcs
<1>6. CASE Reads /\ ~CreateGroup
  BY <1>1, <1>6 DEF Reads, CreateGroupFails, SendRead, ReadTimesOut,
    ReadReturns, ReadFails, StopsReading, redisVars, ConsumerTypeOK, Pcs,
    InHandPcs
<1>7. CASE Redis
  BY <1>1, <1>7, ConsumerAssumption
  DEF Redis, RedisDelivers, LateDelivery, HandOut, consumerVars,
    ConsumerTypeOK, Pcs, InHandPcs
<1>8. CASE Exit \/ Crash \/ Restart
  BY <1>1, <1>8 DEF Exit, Crash, Restart, redisVars, ConsumerTypeOK, Pcs,
    InHandPcs
<1>9. CASE LeavePage \/ Ack \/ AckFails
  BY <1>9, NextEntryType DEF LeavePage, Ack, AckFails,
    redisVars, InHandPcs, ConsumerTypeOK
<1>10. CASE DbFails
  <2>1. CASE NextEntry
    BY <1>10, <2>1, NextEntryType DEF DbFails, redisVars, InHandPcs,
      ConsumerTypeOK
  <2>2. CASE attempt < 3 /\ attempt' = attempt + 1 /\ UNCHANGED <<pc, cursor>>
    <3>1. pc = "save" => stream'[cursor'] = stream[cursor]
      BY <2>2, CurrentKept DEF ConsumerTypeOK, InHandPcs
    <3> QED
      BY <1>10, <2>2, <3>1 DEF DbFails, redisVars, ConsumerTypeOK
  <2> QED
    BY <1>10, <2>1, <2>2 DEF DbFails
<1>11. CASE TakePage
  <2>1. stream'[cursor'] = stream[cursor]
    BY <1>11, CurrentKept DEF TakePage, InHandPcs, ConsumerTypeOK
  <2> QED
    BY <1>11, <2>1 DEF TakePage, redisVars, ConsumerTypeOK, Pcs, InHandPcs,
      IsPage, Current
<1>12. CASE SaveDomain
  <2>1. SitemapsOf[Current.domain] \in Seq(Url)
    BY <1>12, InHand, EventKinds, ConsumerAssumption
    DEF SaveDomain, InHandPcs, IsPage
  <2> QED
    BY <1>12, <2>1 DEF SaveDomain, redisVars, ConsumerTypeOK, Pcs, InHandPcs
<1>13. CASE SavePage \/ SitemapsDone
  BY <1>13 DEF SavePage, SitemapsDone, redisVars, ConsumerTypeOK, Pcs,
    InHandPcs
<1>14. CASE OfferSitemap
  <2>1. sitemapsLeft' \in Seq(Url) /\ (pc' = "push" => sitemapsLeft' # <<>>)
    BY <1>2, <1>14 DEF OfferSitemap, ConsumerTypeOK
  <2>2. pc' \in {"sitemaps", "push"}
    BY <1>14 DEF OfferSitemap
  <2> QED
    BY <1>14, <2>1, <2>2 DEF OfferSitemap, redisVars, ConsumerTypeOK, Pcs,
      InHandPcs
<1>15. CASE PushSitemap \/ PushSitemapFails
  <2>1. sitemapsLeft' \in Seq(Url) /\ (pc' = "push" => sitemapsLeft' # <<>>)
    BY <1>2, <1>15 DEF PushSitemap, PushSitemapFails, ConsumerTypeOK
  <2>2. pc' \in {"sitemaps", "push"} /\ attempt' \in 1..3
    BY <1>15 DEF PushSitemap, PushSitemapFails, ConsumerTypeOK
  <2>3. UNCHANGED <<cursor, handedOut>> /\ cursor \in 1..handedOut
    BY <1>15 DEF PushSitemap, PushSitemapFails, redisVars, ConsumerTypeOK,
      InHandPcs
  <2> QED
    BY <2>1, <2>2, <2>3 DEF ConsumerTypeOK, Pcs, InHandPcs
<1> QED
  BY <1>4, <1>5, <1>6, <1>7, <1>8, <1>9, <1>10, <1>11, <1>12, <1>13, <1>14,
    <1>15
  DEF Next, Consumer, Entry, Main

LEMMA TypeStep == TypeOK /\ [Next]_vars => TypeOK'
BY RedisTypeStep, StorageTypeStep, ConsumerTypeStep DEF TypeOK

\* Every variable keeps its type, and the entries in hand are those between the
\* cursor and the last one Redis handed out, whatever calls fail and wherever
\* the service crashes (main.rs:94-159).
THEOREM ConsumerTypeCorrect == Spec => []TypeOK
BY TypeInit, TypeStep, PTL DEF Spec

-----------------------------------------------------------------------------
(* No near-duplicates.                                                      *)

\* The text about to be written has its hash in the deduplicator, and no row
\* resembles it.
PendingIsNew ==
  pc = "save" /\ Current.text \in Text =>
    /\ Current.text \in dedup
    /\ \A u \in Url :
         rows[u] \in Text => <<rows[u], Current.text>> \notin Similar

\* The deduplicator knows at least what is in the table: what it knows beyond
\* that only makes it refuse more.
RowsInv == TextsIn(rows) \subseteq dedup /\ PendingIsNew /\ NoNearDuplicateRows

LEMMA RowsInit == Init => RowsInv
BY ConsumerAssumption
DEF Init, RowsInv, TextsIn, PendingIsNew, NoNearDuplicateRows

\* Steps that neither write nor change what the consumer is about to write.
LEMMA RowsKept ==
  ASSUME TypeOK, RowsInv, [Next]_vars, UNCHANGED rows, dedup \subseteq dedup',
         pc' # "save" \/ (pc = "save" /\ UNCHANGED cursor)
  PROVE  RowsInv'
<1>1. TextsIn(rows') \subseteq dedup' /\ NoNearDuplicateRows'
  BY DEF RowsInv, TextsIn, NoNearDuplicateRows
<1>2. PendingIsNew'
  <2>1. CASE pc' # "save"
    BY <2>1 DEF PendingIsNew
  <2>2. CASE pc = "save" /\ UNCHANGED cursor
    <3>1. stream'[cursor'] = stream[cursor]
      BY <2>2, CurrentKept DEF TypeOK, ConsumerTypeOK, InHandPcs
    <3> QED
      BY <2>2, <3>1 DEF RowsInv, PendingIsNew, Current
  <2> QED
    BY <2>1, <2>2
<1> QED
  BY <1>1, <1>2 DEF RowsInv

LEMMA RowsStep ==
  ASSUME TypeOK, RowsInv, [Next]_vars PROVE RowsInv'
<1> USE DEF Goto
<1>1. CASE TakePage
  <2>1. stream'[cursor'] = stream[cursor]
    BY <1>1, CurrentKept DEF TakePage, TypeOK, ConsumerTypeOK, InHandPcs
  <2>2. TextsIn(rows') \subseteq dedup' /\ NoNearDuplicateRows'
    BY <1>1 DEF TakePage, dbVars, RowsInv, TextsIn, NoNearDuplicateRows
  <2>3. pc' = "save" /\ Current.text \in Text =>
          Current.text \in dedup' /\ ~HasDuplicate(Current.text)
    BY <1>1, ConsumerAssumption DEF TakePage
  <2>4. ASSUME pc' = "save", Current.text \in Text, NEW u \in Url,
               rows[u] \in Text
        PROVE  <<rows[u], Current.text>> \notin Similar
    <3>1. rows[u] \in dedup /\ dedup \subseteq Text
      BY <2>4 DEF RowsInv, TextsIn, TypeOK, StorageTypeOK
    <3>2. ~IsDuplicate({HashOf[t] : t \in dedup}, HashOf[Current.text], 3)
      BY <2>3, <2>4 DEF HasDuplicate, MaxDist
    <3>3. /\ {HashOf[t] : t \in dedup} \in SUBSET Hash
          /\ HashOf[Current.text] \in Hash
          /\ HashOf[rows[u]] \in {HashOf[t] : t \in dedup}
      BY <2>4, <3>1, ConsumerAssumption
    <3>4. ~(Distance(HashOf[rows[u]], HashOf[Current.text]) <= 3)
      BY <3>2, <3>3, BandsFindAll
    <3> QED
      BY <3>4 DEF Similar, MaxDist
  <2>5. PendingIsNew'
    BY <1>1, <2>1, <2>3, <2>4 DEF PendingIsNew, Current, TakePage, dbVars
  <2> QED
    BY <2>2, <2>5 DEF RowsInv
<1>2. CASE SavePage
  <2>1. rows \in [Url -> Text \cup {NoText, NoRow}]
    BY DEF TypeOK, StorageTypeOK
  <2>2. /\ rows' = [rows EXCEPT ![Current.url] = Current.text]
        /\ UNCHANGED dedup /\ pc = "save" /\ pc' = "ack"
    BY <1>2 DEF SavePage, processVars
  <2>3. Current.text \in Text =>
          /\ Current.text \in dedup
          /\ \A u \in Url :
               rows[u] \in Text => /\ <<rows[u], Current.text>> \notin Similar
                                   /\ <<Current.text, rows[u]>> \notin Similar
    BY <2>2, DistanceSymmetric DEF RowsInv, PendingIsNew, Similar
  <2>4. TextsIn(rows') \subseteq dedup'
    BY <2>1, <2>2, <2>3 DEF RowsInv, TextsIn
  <2>5. NoNearDuplicateRows'
    BY <2>1, <2>2, <2>3 DEF RowsInv, NoNearDuplicateRows
  <2> QED
    BY <2>2, <2>4, <2>5 DEF RowsInv, PendingIsNew
<1>3. CASE Restart
  BY <1>3 DEF Restart, dbVars, RowsInv, TextsIn, PendingIsNew,
    NoNearDuplicateRows
<1>4. CASE Publish \/ Signal \/ UNCHANGED vars
  BY <1>4, RowsKept DEF Publish, Signal, vars, dbVars, consumerVars, processVars
<1>5. CASE Reads
  BY <1>5, RowsKept DEF Reads, CreateGroup, CreateGroupFails, SendRead,
    ReadTimesOut, ReadReturns, ReadFails, StopsReading, dbVars, processVars
<1>6. CASE Redis \/ Exit \/ Crash
  BY <1>6, RowsKept DEF Redis, RedisDelivers, LateDelivery, Exit, Crash,
    dbVars, consumerVars, processVars
<1>7. CASE Entry /\ ~TakePage /\ ~SavePage
  BY <1>7, RowsKept DEF Entry, LeavePage, SaveDomain, DbFails,
    OfferSitemap, SitemapsDone, PushSitemap, PushSitemapFails, Ack, AckFails,
    NextEntry, dbVars, processVars
<1> QED
  BY <1>1, <1>2, <1>3, <1>4, <1>5, <1>6, <1>7 DEF Next, Consumer, Main

\* For every relation of near-duplicates, every stream and every sequence of
\* failures, crashes and overwritten rows, no two URLs in the pages table have
\* near-duplicate texts (crawler_storage.rs:131-145).
THEOREM NoNearDuplicates == Spec => []NoNearDuplicateRows
<1>1. Init => TypeOK /\ RowsInv
  BY TypeInit, RowsInit
<1>2. (TypeOK /\ RowsInv) /\ [Next]_vars => (TypeOK /\ RowsInv)'
  BY TypeStep, RowsStep
<1>3. RowsInv => NoNearDuplicateRows
  BY DEF RowsInv
<1> QED
  BY <1>1, <1>2, <1>3, PTL DEF Spec

-----------------------------------------------------------------------------
(* The consumer implements EventDelivery.                                   *)

LEMMA DeliveryInit == Init => Delivery!Init
BY DEF Init, Delivery!Init

\* Moving on without an XACK, to the next entry or past all of those in hand.
LEMMA PassesOver ==
  ASSUME TypeOK, UNCHANGED <<stream, acked>>,
         \/ UNCHANGED cursor
         \/ cursor' = cursor + 1 /\ cursor <= handedOut
         \/ cursor' = handedOut + 1
  PROVE  [Delivery!Next]_(Delivery!vars)
<1>1. /\ cursor \in 1..(handedOut + 1) /\ handedOut \in 0..Len(stream)
      /\ Len(stream) \in Nat
  BY LenProperties DEF TypeOK, RedisTypeOK, ConsumerTypeOK
<1>2. CASE UNCHANGED cursor
  BY <1>2 DEF Delivery!vars
<1>3. CASE cursor' # cursor
  <2>1. cursor' \in (cursor + 1)..(Len(stream) + 1)
    BY <1>1, <1>3
  <2> QED
    BY <2>1 DEF Delivery!Next, Delivery!PassOver
<1> QED
  BY <1>2, <1>3

LEMMA DeliveryStep ==
  ASSUME TypeOK, [Next]_vars PROVE [Delivery!Next]_(Delivery!vars)
<1>1. /\ cursor \in 1..(handedOut + 1) /\ handedOut \in 0..Len(stream)
      /\ Len(stream) \in Nat
  BY LenProperties DEF TypeOK, RedisTypeOK, ConsumerTypeOK
<1>2. CASE Publish
  BY <1>2 DEF Publish, Delivery!Next, Delivery!Publish, redisVars, consumerVars
<1>3. CASE CreateGroup
  <2>1. CASE group
    BY <1>3, <2>1, PassesOver DEF CreateGroup
  <2>2. CASE ~group
    <3>1. cursor' = cursor \/ cursor' \in (cursor + 1)..(Len(stream) + 1)
      BY <1>1, <1>3, <2>2 DEF CreateGroup
    <3> QED
      BY <1>3, <3>1
      DEF CreateGroup, Delivery!Next, Delivery!PassOver, Delivery!vars
  <2> QED
    BY <2>1, <2>2
<1>4. CASE Reads /\ ~CreateGroup
  BY <1>4, PassesOver DEF Reads, CreateGroupFails, SendRead, ReadTimesOut,
    ReadReturns, ReadFails, StopsReading, redisVars
<1>5. CASE RedisDelivers
  BY <1>5, PassesOver DEF RedisDelivers, consumerVars
<1>6. CASE LateDelivery
  <2>1. handedOut' \in Nat /\ handedOut < handedOut' /\ handedOut' <= Len(stream)
    BY <1>1, <1>6, ConsumerAssumption DEF LateDelivery, HandOut
  <2>2. cursor' = handedOut' + 1
    BY <1>6 DEF LateDelivery
  <2>3. \A h, l \in Nat : \A c \in 1..(handedOut + 1) :
          handedOut < h /\ h <= l => h + 1 \in (c + 1)..(l + 1)
    BY <1>1
  <2>4. cursor' \in (cursor + 1)..(Len(stream) + 1)
    BY <1>1, <2>1, <2>2, <2>3
  <2> QED
    BY <1>6, <2>4 DEF LateDelivery, Delivery!Next, Delivery!PassOver
<1>7. CASE Ack \/ AckFails
  <2>1. cursor <= handedOut /\ cursor' = cursor + 1
    BY <1>7 DEF Ack, AckFails, NextEntry, TypeOK, ConsumerTypeOK, InHandPcs
  <2>2. UNCHANGED stream /\ acked' \in {acked, acked \cup {cursor}}
    BY <1>7 DEF Ack, AckFails
  <2>3. CASE acked' = acked
    BY <2>1, <2>2, <2>3, PassesOver
  <2>4. CASE acked' = acked \cup {cursor}
    BY <1>1, <2>1, <2>2, <2>4 DEF Delivery!Next, Delivery!Acknowledge
  <2> QED
    BY <2>2, <2>3, <2>4
<1>8. CASE Entry /\ ~Ack /\ ~AckFails
  BY <1>8, PassesOver DEF Entry, LeavePage, TakePage, SavePage, SaveDomain,
    DbFails, OfferSitemap, SitemapsDone, PushSitemap,
    PushSitemapFails, NextEntry, redisVars, TypeOK, ConsumerTypeOK, InHandPcs
<1>9. CASE Main \/ UNCHANGED vars
  BY <1>9, PassesOver DEF Main, Signal, Exit, Crash, Restart, vars, redisVars,
    consumerVars
<1> QED
  BY <1>2, <1>3, <1>4, <1>5, <1>6, <1>7, <1>8, <1>9 DEF Next, Consumer, Redis

\* The consumer with its group, its batches, retries, failures, crashes and
\* restarts is an in-order, at-most-once reader of the stream: an entry is
\* acknowledged when it is first looked at or never (main.rs:106, :142-147).
THEOREM ImplementsDelivery == Spec => DeliverySpec
<1>1. TypeOK /\ TypeOK' /\ [Next]_vars => [Delivery!Next]_(Delivery!vars)
  BY DeliveryStep
<1> QED
  BY <1>1, DeliveryInit, ConsumerTypeCorrect, PTL
  DEF Spec, DeliverySpec, Delivery!Spec

-----------------------------------------------------------------------------
(* What is acknowledged is done, as long as no call fails three times.       *)

\* An entry is dealt with: the page, or one like it, is written; the domain is
\* saved and its sitemaps are in the frontier.
EntryDone(e) ==
  IF e.kind = "page" THEN PageWritten(e)
  ELSE /\ e.domain \in domainRows
       /\ Range(SitemapsOf[e.domain]) \subseteq Range(queue)

RowsWritten == \A u \in Url : rows[u] \in Text => <<u, rows[u]>> \in written

\* The deduplicator of a running service knows only texts that were written, and
\* the one that is about to be: it would otherwise refuse a page for the sake of
\* one that is nowhere.
KnownWritten ==
  pc # "down" =>
    \A t \in dedup : \/ \E w \in written : w[2] = t
                     \/ pc = "save" /\ t = Current.text

\* Likewise for the filter and the frontier.
SeenQueued ==
  pc # "down" =>
    \A u \in seen : \/ u \in Range(queue)
                    \/ pc = "push" /\ u = Head(sitemapsLeft)

CurrentDone ==
  /\ pc \in {"sitemaps", "push"} =>
       /\ Current.kind # "page" /\ Current.domain \in domainRows
       /\ Range(sitemapsLeft) \subseteq Range(SitemapsOf[Current.domain])
       /\ Range(SitemapsOf[Current.domain])
            \subseteq Range(queue) \cup Range(sitemapsLeft)
  /\ pc = "ack" => EntryDone(Current)

AckedDone == \A i \in acked : EntryDone(stream[i])

DoneInv ==
  /\ attempt <= faults + 1
  /\ RowsWritten /\ KnownWritten /\ SeenQueued /\ CurrentDone /\ AckedDone

LEMMA DoneInit == Init => DoneInv
<1> SUFFICES ASSUME Init PROVE DoneInv
  OBVIOUS
<1>1. attempt <= faults + 1 /\ KnownWritten /\ SeenQueued /\ CurrentDone /\ AckedDone
  BY DEF Init, KnownWritten, SeenQueued, CurrentDone, AckedDone
<1>2. RowsWritten
  BY ConsumerAssumption DEF Init, RowsWritten
<1> QED
  BY <1>1, <1>2 DEF DoneInv

\* A text is near itself.
LEMMA SimilarToItself == \A t \in Text : <<t, t>> \in Similar
<1> SUFFICES ASSUME NEW t \in Text PROVE <<t, t>> \in Similar
  OBVIOUS
<1>1. (HashOf[t] \ HashOf[t]) \cup (HashOf[t] \ HashOf[t]) = {}
  OBVIOUS
<1>2. Cardinality((HashOf[t] \ HashOf[t]) \cup (HashOf[t] \ HashOf[t])) = 0
  <2>1. Cardinality({}) = 0
    BY FS_EmptySet
  <2> QED
    BY <1>1, <2>1, Zenon
<1>3. Distance(HashOf[t], HashOf[t]) = 0
  BY <1>2, Zenon DEF Distance
<1>4. Distance(HashOf[t], HashOf[t]) <= MaxDist
  BY <1>3 DEF MaxDist
<1> QED
  BY <1>4 DEF Similar

\* Nothing that makes an entry done is undone: a row may be overwritten, but not
\* the fact that it was written.
LEMMA WorkGrows ==
  ASSUME TypeOK, [Next]_vars
  PROVE  /\ written \subseteq written' /\ domainRows \subseteq domainRows'
         /\ Range(queue) \subseteq Range(queue')
<1>1. queue \in Seq(Url)
  BY DEF TypeOK, RedisTypeOK
<1>2. CASE PushSitemap \/ PushSitemapFails
  <2>1. sitemapsLeft \in Seq(Url) /\ sitemapsLeft # <<>>
    BY <1>2 DEF PushSitemap, PushSitemapFails, TypeOK, ConsumerTypeOK
  <2>2. <<Head(sitemapsLeft)>> \in Seq(Url)
    BY <2>1, HeadTailProperties, SingletonSeq
  <2>3. Range(queue \o <<Head(sitemapsLeft)>>)
          = Range(queue) \cup Range(<<Head(sitemapsLeft)>>)
    BY <1>1, <2>2, RangeConcatenation, Zenon
  <2> QED
    BY <1>2, <2>3
    DEF PushSitemap, PushSitemapFails, PushBulk, PushBulkFails, dbVars
<1>3. CASE Publish \/ Reads \/ UNCHANGED vars
  <2>1. UNCHANGED <<queue, dbVars>>
    BY <1>3 DEF Publish, Reads, CreateGroup, CreateGroupFails, SendRead,
      ReadTimesOut, ReadReturns, ReadFails, StopsReading, vars, queueVars
  <2> QED
    BY <2>1 DEF dbVars
<1>4. CASE Redis \/ Main
  <2>1. UNCHANGED <<queue, dbVars>>
    BY <1>4 DEF Redis, RedisDelivers, LateDelivery, Main, Signal, Exit, Crash,
      Restart, queueVars
  <2> QED
    BY <2>1 DEF dbVars
<1>5. CASE Entry /\ ~PushSitemap /\ ~PushSitemapFails
  BY <1>5 DEF Entry, LeavePage, TakePage, SavePage, SaveDomain,
    DbFails, OfferSitemap, SitemapsDone, Ack, AckFails, dbVars, queueVars
<1> QED
  BY <1>2, <1>3, <1>4, <1>5 DEF Next, Consumer

\* The third failure of a call would need a third fault.
LEMMA AttemptStep ==
  ASSUME TypeOK, DoneInv, [Next]_vars PROVE (attempt <= faults + 1)'
<1>1. attempt \in 1..3 /\ faults \in 0..MaxFaults /\ faults \in Int
  BY MaxFaultsAssumption DEF TypeOK, RedisTypeOK, ConsumerTypeOK
<1>2. faults' = faults \/ faults' = faults + 1
  BY Zenon DEF Next, Publish, Redis, RedisDelivers, LateDelivery, Main, Signal, Exit,
    Crash, Restart, Consumer, Reads, Entry, CreateGroup, CreateGroupFails, SendRead,
    ReadTimesOut, ReadReturns, ReadFails, StopsReading, LeavePage, TakePage, SavePage,
    SaveDomain, DbFails, OfferSitemap, SitemapsDone, PushSitemap,
    PushSitemapFails, Ack, AckFails, vars, queueVars, Works, Fails, PushBulk,
    PushBulkFails
<1>3. \/ attempt' \in {attempt, 1}
      \/ attempt' = attempt + 1 /\ faults' = faults + 1
  <2>1. CASE DbFails \/ PushSitemapFails
    BY <2>1 DEF DbFails, PushSitemapFails, PushBulkFails, Fails, NextEntry
  <2>2. CASE Publish \/ Redis \/ Main \/ Reads \/ UNCHANGED vars
    BY <2>2 DEF Publish, Redis, RedisDelivers, LateDelivery, Main, Signal, Exit, Crash,
      Restart, Reads, CreateGroup, CreateGroupFails, SendRead, ReadTimesOut,
      ReadReturns, ReadFails, StopsReading, vars, consumerVars
  <2>3. CASE Entry /\ ~DbFails /\ ~PushSitemapFails
    BY <2>3 DEF Entry, LeavePage, TakePage, SavePage, SaveDomain,
      OfferSitemap, SitemapsDone, PushSitemap, Ack, AckFails, NextEntry
  <2> QED
    BY <2>1, <2>2, <2>3 DEF Next, Consumer
<1>4. attempt <= faults + 1
  BY DEF DoneInv
<1> QED
  BY <1>1, <1>2, <1>3, <1>4

LEMMA NoThirdFailure ==
  ASSUME MaxFaults <= 2, TypeOK, attempt <= faults + 1, Fails PROVE attempt < 3
BY MaxFaultsAssumption DEF TypeOK, RedisTypeOK, ConsumerTypeOK, Fails

LEMMA WrittenStep ==
  ASSUME TypeOK, DoneInv, [Next]_vars PROVE RowsWritten'
<1>1. CASE SavePage
  <2>1. Current \in Event /\ Current.kind = "page"
    BY <1>1, InHand DEF SavePage, InHandPcs, TypeOK, ConsumerTypeOK, Current
  <2>2. Current.url \in Url
    BY <2>1, EventKinds
  <2>3. rows \in [Url -> Text \cup {NoText, NoRow}]
    BY DEF TypeOK, StorageTypeOK
  <2> QED
    BY <1>1, <2>2, <2>3 DEF SavePage, DoneInv, RowsWritten
<1>2. CASE Publish \/ Redis \/ Main \/ Reads \/ UNCHANGED vars
  <2>1. UNCHANGED <<rows, written>>
    BY <1>2 DEF Publish, Redis, RedisDelivers, LateDelivery, Main, Signal, Exit, Crash,
      Restart, Reads, CreateGroup, CreateGroupFails, SendRead, ReadTimesOut,
      ReadReturns, ReadFails, StopsReading, vars, dbVars
  <2> QED
    BY <2>1 DEF DoneInv, RowsWritten
<1>3. CASE Entry /\ ~SavePage
  <2>1. UNCHANGED <<rows, written>>
    BY <1>3 DEF Entry, LeavePage, TakePage, SaveDomain, DbFails,
      OfferSitemap, SitemapsDone, PushSitemap, PushSitemapFails, Ack, AckFails, dbVars
  <2> QED
    BY <2>1 DEF DoneInv, RowsWritten
<1> QED
  BY <1>1, <1>2, <1>3 DEF Next, Consumer

LEMMA KnownStep ==
  ASSUME MaxFaults <= 2, TypeOK, DoneInv, [Next]_vars PROVE KnownWritten'
<1>1. written \subseteq written'
  BY WorkGrows
<1>2. pc # "down" => \A t \in dedup : \/ \E w \in written : w[2] = t
                                      \/ pc = "save" /\ t = Current.text
  BY DEF DoneInv, KnownWritten
<1>3. CASE TakePage
  <2>1. Current' = Current
    BY <1>3, CurrentKept
    DEF TakePage, TypeOK, ConsumerTypeOK, InHandPcs, Current
  <2> QED
    BY <1>1, <1>2, <1>3, <2>1 DEF TakePage, KnownWritten, Goto
<1>4. CASE SavePage
  <2>1. <<Current.url, Current.text>> \in written' /\ dedup' = dedup
    BY <1>4 DEF SavePage, processVars
  <2> QED
    BY <1>1, <1>2, <1>4, <2>1 DEF SavePage, KnownWritten
<1>5. CASE DbFails
  <2>1. attempt < 3
    BY <1>5, NoThirdFailure DEF DbFails, DoneInv
  <2>2. UNCHANGED <<pc, cursor, dedup>>
    BY <1>5, <2>1 DEF DbFails, processVars
  <2>3. pc = "save" => Current' = Current
    BY <2>2, CurrentKept DEF TypeOK, ConsumerTypeOK, InHandPcs, Current
  <2> QED
    BY <1>1, <1>2, <2>2, <2>3 DEF KnownWritten
<1>6. CASE Restart
  <2>1. dedup' = TextsIn(rows) /\ RowsWritten
    BY <1>6 DEF Restart, DoneInv
  <2>2. \A u \in Url : rows[u] \in Text =>
          <<u, rows[u]>> \in written' /\ <<u, rows[u]>>[2] = rows[u]
    BY <1>1, <2>1 DEF RowsWritten
  <2> QED
    BY <2>1, <2>2 DEF KnownWritten, TextsIn
<1>7. CASE Crash \/ Exit
  BY <1>7 DEF Crash, Exit, KnownWritten, Goto
<1>8. CASE Publish \/ Signal \/ UNCHANGED vars
  <2>1. UNCHANGED <<pc, cursor, dedup>>
    BY <1>8 DEF Publish, Signal, vars, consumerVars, processVars
  <2>2. pc = "save" => Current' = Current
    BY <2>1, CurrentKept DEF TypeOK, ConsumerTypeOK, InHandPcs, Current
  <2> QED
    BY <1>1, <1>2, <2>1, <2>2 DEF KnownWritten
<1>9. CASE Reads \/ Redis \/ (Entry /\ ~TakePage /\ ~SavePage /\ ~DbFails)
  <2>1. dedup' = dedup /\ pc \notin {"save", "down"}
    <3>1. CASE Reads
      BY <3>1 DEF Reads, CreateGroup, CreateGroupFails, SendRead,
        ReadTimesOut, ReadReturns, ReadFails, StopsReading, processVars
    <3>2. CASE Redis
      BY <3>2 DEF Redis, RedisDelivers, LateDelivery, processVars
    <3>3. CASE Entry /\ ~TakePage /\ ~SavePage /\ ~DbFails
      BY <3>3 DEF Entry, LeavePage, SaveDomain, OfferSitemap,
        SitemapsDone, PushSitemap, PushSitemapFails, Ack, AckFails, processVars
    <3> QED
      BY <1>9, <3>1, <3>2, <3>3
  <2> QED
    BY <1>1, <1>2, <2>1 DEF KnownWritten
<1> QED
  BY <1>3, <1>4, <1>5, <1>6, <1>7, <1>8, <1>9 DEF Next, Consumer, Main

\* What is pushed is in the frontier.
LEMMA PushedIsQueued ==
  ASSUME TypeOK, PushSitemap
  PROVE  /\ Head(sitemapsLeft) \in Range(queue')
         /\ Range(queue') = Range(queue) \cup {Head(sitemapsLeft)}
<1>1. queue \in Seq(Url) /\ sitemapsLeft \in Seq(Url) /\ sitemapsLeft # <<>>
  BY DEF PushSitemap, TypeOK, RedisTypeOK, ConsumerTypeOK
<1>2. /\ <<Head(sitemapsLeft)>> \in Seq(Url)
      /\ Range(<<Head(sitemapsLeft)>>) = {Head(sitemapsLeft)}
  BY <1>1, HeadTailProperties, SingletonSeq
<1>3. Range(queue \o <<Head(sitemapsLeft)>>)
        = Range(queue) \cup Range(<<Head(sitemapsLeft)>>)
  BY <1>1, <1>2, RangeConcatenation, Zenon
<1> QED
  BY <1>2, <1>3 DEF PushSitemap, PushBulk

\* No URL that is the sitemap of a domain is taken for a seen one.
NoFalseSitemaps ==
  \A d \in Domain : Range(SitemapsOf[d]) \cap FalsePositives = {}

LEMMA OfferedIsListed ==
  ASSUME NoFalseSitemaps, TypeOK, DoneInv, OfferSitemap
  PROVE  Head(sitemapsLeft) \notin FalsePositives
<1>1. Current \in Event /\ Current.kind # "page" /\ sitemapsLeft \in Seq(Url)
  BY InHand DEF OfferSitemap, InHandPcs, TypeOK, ConsumerTypeOK, DoneInv, CurrentDone
<1>2. Current.domain \in Domain
  BY <1>1, EventKinds
<1>3. Head(sitemapsLeft) \in Range(SitemapsOf[Current.domain])
  BY <1>1, RangeTail DEF OfferSitemap, DoneInv, CurrentDone
<1> QED
  BY <1>2, <1>3 DEF NoFalseSitemaps

LEMMA SeenStep ==
  ASSUME MaxFaults <= 2, NoFalseSitemaps, TypeOK, DoneInv, [Next]_vars PROVE SeenQueued'
<1>1. Range(queue) \subseteq Range(queue')
  BY WorkGrows
<1>2. pc # "down" => \A u \in seen : \/ u \in Range(queue)
                                     \/ pc = "push" /\ u = Head(sitemapsLeft)
  BY DEF DoneInv, SeenQueued
<1>3. CASE OfferSitemap
  <2>1. PICK isDuplicate \in BOOLEAN :
          /\ InsertUrl(Head(sitemapsLeft), isDuplicate)
          /\ IF isDuplicate
             THEN sitemapsLeft' = Tail(sitemapsLeft) /\ UNCHANGED pc
             ELSE Goto("push") /\ UNCHANGED sitemapsLeft
    BY <1>3 DEF OfferSitemap
  <2>2. CASE isDuplicate /\ Head(sitemapsLeft) \in seen
    BY <1>1, <1>2, <1>3, <2>1, <2>2 DEF OfferSitemap, InsertUrl, SeenQueued
  <2>3. CASE ~isDuplicate
    BY <1>1, <1>2, <1>3, <2>1, <2>3 DEF OfferSitemap, InsertUrl, SeenQueued, Goto
  <2>4. isDuplicate => Head(sitemapsLeft) \in seen
    BY <1>3, <2>1, OfferedIsListed DEF OfferSitemap, InsertUrl
  <2> QED
    BY <2>1, <2>2, <2>3, <2>4
<1>4. CASE PushSitemap
  BY <1>1, <1>2, <1>4, PushedIsQueued DEF PushSitemap, SeenQueued
<1>5. CASE PushSitemapFails
  <2>1. attempt < 3
    BY <1>5, NoThirdFailure DEF PushSitemapFails, PushBulkFails, DoneInv
  <2> QED
    BY <1>1, <1>2, <1>5, <2>1 DEF PushSitemapFails, SeenQueued
<1>6. CASE Restart
  BY <1>6 DEF Restart, SeenQueued
<1>7. CASE Crash \/ Exit
  BY <1>7 DEF Crash, Exit, SeenQueued, Goto
<1>8. CASE Publish \/ Signal \/ UNCHANGED vars
  <2>1. UNCHANGED <<pc, sitemapsLeft, seen>>
    BY <1>8 DEF Publish, Signal, vars, consumerVars
  <2> QED
    BY <1>1, <1>2, <2>1 DEF SeenQueued
<1>9. CASE Reads \/ Redis
  BY <1>1, <1>2, <1>9 DEF Reads, CreateGroup, CreateGroupFails, SendRead,
    ReadTimesOut, ReadReturns, ReadFails, StopsReading, Redis, RedisDelivers,
    LateDelivery, consumerVars, SeenQueued, Goto
<1>10. CASE Entry /\ ~OfferSitemap /\ ~PushSitemap /\ ~PushSitemapFails
  <2>1. seen' = seen /\ pc \notin {"push", "down"}
    BY <1>10 DEF Entry, LeavePage, TakePage, SavePage, SaveDomain,
      DbFails, SitemapsDone, Ack, AckFails
  <2> QED
    BY <1>1, <1>2, <2>1 DEF SeenQueued
<1> QED
  BY <1>3, <1>4, <1>5, <1>6, <1>7, <1>8, <1>9, <1>10 DEF Next, Consumer, Main

LEMMA CurrentStep ==
  ASSUME MaxFaults <= 2, NoFalseSitemaps, TypeOK, DoneInv, [Next]_vars
  PROVE  CurrentDone'
<1> USE DEF Goto
<1>1. /\ Range(queue) \subseteq Range(queue') /\ domainRows \subseteq domainRows'
      /\ sitemapsLeft \in Seq(Url)
  BY WorkGrows DEF TypeOK, ConsumerTypeOK
<1>2. pc \in {"sitemaps", "push"} =>
        /\ Current.kind # "page" /\ Current.domain \in domainRows
        /\ Range(sitemapsLeft) \subseteq Range(SitemapsOf[Current.domain])
        /\ Range(SitemapsOf[Current.domain])
             \subseteq Range(queue) \cup Range(sitemapsLeft)
  BY DEF DoneInv, CurrentDone
<1>3. pc \in InHandPcs /\ UNCHANGED cursor => Current' = Current /\ Current \in Event
  BY CurrentKept, InHand DEF TypeOK, ConsumerTypeOK, Current
<1>4. sitemapsLeft # <<>> =>
        /\ Range(Tail(sitemapsLeft)) \subseteq Range(sitemapsLeft)
        /\ Range(sitemapsLeft) \subseteq Range(Tail(sitemapsLeft)) \cup {Head(sitemapsLeft)}
  BY <1>1, RangeTail
<1>5. CASE TakePage
  <2>1. Current' = Current /\ Current \in Event
    BY <1>3, <1>5 DEF TakePage, InHandPcs
  <2>2. Current.text \in Text \cup {NoText} /\ Current.kind = "page"
    BY <1>5, <2>1, EventKinds DEF TakePage, IsPage
  <2>3. ASSUME pc' = "ack" PROVE EntryDone(Current)
    <3>1. HasDuplicate(Current.text) /\ Current.text \in Text
      BY <1>5, <2>2, <2>3 DEF TakePage
    <3>2. {HashOf[t] : t \in dedup} \in SUBSET Hash /\ HashOf[Current.text] \in Hash
      BY <3>1, ConsumerAssumption DEF TypeOK, StorageTypeOK
    <3>3. PICK t \in dedup : Distance(HashOf[t], HashOf[Current.text]) <= MaxDist
      BY <3>1, <3>2, OnlyNear DEF HasDuplicate
    <3>4. PICK w \in written : w[2] = t
      BY <1>5 DEF TakePage, DoneInv, KnownWritten
    <3>5. t \in Text
      BY DEF TypeOK, StorageTypeOK
    <3>6. w[2] # NoText /\ <<w[2], Current.text>> \in Similar
      BY <3>1, <3>3, <3>4, <3>5, ConsumerAssumption DEF Similar
    <3> QED
      BY <2>2, <3>1, <3>6, ConsumerAssumption DEF EntryDone, PageWritten
  <2>4. pc' = "ack" => EntryDone(Current)'
    <3>1. ASSUME pc' = "ack" PROVE PageWritten(Current)'
      BY <1>1, <1>5, <2>1, <2>2, <2>3, <3>1, WorkGrows DEF EntryDone, PageWritten
    <3> QED
      BY <2>1, <2>2, <3>1 DEF EntryDone
  <2> QED
    BY <1>5, <2>4 DEF TakePage, CurrentDone
<1>6. CASE SavePage
  <2>1. Current' = Current /\ Current \in Event
    BY <1>3, <1>6 DEF SavePage, InHandPcs
  <2>2. Current.text \in Text \cup {NoText} /\ Current.kind = "page"
    BY <1>6, <2>1, EventKinds DEF SavePage, TypeOK, ConsumerTypeOK, Current
  <2>3. <<Current.url, Current.text>> \in written'
    BY <1>6 DEF SavePage
  <2>4. PageWritten(Current)'
    BY <2>1, <2>2, <2>3, SimilarToItself DEF PageWritten
  <2> QED
    BY <1>6, <2>1, <2>2, <2>4 DEF SavePage, CurrentDone, EntryDone
<1>7. CASE SaveDomain
  <2>1. Current' = Current
    BY <1>3, <1>7 DEF SaveDomain, InHandPcs
  <2> QED
    BY <1>7, <2>1 DEF SaveDomain, CurrentDone, IsPage
<1>8. CASE OfferSitemap
  <2>1. Current' = Current
    BY <1>3, <1>8 DEF OfferSitemap, InHandPcs
  <2>2. PICK isDuplicate \in BOOLEAN :
          /\ InsertUrl(Head(sitemapsLeft), isDuplicate)
          /\ IF isDuplicate
             THEN sitemapsLeft' = Tail(sitemapsLeft) /\ UNCHANGED pc
             ELSE Goto("push") /\ UNCHANGED sitemapsLeft
    BY <1>8 DEF OfferSitemap
  <2>3. CASE isDuplicate
    <3>1. Head(sitemapsLeft) \in seen
      BY <1>8, <2>2, <2>3, OfferedIsListed DEF InsertUrl
    <3>2. Head(sitemapsLeft) \in Range(queue)
      BY <1>8, <3>1 DEF OfferSitemap, DoneInv, SeenQueued
    <3> QED
      BY <1>1, <1>2, <1>4, <1>8, <2>1, <2>2, <2>3, <3>2 DEF OfferSitemap, CurrentDone
  <2>4. CASE ~isDuplicate
    BY <1>1, <1>2, <1>8, <2>1, <2>2, <2>4 DEF OfferSitemap, CurrentDone
  <2> QED
    BY <2>3, <2>4
<1>9. CASE SitemapsDone
  <2>1. Current' = Current
    BY <1>3, <1>9 DEF SitemapsDone, InHandPcs
  <2>2. Range(<<>>) = {}
    BY DEF Range
  <2> QED
    BY <1>1, <1>2, <1>9, <2>1, <2>2 DEF SitemapsDone, CurrentDone, EntryDone
<1>10. CASE PushSitemap
  <2>1. Current' = Current
    BY <1>3, <1>10 DEF PushSitemap, InHandPcs
  <2>2. Head(sitemapsLeft) \in Range(queue')
    BY <1>10, PushedIsQueued
  <2>3. /\ sitemapsLeft # <<>> /\ sitemapsLeft' = Tail(sitemapsLeft)
        /\ pc = "push" /\ pc' = "sitemaps"
    BY <1>10 DEF PushSitemap, TypeOK, ConsumerTypeOK
  <2> QED
    BY <1>1, <1>2, <1>4, <2>1, <2>2, <2>3 DEF CurrentDone
<1>11. CASE PushSitemapFails
  <2>1. attempt < 3
    BY <1>11, NoThirdFailure DEF PushSitemapFails, PushBulkFails, DoneInv
  <2>2. Current' = Current
    BY <1>3, <1>11 DEF PushSitemapFails, InHandPcs
  <2> QED
    BY <1>1, <1>2, <1>11, <2>1, <2>2 DEF PushSitemapFails, CurrentDone
<1>12. CASE DbFails
  <2>1. attempt < 3
    BY <1>12, NoThirdFailure DEF DbFails, DoneInv
  <2> QED
    BY <1>12, <2>1 DEF DbFails, CurrentDone
<1>13. CASE LeavePage \/ Ack \/ AckFails
  BY <1>13 DEF LeavePage, Ack, AckFails, NextEntry, CurrentDone
<1>14. CASE Publish \/ Signal \/ UNCHANGED vars
  <2>1. UNCHANGED <<pc, cursor, sitemapsLeft>>
    BY <1>14 DEF Publish, Signal, vars, consumerVars
  <2>2. pc = "ack" => EntryDone(Current)'
    <3>1. UNCHANGED <<written, domainRows, queue>>
      BY <1>14 DEF Publish, Signal, vars, dbVars, queueVars
    <3>2. pc = "ack" => Current' = Current /\ EntryDone(Current)
      BY <1>3, <2>1 DEF InHandPcs, DoneInv, CurrentDone
    <3> QED
      BY <3>1, <3>2 DEF EntryDone, PageWritten
  <2> QED
    BY <1>1, <1>2, <1>3, <2>1, <2>2 DEF CurrentDone, InHandPcs
<1>15. CASE Reads \/ Redis \/ Exit \/ Crash \/ Restart
  BY <1>15 DEF Reads, CreateGroup, CreateGroupFails, SendRead, ReadTimesOut,
    ReadReturns, ReadFails, StopsReading, Redis, RedisDelivers, LateDelivery, Exit,
    Crash, Restart, consumerVars, CurrentDone
<1> QED
  BY <1>5, <1>6, <1>7, <1>8, <1>9, <1>10, <1>11, <1>12, <1>13, <1>14, <1>15
  DEF Next, Consumer, Entry, Main

LEMMA AckedStep ==
  ASSUME TypeOK, DoneInv, [Next]_vars PROVE AckedDone'
<1>1. acked \subseteq 1..Len(stream) /\ \A i \in acked : EntryDone(stream[i])
  BY DEF TypeOK, RedisTypeOK, DoneInv, AckedDone
<1>2. \A i \in 1..Len(stream) : stream'[i] = stream[i]
  BY StreamGrows
<1>3. \/ acked' = acked
      \/ /\ acked' = acked \cup {cursor} /\ cursor \in 1..Len(stream)
         /\ EntryDone(stream[cursor])
  <2>1. CASE Ack \/ AckFails
    <3>1. pc = "ack" /\ acked' \in {acked, acked \cup {cursor}}
      BY <2>1 DEF Ack, AckFails
    <3> QED
      BY <3>1, InHand DEF InHandPcs, DoneInv, CurrentDone, Current
  <2>2. CASE Publish \/ Redis \/ Main \/ Reads \/ UNCHANGED vars
    BY <2>2 DEF Publish, Redis, RedisDelivers, LateDelivery, Main, Signal, Exit, Crash,
      Restart, Reads, CreateGroup, CreateGroupFails, SendRead, ReadTimesOut,
      ReadReturns, ReadFails, StopsReading, vars, redisVars
  <2>3. CASE Entry /\ ~Ack /\ ~AckFails
    BY <2>3 DEF Entry, LeavePage, TakePage, SavePage, SaveDomain,
      DbFails, OfferSitemap, SitemapsDone, PushSitemap, PushSitemapFails, redisVars
  <2> QED
    BY <2>1, <2>2, <2>3 DEF Next, Consumer
<1>4. /\ written \subseteq written' /\ domainRows \subseteq domainRows'
      /\ Range(queue) \subseteq Range(queue')
  BY WorkGrows
<1>5. ASSUME NEW i \in acked' PROVE EntryDone(stream[i])'
  <2>1. EntryDone(stream[i]) /\ stream'[i] = stream[i]
    BY <1>1, <1>2, <1>3
  <2> QED
    BY <1>4, <2>1 DEF EntryDone, PageWritten
<1> QED
  BY <1>5 DEF AckedDone

\* Every acknowledged entry has been dealt with, for every stream and web, with
\* crashes at any step, lost replies and signals: a failed call is tried again,
\* and with two failures at most no entry is left to the third.  With a third the
\* deduplicator keeps the hash of a page that was never written, and the page like
\* it is acknowledged without being stored (crawler_storage.rs:136, :144).
THEOREM AcknowledgedIsDone ==
  ASSUME MaxFaults <= 2, NoFalseSitemaps
  PROVE  Spec => []AckedIsDone
<1>1. Init => TypeOK /\ DoneInv
  BY TypeInit, DoneInit
<1>2. (TypeOK /\ DoneInv) /\ [Next]_vars => (TypeOK /\ DoneInv)'
  BY TypeStep, AttemptStep, WrittenStep, KnownStep, SeenStep, CurrentStep,
    AckedStep DEF DoneInv
<1>3. TypeOK /\ DoneInv => AckedIsDone
  <2> SUFFICES ASSUME TypeOK, DoneInv PROVE AckedIsDone
    OBVIOUS
  <2>1. \A i \in acked : EntryDone(stream[i])
    BY DEF DoneInv, AckedDone
  <2>2. \A i \in acked : stream[i].kind = "domain" => stream[i].kind # "page"
    OBVIOUS
  <2> QED
    BY <2>1, <2>2 DEF AckedIsDone, AckedIsWritten, EntryDone
<1> QED
  BY <1>1, <1>2, <1>3, PTL DEF Spec
=============================================================================
