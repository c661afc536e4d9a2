--------------------------- MODULE StreamConsumer ---------------------------
(***************************************************************************)
(* The storage service as the reader of the Redis stream: main and         *)
(* run_redis_stream_consumer of crates/storage_service/src/main.rs, with   *)
(* the calls they make into CrawlerStorage, CrawlerDB and                  *)
(* ContentDeduplicator.  The worker publishes pages and domains; the       *)
(* consumer reads them through a consumer group, saves them in SQLite,     *)
(* pushes the sitemaps of a saved domain and acknowledges.                 *)
(*                                                                         *)
(* There is one consumer and it handles a reply to its last entry before   *)
(* it reads again, so the entries it has in hand are the interval from     *)
(* cursor to the last one the group has handed out.  What lives in Redis   *)
(* and SQLite survives a crash; the filter of seen URLs and the            *)
(* deduplicator do not.                                                    *)
(***************************************************************************)
EXTENDS TaskQueue, SeenUrls, ContentDeduplicator

CONSTANTS
  Url, Domain, NoDomain,
  UrlDomain,            \* Url::domain of each URL, NoDomain for an IP host
  SitemapsOf,           \* valid Sitemap lines of the robots.txt of a domain
  Text, NoText,         \* clean_text, NoText when the page has none
  HashOf,               \* calculate_hash of each text
  NoRow,                \* the pages table has no row for a URL
  Event,                \* what the worker can publish
  BatchSize,            \* the COUNT of XREADGROUP
  MaxEvents, MaxCrashes,
  CanSignal             \* whether SIGINT or SIGTERM may arrive

PageEvent == [kind : {"page"}, url : Url, text : Text \cup {NoText}]
DomainEvent == [kind : {"domain"}, domain : Domain]

ASSUME ConsumerAssumption ==
  /\ NoDomain \notin Domain /\ NoText \notin Text
  /\ NoRow \notin Text \cup {NoText}
  /\ UrlDomain \in [Url -> Domain \cup {NoDomain}]
  /\ SitemapsOf \in [Domain -> Seq(Url)]
  /\ Event \subseteq PageEvent \cup DomainEvent
  /\ HashOf \in [Text -> Hash]
  /\ BatchSize \in Nat \ {0} /\ MaxEvents \in Nat /\ MaxCrashes \in Nat
  /\ CanSignal \in BOOLEAN

\* The deduplicator is made with dist 3.
MaxDist == 3

VARIABLES
  stream,               \* the Redis stream, never trimmed
  group,                \* the consumer group exists
  openedAt,             \* the length of the stream when it was created
  handedOut,            \* last-delivered-id of the group
  acked,                \* entries removed from the pending list with XACK
  rows,                 \* the pages table: clean_text by url
  domainRows,           \* the domains table
  pc,                   \* where the consumer is
  cursor,               \* first entry in hand, or the next to be handed out
  attempt,              \* i of the retry loops
  sitemapsLeft,         \* sitemaps of the saved domain still to be handled
  dedup,                \* texts whose hash the deduplicator holds
  shutdown,             \* the CancellationToken is cancelled
  crashes,              \* crashes so far
  written               \* history: what was ever written to the pages table

redisVars == <<stream, group, openedAt, handedOut, acked>>
dbVars == <<rows, domainRows, written>>
consumerVars == <<pc, cursor, attempt, sitemapsLeft>>
processVars == <<dedup, shutdown, crashes>>
vars == <<queueVars, seen, redisVars, dbVars, consumerVars, processVars>>

Pcs == {"create", "select", "reading", "entry", "save", "sitemaps", "push",
        "ack", "stopping", "stopped", "failed", "down"}

InHandPcs == {"entry", "save", "sitemaps", "push", "ack"}

RedisTypeOK ==
  /\ queue \in Seq(Url) /\ faults \in 0..MaxFaults /\ seen \subseteq Url
  /\ stream \in Seq(Event) /\ group \in BOOLEAN
  /\ handedOut \in 0..Len(stream) /\ openedAt \in 0..handedOut
  /\ acked \subseteq 1..Len(stream)

StorageTypeOK ==
  /\ rows \in [Url -> Text \cup {NoText, NoRow}] /\ domainRows \subseteq Domain
  /\ dedup \subseteq Text /\ shutdown \in BOOLEAN /\ crashes \in 0..MaxCrashes
  /\ written \subseteq Url \X (Text \cup {NoText})

\* The type invariant, with what the place in the loop says of the entries in
\* hand.
ConsumerTypeOK ==
  /\ pc \in Pcs /\ cursor \in 1..(handedOut + 1) /\ attempt \in 1..3
  /\ sitemapsLeft \in Seq(Url)
  /\ pc \in InHandPcs => cursor <= handedOut
  /\ pc \notin InHandPcs \cup {"reading"} => cursor = handedOut + 1
  /\ pc = "save" => stream[cursor].kind = "page"
  /\ pc = "push" => sitemapsLeft # <<>>

TypeOK == RedisTypeOK /\ StorageTypeOK /\ ConsumerTypeOK

Init ==
  /\ queue = <<>> /\ faults = 0 /\ seen = {}
  /\ stream = <<>> /\ group = FALSE /\ openedAt = 0 /\ handedOut = 0
  /\ acked = {}
  /\ rows = [u \in Url |-> NoRow] /\ domainRows = {} /\ written = {}
  /\ pc = "create" /\ cursor = 1 /\ attempt = 1 /\ sitemapsLeft = <<>>
  /\ dedup = {} /\ shutdown = FALSE /\ crashes = 0

Current == stream[cursor]

Goto(label) == pc' = label

-----------------------------------------------------------------------------
(* The worker.                                                              *)

\* XADD by the client of the worker, which does not wait for the storage.
Publish ==
  /\ Len(stream) < MaxEvents
  /\ \E e \in Event : stream' = Append(stream, e)
  /\ UNCHANGED <<queueVars, seen, group, openedAt, handedOut, acked, dbVars,
                 consumerVars, processVars>>

-----------------------------------------------------------------------------
(* The consumer group and the reads.                                        *)

\* XGROUP CREATE at "$": what is in the stream already is passed over.  A group
\* that exists (BUSYGROUP) is kept.
CreateGroup ==
  /\ pc = "create" /\ Works
  /\ Goto("select")
  /\ IF group THEN UNCHANGED <<group, openedAt, handedOut, cursor>>
     ELSE /\ group' = TRUE
          /\ openedAt' = Len(stream) /\ handedOut' = Len(stream)
          /\ cursor' = Len(stream) + 1
  /\ UNCHANGED <<queue, seen, stream, acked, dbVars, attempt, sitemapsLeft,
                 processVars>>

\* Any other Err ends the consumer; the gRPC server goes on.
CreateGroupFails ==
  /\ pc = "create" /\ Fails
  /\ Goto("failed")
  /\ UNCHANGED <<queue, seen, redisVars, dbVars, cursor, attempt,
                 sitemapsLeft, processVars>>

\* Mutation: select! is biased towards the read.
SendReadBiased ==
  /\ pc = "select"
  /\ Goto("reading")
  /\ UNCHANGED <<queueVars, seen, redisVars, dbVars, cursor, attempt,
                 sitemapsLeft, processVars>>

\* select! polls the read, with nothing cancelled.
SendRead ==
  /\ pc = "select" /\ ~shutdown
  /\ Goto("reading")
  /\ UNCHANGED <<queueVars, seen, redisVars, dbVars, cursor, attempt,
                 sitemapsLeft, processVars>>

\* Mutation: the count of the read is taken for granted.
RedisDeliversFull ==
  /\ pc = "reading" /\ cursor = handedOut + 1
  /\ handedOut < Len(stream)
  /\ handedOut' = handedOut + BatchSize
  /\ UNCHANGED <<queueVars, seen, stream, group, openedAt, acked, dbVars,
                 consumerVars, processVars>>

HandOut ==
  /\ handedOut < Len(stream)
  /\ handedOut' = IF handedOut + BatchSize <= Len(stream)
                  THEN handedOut + BatchSize ELSE Len(stream)

\* Redis answers XREADGROUP with ">": entries are pending from here on.
RedisDelivers ==
  /\ pc = "reading" /\ cursor = handedOut + 1
  /\ HandOut
  /\ UNCHANGED <<queueVars, seen, stream, group, openedAt, acked, dbVars,
                 consumerVars, processVars>>

\* BLOCK 5000 runs out: a reply without keys.
ReadTimesOut ==
  /\ pc = "reading" /\ handedOut = Len(stream) /\ cursor = handedOut + 1
  /\ Goto("select")
  /\ UNCHANGED <<queueVars, seen, redisVars, dbVars, cursor, attempt,
                 sitemapsLeft, processVars>>

ReadReturns ==
  /\ pc = "reading" /\ cursor <= handedOut
  /\ Goto("entry") /\ attempt' = 1
  /\ UNCHANGED <<queueVars, seen, redisVars, dbVars, cursor, sitemapsLeft,
                 processVars>>

\* An Err, before Redis handed anything out or after: a lost reply is not
\* asked for again.
ReadFails ==
  /\ pc = "reading" /\ Fails
  /\ Goto("select") /\ cursor' = handedOut + 1
  /\ UNCHANGED <<queue, seen, redisVars, dbVars, attempt, sitemapsLeft,
                 processVars>>

\* select! takes the branch of the token and drops the read, of which Redis may
\* know already.
StopsReading ==
  /\ pc \in {"select", "reading"} /\ shutdown
  /\ Goto("stopping") /\ cursor' = handedOut + 1
  /\ UNCHANGED <<queueVars, seen, redisVars, dbVars, attempt, sitemapsLeft,
                 processVars>>

\* The dropped read is answered while the service waits for the gRPC server.
LateDelivery ==
  /\ pc = "stopping"
  /\ HandOut
  /\ Goto("stopped") /\ cursor' = handedOut' + 1
  /\ UNCHANGED <<queueVars, seen, stream, group, openedAt, acked, dbVars,
                 attempt, sitemapsLeft, processVars>>

-----------------------------------------------------------------------------
(* process_stream_entry, the sitemaps and the acknowledgement.              *)

\* The loop goes on with the next entry of the reply, or reads again.
NextEntry ==
  /\ cursor' = cursor + 1 /\ attempt' = 1
  /\ Goto(IF cursor < handedOut THEN "entry" ELSE "select")

IsPage == Current.kind = "page"

HasDuplicate(text) ==
  IsDuplicate({HashOf[t] : t \in dedup}, HashOf[text], MaxDist)

\* save_parsed_data for a page whose domain is unknown or missing: an Err,
\* nothing is saved and the entry stays pending.
LeavePage ==
  /\ pc = "entry" /\ IsPage /\ UrlDomain[Current.url] \notin domainRows
  /\ NextEntry
  /\ UNCHANGED <<queueVars, seen, redisVars, dbVars, sitemapsLeft,
                 processVars>>

\* is_duplicate and insert run in one blocking task; the hash is kept before
\* the page is written.
TakePage ==
  /\ pc = "entry" /\ IsPage /\ UrlDomain[Current.url] \in domainRows
  /\ attempt' = 1
  /\ IF Current.text # NoText /\ HasDuplicate(Current.text)
     THEN Goto("ack") /\ UNCHANGED dedup
     ELSE Goto("save") /\ dedup' = dedup \cup ({Current.text} \ {NoText})
  /\ UNCHANGED <<queueVars, seen, redisVars, dbVars, cursor, sitemapsLeft,
                 shutdown, crashes>>

\* INSERT ... ON CONFLICT(url) DO UPDATE.
SavePage ==
  /\ pc = "save"
  /\ rows' = [rows EXCEPT ![Current.url] = Current.text]
  /\ written' = written \cup {<<Current.url, Current.text>>}
  /\ Goto("ack")
  /\ UNCHANGED <<queueVars, seen, redisVars, domainRows, cursor, attempt,
                 sitemapsLeft, processVars>>

\* save_domain; the sitemaps come out of the cache entry it has just made.
SaveDomain ==
  /\ pc = "entry" /\ ~IsPage
  /\ Works
  /\ domainRows' = domainRows \cup {Current.domain}
  /\ sitemapsLeft' = SitemapsOf[Current.domain]
  /\ Goto("sitemaps")
  /\ UNCHANGED <<queue, seen, redisVars, rows, written, cursor, attempt,
                 processVars>>

\* Mutation: the entry is acknowledged whatever came of it.
DbFailsAcked ==
  /\ \/ pc = "entry" /\ (IsPage => UrlDomain[Current.url] # NoDomain)
     \/ pc = "save"
  /\ Fails
  /\ Goto("ack")
  /\ UNCHANGED <<queue, seen, redisVars, dbVars, cursor, attempt, sitemapsLeft,
                 processVars>>

\* A failed look for the domain, a failed write of the page or of the domain:
\* after the third the entry stays pending.
DbFails ==
  /\ \/ pc = "entry" /\ (IsPage => UrlDomain[Current.url] # NoDomain)
     \/ pc = "save"
  /\ Fails
  /\ IF attempt < 3 THEN attempt' = attempt + 1 /\ UNCHANGED <<pc, cursor>>
     ELSE NextEntry
  /\ UNCHANGED <<queue, seen, redisVars, dbVars, sitemapsLeft, processVars>>

\* insert_url_in_seen_urls, a call inside the process.
OfferSitemap ==
  /\ pc = "sitemaps" /\ sitemapsLeft # <<>>
  /\ \E isDuplicate \in BOOLEAN :
       /\ InsertUrl(Head(sitemapsLeft), isDuplicate)
       /\ IF isDuplicate
          THEN sitemapsLeft' = Tail(sitemapsLeft) /\ UNCHANGED pc
          ELSE Goto("push") /\ UNCHANGED sitemapsLeft
  /\ attempt' = 1
  /\ UNCHANGED <<queueVars, redisVars, dbVars, cursor, processVars>>

SitemapsDone ==
  /\ pc = "sitemaps" /\ sitemapsLeft = <<>>
  /\ Goto("ack")
  /\ UNCHANGED <<queueVars, seen, redisVars, dbVars, cursor, attempt,
                 sitemapsLeft, processVars>>

PushSitemap ==
  /\ pc = "push"
  /\ PushBulk(<<Head(sitemapsLeft)>>)
  /\ sitemapsLeft' = Tail(sitemapsLeft)
  /\ Goto("sitemaps")
  /\ UNCHANGED <<seen, redisVars, dbVars, cursor, attempt, processVars>>

\* After the third failure the sitemap is given up and the loop goes on.
PushSitemapFails ==
  /\ pc = "push"
  /\ PushBulkFails(<<Head(sitemapsLeft)>>)
  /\ IF attempt < 3
     THEN attempt' = attempt + 1 /\ UNCHANGED <<pc, sitemapsLeft>>
     ELSE /\ sitemapsLeft' = Tail(sitemapsLeft) /\ Goto("sitemaps")
          /\ UNCHANGED attempt
  /\ UNCHANGED <<seen, redisVars, dbVars, cursor, processVars>>

\* Mutation: the ids of the whole reply are acknowledged at once.
AckReply ==
  /\ pc = "ack" /\ Works
  /\ acked' = acked \cup (cursor..handedOut)
  /\ NextEntry
  /\ UNCHANGED <<queue, seen, stream, group, openedAt, handedOut, dbVars,
                 sitemapsLeft, processVars>>

\* Mutation: the loop over the entries ends with the first.
AckAndRead ==
  /\ pc = "ack" /\ Works
  /\ acked' = acked \cup {cursor}
  /\ cursor' = handedOut + 1 /\ attempt' = 1
  /\ Goto("select")
  /\ UNCHANGED <<queue, seen, stream, group, openedAt, handedOut, dbVars,
                 sitemapsLeft, processVars>>

Ack ==
  /\ pc = "ack" /\ Works
  /\ acked' = acked \cup {cursor}
  /\ NextEntry
  /\ UNCHANGED <<queue, seen, stream, group, openedAt, handedOut, dbVars,
                 sitemapsLeft, processVars>>

\* The result of xack is not looked at.
AckFails ==
  /\ pc = "ack" /\ Fails
  /\ acked' \in {acked, acked \cup {cursor}}
  /\ NextEntry
  /\ UNCHANGED <<queue, seen, stream, group, openedAt, handedOut, dbVars,
                 sitemapsLeft, processVars>>

-----------------------------------------------------------------------------
(* main: signals, crashes and the next start.                               *)

Signal ==
  /\ CanSignal /\ ~shutdown /\ pc # "down"
  /\ shutdown' = TRUE
  /\ UNCHANGED <<queueVars, seen, redisVars, dbVars, consumerVars, dedup,
                 crashes>>

\* The consumer and the gRPC server have been joined.
Exit ==
  /\ pc \in {"stopping", "stopped", "failed"} /\ shutdown
  /\ Goto("down")
  /\ UNCHANGED <<queueVars, seen, redisVars, dbVars, cursor, attempt,
                 sitemapsLeft, processVars>>

Crash ==
  /\ pc # "down" /\ crashes < MaxCrashes
  /\ crashes' = crashes + 1
  /\ Goto("down") /\ cursor' = handedOut + 1
  /\ UNCHANGED <<queueVars, seen, redisVars, dbVars, attempt, sitemapsLeft,
                 dedup, shutdown>>

TextsIn(table) == {table[u] : u \in Url} \cap Text

\* CrawlerStorage::new reads the hashes back; the filter starts empty.  A start
\* that fails leaves the service down.
Restart ==
  /\ pc = "down"
  /\ Goto("create") /\ shutdown' = FALSE
  /\ seen' = {} /\ dedup' = TextsIn(rows)
  /\ UNCHANGED <<queueVars, redisVars, dbVars, cursor, attempt, sitemapsLeft,
                 crashes>>

-----------------------------------------------------------------------------
Reads ==
  \/ CreateGroup \/ CreateGroupFails
  \/ SendRead \/ ReadTimesOut \/ ReadReturns \/ ReadFails \/ StopsReading

Entry ==
  \/ LeavePage \/ TakePage \/ SavePage \/ SaveDomain \/ DbFails
  \/ OfferSitemap \/ SitemapsDone \/ PushSitemap \/ PushSitemapFails
  \/ Ack \/ AckFails

Consumer == Reads \/ Entry

Redis == RedisDelivers \/ LateDelivery

Main == Signal \/ Exit \/ Crash \/ Restart

Next == Publish \/ Consumer \/ Redis \/ Main

Spec == Init /\ [][Next]_vars

\* The runtime polls the consumer whenever it can go on, Redis answers a read
\* when there are entries, main returns once both tasks have been joined, and
\* the container is started again (restart: unless-stopped).
FairSpec ==
  /\ Spec
  /\ WF_vars(Consumer) /\ WF_vars(RedisDelivers)
  /\ WF_vars(Exit) /\ WF_vars(Restart)

-----------------------------------------------------------------------------
(* Properties.                                                              *)

\* Near-duplicates, whatever the bands make of them.
Similar ==
  {p \in Text \X Text : Distance(HashOf[p[1]], HashOf[p[2]]) <= MaxDist}

\* The pages table never holds near-duplicate texts under two URLs, although
\* the deduplicator lives in memory, is filled before the row is written
\* (crawler_storage.rs:136, :144), and is read back after a crash at any step
\* from a table whose rows may have been overwritten (db.rs:77).
NoNearDuplicateRows ==
  \A u, v \in Url :
    u # v /\ rows[u] \in Text /\ rows[v] \in Text
    => <<rows[u], rows[v]>> \notin Similar

\* The text of a page, or one like it, has been written.
PageWritten(e) ==
  IF e.text = NoText THEN <<e.url, NoText>> \in written
  ELSE \E w \in written : w[2] # NoText /\ <<w[2], e.text>> \in Similar

\* README.md:126: a message is acknowledged only after a successful database
\* write: its own, or that of the page it duplicates.
AckedIsWritten ==
  \A i \in acked :
    IF stream[i].kind = "page" THEN PageWritten(stream[i])
    ELSE stream[i].domain \in domainRows

\* As long as no call fails three times in a row, that is so, and the sitemaps
\* of an acknowledged domain are in the frontier: over retries, crashes between
\* the steps of an entry, lost replies and a signal at any moment.
AckedIsDone ==
  /\ AckedIsWritten
  /\ \A i \in acked :
       stream[i].kind = "domain" =>
         Range(SitemapsOf[stream[i].domain]) \subseteq Range(queue)

\* The worker published the domain of a page, for this group, before the page.
Announced(i) ==
  stream[i].kind = "page" =>
    \E j \in (openedAt + 1)..(i - 1) :
      /\ stream[j].kind = "domain"
      /\ stream[j].domain = UrlDomain[stream[i].url]

\* README.md:126, at-least-once processing, of what is published once the group
\* exists: it is acknowledged in the end.
AtLeastOnce ==
  \A i \in 1..MaxEvents :
    group /\ i \in (openedAt + 1)..Len(stream) /\ Announced(i) ~> i \in acked

\* Where no call fails, nothing crashes and no signal comes, it is so, however
\* the entries are cut into replies and whatever else the consumer is at.
DeliveredWhenCalm ==
  [](faults = 0 /\ crashes = 0 /\ ~shutdown) => AtLeastOnce

\* README.md:125, graceful shutdown: whatever calls fail and whatever the
\* consumer was doing, the service comes down after a signal.
StopsAfterSignal == shutdown ~> pc = "down"

\* What the consumer does to the stream: every entry is looked at once at most,
\* in order, and acknowledged then or never, over all crashes and restarts.
Delivery == INSTANCE EventDelivery WITH log <- stream, next <- cursor

DeliverySpec == Delivery!Spec
=============================================================================
