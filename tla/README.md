# A verification development of polite-web-crawler

TLA+ models of the crawler in `crates/`, checked with TLC on small instances and,
for the statements that matter most, proved with TLAPS for every instance. Line
numbers are those of the repository; `README.md:n` in a module or below means the
repository's own README.

Running it, in this directory:

    tlc -config core_safety.cfg MCCrawlerCore.tla      # any row of the table of runs
    tlapm CrawlerOwnerProofs.tla                       # any module of proofs

`PROJECT.json` holds, for each definition, the lines it models, and for each
checked property a mutation of the code that TLC finds to break it; the
mutations stand in the modules beside what they mutate (`\* Mutation: ...`).
Nothing else refers to them.

## 1. The system

Two processes and two stores.

| Part | Source | State | Operations |
|---|---|---|---|
| `CrawlerCore::run` | worker_service/src/core/crawler_core.rs:49-170 | where it is, `active_tasks`, `pages_crawled`, the cancellation token | fill the frontier from `--url`, `seed.txt` or leftovers; spawn; look once a second for the end; cancel and join |
| `worker_loop` (N tasks) | crawler_core.rs:172-333 | the popped URL, links, filtered links, retry index, `TaskGuard` | pop, rate limit, requeue, ask permission, discover a domain, download, save, filter links, push, count |
| `TaskQueue` | common/src/task_queue | the Redis list | RPUSH, BLPOP, LLEN, DEL |
| `DomainRateLimiter` | worker_service/src/network | delay and last access by domain, in a `DashMap` | `try_acquire`, `update_delay`, `await_acquiring` |
| `LinkFetcher` | worker_service/src/network/link_fetcher.rs | none (its `delay` is set and never read) | robots.txt, pages, sitemaps; three attempts |
| `ParsedPage`, `SitemapsParser` | worker_service/src/parsers | none | links and keywords of a page; locs of a sitemap, nested sitemaps queued like pages |
| `StorageClient` | worker_service/src/storage_client | connections | gRPC questions; XADD of pages and domains |
| stream consumer | storage_service/src/main.rs:77-176 | position in the reply, retry index | create group, XREADGROUP, save, push sitemaps, XACK |
| `CrawlerStorage` | storage_service/src/storage/crawler_storage.rs | the four below | save page or domain, permission, delay |
| `CrawlerDB` | storage/db.rs | tables `pages`, `domains` | upserts, look-ups, hashes; each tried three times |
| `ContentDeduplicator` | storage/content_deduplicator.rs | hashes in bands | `is_duplicate`, `insert`, `init` |
| `SeenUrls` | storage/seen_urls.rs | Bloom filter | `insert_url`: test and set under a mutex |
| `DomainCache` | storage/domain_cache.rs | entries that expire when idle | get, insert |
| gRPC service | storage_service/src/grpc | none | delegates to `CrawlerStorage` |

How they interact:

    worker tasks --RPUSH/BLPOP--> Redis list <--RPUSH sitemaps-- stream consumer
    worker tasks --gRPC---------> CrawlerStorage (filter, permission)
    worker tasks --XADD---------> Redis stream --XREADGROUP, XACK--> stream consumer
    stream consumer ------------> SQLite, deduplicator, filter, domain cache
    run --token, atomics--------> worker tasks

What survives what: the list and the stream with its group live in Redis, the
tables in SQLite. The filter, the deduplicator, the cache, the limiter and both
counters live in memory. The deduplicator is rebuilt from the table at a start;
the filter and the limiter start empty.

What is hard in it:

- N tasks, the monitor and the storage share the list, the filter and a counter,
  and no lock spans two accesses. The filter is asked long before a link is pushed,
  a link is pushed before it is counted, a refused URL is in no list for a moment.
- The end of a crawl is detected by a counter that other parties' pushes do not
  touch, that wraps, and that is read at any moment.
- Every call to Redis or the storage may fail before or after its effect.
- The consumer handles an entry in several calls; it may crash between any two,
  and the in-memory half of its state is lost.
- A lock of the limiter is kept over an await, on threads the tasks share.
- The domain cache is filled by the consumer after a save and by every caller that
  missed it; none of them holds a lock between its read and its insertion.
- The web answers as it likes: no answer, odd statuses, redirects to other sites,
  other content types, bodies that break off; each must end the turn of a URL in
  some sensible way.

What makes each part correct: no URL is lost or crawled twice (list, filter,
tasks); the crawl ends when it should and only then (counter, monitor); a signal
is always obeyed (both services); no acknowledgement without the work, no near
duplicates in the table (consumer, deduplicator, database); a domain that was saved
is found and its robots.txt is not outdated for no reason (cache); what is published
of a site was said by it, and is filed where it came from (fetcher, parsers);
downloads from a domain are spaced (limiter).

## 2. The modules

| Module | Models | Notes |
|---|---|---|
| `TaskQueue` | the Redis list | operators used as conjuncts by the two below; `faults` and `MaxFaults` bound failed calls |
| `SeenUrls` | the filter | `InsertUrl`, with `FalsePositives` |
| `CrawlerCore` | `run`, `worker_loop`, `process_single_url`, and the part of the storage that pushes sitemaps | composes TaskQueue and SeenUrls |
| `EventDelivery` | abstract: what becomes of the stream | a reader that looks at every entry at most once, in order |
| `StreamConsumer` | the storage service as reader of the stream | implements EventDelivery; composes TaskQueue and SeenUrls |
| `ContentDeduplicator` | the search for near-duplicates in buckets by bands | operators; `StreamConsumer` uses them |
| `DomainDirectory` | abstract: what callers may rely on when they ask about a domain | versions that were saved |
| `DomainCache` | the domains table, the cache in front of it, the consumer that saves, the calls that read | implements DomainDirectory |
| `CrawlTurn` | abstract: the turn of a URL in the steps `CrawlerCore` gives it | the link between the two |
| `UrlTurn` | `process_single_url` with fetcher, parsers and the entries published | implements CrawlTurn |
| `DomainRateLimiter` | the limiter with clock, shard locks and threads | its callers are reduced to their calls |
| `MCCrawlerCore`, `MCStreamConsumer`, `MCDomainCache`, `MCUrlTurn`, `MCDomainRateLimiter` | instances | webs, scenarios, events, delays |
| `SequenceLemmas` | lemmas on queues: append, tail, ranges, injectivity | proofs only |
| `CrawlerCoreProofs`, `CrawlerOwnerProofs`, `StreamConsumerProofs`, `ContentDeduplicatorProofs`, `DomainCacheProofs`, `UrlTurnProofs`, `DomainRateLimiterProofs` | theorems | |

### CrawlerCore

`corePc` is where `run` is, `pc[w]` where task `w` is. One action is what lies
between two accesses to shared state. The path of a task:

    top -> pop -> acquire -> check -> discover | fetch -> save -> offer -> push -> count -> release -> top
             |       |          |                                        (retry)             (TaskGuard)
             |       +-> requeue -> top | drop
             +-> exited (timeout or Err)
    discover | fetch -> panic -> dead                                             (TaskGuard)

| Variable | Code |
|---|---|
| `queue` | Redis list `crawler_queue` |
| `seen` | the Bloom filter behind `insert_url` |
| `activeTasks` (modulo `UsizeMod`), `pagesCrawled` | the two atomics |
| `cur[w]`, `out[w]`, `batch[w]`, `attempt[w]` | `url`, `outbound_links`, `filtered_urls`, `i` of the retry loop |
| `events`, `known`, `sitemapsLeft`, `sitemapInHand`, `sitemapAttempt` | published domains, the `domains` table, and the consumer in the middle of a domain |
| `retired`, `stray` | history: URLs that had their turn or were deleted with an old list; pushes of the storage that `active_tasks` does not include |

A web is data: `LinksAt`, `DomainOf`, `SitemapsOf`, `XmlUrls`, `Disallowed`.
Downloads fail or not by choice. The subtraction of 1 is `FetchSub`, which wraps
as `AtomicUsize::fetch_sub` does; `TaskGuard` is dropped at the labels `release`,
`die` (after a third failed push) and `panic`.

`TaskPanics` is the unwrap of an Err that is none (link_fetcher.rs:155). An ordinary
304 causes it, so it is a step of every run and counts as no fault: it ends a task
through its guard, at any download, at most once for each task. `StorageRestarts`
counts against `MaxFaults` like a failed call: a storage service that starts again
with an empty filter and without the entries it had in hand, at any moment of a crawl.

### StreamConsumer

There is one consumer, and it handles a reply to its end before it reads again;
so the entries in hand are exactly `cursor..handedOut`, where `handedOut` is the
last-delivered-id of the group. That fact is a part of `TypeOK` and is proved.

    create -> select -> reading -> entry -> save ------------------> ack -> entry | select
                |          |         +----> sitemaps <-> push -------^
                +----------+-> stopping -> stopped -> down -> create (restart)

`dedup` holds the texts whose hash the deduplicator holds; `HashOf` is any function
from texts to hashes. Whether a page is a duplicate is asked of the bands
(`HasDuplicate`), while the property speaks of the distance (`Similar`): that the
two agree is a theorem of `ContentDeduplicatorProofs`. `written` is a history of what was ever written to `pages`. `Crash` takes the process down
anywhere; `Restart` reads the hashes back and starts with an empty filter.

### EventDelivery

`Publish` appends; `Acknowledge` acknowledges the next entry and moves on;
`PassOver` moves on without. `StreamConsumer` implements it with `log <- stream,
next <- cursor`: batches, retries, failed calls, crashes and restarts are all
either stutters or one of the three. Read positively: no entry is handled twice
and none out of order. Read negatively, and as important to know: what is passed
over is never looked at again.

### ContentDeduplicator

A hash is the set of its bits that are 1. `ExtractBand` is the shift and the cast
to `u16`: bands of sixteen bits at steps of eight, so that neighbours overlap, and
the last has only eight bits. `Bucket` is what `init` and `insert` put under a value
of a band, `IsDuplicate` the search through the eight buckets of a hash.

### DomainDirectory and DomainCache

Every publication of a domain has a number, its version; versions tell apart the
robots.txt and delays that come with them. `table[d]` and `cache[d]` are the version
of the row and of the entry, 0 for none. A call is three steps with an await in
between, and the consumer's save three more:

    free -> look -> read -> fill -> told         (a hit goes from look to told, no row
                                                  from read to told, an Err to free)
    free -> write -> insert -> sitemaps -> free  (consumer; write is tried three times)

| Variable | Code |
|---|---|
| `table`, `saved` | table `domains`; `saved` is the history of its rows |
| `cache` | `DomainCache`; `Expire` is `time_to_idle` |
| `stream`, `published` | entries of kind domain in the stream, and how many there were |
| `pc[c]`, `call[c]`, `answer[c]` | a gRPC call or the consumer: where it is, its locals, its result |
| `late` | history: entries overwritten by a row that was read before the last save |

A task asks for permission, then for the delay, or publishes a domain the storage
did not know; several may do so at once. A call may time out at any of its awaits
(5 s in the client), and `Crash` empties the cache and drops calls and entries in
hand.

`DomainDirectory` says what remains visible: `Save` adds a version, `Ask` and `Reply`
bracket a call, `GiveUp` is an Err. An answer is a version that was saved, and a
domain that was saved when the question was asked is not unknown. It does not say
that the answer is the last version, because that is not so.

### CrawlTurn and UrlTurn

`UrlTurn` is `process_single_url` seen from the side of the web:

    check -> robots -> publish -> release              (unknown domain)
    check -> await -> delay -> xml -> offer            (sitemap)
    check -> delay -> page -> parse -> save -> offer   (page)
    any of them -> release (Err) or panic

An `Answer` has a status class (2xx, 404, another 4xx or 5xx, none of these), a
content type, the URL it came from after redirects, and a body that may get lost.
All of them are tried at every request. What is tried again differs by request and is
modelled as it is written: of robots.txt the whole fetch (link_fetcher.rs:64), of
pages and sitemaps only `send()` (:121, :188). Documents are places (site and path);
`HrefsAt` and `LocsAt` give the links in them, with every kind `Url::parse` tells apart.

`CrawlTurn` is what `CrawlerCore` assumes of a turn: its labels, at most one entry in
the stream, and that a counted page is there. `UrlTurn` implements it with a mapping
of labels (`Step`) and of `entries` to two booleans. So `CrawlerCore` may abstract a
turn to `Discover`, `Fetch`, `TaskPanics` and `SavePage`.

### DomainRateLimiter

A call reads the clock (`Instant::now()`), then locks the shard. A task on its
way to a lock occupies a thread and keeps it while it is blocked; a task that
sleeps or waits for I/O occupies none. `await_acquiring` keeps the guard of its
entry over the sleep: `holder[s]`. `downloads` is a history of the grants, with the
time and the delay that was in force.

## 3. The runs

| Run | Question | States |
|---|---|---|
| `core_safety` | three tasks, all ways to start, a signal and panics any time, sitemaps of an undiscovered domain: `TypeOK`, `SingleOwner`, `NoSilentLoss`, `ActiveTasksExact`, `NoAbandonedQueue`, `CrawlTerminates` | 890 k |
| `core_stop` | start from a URL or a seed, up to three faults anywhere (calls, reading the seeds, a restart of the storage), panics, limit 1, a signal any time: `StopsOnceAsked`, `OvershootBounded` | 1.1 M |
| `core_early_end` | refuted: `CrawlsUntilEmpty` | |
| `core_never_ends` | refuted: `ExitsOnEmptyQueue` | |
| `stream_safety` | four events, a crash, a signal, two failed calls: `TypeOK`, `NoNearDuplicateRows`, `AckedIsDone`, `DeliverySpec`, and no deadlock | 3.3 M |
| `stream_stop` | three events (one page without text, one of an unknown host), a crash, a signal, three failed calls: `StopsAfterSignal`, `DeliveredWhenCalm` | 494 k |
| `stream_crash` | refuted: `AtLeastOnce` | |
| `cache` | two tasks and the consumer, two publications of a domain, two crashes: `TypeOK`, `CacheBehindTable`, `StaleOnlyByLateFill`, `DelayNeverGuessed`, `EveryCallEnds`, `DirectorySpec`, and no deadlock | 272 k |
| `turn` | two sites, a redirect between them, every answer to every request: `TypeOK`, `RobotsNotAssumed`, `PageUnderOwnUrl`, `KeptBeforeFollowed`, `PoliteRetries`, `TurnEnds`, `TurnSpec`, and no deadlock | 254 k |
| `rate_delay` | three tasks, a Crawl-delay longer and one shorter than the default, both discovered in the run: `DelayKept` | 5.9 M |
| `rate_threads` | three tasks, three threads, sitemaps: `TypeOK`, `SignalHandled` | 30 k |
| `rate_stuck` | refuted: `SignalHandled` with two threads | |

What the properties say beyond their names:

- `SingleOwner`: a URL is never in two of: the list, a task before its turn, a
  batch not yet pushed, the storage's hand, the past. This is what makes "no URL
  is crawled twice" true although filter and push are far apart.
- `NoSilentLoss`: every URL the filter knows is somewhere in those places. The
  filter never refuses a link nobody will crawl.
- `ActiveTasksExact`: the counter equals, modulo 2^w, list plus tasks in hand,
  minus links pushed and not yet counted, minus the storage's pushes. It says
  exactly by how much the counter is wrong, and so when the monitor errs.
- `NoAbandonedQueue`: when all tasks have left by the timeout of the pop, nothing
  is left but sitemaps the storage pushed after they had gone. It does not speak of a
  crawl whose last task died of a panic; the next one does.
- `AckedIsDone`: as long as no call fails three times in a row, an acknowledged
  page, or one like it, is in the table's history, and the sitemaps of an
  acknowledged domain were pushed.
- `CrawlTerminates`: as long as the storage pushes no sitemap and no call fails, `run`
  returns, by itself or after a signal, whichever tasks panic. One case is left out by
  name, `Stranded`: every task is over, one of them of a panic, and URLs are
  queued (section 5).
- `OvershootBounded`: once the token is cancelled, the pages that can still be saved
  only become fewer; before, the limit is looked at once a second.
- `CacheBehindTable`: no caller is ever told what a crash could take back.
- `StaleOnlyByLateFill`: names every way an old robots.txt can stay in force: a late
  fill, and the moment between the row and the entry.
- `DelayNeverGuessed`: permission and delay are two calls; the domain does not vanish
  between them.
- `RobotsNotAssumed`: only a 404 counts as "no robots.txt".
- `PageUnderOwnUrl`: a document is stored under the URL it came from, and relative
  links are resolved against that one, not against the one asked for.
- `KeptBeforeFollowed`: links of a page with a keyword are followed only when the
  page is in the stream and counted.
- `PoliteRetries`: a site is asked three times at most, and never again once it has
  answered.
- `DelayKept`: of two downloads from a domain, the later was granted the delay that
  was then in force after the earlier one. The delay in force is the default until
  the domain is discovered in this run, then its Crawl-delay. It says nothing when that
  is 0, and leaves out domains with sitemaps (section 5).

Bounds, and why they are enough:

- Tasks: 3 in `core_safety`, so that two can race while a third holds or finds
  the list empty; 2 in the other runs of `CrawlerCore`. The tasks of `rate_delay` are a
  symmetry set; no run with a liveness property has one.
- Web: five URLs, two domains, one forbidden page, one sitemap, one host given by
  its address: every answer of every branch of `process_single_url` occurs.
- `UsizeMod = 8`: more than the URLs that can be counted at once, so that a wrap
  below 0 is distinguishable from every legal value, as it is with 2^64.
- `MaxFaults`: 3 where three failures in a row end a retry loop (`core_stop`,
  `stream_stop`); 2 in `stream_safety`, because `AckedIsDone` is
  about fewer than three in a row. `faults` only grows.
- `BatchSize = 2` for `COUNT 10`, with up to four events: replies with one entry,
  full replies and more than one reply occur.
- `MaxCrashes`: 1 in the runs of the consumer, since a crash leaves behind Redis and
  SQLite in a state any second one would find too; 2 in `cache`. All safety
  properties of `StreamConsumer` and `DomainCache` are
  proved for any number of crashes.
- `MaxVersions = 2`: an entry is the row's version or an older one, and there may be
  one more in the stream; a third would only be one more older one, and the proofs are
  for any number.
  One domain: calls for different domains share nothing but their caller.
- The hashes of `MCStreamConsumer`: two texts at distance 3 with their bits where the
  bands are cut, and a third at distance 4 of one of them.
- `MCUrlTurn`: hrefs that are relative, absolute, of another scheme, broken, and lead
  back to the page; a sitemap with a broken loc and one that ends early. `attempt` and
  `requests` are bounded by the code.
- `MaxClock`: 4 in `rate_delay`, beyond both delays and twice the default of 2. The clock
  stops there, and sleeps count as over, so that a bound never looks like a deadlock.

Deadlock is checked in `stream_safety`, `stream_stop`, `cache` and `turn`. A crawl ends and the clock
stops at its bound, so the others say `CHECK_DEADLOCK FALSE`.

### Fairness

| Assumption | Ground |
|---|---|
| WF of `Run` and of each task (CrawlerCore) | Tokio polls a task that is ready; the sleep of the monitor ends; every await in the loop has a timeout or an answer. It needs as many threads as tasks too: with fewer, tasks that block on a shard of the limiter may take every thread (`rate_stuck`), and neither a task nor the monitor runs again |
| WF of `Storage`, of `Consumer` | same |
| WF of `Lookup` of each caller (DomainCache) | same; SQLite answers or fails |
| WF of `Turn` (UrlTurn) | `reqwest` gives up after 8 s, a gRPC call after 5 s, Redis answers or fails; that `await_acquiring` returns is `DomainRateLimiter`'s, and needs as many threads as tasks (`rate_stuck`) |
| SF of "some task acquires" (CrawlerCore) | a refused URL goes round the queue until its delay is over; time passes while it does |
| WF of `RedisDelivers` | XREADGROUP answers when there are entries |
| WF of `Exit` | `main` joins both tasks; the gRPC server is cancelled by the same token |
| WF of `Restart` | `restart: unless-stopped`, docker-compose.yml:29 |
| WF of `Tick`, SF of each task (DomainRateLimiter) | time passes; a shard lock that is released again and again is taken at last (parking_lot is eventually fair) |

No fairness is assumed of `Signal`, `Crash`, `StorageRestarts`, `Publish`, `Expire`, or a
failed call.

## 4. What is proved

All theorems hold for every value of the constants that satisfies the ASSUMEs of
the modules.

| Theorem | Says | Assumes |
|---|---|---|
| `TypeCorrect` | `CrawlerCore!TypeOK`, failed calls and the wrapping counter included | nothing more |
| `LimitOvershoot` | `OvershootBounded`, whatever fails | nothing more |
| `CounterExact` | `ActiveTasksExact` | `MaxFaults = 0` |
| `QueueNotAbandoned` | `NoAbandonedQueue` | `MaxFaults = 0`, at least one task |
| `UrlHasOneOwner` | `SingleOwner` | `CleanStart`, `MaxFaults = 0` |
| `NothingLost` | `NoSilentLoss` | `CleanStart`, `MaxFaults = 0`, `FalsePositives = {}` |
| `ConsumerTypeCorrect` | `StreamConsumer!TypeOK`, with what `pc` says of the entries in hand | nothing more |
| `NoNearDuplicates` | `NoNearDuplicateRows`, whatever fails or crashes | nothing more |
| `ImplementsDelivery` | `StreamConsumer` implements `EventDelivery` | nothing more |
| `AcknowledgedIsDone` | `AckedIsDone`, with any number of crashes | `MaxFaults <= 2`, `NoFalseSitemaps` |
| `BandsFindAll` | `IsDuplicate(hashes, h, 3)` is "one of them is within distance 3 of h" | nothing more |
| `CacheTypeCorrect` | `DomainCache!TypeOK` | nothing more |
| `CacheNeverAhead` | `CacheBehindTable` | nothing more |
| `StaleEntriesExplained` | `StaleOnlyByLateFill` | nothing more |
| `DelaysAreKnown` | `DelayNeverGuessed` | nothing more |
| `ImplementsDirectory` | `DomainCache` implements `DomainDirectory` | nothing more |
| `TurnTypeCorrect` | `UrlTurn!TypeOK` | nothing more |
| `AsksPolitely` | `PoliteRetries` | nothing more |
| `RobotsSaidBySite` | `RobotsNotAssumed` | nothing more |
| `StoredUnderOwnUrl` | `PageUnderOwnUrl` | nothing more |
| `KeptThenFollowed` | `KeptBeforeFollowed` | nothing more |
| `ImplementsTurn` | `UrlTurn` implements `CrawlTurn` | nothing more |
| `LimiterTypeCorrect` | `DomainRateLimiter!TypeOK` | nothing more |
| `DelayIsKept` | `DelayKept`, for any time | nothing more (`DefaultDelay > 0`, as in the code) |

Every safety property of a passing run, and every refinement, is in this table.

Why the four that assume something do so:

- `MaxFaults = 0`. An Err of Redis may come after the effect. A push that took place
  and is tried again queues its URLs twice and is counted once; a task whose third
  push fails leaves for good. The statements are false then, and README and code
  promise nothing else.
- At least one task. With `--tokio-workers 0` nobody takes anything from the list.
- `MaxFaults <= 2`. With three failures in a row the row is given up while its hash
  stays in the deduplicator (section 5), and with it the next page like it.
- `NoFalseSitemaps`: no sitemap is taken for one the filter has seen. A false
  positive is skipped and the entry acknowledged, by design of the filter.

- `CleanStart` says of the scenarios that the list has no repeats and is known to
  the filter, that the seeds have no repeats, and that no start URL or seed is a
  sitemap. An earlier crawl leaves the list that way when the storage service
  was not restarted in between.
- `SingleOwner` is not inductive. `OwnerInv` adds: every place holds only URLs the
  filter knows (`PlacesSeen`); batches are empty outside `offer`, `push` and `count`
  (`BatchesEmpty`); tasks are idle before they are spawned (`IdleBeforeSpawn`); the
  storage's sitemaps are apart from the start URL (`SitemapsApart`); and two facts
  about the beginning (`StartUrlQueued`, `SeedsOfferedFirst`). The one lemma that
  carries the argument is `TaskMovesUrls`: a step of a task moves URLs between the
  list, its own hand and the past, plus URLs that were new to the filter, and a new
  one can be nowhere else because of `PlacesSeen`. `NothingLost` rests on `OwnerInv`.
- `NoNearDuplicateRows` follows from `RowsInv`: every text in the table is in the
  deduplicator, and the text about to be written was unlike all others when it
  was taken. A failed write only adds to the deduplicator; a restart makes it
  equal to the table, which is still free of near-duplicates; an overwritten row only
  removes.
- `BandsFindAll` is a pigeonhole argument: if all bands differ, so do bands 0, 2, 4
  and 6, which have no bit in common, and four different bits are more than three.
  It is tight: hashes that differ in bits 8, 24, 40 and 56 share no band. It is what
  makes `NoNearDuplicates`, which speaks of distances, true of a search by buckets.
- The four theorems about `DomainCache` beyond its types rest on one inductive
  invariant, `CacheInv`. `SavedInv`: row and entry of a domain were saved, the row
  last. `OrderInv`: what is in the stream or about to be written is newer than every
  row, so rows only move forward. `CallerInv`: who found a row or was allowed a URL asks
  for a saved domain, and what is in hand was saved. `StaleOnlyByLateFill` itself is
  the last conjunct: it is inductive with the other three.
- `ImplementsDelivery` rests on `TypeOK`: the cursor never moves back, and at an
  acknowledgement it points at an entry that exists.
- `OvershootBounded` is an action property. Its lemma `SaversLeave` says of one step of
  a task after the token is cancelled that the set of tasks that may still save a page
  only loses members, and loses the one that saves; a finite set that loses a
  member is smaller by one.
- `ActiveTasksExact` is inductive with `CountInv`: tasks are idle until they are
  spawned, the links pushed and not yet added are finitely many, and before the list is
  filled the counter is 0 and the list holds only what the storage pushed. The lemma
  `CountTask` computes for each step of a task the change of counter, list, holders
  and uncounted links; `WrapAdd` carries it through the wrap: adding to a wrapped counter
  is adding to what it stands for. That needs a step on division, since the counter is
  not assumed to be smaller than `2^w`.
- `NoAbandonedQueue` is inductive with `EndInv`: no task leaves after a third failed
  push, and the storage holds only listed sitemaps. A task leaves unasked only when it
  sees the list empty; what another task pushes later, that task is still there to take,
  unless it dies of a panic, which the statement leaves out; after the last one only
  the storage pushes.
- `AckedIsDone` is inductive with `DoneInv`. `attempt <= faults + 1` turns the bound on
  faults into "no third failure". `KnownWritten`: every text whose hash the deduplicator
  of a running service holds was written, or is about to be; so a page that is refused
  as a duplicate is like one that was written. It is false after the third failure,
  and restored by a restart, which reads the hashes from the rows (`RowsWritten`).
  `SeenQueued` says the same of the filter and the list, for sitemaps. `WorkGrows`:
  nothing that makes an entry done is undone, overwritten rows included.
- The theorems about `UrlTurn` rest on `TurnInv`, which ties the label to what the turn
  has gathered. `RequestsInv`: at a request, the number of requests so far is one
  less than the try, and the last one was of no use. `EntriesInv`: nothing is
  published before the last two labels; who is about to publish a domain has the
  answer at hand. `PageInv`: no document before a download, no links before parsing.
  `ImplementsTurn` needs `EntriesInv`, since what `CrawlTurn` shows of `entries` is
  whether one was published in this turn.
- `DelayKept` speaks of downloads that were made, and is inductive only with those
  that were granted and not yet made, `Promised`. `DelayInv`: an entry whose delay is not
  0 remembers a time no earlier than anything promised, and any two promises are
  apart. A call that comes late to its lock carries an old time; the elapsed time is
  then 0 and nothing is granted (`OnePromise`). An entry whose delay is 0 may remember an
  older time, so a delay that became 0 must stay 0 (`EntriesKeepDelay`), and here
  `DefaultDelay > 0` is used. `DelayInv` does not hold of domains with sitemaps, for the
  reason given in section 5.

Left to TLC: all liveness (`StopsOnceAsked`, `CrawlTerminates`, `StopsAfterSignal`,
`DeliveredWhenCalm`, `SignalHandled`, `EveryCallEnds`, `TurnEnds`), for which the prover
has no support; the four refuted statements, whose counterexamples are TLC's; and,
of the hypotheses above, that each is needed.

## 5. Where code and documents disagree

Each of the first four has a run.

1. `core_early_end`. README.md:76 "crawls until the task queue is empty". Links
   are pushed at crawler_core.rs:226 and counted at :228. Other tasks may pop,
   finish and subtract them between: the monitor reads 0 and cancels.
2. `core_never_ends`. README.md:86 "exits on its own when ... the queue is empty".
   Sitemaps pushed by the storage (storage_service/src/main.rs:123) are subtracted
   and were never added: the counter wraps and the monitor waits for ever.
3. `stream_crash`. README.md:126 "At-least-once processing". After a crash the
   consumer reads `>` only; its pending entries are never read again.
4. `rate_stuck`. README.md:125 "Both services handle SIGINT and SIGTERM". When as
   many tasks as there are threads wait for the shard of a sleeping
   `await_acquiring`, no thread is left to wake it, or to see the signal.

Seen while modelling, and without a run:

- README.md:126 "acknowledged ... only after a successful database write". The hash is
  kept before the row is written (crawler_storage.rs:136, :144). When the write
  fails for good, the next page like it is taken for a duplicate and acknowledged;
  neither is in the table. With `MaxFaults = 3` TLC finds the first conjunct of
  `AckedIsDone` violated.
- README.md:124 speaks of four bands; the code has eight that overlap. Four at the
  same steps would miss near-duplicates: that is the mutation `IsDuplicateInFour`.
  Pages whose text is empty (a PDF, a 404) all have the same hash, so the second
  one is a duplicate; a page saved with no text at all has no hash and is never
  compared.
- A call that missed the cache puts the row it read over the entry of a newer save
  (crawler_storage.rs:105). `time_to_idle` keeps that entry as long as somebody asks.
  The sitemaps of a domain are taken from whatever entry is there (:169), so they
  may be those of an older robots.txt.
- The 1 s that `get_delay` makes up for an unknown domain (crawler_storage.rs:186)
  is unreachable for tasks: `DelaysAreKnown`.
- README.md:39 on robots.txt: permission is asked for the URL in the queue; `reqwest`
  follows redirects to other paths and sites without asking, and the URL at the end
  of a redirect is not offered to the filter, so that it is crawled again when
  something links to it.
- README.md:40 "Per-domain rate limiting". A robots.txt without a Crawl-delay, and a
  missing one, give 0 (link_fetcher.rs:172, :183), which `update_delay` puts over the
  default (crawler_core.rs:292): from its discovery on, such a domain is not limited at
  all for the rest of the run, and `DelayKept` says nothing of it.
- README.md:39 "`Crawl-delay` compliance". The limiter starts empty and is told a
  Crawl-delay on discovery only (crawler_core.rs:118, :292); what `get_delay` returns
  (:270, :304) is stored and never waited for. A domain the storage knows from an earlier
  run is downloaded from at the default delay, and so is a page that was granted before
  the discovery of its domain came to `update_delay`.
- README.md:40 on rate limiting: `with_retry` tries again without the limiter
  (link_fetcher.rs:99).
- README.md:75 "number of pages to save": `pages_crawled` also counts empty pages (a
  PDF, a 404) and pages the storage then finds to be duplicates.
- `error_for_status().unwrap_err()` (link_fetcher.rs:85, :155, :225) panics on a
  status that is neither a success nor an error, such as a 304 or a 3xx without a
  Location; the panic ends one of the N tasks for good. `run` comes to its end without
  it, but for one case: when the other tasks have died too, or left by the timeout while
  it was still at work, what it had pushed before it died stays queued, `active_tasks`
  stays above 0, and the monitor waits for ever (`Stranded`, reached in `core_safety`).
- `parse_sitemap` takes any URL with any scheme and keeps fragments, which the HTML
  parser does not: a page may be crawled once with and once without.
- `await_acquiring` writes back, at domain_rate_limiter.rs:70, a time read before
  it had the lock, over an access granted meanwhile: the next access is granted
  too early. `DelayKept` leaves out domains with sitemaps for that reason.
- The URL that discovers a domain is spent: `handle_unknown_domain` returns no
  links and does not queue it again (crawler_core.rs:294), so a first crawl of
  `--url` on an empty database never downloads the start URL.
- The group is created at `$` (main.rs:84): what was published before its creation
  is passed over. docker-compose.yml starts the worker after the storage, which
  makes this rare.
- A call that fails after the filter recorded a URL loses the URL: `NoSilentLoss`
  needs `MaxFaults = 0`.

## 6. What is not modelled

- The id of a domain, and the page that is left when it cannot be found, are in
  `StreamConsumer` (`LeavePage`) and `DomainCache` (`AskId`) separately; the composition
  of the two is planned. `StreamConsumer` takes the sitemaps of a domain from the
  event, which is right unless a late fill replaced the entry in between.
- What a robots.txt allows (the `texting_robots` crate): `Disallowed` is a constant,
  since any function of the text would do.
- The Err of `CachedData::new` (crawler_storage.rs:159, db.rs:166): link_fetcher.rs:171
  has made a `Robot` of the same text for the same agent before the domain is
  published, so the storage never meets a text it cannot parse.
- An entry of the stream without a payload (main.rs:166, acknowledged) or with a payload
  that is no event (:173, left pending): only the worker writes to the stream.
- `Duration::from_secs_f32` (crawler_core.rs:292) panics on a negative delay or one
  that is no number. Whether `texting_robots` ever gives one is outside this code.
  `CrawlerCore` and `CrawlTurn` have the panic from `discover` anyway.
- A protocol-relative href (`//host/path`): in `UrlTurn` it is one of the absolute ones.
- How a hash comes from a text (`calculate_hash`, the simhash crate): `HashOf`.
- DTOs, conversions, gRPC and protobuf code, creation of tables, configuration and
  logging: no state that a statement depends on.
- The nesting of sitemaps: an index is a sitemap whose locs are queued like all
  others, so that its depth is a matter of `CrawlerCore`'s queue and filter.
- Titles, descriptions, the text extracted from HTML, and row ids: no statement depends on them.
- The parse error of `pop_front`: everything in the list came from `Url::as_str`.

## 7. The plan

Done: sections 2 to 4. Next, in this order:

1. `CrawlerSystem`: `CrawlerCore` with `StreamConsumer` in place of its summary of the
   storage, so that the storage actions of `CrawlerCore` are shown to be implemented.
   Its state space is beyond these runs (the two alone have 0.9 and 3.3 million
   states); it would be a proof without an instance.
2. "With at least as many threads as tasks a thread is free whenever a sleeper is due":
   the safety half of `SignalHandled`, and with it the reason of the bound that
   `rate_stuck` shows to be needed.
3. The hazards no property covers yet (PROJECT.json), first the restart of a crawl
   after a crash, with the leftovers of dead tasks.
