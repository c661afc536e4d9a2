----------------------------- MODULE CrawlerCore -----------------------------
(***************************************************************************)
(* The worker service: CrawlerCore::run fills the frontier, spawns the     *)
(* crawling tasks and watches for the end of the crawl; each task runs     *)
(* worker_loop.  The tasks share the frontier (TaskQueue), the filter of   *)
(* seen URLs in the storage service (SeenUrls, through gRPC), and the      *)
(* counters active_tasks and pages_crawled.                                *)
(*                                                                         *)
(* The part of the storage service that acts on the frontier is here too:  *)
(* its stream consumer saves a published domain and pushes the sitemaps of *)
(* its robots.txt.  StreamConsumer models that service in full.            *)
(*                                                                         *)
(* A step of a task is what lies between two accesses to shared state: a   *)
(* Redis command, a gRPC call, an atomic operation or a download.          *)
(***************************************************************************)
EXTENDS TaskQueue, SeenUrls, Integers, FiniteSets

CONSTANTS
  Worker,               \* the tasks spawned by run
  Url, Domain,
  NoUrl, NoDomain, NoLimit,
  DomainOf,             \* Url::domain of each URL, NoDomain for an IP host
  LinksAt,              \* the links in the page or sitemap at a URL, sorted
                        \* and without repeats
  XmlUrls,              \* URLs whose path ends in .xml or .xml.gz
  SitemapsOf,           \* Sitemap lines of the robots.txt of each domain
  Disallowed,           \* URLs the robots.txt of their domain forbids
  SeedFile,             \* the valid URLs of seed.txt
  Scenarios,            \* what a run can find when it starts (see Init)
  Limit,                \* --limit
  UsizeMod,             \* 2^w, w the width of usize
  CanSignal             \* whether SIGINT or SIGTERM may arrive

ListedSitemaps == UNION {Range(SitemapsOf[d]) : d \in Domain}

ASSUME CoreAssumption ==
  /\ IsFiniteSet(Worker)
  /\ NoUrl \notin Url /\ NoDomain \notin Domain /\ NoLimit \notin Nat
  /\ DomainOf \in [Url -> Domain \cup {NoDomain}]
  /\ LinksAt \in [Url -> Seq(Url)]
  /\ SitemapsOf \in [Domain -> Seq(Url)]
  /\ XmlUrls \subseteq Url /\ Disallowed \subseteq Url
  /\ SeedFile \in Seq(Url)
  /\ Scenarios \subseteq [startUrl : Url \cup {NoUrl}, queue : Seq(Url),
                          seen : SUBSET Url, known : SUBSET Domain,
                          events : Seq(Domain)]
  /\ Limit \in Nat \cup {NoLimit}
  /\ UsizeMod \in Nat \ {0}
  /\ CanSignal \in BOOLEAN

VARIABLES
  corePc,               \* where run is
  startUrl,             \* --url, or NoUrl
  seedsLeft,            \* seeds not yet offered to the filter
  shutdown,             \* the CancellationToken is cancelled
  activeTasks,          \* active_tasks: AtomicUsize
  pagesCrawled,         \* pages_crawled: AtomicUsize
  pc,                   \* where each task is
  cur,                  \* the URL it popped
  out,                  \* outbound_links still to be offered to the filter
  batch,                \* filtered_urls
  attempt,              \* i of the push_bulk retry loop
  events,               \* domains published and not yet read by the storage
  known,                \* domains saved by the storage
  sitemapsLeft,         \* sitemaps of the saved domain still to be offered
  sitemapInHand,        \* sitemap recorded as seen and not yet pushed
  sitemapAttempt,       \* i of its push retry loop
  retired,              \* history: URLs that had their turn or were deleted
  stray                 \* history: pushes of the storage that active_tasks
                        \* does not include

coreVars == <<corePc, startUrl, seedsLeft, shutdown>>
counters == <<activeTasks, pagesCrawled>>
taskVars == <<pc, cur, out, batch, attempt>>
storageVars == <<events, known, sitemapsLeft, sitemapInHand, sitemapAttempt>>
history == <<retired, stray>>
vars == <<queue, faults, seen, coreVars, counters, taskVars, storageVars,
          history>>

CorePcs == {"isEmpty", "clean", "pushStart", "insertStart", "seeds",
            "pushSeeds", "len", "spawn", "monitor", "join", "returned",
            "failed"}
TaskPcs == {"idle", "top", "pop", "acquire", "requeue", "drop", "check",
            "discover", "fetch", "save", "offer", "push", "count", "release",
            "die", "panic", "exited", "dead"}

\* Tasks that are over: out of their loop, or dead of a panic.
Over == {"exited", "dead"}

\* Labels of a task that has no URL in hand.
Idle == {"idle", "top", "pop"} \cup Over

\* One type invariant for the frontier, run, the tasks, the storage's part and
\* the history.
FrontierTypeOK ==
  queue \in Seq(Url) /\ faults \in 0..MaxFaults /\ seen \subseteq Url

RunTypeOK ==
  /\ corePc \in CorePcs /\ startUrl \in Url \cup {NoUrl}
  /\ seedsLeft \in Seq(Url) /\ shutdown \in BOOLEAN
  /\ activeTasks \in 0..(UsizeMod - 1) /\ pagesCrawled \in Nat

TaskTypeOK ==
  /\ pc \in [Worker -> TaskPcs]
  /\ cur \in [Worker -> Url \cup {NoUrl}]
  /\ out \in [Worker -> Seq(Url)]
  /\ batch \in [Worker -> Seq(Url)]
  /\ attempt \in [Worker -> 1..3]
  /\ \A w \in Worker : pc[w] \notin Idle => cur[w] \in Url

StorageTypeOK ==
  /\ events \in Seq(Domain) /\ known \subseteq Domain
  /\ sitemapsLeft \in Seq(Url) /\ sitemapInHand \in Url \cup {NoUrl}
  /\ sitemapAttempt \in 1..3

HistoryTypeOK == retired \subseteq Url /\ stray \in Nat

TypeOK ==
  FrontierTypeOK /\ RunTypeOK /\ TaskTypeOK /\ StorageTypeOK /\ HistoryTypeOK

\* The list, the domains that were published and those that were saved survive
\* earlier runs of this service; the filter survives as long as the storage
\* service does.
Init ==
  /\ \E s \in Scenarios :
       /\ startUrl = s.startUrl
       /\ queue = s.queue
       /\ seen = s.seen
       /\ known = s.known
       /\ events = s.events
       /\ retired = s.seen \ Range(s.queue)
  /\ faults = 0
  /\ corePc = "isEmpty" /\ seedsLeft = <<>> /\ shutdown = FALSE
  /\ activeTasks = 0 /\ pagesCrawled = 0
  /\ pc = [w \in Worker |-> "idle"]
  /\ cur = [w \in Worker |-> NoUrl]
  /\ out = [w \in Worker |-> <<>>]
  /\ batch = [w \in Worker |-> <<>>]
  /\ attempt = [w \in Worker |-> 1]
  /\ sitemapsLeft = <<>> /\ sitemapInHand = NoUrl /\ sitemapAttempt = 1
  /\ stray = 0

\* fetch_add and fetch_sub wrap around.
Wrap(n) == n % UsizeMod

LimitReached == Limit # NoLimit /\ pagesCrawled >= Limit

-----------------------------------------------------------------------------
(* run, up to the spawning of the tasks.                                    *)

StartFromEmptyQueue ==
  /\ corePc = "isEmpty" /\ IsEmpty
  /\ IF startUrl # NoUrl
     THEN corePc' = "pushStart" /\ UNCHANGED seedsLeft
     ELSE corePc' = "seeds" /\ seedsLeft' = SeedFile
  /\ stray' = 0
  /\ UNCHANGED <<seen, startUrl, shutdown, counters, taskVars, storageVars,
                 retired>>

StartFromLeftovers ==
  /\ corePc = "isEmpty" /\ IsNotEmpty
  /\ corePc' = IF startUrl # NoUrl THEN "clean" ELSE "len"
  /\ UNCHANGED <<seen, startUrl, seedsLeft, shutdown, counters, taskVars,
                 storageVars, history>>

CleanLeftovers ==
  /\ corePc = "clean" /\ CleanQueue
  /\ corePc' = "pushStart"
  /\ retired' = retired \cup Range(queue)
  /\ stray' = 0
  /\ UNCHANGED <<seen, startUrl, seedsLeft, shutdown, counters, taskVars,
                 storageVars>>

\* push, then active_tasks.store(1), which nobody else reads yet.
PushStartUrl ==
  /\ corePc = "pushStart" /\ PushBulk(<<startUrl>>)
  /\ activeTasks' = Wrap(1)
  /\ corePc' = "insertStart"
  /\ retired' = retired \ {startUrl}
  /\ UNCHANGED <<seen, startUrl, seedsLeft, shutdown, pagesCrawled, taskVars,
                 storageVars, stray>>

InsertStartUrl ==
  /\ corePc = "insertStart"
  /\ \E isDuplicate \in BOOLEAN : InsertUrl(startUrl, isDuplicate)
  /\ corePc' = "spawn"
  /\ UNCHANGED <<queueVars, startUrl, seedsLeft, shutdown, counters, taskVars,
                 storageVars, history>>

\* The result of insert_url is not looked at, an Err is only printed.
InsertSeed ==
  /\ corePc = "seeds" /\ seedsLeft # <<>>
  /\ \/ Works /\ \E isDuplicate \in BOOLEAN :
                    InsertUrl(Head(seedsLeft), isDuplicate)
     \/ Fails /\ seen' \in {seen, seen \cup {Head(seedsLeft)}}
  /\ seedsLeft' = Tail(seedsLeft)
  /\ UNCHANGED <<queue, corePc, startUrl, shutdown, counters, taskVars,
                 storageVars, history>>

SeedsOffered ==
  /\ corePc = "seeds" /\ seedsLeft = <<>>
  /\ corePc' = IF SeedFile = <<>> THEN "returned" ELSE "pushSeeds"
  /\ UNCHANGED <<queueVars, seen, startUrl, seedsLeft, shutdown, counters,
                 taskVars, storageVars, history>>

PushSeeds ==
  /\ corePc = "pushSeeds" /\ PushBulk(SeedFile)
  /\ activeTasks' = Wrap(Len(SeedFile))
  /\ corePc' = "spawn"
  /\ retired' = retired \ Range(SeedFile)
  /\ UNCHANGED <<seen, startUrl, seedsLeft, shutdown, pagesCrawled, taskVars,
                 storageVars, stray>>

ResumeLeftovers ==
  /\ corePc = "len"
  /\ QueueLen(Len(queue))
  /\ activeTasks' = Wrap(Len(queue))
  /\ corePc' = "spawn"
  /\ stray' = 0
  /\ UNCHANGED <<seen, startUrl, seedsLeft, shutdown, pagesCrawled, taskVars,
                 storageVars, retired>>

\* Any Err of a startup call or of reading seed.txt ends run, except the Errs of
\* insert_url on seeds.
StartFails ==
  /\ \/ corePc \in {"isEmpty", "len"} /\ QueueLenFails /\ UNCHANGED seen
     \/ corePc = "clean" /\ CleanQueueFails /\ UNCHANGED seen
     \/ corePc = "seeds" /\ seedsLeft = SeedFile /\ Fails
        /\ UNCHANGED <<queue, seen>>
     \/ corePc = "pushStart" /\ PushBulkFails(<<startUrl>>) /\ UNCHANGED seen
     \/ corePc = "pushSeeds" /\ PushBulkFails(SeedFile) /\ UNCHANGED seen
     \/ corePc = "insertStart" /\ Fails /\ UNCHANGED queue
        /\ seen' \in {seen, seen \cup {startUrl}}
  /\ corePc' = "failed"
  /\ UNCHANGED <<startUrl, seedsLeft, shutdown, counters, taskVars,
                 storageVars, history>>

SpawnWorkers ==
  /\ corePc = "spawn"
  /\ corePc' = "monitor"
  /\ pagesCrawled' = 0
  /\ pc' = [w \in Worker |-> "top"]
  /\ UNCHANGED <<queueVars, seen, startUrl, seedsLeft, shutdown, activeTasks,
                 cur, out, batch, attempt, storageVars, history>>

-----------------------------------------------------------------------------
(* run, after the spawning: look every second, then join the tasks.         *)

\* Mutation: the monitor looks at the counters only.
MonitorDeaf ==
  /\ corePc = "monitor"
  /\ activeTasks = 0 \/ LimitReached
  /\ shutdown' = TRUE
  /\ corePc' = "join"
  /\ UNCHANGED <<queueVars, seen, startUrl, seedsLeft, counters, taskVars,
                 storageVars, history>>

MonitorStops ==
  /\ corePc = "monitor"
  /\ shutdown \/ activeTasks = 0 \/ LimitReached
  /\ shutdown' = TRUE
  /\ corePc' = "join"
  /\ UNCHANGED <<queueVars, seen, startUrl, seedsLeft, counters, taskVars,
                 storageVars, history>>

\* The JoinError of a task that panicked is only printed.
JoinWorkers ==
  /\ corePc = "join"
  /\ \A w \in Worker : pc[w] \in Over
  /\ corePc' = "returned"
  /\ UNCHANGED <<queueVars, seen, startUrl, seedsLeft, shutdown, counters,
                 taskVars, storageVars, history>>

\* wait_for_shutdown_signal, in a task of its own in main.
Signal ==
  /\ CanSignal /\ ~shutdown /\ corePc \notin {"returned", "failed"}
  /\ shutdown' = TRUE
  /\ UNCHANGED <<queueVars, seen, corePc, startUrl, seedsLeft, counters,
                 taskVars, storageVars, history>>


-----------------------------------------------------------------------------
(* worker_loop.                                                             *)

Goto(w, label) == pc' = [pc EXCEPT ![w] = label]

\* Mutation: the subtraction saturates nowhere and wraps nowhere.
FetchSubSigned == activeTasks' = activeTasks - 1 /\ UNCHANGED pagesCrawled

\* The TaskGuard of the task, or an explicit fetch_sub.
FetchSub == activeTasks' = Wrap(activeTasks - 1) /\ UNCHANGED pagesCrawled

LookAtShutdown(w) ==
  /\ pc[w] = "top"
  /\ Goto(w, IF shutdown THEN "exited" ELSE "pop")
  /\ UNCHANGED <<queueVars, seen, coreVars, counters, cur, out, batch, attempt,
                 storageVars, history>>

PopUrl(w) ==
  /\ pc[w] = "pop"
  /\ \E url \in Url :
       /\ PopFront(url)
       /\ cur' = [cur EXCEPT ![w] = url]
       /\ IF DomainOf[url] = NoDomain
          THEN Goto(w, "drop") /\ retired' = retired \cup {url}
          ELSE Goto(w, "acquire") /\ UNCHANGED retired
  /\ UNCHANGED <<seen, coreVars, counters, out, batch, attempt, storageVars,
                 stray>>

\* None breaks the loop and an Err leaves it: the task is over.
PopNothing(w) ==
  /\ pc[w] = "pop"
  /\ PopFrontTimesOut \/ PopFrontFails
  /\ Goto(w, "exited")
  /\ UNCHANGED <<seen, coreVars, counters, cur, out, batch, attempt,
                 storageVars, history>>

\* try_acquire, whose answer depends on the time; TaskGuard is created.
Acquire(w) ==
  /\ pc[w] = "acquire"
  /\ Goto(w, "check")
  /\ retired' = retired \cup {cur[w]}
  /\ UNCHANGED <<queueVars, seen, coreVars, counters, cur, out, batch, attempt,
                 storageVars, stray>>

TooEarly(w) ==
  /\ pc[w] = "acquire"
  /\ Goto(w, "requeue")
  /\ UNCHANGED <<queueVars, seen, coreVars, counters, cur, out, batch, attempt,
                 storageVars, history>>

\* Mutation: the refused URL is left out when the loop continues.
RequeueForgets(w) ==
  /\ pc[w] = "requeue"
  /\ Works /\ Goto(w, "top") /\ cur' = [cur EXCEPT ![w] = NoUrl]
  /\ UNCHANGED <<queue, seen, coreVars, counters, out, batch, attempt,
                 storageVars, history>>

\* Mutation: break instead of continue after the push.
RequeueLeaves(w) ==
  /\ pc[w] = "requeue"
  /\ PushBulk(<<cur[w]>>) /\ Goto(w, "exited") /\ cur' = [cur EXCEPT ![w] = NoUrl]
  /\ UNCHANGED <<seen, coreVars, counters, out, batch, attempt, storageVars,
                 history>>

Requeue(w) ==
  /\ pc[w] = "requeue"
  /\ \/ PushBulk(<<cur[w]>>) /\ Goto(w, "top") /\ cur' = [cur EXCEPT ![w] = NoUrl]
     \/ PushBulkFails(<<cur[w]>>) /\ Goto(w, "drop") /\ UNCHANGED cur
  /\ UNCHANGED <<seen, coreVars, counters, out, batch, attempt, storageVars,
                 history>>

\* Mutation: the loop continues without fetch_sub.
DropUncounted(w) ==
  /\ pc[w] = "drop"
  /\ Goto(w, "top")
  /\ cur' = [cur EXCEPT ![w] = NoUrl]
  /\ UNCHANGED <<queueVars, seen, coreVars, counters, out, batch, attempt,
                 storageVars, history>>

\* A URL without a domain, or one that could not be queued again.
Drop(w) ==
  /\ pc[w] = "drop"
  /\ FetchSub
  /\ Goto(w, "top")
  /\ cur' = [cur EXCEPT ![w] = NoUrl]
  /\ UNCHANGED <<queueVars, seen, coreVars, out, batch, attempt, storageVars,
                 history>>

\* check_if_url_allowed: a domain that was never saved is unknown; a
\* disallowed URL and an Err both end the turn of the URL.
CheckUrl(w) ==
  /\ pc[w] = "check"
  /\ \/ /\ Works
        /\ Goto(w, IF DomainOf[cur[w]] \notin known THEN "discover"
                   ELSE IF cur[w] \in Disallowed THEN "release" ELSE "fetch")
     \/ Fails /\ Goto(w, "release")
  /\ UNCHANGED <<queue, seen, coreVars, counters, cur, out, batch, attempt,
                 storageVars, history>>

\* handle_unknown_domain: robots.txt is downloaded and the domain published
\* with XADD, unless one of them fails.  No links come of it.
Discover(w) ==
  /\ pc[w] = "discover"
  /\ events' \in {events, Append(events, DomainOf[cur[w]])}
  /\ Goto(w, "release")
  /\ UNCHANGED <<queueVars, seen, coreVars, counters, cur, out, batch, attempt,
                 known, sitemapsLeft, sitemapInHand, sitemapAttempt, history>>

\* The sitemap or the page is downloaded and parsed: that fails, or its links
\* are at hand, after a page with the keywords has been saved.
Fetch(w) ==
  /\ pc[w] = "fetch"
  /\ \/ Goto(w, "release") /\ UNCHANGED out
     \/ /\ Goto(w, "offer") \/ (cur[w] \notin XmlUrls /\ Goto(w, "save"))
        /\ out' = [out EXCEPT ![w] = LinksAt[cur[w]]]
  /\ UNCHANGED <<queueVars, seen, coreVars, counters, cur, batch, attempt,
                 storageVars, history>>

\* A status that is neither a success nor an error has no Err to unwrap
\* (link_fetcher.rs:85, :155, :225): the task panics.  An ordinary 304 does it,
\* so this is no failed call; it happens at most once to each task.
TaskPanics(w) ==
  /\ pc[w] \in {"discover", "fetch"}
  /\ Goto(w, "panic")
  /\ UNCHANGED <<queueVars, seen, coreVars, counters, cur, out, batch, attempt,
                 storageVars, history>>

\* save_results_to_db: XADD, then pages_crawled; an Err loses the links.
SavePage(w) ==
  /\ pc[w] = "save"
  /\ \/ /\ Goto(w, "offer") /\ pagesCrawled' = pagesCrawled + 1
        /\ UNCHANGED out
     \/ /\ Goto(w, "release") /\ UNCHANGED pagesCrawled
        /\ out' = [out EXCEPT ![w] = <<>>]
  /\ UNCHANGED <<queueVars, seen, coreVars, activeTasks, cur, batch, attempt,
                 storageVars, history>>

\* Mutation: the answer of the filter is not looked at.
OfferUnfiltered(w) ==
  /\ pc[w] = "offer" /\ out[w] # <<>>
  /\ \E isDuplicate \in BOOLEAN : InsertUrl(Head(out[w]), isDuplicate)
  /\ batch' = [batch EXCEPT ![w] = Append(@, Head(out[w]))]
  /\ out' = [out EXCEPT ![w] = Tail(@)]
  /\ UNCHANGED <<queueVars, coreVars, counters, pc, cur, attempt, storageVars,
                 history>>

\* insert_url for the next link; a link whose call fails is skipped.
OfferLink(w) ==
  /\ pc[w] = "offer" /\ out[w] # <<>>
  /\ \E isDuplicate \in BOOLEAN :
       /\ InsertUrl(Head(out[w]), isDuplicate)
       /\ batch' = IF isDuplicate THEN batch
                   ELSE [batch EXCEPT ![w] = Append(@, Head(out[w]))]
  /\ out' = [out EXCEPT ![w] = Tail(@)]
  /\ UNCHANGED <<queueVars, coreVars, counters, pc, cur, attempt, storageVars,
                 history>>

OfferFails(w) ==
  /\ pc[w] = "offer" /\ out[w] # <<>>
  /\ Fails
  /\ seen' \in {seen, seen \cup {Head(out[w])}}
  /\ out' = [out EXCEPT ![w] = Tail(@)]
  /\ UNCHANGED <<queue, coreVars, counters, pc, cur, batch, attempt,
                 storageVars, history>>

LinksOffered(w) ==
  /\ pc[w] = "offer" /\ out[w] = <<>>
  /\ IF batch[w] = <<>> THEN Goto(w, "release") ELSE Goto(w, "push")
  /\ attempt' = [attempt EXCEPT ![w] = 1]
  /\ UNCHANGED <<queueVars, seen, coreVars, counters, cur, out, batch,
                 storageVars, history>>

PushLinks(w) ==
  /\ pc[w] = "push"
  /\ PushBulk(batch[w])
  /\ Goto(w, "count")
  /\ UNCHANGED <<seen, coreVars, counters, cur, out, batch, attempt,
                 storageVars, history>>

\* Three failures make the task return the Err.
PushLinksFails(w) ==
  /\ pc[w] = "push"
  /\ PushBulkFails(batch[w])
  /\ IF attempt[w] < 3
     THEN /\ attempt' = [attempt EXCEPT ![w] = @ + 1]
          /\ UNCHANGED <<pc, batch>>
     ELSE /\ Goto(w, "die")
          /\ batch' = [batch EXCEPT ![w] = <<>>]
          /\ UNCHANGED attempt
  /\ UNCHANGED <<seen, coreVars, counters, cur, out, storageVars, history>>

\* Mutation: one is added for the whole batch.
CountOnce(w) ==
  /\ pc[w] = "count"
  /\ activeTasks' = Wrap(activeTasks + 1)
  /\ batch' = [batch EXCEPT ![w] = <<>>]
  /\ Goto(w, "release")
  /\ UNCHANGED <<queueVars, seen, coreVars, pagesCrawled, cur, out, attempt,
                 storageVars, history>>

CountLinks(w) ==
  /\ pc[w] = "count"
  /\ activeTasks' = Wrap(activeTasks + Len(batch[w]))
  /\ batch' = [batch EXCEPT ![w] = <<>>]
  /\ Goto(w, "release")
  /\ UNCHANGED <<queueVars, seen, coreVars, pagesCrawled, cur, out, attempt,
                 storageVars, history>>

AfterTurn(w, next) ==
  CASE pc[w] = "release" -> next [] pc[w] = "die" -> "exited"
    [] pc[w] = "panic" -> "dead"

\* Mutation: the token is looked at before the loop only.
ReleaseAndPop(w) ==
  /\ pc[w] \in {"release", "die", "panic"}
  /\ FetchSub
  /\ Goto(w, AfterTurn(w, "pop"))
  /\ cur' = [cur EXCEPT ![w] = NoUrl]
  /\ UNCHANGED <<queueVars, seen, coreVars, out, batch, attempt, storageVars,
                 history>>

\* The TaskGuard is dropped at the end of the turn, in a panic too.
Release(w) ==
  /\ pc[w] \in {"release", "die", "panic"}
  /\ FetchSub
  /\ Goto(w, AfterTurn(w, "top"))
  /\ cur' = [cur EXCEPT ![w] = NoUrl]
  /\ UNCHANGED <<queueVars, seen, coreVars, out, batch, attempt, storageVars,
                 history>>

-----------------------------------------------------------------------------
(* What the storage service does to the frontier.                           *)

\* The consumer reads the next domain and saves it.  A domain that cannot be
\* saved is not read again.
StorageSavesDomain ==
  /\ events # <<>> /\ sitemapsLeft = <<>> /\ sitemapInHand = NoUrl
  /\ \/ Works /\ known' = known \cup {Head(events)}
        /\ sitemapsLeft' = SitemapsOf[Head(events)]
     \/ Fails /\ UNCHANGED <<known, sitemapsLeft>>
  /\ events' = Tail(events)
  /\ UNCHANGED <<queue, seen, coreVars, counters, taskVars, sitemapInHand,
                 sitemapAttempt, history>>

StorageOffersSitemap ==
  /\ sitemapsLeft # <<>> /\ sitemapInHand = NoUrl
  /\ \E isDuplicate \in BOOLEAN :
       /\ InsertUrl(Head(sitemapsLeft), isDuplicate)
       /\ sitemapInHand' = IF isDuplicate THEN NoUrl ELSE Head(sitemapsLeft)
  /\ sitemapsLeft' = Tail(sitemapsLeft)
  /\ sitemapAttempt' = 1
  /\ UNCHANGED <<queueVars, coreVars, counters, taskVars, events, known,
                 history>>

StoragePushesSitemap ==
  /\ sitemapInHand # NoUrl
  /\ PushBulk(<<sitemapInHand>>)
  /\ sitemapInHand' = NoUrl
  /\ stray' = stray + 1
  /\ UNCHANGED <<seen, coreVars, counters, taskVars, events, known,
                 sitemapsLeft, sitemapAttempt, retired>>

\* After the third failure the sitemap is given up.
StoragePushFails ==
  /\ sitemapInHand # NoUrl
  /\ PushBulkFails(<<sitemapInHand>>)
  /\ stray' = stray + (Len(queue') - Len(queue))
  /\ IF sitemapAttempt < 3
     THEN sitemapAttempt' = sitemapAttempt + 1 /\ UNCHANGED sitemapInHand
     ELSE sitemapInHand' = NoUrl /\ UNCHANGED sitemapAttempt
  /\ UNCHANGED <<seen, coreVars, counters, taskVars, events, known,
                 sitemapsLeft, retired>>

\* The storage service goes down, or comes up again: the filter is empty, what
\* the consumer had in hand and what it had read is not done again.
StorageRestarts ==
  /\ Fails
  /\ seen' = {} /\ sitemapsLeft' = <<>> /\ sitemapInHand' = NoUrl
  /\ \E n \in 0..Len(events) : events' = SubSeq(events, n + 1, Len(events))
  /\ UNCHANGED <<queue, coreVars, counters, taskVars, known, sitemapAttempt,
                 history>>

-----------------------------------------------------------------------------
Startup ==
  \/ StartFromEmptyQueue \/ StartFromLeftovers \/ CleanLeftovers
  \/ PushStartUrl \/ InsertStartUrl
  \/ InsertSeed \/ SeedsOffered \/ PushSeeds
  \/ ResumeLeftovers \/ StartFails \/ SpawnWorkers

Run == Startup \/ MonitorStops \/ JoinWorkers

Task(w) ==
  \/ LookAtShutdown(w) \/ PopUrl(w) \/ PopNothing(w)
  \/ Acquire(w) \/ TooEarly(w) \/ Requeue(w) \/ Drop(w)
  \/ CheckUrl(w) \/ Discover(w) \/ Fetch(w) \/ TaskPanics(w) \/ SavePage(w)
  \/ OfferLink(w) \/ OfferFails(w) \/ LinksOffered(w)
  \/ PushLinks(w) \/ PushLinksFails(w) \/ CountLinks(w) \/ Release(w)

Storage ==
  \/ StorageSavesDomain \/ StorageOffersSitemap
  \/ StoragePushesSitemap \/ StoragePushFails

Next ==
  \/ Run \/ Signal \/ (\E w \in Worker : Task(w))
  \/ Storage \/ StorageRestarts

Spec == Init /\ [][Next]_vars

\* The runtime polls every task that can go on, the sleep of the monitor ends,
\* Redis and the storage answer.  A domain whose URLs are tried again and again
\* is granted at last, since only time has to pass.
FairSpec ==
  /\ Spec
  /\ WF_vars(Run)
  /\ \A w \in Worker : WF_vars(Task(w))
  /\ WF_vars(Storage)
  /\ SF_vars(\E w \in Worker : Acquire(w))

-----------------------------------------------------------------------------
(* Properties.                                                              *)

\* What a task has in hand before its turn begins, and filtered_urls until they
\* are in the queue.
Own(w) ==
  IF pc[w] \in {"acquire", "requeue"} THEN {cur[w]}
  ELSE IF pc[w] \in {"offer", "push"} THEN Range(batch[w]) ELSE {}

StorageHand == {sitemapInHand} \ {NoUrl}

\* What the runs start from when nothing was lost before: the filter knows every
\* queued URL, nothing is queued or listed as a seed twice, and no start URL or
\* seed is a sitemap.
CleanStart ==
  /\ \A s \in Scenarios :
       /\ IsInjective(s.queue) /\ Range(s.queue) \subseteq s.seen
       /\ s.startUrl \notin ListedSitemaps
  /\ IsInjective(SeedFile) /\ Range(SeedFile) \cap ListedSitemaps = {}

\* Without failed calls a URL is never in two places at once: twice in the
\* queue, with two tasks, with a task and in the queue, with the storage and in
\* the queue, or anywhere after its turn.  So no URL has two turns in one run,
\* although the filter is asked (crawler_core.rs:211) long before the push (:226)
\* and a refused URL travels back through the queue (:198).
SingleOwner ==
  /\ IsInjective(queue)
  /\ \A w \in Worker : IsInjective(batch[w])
  /\ Range(queue) \cap (StorageHand \cup retired) = {}
  /\ StorageHand \cap retired = {}
  /\ \A w \in Worker : Own(w) \cap (Range(queue) \cup StorageHand \cup retired) = {}
  /\ \A w, v \in Worker : w # v => Own(w) \cap Own(v) = {}

\* Without failed calls and false positives, a URL the filter knows is somewhere:
\* queued, with a task or the storage, about to be pushed by run, or it had its
\* turn.  The filter never answers for a URL that nobody will crawl.
NoSilentLoss ==
  seen \subseteq
    Range(queue) \cup retired \cup StorageHand
      \cup (UNION {Own(w) : w \in Worker})
      \cup (IF corePc \in {"seeds", "pushSeeds"} THEN Range(SeedFile) ELSE {})

\* Tasks that have popped a URL and not yet subtracted it.
Holders == {w \in Worker : pc[w] \notin Idle}

\* Links pushed (crawler_core.rs:226) and not yet added (:228).
Uncounted == UNION {{w} \X DOMAIN batch[w] : w \in {v \in Worker : pc[v] = "count"}}

\* Without failed calls active_tasks is, modulo 2^w, the number of URLs queued
\* or in hand, except for the links a task has just pushed and for the sitemaps
\* the storage pushed: every path through worker_loop subtracts exactly once.
ActiveTasksExact ==
  corePc \in {"insertStart", "spawn", "monitor", "join", "returned"} =>
    activeTasks = Wrap(Len(queue) + Cardinality(Holders)
                         - Cardinality(Uncounted) - stray)

\* Without failed calls the tasks leave the loop early (crawler_core.rs:186) only
\* when nothing of what they pushed is left: if all have left and nobody asked
\* them to stop, the queue holds at most sitemaps pushed by the storage.  When
\* the last one died of a panic instead, see Stranded.
NoAbandonedQueue ==
  /\ corePc = "monitor" /\ ~shutdown
  /\ \A w \in Worker : pc[w] = "exited"
  => Range(queue) \subseteq ListedSitemaps

\* run always comes back once the crawl was told to stop or the monitor has seen
\* the limit, whatever calls fail and whatever the tasks were doing: a task at
\* the pop, in a retry or in the middle of a page comes to the top of its loop.
StopsOnceAsked ==
  shutdown \/ (corePc = "monitor" /\ LimitReached)
    ~> corePc \in {"returned", "failed"}

\* Pages saved, and tasks that may still save one before they look at the token.
Saveable ==
  pagesCrawled + Cardinality({w \in Worker :
                   pc[w] \in {"pop", "acquire", "check", "fetch", "save"}})

\* The limit is looked at once a second and by nobody else (crawler_core.rs:150):
\* once the token is cancelled, each task saves at most one page more, so the
\* limit is exceeded after that by no more than the number of tasks.
OvershootBounded ==
  [][shutdown /\ corePc \in {"monitor", "join"} => Saveable' <= Saveable]_vars

\* Every task is over, one of them of a panic, and nobody is left to pop what is
\* still queued: active_tasks stays above 0 and run waits for ever.
Stranded ==
  /\ corePc = "monitor" /\ ~shutdown
  /\ \A w \in Worker : pc[w] \in Over
  /\ \E w \in Worker : pc[w] = "dead"
  /\ queue # <<>>

\* Where no call fails and the storage pushes no sitemap, the counter comes to 0
\* and run returns, a signal or not, and whichever tasks panic: the guard of a
\* task that dies subtracts its URL, and run joins the dead ones too.  A crawl is
\* kept from its end only by being stranded.
CrawlTerminates == [](stray = 0) => <>(corePc = "returned" \/ Stranded)

\* What the README says of the end of a crawl (README.md:76): the tasks work
\* until the queue is empty, unless a limit or a signal ends the crawl.
CrawlsUntilEmpty ==
  corePc = "returned" /\ Limit = NoLimit /\ ~CanSignal => queue = <<>>

\* README.md:86: the crawler exits on its own when the queue is empty.  Here:
\* when nothing is queued and no task has anything in hand for good, run returns.
ExitsOnEmptyQueue ==
  [](queue = <<>> /\ Holders = {} /\ corePc = "monitor") ~> corePc = "returned"
=============================================================================
