------------------------------- MODULE UrlTurn -------------------------------
(***************************************************************************)
(* The turn of a URL from the inside: process_single_url with LinkFetcher, *)
(* SitemapsParser and ParsedPage, and the entries StorageClient publishes. *)
(* One task has one turn after the other; the web answers as it likes, and *)
(* every call may fail.                                                    *)
(*                                                                         *)
(* A place is a site and a path.  Of a document only its links count, and  *)
(* whether a keyword is in it.                                             *)
(***************************************************************************)
EXTENDS Naturals, Sequences

CONSTANTS
  Site, Path,
  XmlPaths,             \* paths that end in .xml or .xml.gz
  BadPaths,             \* paths with another extension that is never downloaded
  HrefsAt,              \* the hrefs in the document at each place
  LocsAt,               \* the loc elements in the document at each place
  Keyworded,            \* places whose document holds a keyword
  RedirectsTo,          \* where else a request for a place may end
  NoPlace               \* where the empty document is

Place == Site \X Path

Url == [place : Place, fragment : BOOLEAN]

\* What Url::parse makes of an href; for a relative one only the path counts.
Href == [kind : {"http", "otherScheme", "relative", "invalid"}, to : Url]

Loc == [kind : {"url", "invalid", "broken"}, to : Url]

ASSUME TurnAssumption ==
  /\ XmlPaths \subseteq Path /\ BadPaths \subseteq Path \ XmlPaths
  /\ HrefsAt \in [Place -> SUBSET Href] /\ LocsAt \in [Place -> Seq(Loc)]
  /\ Keyworded \subseteq Place
  /\ RedirectsTo \in [Place -> SUBSET Url]
  /\ NoPlace \notin Place

VARIABLES
  pc, url,
  attempt,              \* i of with_retry
  requests,             \* history: what the requests of this turn came to
  robots,               \* robot_body, or "unasked"
  page,                 \* NotParsedPageData: its URL and what is in it
  out,                  \* outbound_links
  entries,              \* history: what was published in this turn
  crawled               \* history: whether pages_crawled was increased in it

vars == <<pc, url, attempt, requests, robots, page, out, entries, crawled>>

Pcs == {"check", "robots", "publish", "await", "delay", "xml", "page", "parse",
        "save", "offer", "release", "panic"}

\* The document of a URL, or none: of a file, a 404, or another content type.
Page == [url : Url, of : Place \cup {NoPlace}]

\* What a request comes to.  Neither 2xx, 404, 4xx nor 5xx: a 304, or a 3xx
\* without a Location.  The body may still get lost.
Answer == [status : {"ok", "notFound", "error", "odd"},
           type : {"html", "xml", "other", "absent"}, url : Url, body : BOOLEAN]

NoAnswer == [status |-> "none"]

Entry == [robots : {"text", "none"}] \cup [page : Page]

TypeOK ==
  /\ pc \in Pcs /\ url \in Url /\ attempt \in 1..3
  /\ requests \in Seq(Answer \cup {NoAnswer})
  /\ robots \in {"unasked", "text", "none"}
  /\ page \in Page /\ out \subseteq Url
  /\ entries \in Seq(Entry) /\ crawled \in BOOLEAN

Init ==
  /\ pc = "release" /\ url \in Url /\ attempt = 1 /\ requests = <<>>
  /\ robots = "unasked" /\ page = [url |-> url, of |-> NoPlace] /\ out = {}
  /\ entries = <<>> /\ crawled = FALSE

\* The next URL has its turn, with this task or with another.
Begin ==
  /\ pc \in {"offer", "release", "panic"} /\ pc' = "check"
  /\ url' \in Url /\ attempt' = 1 /\ requests' = <<>> /\ robots' = "unasked"
  /\ page' = [url |-> url', of |-> NoPlace] /\ out' = {}
  /\ entries' = <<>> /\ crawled' = FALSE

Goto(label) == pc' = label

IsXml == url.place[2] \in XmlPaths

-----------------------------------------------------------------------------
(* Permission, and the discovery of a domain.                               *)

\* Unknown, allowed or refused; an Err of the call is as good as refused.
CheckUrl ==
  /\ pc = "check"
  /\ pc' \in {"robots", IF IsXml THEN "await" ELSE "delay", "release"}
  /\ UNCHANGED <<url, attempt, requests, robots, page, out, entries, crawled>>

\* send(): no answer, or one of the URL or of where it is redirected to.
Send(a) ==
  /\ a # NoAnswer => a.url \in {url} \cup RedirectsTo[url.place]
  /\ requests' = Append(requests, a)

\* Mutation: one attempt too many.
RetryOnceMore ==
  IF attempt <= 3 THEN attempt' = attempt + 1 /\ UNCHANGED pc
  ELSE Goto("release") /\ UNCHANGED attempt

\* with_retry after an Err: the third one is returned and ends the turn.
Retry ==
  IF attempt < 3 THEN attempt' = attempt + 1 /\ UNCHANGED pc
  ELSE Goto("release") /\ UNCHANGED attempt

\* An Err of get_robot_list.
OfNoUse(a) ==
  a.status \in {"none", "error"} \/ (a.status = "ok" /\ ~a.body)

\* Mutation: a site that refuses its robots.txt counts as one without it.
RobotsAnswerLax(a) ==
  \/ /\ a.status = "ok" /\ a.body /\ robots' = "text"
     /\ pc' \in {"publish", "release"} /\ UNCHANGED attempt
  \/ /\ a.status \in {"notFound", "error"} /\ robots' = "none"
     /\ Goto("publish") /\ UNCHANGED attempt
  \/ a.status = "odd" /\ Goto("panic") /\ UNCHANGED <<attempt, robots>>
  \/ OfNoUse(a) /\ a.status # "error" /\ Retry /\ UNCHANGED robots

\* get_robot_list is what is tried again, with its body and its status; what
\* Robot::new then says of the text is not.  Of an odd status there is no Err to
\* unwrap: the task panics.
RobotsAnswer(a) ==
  \/ /\ a.status = "ok" /\ a.body /\ robots' = "text"
     /\ pc' \in {"publish", "release"} /\ UNCHANGED attempt
  \/ /\ a.status = "notFound" /\ robots' = "none"
     /\ Goto("publish") /\ UNCHANGED attempt
  \/ a.status = "odd" /\ Goto("panic") /\ UNCHANGED <<attempt, robots>>
  \/ OfNoUse(a) /\ Retry /\ UNCHANGED robots

GetDomainData ==
  /\ pc = "robots"
  /\ \E a \in Answer \cup {NoAnswer} : Send(a) /\ RobotsAnswer(a)
  /\ UNCHANGED <<url, page, out, entries, crawled>>

\* XADD, which may have had its effect when it fails.
XAdd(entry, ok, err) ==
  \/ entries' = Append(entries, entry) /\ Goto(ok)
  \/ entries' \in {entries, Append(entries, entry)} /\ Goto(err)

PublishDomain ==
  /\ pc = "publish" /\ XAdd([robots |-> robots], "release", "release")
  /\ UNCHANGED <<url, attempt, requests, robots, page, out, crawled>>

-----------------------------------------------------------------------------
(* A sitemap.                                                               *)

AwaitAcquiring ==
  /\ pc = "await" /\ Goto("delay")
  /\ UNCHANGED <<url, attempt, requests, robots, page, out, entries, crawled>>

GetDelay ==
  /\ pc = "delay" /\ pc' \in {IF IsXml THEN "xml" ELSE "page", "release"}
  /\ UNCHANGED <<url, attempt, requests, robots, page, out, entries, crawled>>

\* parse_sitemap: the reader stops where the XML breaks; any scheme will do and
\* a fragment stays.
UrlsIn(locs) ==
  {locs[i].to : i \in {j \in DOMAIN locs :
      locs[j].kind = "url" /\ \A k \in 1..j : locs[k].kind # "broken"}}

\* get_xml_content: only send() is tried again, and the content type is looked
\* at before the status.  parse takes every Err for a sitemap without links.
XmlAnswer(a) ==
  \/ a = NoAnswer /\ attempt < 3 /\ Retry /\ UNCHANGED out
  \/ /\ a = NoAnswer /\ attempt = 3
     /\ Goto("offer") /\ out' = {} /\ UNCHANGED attempt
  \/ /\ a # NoAnswer /\ UNCHANGED attempt
     /\ LET isXml == a.type \in {"xml", "absent"} IN
          \/ isXml /\ a.status = "odd" /\ Goto("panic") /\ UNCHANGED out
          \/ /\ ~(isXml /\ a.status = "odd") /\ Goto("offer")
             /\ out' = IF isXml /\ a.status = "ok" /\ a.body
                       THEN UrlsIn(LocsAt[a.url.place]) ELSE {}

FetchSitemap ==
  /\ pc = "xml"
  /\ \E a \in Answer \cup {NoAnswer} : Send(a) /\ XmlAnswer(a)
  /\ UNCHANGED <<url, robots, page, entries, crawled>>

-----------------------------------------------------------------------------
(* A page.                                                                  *)

Got(u, of) == Goto("parse") /\ page' = [url |-> u, of |-> of]

SkipFile ==
  /\ pc = "page" /\ url.place[2] \in BadPaths
  /\ Got(url, NoPlace)
  /\ UNCHANGED <<url, attempt, requests, robots, out, entries, crawled>>

\* Mutation: the document of a redirect target goes under the URL asked for.
PageAnswerOwnUrl(a) ==
  \/ a = NoAnswer /\ Retry /\ UNCHANGED page
  \/ /\ a # NoAnswer /\ a.status = "ok" /\ a.body /\ Got(url, a.url.place)
     /\ UNCHANGED attempt

\* Mutation: an answer that is an error is asked for again.
PageAnswerInsists(a) ==
  \/ a.status \in {"none", "error"} /\ Retry /\ UNCHANGED page
  \/ /\ a.status = "ok" /\ a.body /\ Got(a.url, a.url.place)
     /\ UNCHANGED attempt

\* get_page: only send() is tried again, and the content type is looked at
\* before the status.
PageAnswer(a) ==
  \/ a = NoAnswer /\ Retry /\ UNCHANGED page
  \/ /\ a # NoAnswer /\ UNCHANGED attempt
     /\ \/ a.type \in {"xml", "other"} /\ Got(a.url, NoPlace)
        \/ /\ a.type \in {"html", "absent"}
           /\ \/ a.status = "ok" /\ a.body /\ Got(a.url, a.url.place)
              \/ a.status = "ok" /\ ~a.body /\ Goto("release") /\ UNCHANGED page
              \/ a.status = "notFound" /\ Got(url, NoPlace)
              \/ a.status = "error" /\ Goto("release") /\ UNCHANGED page
              \/ a.status = "odd" /\ Goto("panic") /\ UNCHANGED page

FetchPage ==
  /\ pc = "page" /\ url.place[2] \notin BadPaths
  /\ \E a \in Answer \cup {NoAnswer} : Send(a) /\ PageAnswer(a)
  /\ UNCHANGED <<url, robots, out, entries, crawled>>

Bare(u) == [u EXCEPT !.fragment = FALSE]

\* Where an href of a page leads; the page itself is left out afterwards.
Target(href) ==
  Bare(IF href.kind = "relative"
       THEN [href.to EXCEPT !.place[1] = page.url.place[1]] ELSE href.to)

HrefsOf(place) == IF place = NoPlace THEN {} ELSE HrefsAt[place]

SetOutboundUrls ==
  out' = {Target(h) : h \in {g \in HrefsOf(page.of) :
                               g.kind \in {"http", "relative"}}} \ {page.url}

IsKeywordsInHtml(place) == place \in Keyworded

\* Mutation: the links of a page that is to be saved are offered at once.
ParseAhead ==
  /\ pc = "parse" /\ SetOutboundUrls /\ Goto("offer")
  /\ UNCHANGED <<url, attempt, requests, robots, page, entries, crawled>>

\* keywords.txt is read for every page; empty or unreadable, every page is
\* saved, the empty ones too.
Parse ==
  /\ pc = "parse" /\ SetOutboundUrls
  /\ \E keywords \in BOOLEAN :
       Goto(IF keywords /\ ~IsKeywordsInHtml(page.of) THEN "offer" ELSE "save")
  /\ UNCHANGED <<url, attempt, requests, robots, page, entries, crawled>>

\* Mutation: a page that could not be saved is downloaded again.
SavePageInsists ==
  /\ pc = "save"
  /\ entries' = entries /\ Goto("page") /\ requests' = <<>>
  /\ UNCHANGED <<url, attempt, robots, page, out, crawled>>

\* Mutation: the counter goes up whatever became of the page.
SavePageCounts ==
  /\ pc = "save" /\ XAdd([page |-> page], "offer", "release")
  /\ crawled' = TRUE
  /\ UNCHANGED <<url, attempt, requests, robots, page, out>>

\* save_parsed_page, then fetch_add; after an Err the links are lost.
SavePage ==
  /\ pc = "save" /\ XAdd([page |-> page], "offer", "release")
  /\ crawled' = (pc' = "offer")
  /\ UNCHANGED <<url, attempt, requests, robots, page, out>>

-----------------------------------------------------------------------------
Turn ==
  \/ CheckUrl \/ GetDomainData \/ PublishDomain
  \/ AwaitAcquiring \/ GetDelay \/ FetchSitemap
  \/ SkipFile \/ FetchPage \/ Parse \/ SavePage

Next == Begin \/ Turn

Spec == Init /\ [][Next]_vars

\* reqwest has a timeout of 8 s, a gRPC call one of 5 s, and a Redis command
\* comes back with an Err; await_acquiring is DomainRateLimiter's.
FairSpec == Spec /\ WF_vars(Turn)

-----------------------------------------------------------------------------
Last == requests[Len(requests)]

\* What is published of a domain was said by its site: no robots.txt only after
\* a 404, and a text only if it was read.  A site that is down, refuses, or
\* answers oddly is not taken for one that allows everything.
RobotsNotAssumed ==
  \A i \in DOMAIN entries : "robots" \in DOMAIN entries[i] =>
    IF entries[i].robots = "none" THEN Last.status = "notFound"
    ELSE Last.status = "ok" /\ Last.body

\* A site is asked at most three times in a turn, and again only as long as it
\* has not answered; for its robots.txt also when the answer was of no use.
PoliteRetries ==
  [][Len(requests') > Len(requests) =>
       /\ Len(requests') <= 3
       /\ \/ requests = <<>> \/ Last = NoAnswer
          \/ pc = "robots" /\ Last.status \notin {"notFound", "odd"}
             /\ ~(Last.status = "ok" /\ Last.body)]_vars

\* A document is stored under the URL it came from, and every link of it leads
\* where a reader of that URL would be led.
PageUnderOwnUrl ==
  page.of # NoPlace =>
    /\ page.url.place = page.of
    /\ \A u \in out : \E h \in HrefsAt[page.of] :
         u.place = IF h.kind = "relative" THEN <<page.of[1], h.to.place[2]>>
                   ELSE h.to.place

\* The links of a page with a keyword are followed only if the page is in the
\* stream and counted; no page is counted that is not in the stream.
KeptBeforeFollowed ==
  /\ pc = "offer" /\ page.of \in Keyworded => crawled
  /\ crawled => \E i \in DOMAIN entries : entries[i] = [page |-> page]

\* Every turn comes to its end, whatever fails and whatever the site does.
TurnEnds == pc = "check" ~> pc \in {"offer", "release", "panic"}

\* What CrawlerCore has of a turn.
Step ==
  IF pc \in {"robots", "publish"} THEN "discover"
  ELSE IF pc \in {"await", "delay", "xml", "page", "parse"} THEN "fetch" ELSE pc

Abstract == INSTANCE CrawlTurn WITH
  step <- Step,
  domains <- \E i \in DOMAIN entries : "robots" \in DOMAIN entries[i],
  pages <- \E i \in DOMAIN entries : "page" \in DOMAIN entries[i],
  counted <- crawled

\* The turn implements the summary of it in CrawlTurn, which has the steps that
\* CrawlerCore gives its tasks.
TurnSpec == Abstract!Spec
=============================================================================
