---------------------------- MODULE UrlTurnProofs ----------------------------
(***************************************************************************)
(* The turn of a URL, proved for every web, whatever the sites answer and  *)
(* whatever calls fail: its types, what is said and stored of a site, how  *)
(* often it is asked, and that the turn implements CrawlTurn.              *)
(***************************************************************************)
EXTENDS UrlTurn, SequenceTheorems, TLAPS

-----------------------------------------------------------------------------
(* The inductive invariant.                                                 *)

\* Before the first request, and between two of them.
RequestsInv ==
  /\ pc \in {"check", "await", "delay"} => attempt = 1 /\ requests = <<>>
  /\ pc \in {"robots", "xml", "page"} => Len(requests) = attempt - 1
  /\ pc = "robots" /\ requests # <<>> => OfNoUse(Last)
  /\ pc \in {"xml", "page"} /\ requests # <<>> => Last = NoAnswer

\* What a robot_body of one kind or the other says of the last answer.
SaidBySite(body) ==
  IF body = "none" THEN Last.status = "notFound" ELSE Last.status = "ok" /\ Last.body

\* Nothing is published before the end of a turn, and what is then published is
\* one entry.
EntriesInv ==
  /\ pc \notin {"offer", "release"} => entries = <<>> /\ ~crawled
  /\ pc = "publish" => robots # "unasked" /\ SaidBySite(robots)
  /\ RobotsNotAssumed

\* The page is empty until it is downloaded, and has no links until it is parsed.
PageInv ==
  /\ pc \in {"check", "robots", "publish", "await", "delay", "xml", "page"} =>
       page.of = NoPlace
  /\ pc \notin {"save", "offer", "release"} => out = {}
  /\ PageUnderOwnUrl /\ KeptBeforeFollowed

TurnInv == TypeOK /\ RequestsInv /\ EntriesInv /\ PageInv

-----------------------------------------------------------------------------
(* Lemmas about the operators.                                              *)

\* Where a link leads: a relative one to the site of the page.
LEMMA TargetPlace ==
  ASSUME page \in Page, NEW href \in Href
  PROVE  /\ Target(href) \in Url
         /\ Target(href).place = IF href.kind = "relative"
                                 THEN <<page.url.place[1], href.to.place[2]>>
                                 ELSE href.to.place
<1>1. href.to \in Url /\ page.url \in Url
  BY DEF Href, Page
<1>2. PICK a \in Site, b \in Path : href.to.place = <<a, b>>
  BY <1>1 DEF Url, Place
<1>3. page.url.place[1] \in Site
  BY <1>1 DEF Url, Place
<1> DEFINE home == page.url.place[1]
           led == [href.to EXCEPT !.place[1] = home]
<1>4. [<<a, b>> EXCEPT ![1] = home] = <<home, b>>
  OBVIOUS
<1>5. led \in Url /\ led.place = <<home, b>>
  BY <1>1, <1>2, <1>3, <1>4 DEF Url, Place
<1>6. href.to.place[2] = b
  BY <1>2
<1>7. \A u \in Url : Bare(u) \in Url /\ Bare(u).place = u.place
  BY DEF Bare, Url
<1>8. Target(href) = Bare(IF href.kind = "relative" THEN led ELSE href.to)
  BY DEF Target
<1> HIDE DEF led
<1> QED
  BY <1>1, <1>5, <1>6, <1>7, <1>8

\* The links of a sitemap.
LEMMA SitemapUrls ==
  ASSUME NEW place \in Place PROVE UrlsIn(LocsAt[place]) \subseteq Url
<1>1. LocsAt[place] \in Seq(Loc)
  BY TurnAssumption
<1>2. \A j \in DOMAIN LocsAt[place] : LocsAt[place][j] \in Loc
  BY <1>1, ElementOfSeq, LenProperties
<1>3. \A loc \in Loc : loc.to \in Url
  BY DEF Loc
<1> QED
  BY <1>2, <1>3 DEF UrlsIn

\* What is sent is the last request, and it comes from the URL or from where that
\* is redirected to.
LEMMA SentLast ==
  ASSUME TypeOK, NEW a \in Answer \cup {NoAnswer}, Send(a)
  PROVE  /\ requests' \in Seq(Answer \cup {NoAnswer})
         /\ Len(requests) \in Nat /\ Len(requests') = Len(requests) + 1
         /\ Last' = a
         /\ a # NoAnswer => /\ a \in Answer /\ a.url \in Url
                            /\ a.url.place \in Place /\ a.url.place # NoPlace
<1>1. requests \in Seq(Answer \cup {NoAnswer}) /\ requests' = Append(requests, a)
  BY DEF TypeOK, Send
<1>2. /\ Append(requests, a) \in Seq(Answer \cup {NoAnswer})
      /\ Len(Append(requests, a)) = Len(requests) + 1
      /\ Append(requests, a)[Len(requests) + 1] = a
  BY <1>1, AppendProperties
<1>3. Len(requests) \in Nat
  BY <1>1, LenProperties
<1>4. a # NoAnswer => a \in Answer /\ a.url \in Url /\ a.url.place \in Place
  BY DEF Answer, Url
<1> QED
  BY <1>1, <1>2, <1>3, <1>4, TurnAssumption DEF Last

-----------------------------------------------------------------------------
(* The types.                                                               *)

\* An empty page.
LEMMA NoDocument == \A u \in Url : [url |-> u, of |-> NoPlace] \in Page
BY DEF Page

\* What is published of a domain has been asked for.
TypeInv == TypeOK /\ (pc = "publish" => robots # "unasked")

LEMMA TypeInit == Init => TypeInv
<1> SUFFICES ASSUME Init PROVE TypeInv
  OBVIOUS
<1>1. requests \in Seq(Answer \cup {NoAnswer}) /\ entries \in Seq(Entry)
  BY EmptySeq DEF Init
<1>2. url \in Url /\ page \in Page
  BY NoDocument DEF Init
<1>3. crawled \in BOOLEAN
  BY Zenon DEF Init
<1>4. attempt \in 1..3 /\ pc \in Pcs /\ robots \in {"unasked", "text", "none"}
  BY DEF Init, Pcs
<1>5. out \subseteq Url
  BY DEF Init
<1>6. pc # "publish"
  BY DEF Init
<1> QED
  BY <1>1, <1>2, <1>3, <1>4, <1>5, <1>6, Zenon DEF TypeInv, TypeOK

LEMMA RetryType ==
  ASSUME TypeOK, Retry
  PROVE  pc' \in {pc, "release"} /\ attempt' \in 1..3
<1>1. attempt \in 1..3
  BY DEF TypeOK
<1>2. attempt < 3 => attempt + 1 \in 1..3
  BY <1>1
<1> QED
  BY <1>1, <1>2 DEF Retry, Goto

LEMMA XAddType ==
  ASSUME TypeOK, NEW e \in Entry, NEW ok, NEW err, XAdd(e, ok, err)
  PROVE  entries' \in Seq(Entry) /\ pc' \in {ok, err}
<1>1. Append(entries, e) \in Seq(Entry) /\ entries \in Seq(Entry)
  BY AppendProperties DEF TypeOK
<1> QED
  BY <1>1 DEF XAdd, Goto

LEMMA TypeStep == TypeInv /\ [Next]_vars => TypeInv'
<1> SUFFICES ASSUME TypeInv, [Next]_vars PROVE TypeInv'
  OBVIOUS
<1> USE DEF Goto, Pcs, TypeInv
<1>1. CASE Begin
  <2>1. <<>> \in Seq(Answer \cup {NoAnswer}) /\ <<>> \in Seq(Entry)
    BY EmptySeq
  <2>2. url' \in Url /\ page' \in Page
    BY <1>1, NoDocument DEF Begin
  <2>3. crawled' \in BOOLEAN /\ requests' = <<>> /\ entries' = <<>>
    BY <1>1, Zenon DEF Begin
  <2>4. /\ pc' \in Pcs /\ attempt' \in 1..3 /\ robots' \in {"unasked", "text", "none"}
        /\ pc' # "publish" /\ out' \subseteq Url
    BY <1>1 DEF Begin
  <2> QED
    BY <2>1, <2>2, <2>3, <2>4, Zenon DEF TypeOK
<1>2. CASE CheckUrl
  BY <1>2 DEF CheckUrl, TypeOK
<1>3. CASE GetDomainData
  <2>1. PICK a \in Answer \cup {NoAnswer} : Send(a) /\ RobotsAnswer(a)
    BY <1>3 DEF GetDomainData
  <2>2. requests' \in Seq(Answer \cup {NoAnswer})
    BY <2>1, SentLast
  <2>3. CASE Retry /\ UNCHANGED robots
    BY <1>3, <2>2, <2>3, RetryType DEF GetDomainData, TypeOK
  <2>4. CASE ~(Retry /\ UNCHANGED robots)
    BY <1>3, <2>1, <2>2, <2>4 DEF GetDomainData, RobotsAnswer, TypeOK
  <2> QED
    BY <2>3, <2>4
<1>4. CASE PublishDomain
  <2>1. robots \in {"text", "none"}
    BY <1>4 DEF PublishDomain, TypeOK
  <2>2. [robots |-> robots] \in Entry
    BY <2>1 DEF Entry
  <2> QED
    BY <1>4, <2>2, XAddType DEF PublishDomain, TypeOK
<1>5. CASE AwaitAcquiring \/ GetDelay
  BY <1>5 DEF AwaitAcquiring, GetDelay, TypeOK
<1>6. CASE FetchSitemap
  <2>1. PICK a \in Answer \cup {NoAnswer} : Send(a) /\ XmlAnswer(a)
    BY <1>6 DEF FetchSitemap
  <2>2. requests' \in Seq(Answer \cup {NoAnswer})
    BY <2>1, SentLast
  <2>3. CASE a = NoAnswer
    <3>1. attempt' \in 1..3 /\ pc' \in Pcs \ {"publish"} /\ out' \subseteq Url
      BY <1>6, <2>1, <2>3, RetryType DEF FetchSitemap, XmlAnswer, TypeOK
    <3> QED
      BY <1>6, <2>2, <3>1 DEF FetchSitemap, TypeOK
  <2>4. CASE a # NoAnswer
    <3>1. UrlsIn(LocsAt[a.url.place]) \subseteq Url
      BY <2>1, <2>4, SentLast, SitemapUrls
    <3>2. attempt' \in 1..3 /\ pc' \in Pcs \ {"publish"} /\ out' \subseteq Url
      BY <1>6, <2>1, <2>4, <3>1 DEF FetchSitemap, XmlAnswer, TypeOK
    <3> QED
      BY <1>6, <2>2, <3>2 DEF FetchSitemap, TypeOK
  <2> QED
    BY <2>3, <2>4
<1>7. CASE SkipFile
  BY <1>7 DEF SkipFile, Got, TypeOK, Page
<1>8. CASE FetchPage
  <2>1. PICK a \in Answer \cup {NoAnswer} : Send(a) /\ PageAnswer(a)
    BY <1>8 DEF FetchPage
  <2>2. requests' \in Seq(Answer \cup {NoAnswer})
    BY <2>1, SentLast
  <2>3. CASE a = NoAnswer
    <3>1. attempt' \in 1..3 /\ pc' \in Pcs \ {"publish"} /\ page' \in Page
      BY <1>8, <2>1, <2>3, RetryType DEF FetchPage, PageAnswer, TypeOK
    <3> QED
      BY <1>8, <2>2, <3>1 DEF FetchPage, TypeOK
  <2>4. CASE a # NoAnswer
    <3>1. a.url \in Url /\ a.url.place \in Place /\ url \in Url
      BY <2>1, <2>4, SentLast DEF TypeOK
    <3>2. /\ [url |-> a.url, of |-> a.url.place] \in Page
          /\ [url |-> a.url, of |-> NoPlace] \in Page
          /\ [url |-> url, of |-> NoPlace] \in Page
      BY <3>1 DEF Page
    <3>3. attempt' \in 1..3 /\ pc' \in Pcs \ {"publish"} /\ page' \in Page
      BY <1>8, <2>1, <2>4, <3>2 DEF FetchPage, PageAnswer, Got, TypeOK
    <3> QED
      BY <1>8, <2>2, <3>3 DEF FetchPage, TypeOK
  <2> QED
    BY <2>3, <2>4
<1>9. CASE Parse
  <2>1. HrefsOf(page.of) \subseteq Href
    BY TurnAssumption DEF HrefsOf, TypeOK, Page
  <2>2. \A h \in HrefsOf(page.of) : Target(h) \in Url
    BY <2>1, TargetPlace DEF TypeOK
  <2>3. out' \subseteq Url
    BY <1>9, <2>2 DEF Parse, SetOutboundUrls
  <2> QED
    BY <1>9, <2>3 DEF Parse, TypeOK
<1>10. CASE SavePage
  <2>1. [page |-> page] \in Entry
    BY DEF Entry, TypeOK
  <2>2. crawled' \in BOOLEAN
    BY <1>10 DEF SavePage
  <2> QED
    BY <1>10, <2>1, <2>2, XAddType DEF SavePage, TypeOK
<1>11. CASE UNCHANGED vars
  BY <1>11 DEF vars, TypeOK
<1> QED
  BY <1>1, <1>2, <1>3, <1>4, <1>5, <1>6, <1>7, <1>8, <1>9, <1>10, <1>11
  DEF Next, Turn

\* Every variable of a turn keeps its type: no try is counted beyond the third, and
\* what is published of a domain has been asked for.
THEOREM TurnTypeCorrect == Spec => []TypeOK
<1>1. TypeInv => TypeOK
  BY DEF TypeInv
<1> QED
  BY <1>1, TypeInit, TypeStep, PTL DEF Spec

-----------------------------------------------------------------------------
(* How often a site is asked.                                               *)

LEMMA RequestsInit == Init => RequestsInv
BY DEF Init, RequestsInv

\* The try after this one, or none.
LEMMA RetryCounts ==
  ASSUME TypeOK, Retry, pc # "release"
  PROVE  \/ pc' = pc /\ attempt' = attempt + 1
         \/ pc' = "release" /\ attempt' = attempt
BY DEF Retry, Goto

LEMMA RequestsStep ==
  ASSUME TypeOK, RequestsInv, [Next]_vars PROVE RequestsInv'
<1> USE DEF Goto
<1>1. attempt \in 1..3 /\ Len(requests) \in Nat /\ Len(<<>>) = 0
  BY EmptySeq, LenProperties DEF TypeOK
<1>2. CASE Begin \/ CheckUrl
  BY <1>2 DEF Begin, CheckUrl, RequestsInv
<1>3. CASE GetDomainData
  <2>1. PICK a \in Answer \cup {NoAnswer} : Send(a) /\ RobotsAnswer(a)
    BY <1>3 DEF GetDomainData
  <2>2. Len(requests') = Len(requests) + 1 /\ Last' = a
    BY <2>1, SentLast
  <2>3. pc = "robots" /\ Len(requests) = attempt - 1
    BY <1>3 DEF GetDomainData, RequestsInv
  <2>4. CASE OfNoUse(a) /\ Retry
    <3>1. CASE pc' = pc /\ attempt' = attempt + 1
      <4>1. OfNoUse(Last)'
        BY <2>2, <2>4 DEF OfNoUse
      <4> QED
        BY <1>1, <2>2, <2>3, <3>1, <4>1 DEF RequestsInv
    <3>2. CASE pc' = "release"
      BY <3>2 DEF RequestsInv
    <3> QED
      BY <2>3, <2>4, <3>1, <3>2, RetryCounts
  <2>5. CASE pc' \in {"publish", "release", "panic"}
    BY <2>5 DEF RequestsInv
  <2> QED
    BY <2>1, <2>4, <2>5 DEF RobotsAnswer
<1>4. CASE PublishDomain \/ SkipFile \/ Parse \/ SavePage
  BY <1>4 DEF PublishDomain, SkipFile, Parse, SavePage, XAdd, Got, RequestsInv
<1>5. CASE AwaitAcquiring \/ GetDelay
  BY <1>1, <1>5 DEF AwaitAcquiring, GetDelay, RequestsInv
<1>6. ASSUME NEW a \in Answer \cup {NoAnswer}, Send(a), pc \in {"xml", "page"},
             \/ a = NoAnswer /\ Retry
             \/ pc' \in {"parse", "offer", "release", "panic"}
      PROVE  RequestsInv'
  <2>1. Len(requests') = Len(requests) + 1 /\ Last' = a /\ Len(requests) = attempt - 1
    BY <1>6, SentLast DEF RequestsInv
  <2>2. CASE a = NoAnswer /\ pc' = pc /\ attempt' = attempt + 1
    BY <1>1, <1>6, <2>1, <2>2 DEF RequestsInv
  <2>3. CASE pc' \in {"parse", "offer", "release", "panic"}
    BY <2>3 DEF RequestsInv
  <2> QED
    BY <1>6, <2>2, <2>3, RetryCounts
<1>7. CASE FetchSitemap
  <2>1. PICK a \in Answer \cup {NoAnswer} : Send(a) /\ XmlAnswer(a)
    BY <1>7 DEF FetchSitemap
  <2>2. (a = NoAnswer /\ Retry) \/ pc' \in {"parse", "offer", "release", "panic"}
    BY <2>1 DEF XmlAnswer
  <2> QED
    BY <1>6, <1>7, <2>1, <2>2 DEF FetchSitemap
<1>8. CASE FetchPage
  <2>1. PICK a \in Answer \cup {NoAnswer} : Send(a) /\ PageAnswer(a)
    BY <1>8 DEF FetchPage
  <2>2. (a = NoAnswer /\ Retry) \/ pc' \in {"parse", "offer", "release", "panic"}
    BY <2>1 DEF PageAnswer, Got
  <2> QED
    BY <1>6, <1>8, <2>1, <2>2 DEF FetchPage
<1>9. CASE UNCHANGED vars
  BY <1>9 DEF vars, RequestsInv, Last, OfNoUse
<1> QED
  BY <1>2, <1>3, <1>4, <1>5, <1>7, <1>8, <1>9 DEF Next, Turn

\* A turn asks a site at most three times, and asks again only after silence; for
\* the robots.txt also after an error or a body that was lost (link_fetcher.rs:121,
\* :168, :189).
THEOREM AsksPolitely == Spec => PoliteRetries
<1>1. ASSUME TypeOK, RequestsInv, Next, Len(requests') > Len(requests)
      PROVE  /\ Len(requests') <= 3
             /\ \/ requests = <<>> \/ Last = NoAnswer
                \/ pc = "robots" /\ Last.status \notin {"notFound", "odd"}
                   /\ ~(Last.status = "ok" /\ Last.body)
  <2>1. attempt \in 1..3 /\ Len(requests) \in Nat /\ Len(<<>>) = 0
    BY <1>1, EmptySeq, LenProperties DEF TypeOK
  <2>2. CASE GetDomainData \/ FetchSitemap \/ FetchPage
    <3>1. PICK a \in Answer \cup {NoAnswer} : Send(a)
      BY <2>2 DEF GetDomainData, FetchSitemap, FetchPage
    <3>2. Len(requests') = Len(requests) + 1
      BY <1>1, <3>1, SentLast
    <3>3. pc \in {"robots", "xml", "page"} /\ Len(requests) = attempt - 1
      BY <1>1, <2>2 DEF GetDomainData, FetchSitemap, FetchPage, RequestsInv
    <3>4. /\ pc = "robots" /\ requests # <<>> => OfNoUse(Last)
          /\ pc \in {"xml", "page"} /\ requests # <<>> => Last = NoAnswer
      BY <1>1 DEF RequestsInv
    <3>5. OfNoUse(Last) => /\ Last.status \notin {"notFound", "odd"}
                           /\ ~(Last.status = "ok" /\ Last.body)
      BY DEF OfNoUse
    <3> QED
      BY <2>1, <3>2, <3>3, <3>4, <3>5
  <2>3. CASE Begin
    BY <1>1, <2>1, <2>3 DEF Begin
  <2>4. CASE UNCHANGED requests
    BY <1>1, <2>1, <2>4
  <2> QED
    BY <1>1, <2>2, <2>3, <2>4
    DEF Next, Turn, CheckUrl, PublishDomain, AwaitAcquiring, GetDelay, SkipFile, Parse,
      SavePage
<1>2. TypeOK /\ RequestsInv /\ [Next]_vars =>
        [Len(requests') > Len(requests) =>
           /\ Len(requests') <= 3
           /\ \/ requests = <<>> \/ Last = NoAnswer
              \/ pc = "robots" /\ Last.status \notin {"notFound", "odd"}
                 /\ ~(Last.status = "ok" /\ Last.body)]_vars
  BY <1>1
<1>3. TypeOK /\ RequestsInv /\ [Next]_vars => RequestsInv'
  BY RequestsStep
<1> QED
  BY <1>2, <1>3, RequestsInit, TurnTypeCorrect, PTL DEF Spec, PoliteRetries

-----------------------------------------------------------------------------
(* What is published of a domain.                                           *)

LEMMA EntriesInit == Init => EntriesInv
BY DEF Init, EntriesInv, RobotsNotAssumed

LEMMA XAddOnce ==
  ASSUME NEW e, NEW ok, NEW err, entries = <<>>, XAdd(e, ok, err)
  PROVE  /\ entries' \in {<<>>, <<e>>} /\ pc' \in {ok, err}
         /\ ok # err /\ pc' = ok => entries' = <<e>>
BY DEF XAdd, Goto

LEMMA EntriesStep ==
  ASSUME TypeOK, EntriesInv, [Next]_vars PROVE EntriesInv'
<1> USE DEF Goto
<1>1. DOMAIN <<>> = {}
  OBVIOUS
<1>2. pc \notin {"offer", "release"} => entries = <<>> /\ ~crawled
  BY DEF EntriesInv
<1>3. ASSUME entries' = <<>>, ~crawled', pc' # "publish" PROVE EntriesInv'
  BY <1>1, <1>3 DEF EntriesInv, RobotsNotAssumed
<1>4. CASE Begin
  BY <1>3, <1>4 DEF Begin
<1>5. CASE CheckUrl \/ AwaitAcquiring \/ GetDelay \/ FetchSitemap \/ SkipFile \/ Parse
  <2>1. UNCHANGED <<entries, crawled>> /\ pc \notin {"offer", "release", "publish"}
    BY <1>5 DEF CheckUrl, AwaitAcquiring, GetDelay, FetchSitemap, SkipFile, Parse
  <2>2. pc' # "publish"
    BY <1>5 DEF CheckUrl, AwaitAcquiring, GetDelay, FetchSitemap, XmlAnswer, Retry,
      SkipFile, Got, Parse
  <2> QED
    BY <1>2, <1>3, <2>1, <2>2
<1>6. CASE FetchPage
  <2>1. UNCHANGED <<entries, crawled>> /\ pc \notin {"offer", "release", "publish"}
    BY <1>6 DEF FetchPage
  <2>2. pc' # "publish"
    BY <1>6 DEF FetchPage, PageAnswer, Retry, Got
  <2> QED
    BY <1>2, <1>3, <2>1, <2>2
<1>7. CASE GetDomainData
  <2>1. PICK a \in Answer \cup {NoAnswer} : Send(a) /\ RobotsAnswer(a)
    BY <1>7 DEF GetDomainData
  <2>2. Last' = a
    BY <2>1, SentLast
  <2>3. entries' = <<>> /\ ~crawled'
    BY <1>2, <1>7 DEF GetDomainData
  <2>4. pc' = "publish" =>
          \/ a.status = "ok" /\ a.body /\ robots' = "text"
          \/ a.status = "notFound" /\ robots' = "none"
    BY <1>7, <2>1 DEF GetDomainData, RobotsAnswer, Retry
  <2>5. pc' = "publish" => robots' # "unasked" /\ SaidBySite(robots)'
    BY <2>2, <2>4 DEF SaidBySite
  <2> QED
    BY <1>1, <2>3, <2>5 DEF EntriesInv, RobotsNotAssumed
<1>8. CASE PublishDomain
  <2>1. /\ entries' \in {<<>>, <<[robots |-> robots]>>} /\ pc' = "release"
        /\ UNCHANGED <<robots, requests>> /\ SaidBySite(robots)
    BY <1>2, <1>8, XAddOnce DEF PublishDomain, EntriesInv
  <2>2. \A i \in DOMAIN entries' : entries'[i] = [robots |-> robots]
    BY <1>1, <2>1
  <2>3. RobotsNotAssumed'
    BY <2>1, <2>2 DEF RobotsNotAssumed, SaidBySite, Last
  <2> QED
    BY <2>1, <2>3 DEF EntriesInv
<1>9. CASE SavePage
  <2>1. /\ entries' \in {<<>>, <<[page |-> page]>>} /\ pc' \in {"offer", "release"}
    BY <1>2, <1>9, XAddOnce DEF SavePage
  <2>2. \A i \in DOMAIN entries' : entries'[i] = [page |-> page]
    BY <1>1, <2>1
  <2>3. "robots" \notin DOMAIN [page |-> page]
    OBVIOUS
  <2>4. RobotsNotAssumed'
    BY <2>2, <2>3 DEF RobotsNotAssumed
  <2> QED
    BY <2>1, <2>4 DEF EntriesInv
<1>10. CASE UNCHANGED vars
  BY <1>10 DEF vars, EntriesInv, SaidBySite, RobotsNotAssumed, Last
<1> QED
  BY <1>4, <1>5, <1>6, <1>7, <1>8, <1>9, <1>10 DEF Next, Turn

\* Whatever the site does and however often it is asked, a domain is published
\* without a robots.txt only if the last answer was a 404, and with a text only if
\* that text came in full: never for want of an answer (link_fetcher.rs:78-87).
THEOREM RobotsSaidBySite == Spec => []RobotsNotAssumed
<1>1. TypeOK /\ EntriesInv /\ [Next]_vars => EntriesInv'
  BY EntriesStep
<1>2. EntriesInv => RobotsNotAssumed
  BY DEF EntriesInv
<1> QED
  BY <1>1, <1>2, EntriesInit, TurnTypeCorrect, PTL DEF Spec

-----------------------------------------------------------------------------
(* What is stored and followed of a page.                                   *)

LEMMA PageInit == Init => PageInv
BY DEF Init, PageInv, PageUnderOwnUrl, KeptBeforeFollowed

\* Every link of a page leads where its document says.
LEMMA LinksLead ==
  ASSUME TypeOK, page.of # NoPlace, page.url.place = page.of, SetOutboundUrls
  PROVE  \A u \in out' : \E h \in HrefsAt[page.of] :
           u.place = IF h.kind = "relative" THEN <<page.of[1], h.to.place[2]>>
                     ELSE h.to.place
<1>1. HrefsOf(page.of) = HrefsAt[page.of] /\ HrefsAt[page.of] \subseteq Href
  BY TurnAssumption DEF HrefsOf, TypeOK, Page
<1>2. \A h \in HrefsAt[page.of] :
        Target(h).place = IF h.kind = "relative" THEN <<page.of[1], h.to.place[2]>>
                          ELSE h.to.place
  BY <1>1, TargetPlace DEF TypeOK
<1>3. \A u \in out' : \E h \in HrefsAt[page.of] : u = Target(h)
  BY <1>1 DEF SetOutboundUrls
<1> QED
  BY <1>2, <1>3

LEMMA PageStep ==
  ASSUME TypeOK, EntriesInv, PageInv, [Next]_vars PROVE PageInv'
<1> USE DEF Goto
<1>1. NoPlace \notin Keyworded
  BY TurnAssumption
<1>2. pc \notin {"offer", "release"} => entries = <<>> /\ ~crawled
  BY DEF EntriesInv
<1>3. /\ pc \in {"check", "robots", "publish", "await", "delay", "xml", "page"} =>
           page.of = NoPlace
      /\ pc \notin {"save", "offer", "release"} => out = {}
  BY DEF PageInv
<1>4. ASSUME page'.of = NoPlace, ~crawled', out' = {}, pc' \notin {"offer"}
      PROVE  PageInv'
  BY <1>4 DEF PageInv, PageUnderOwnUrl, KeptBeforeFollowed
<1>5. CASE Begin
  BY <1>4, <1>5 DEF Begin
<1>6. CASE CheckUrl \/ GetDomainData \/ PublishDomain \/ AwaitAcquiring \/ GetDelay
  <2>1. /\ UNCHANGED <<page, out, crawled>>
        /\ pc \in {"check", "robots", "publish", "await", "delay"}
    BY <1>6 DEF CheckUrl, GetDomainData, PublishDomain, AwaitAcquiring, GetDelay
  <2>2. pc' # "offer"
    BY <1>6 DEF CheckUrl, GetDomainData, RobotsAnswer, Retry, PublishDomain, XAdd,
      AwaitAcquiring, GetDelay
  <2> QED
    BY <1>2, <1>3, <1>4, <2>1, <2>2
<1>7. CASE FetchSitemap
  <2>1. UNCHANGED <<page, crawled>> /\ page.of = NoPlace /\ ~crawled /\ out = {}
    BY <1>2, <1>3, <1>7 DEF FetchSitemap
  <2>2. pc' = "offer" \/ (out' = out /\ pc' # "offer")
    BY <1>7 DEF FetchSitemap, XmlAnswer, Retry
  <2>3. CASE pc' = "offer"
    BY <1>1, <2>1, <2>3 DEF PageInv, PageUnderOwnUrl, KeptBeforeFollowed
  <2> QED
    BY <1>4, <2>1, <2>2, <2>3
<1>8. CASE SkipFile \/ FetchPage
  <2>1. /\ UNCHANGED <<out, crawled>> /\ page.of = NoPlace /\ ~crawled /\ out = {}
    BY <1>2, <1>3, <1>8 DEF SkipFile, FetchPage
  <2>2. \/ page' = page /\ pc' # "offer"
        \/ pc' = "parse" /\ \E u \in Url, of \in Place \cup {NoPlace} :
             page' = [url |-> u, of |-> of] /\ (of # NoPlace => u.place = of)
    <3>1. CASE SkipFile
      BY <1>8, <3>1 DEF SkipFile, Got, TypeOK
    <3>2. CASE FetchPage
      <4>1. PICK a \in Answer \cup {NoAnswer} : Send(a) /\ PageAnswer(a)
        BY <3>2 DEF FetchPage
      <4>2. pc = "page" /\ url \in Url
        BY <3>2 DEF FetchPage, TypeOK
      <4>3. CASE a = NoAnswer
        BY <4>1, <4>2, <4>3 DEF PageAnswer, Retry
      <4>4. CASE a # NoAnswer
        <5>1. a.url \in Url /\ a.url.place \in Place
          BY <4>1, <4>4, SentLast
        <5> QED
          BY <4>1, <4>2, <4>4, <5>1 DEF PageAnswer, Got
      <4> QED
        BY <4>3, <4>4
    <3> QED
      BY <1>8, <3>1, <3>2
  <2>3. CASE page' = page /\ pc' # "offer"
    BY <1>4, <2>1, <2>3
  <2>4. CASE /\ pc' = "parse"
             /\ \E u \in Url, of \in Place \cup {NoPlace} :
                  page' = [url |-> u, of |-> of] /\ (of # NoPlace => u.place = of)
    <3>1. page'.of # NoPlace => page'.url.place = page'.of
      BY <2>4
    <3> QED
      BY <2>1, <2>4, <3>1 DEF PageInv, PageUnderOwnUrl, KeptBeforeFollowed
  <2> QED
    BY <2>2, <2>3, <2>4
<1>9. CASE Parse
  <2>1. /\ UNCHANGED <<page, crawled>> /\ ~crawled /\ pc' \in {"offer", "save"}
        /\ SetOutboundUrls
    BY <1>2, <1>9 DEF Parse
  <2>2. PageUnderOwnUrl'
    BY <2>1, LinksLead DEF PageInv, PageUnderOwnUrl
  <2>3. pc' = "offer" => page.of \notin Keyworded
    BY <1>9 DEF Parse, IsKeywordsInHtml
  <2> QED
    BY <2>1, <2>2, <2>3 DEF PageInv, KeptBeforeFollowed
<1>10. CASE SavePage
  <2>1. /\ UNCHANGED <<page, out>> /\ pc' \in {"offer", "release"}
        /\ pc' = "offer" => entries' = <<[page |-> page]>>
    BY <1>2, <1>10, XAddOnce DEF SavePage
  <2>2. crawled' <=> pc' = "offer"
    BY <1>10 DEF SavePage
  <2>3. pc' = "offer" => 1 \in DOMAIN entries' /\ entries'[1] = [page |-> page']
    BY <2>1
  <2> QED
    BY <2>1, <2>2, <2>3 DEF PageInv, PageUnderOwnUrl, KeptBeforeFollowed
<1>11. CASE UNCHANGED vars
  BY <1>11 DEF vars, PageInv, PageUnderOwnUrl, KeptBeforeFollowed
<1> QED
  BY <1>5, <1>6, <1>7, <1>8, <1>9, <1>10, <1>11 DEF Next, Turn

\* The inductive invariant.
LEMMA TurnInvariant == Spec => []TurnInv
<1>1. Init => RequestsInv /\ EntriesInv /\ PageInv
  BY RequestsInit, EntriesInit, PageInit
<1>2. TurnInv /\ [Next]_vars => RequestsInv' /\ EntriesInv' /\ PageInv'
  BY RequestsStep, EntriesStep, PageStep DEF TurnInv
<1>3. TypeOK /\ RequestsInv /\ EntriesInv /\ PageInv <=> TurnInv
  BY DEF TurnInv
<1> QED
  BY <1>1, <1>2, <1>3, TurnTypeCorrect, PTL DEF Spec

\* A document is stored under the URL it came from, over redirects to any site and
\* over empty pages, and its links lead where its reader would be led
\* (link_fetcher.rs:143, html_parser.rs).
THEOREM StoredUnderOwnUrl == Spec => []PageUnderOwnUrl
<1>1. TurnInv => PageUnderOwnUrl
  BY DEF TurnInv, PageInv
<1> QED
  BY <1>1, TurnInvariant, PTL

\* No link of a page with a keyword is followed before the page is in the stream
\* and counted, and no page is counted that is not in the stream.
THEOREM KeptThenFollowed == Spec => []KeptBeforeFollowed
<1>1. TurnInv => KeptBeforeFollowed
  BY DEF TurnInv, PageInv
<1> QED
  BY <1>1, TurnInvariant, PTL

-----------------------------------------------------------------------------
(* The turn implements CrawlTurn.                                           *)

LEMMA ImplementsInit == Init => Abstract!Init
BY DEF Init, Abstract!Init, Step

LEMMA ImplementsStep ==
  ASSUME TypeOK, EntriesInv, [Next]_vars
  PROVE  [Abstract!Next]_(Abstract!vars)
<1> USE DEF Goto, Step
<1>1. DOMAIN <<>> = {}
  OBVIOUS
<1>2. pc \notin {"offer", "release"} => entries = <<>> /\ ~crawled
  BY DEF EntriesInv
<1>3. CASE Begin
  <2>1. Abstract!Begin
    BY <1>1, <1>3 DEF Begin, Abstract!Begin
  <2> QED
    BY <2>1 DEF Abstract!Next
<1>4. CASE CheckUrl
  <2>1. Abstract!CheckUrl
    BY <1>4 DEF CheckUrl, Abstract!CheckUrl
  <2> QED
    BY <2>1 DEF Abstract!Next
<1>5. CASE GetDomainData
  <2>1. /\ pc = "robots" /\ pc' \in {"robots", "publish", "release", "panic"}
        /\ UNCHANGED <<entries, crawled>>
    BY <1>5 DEF GetDomainData, RobotsAnswer, Retry
  <2>2. CASE pc' \in {"robots", "publish"}
    BY <2>1, <2>2 DEF Abstract!vars
  <2>3. CASE pc' = "release"
    <3>1. Abstract!Discover
      BY <2>1, <2>3 DEF Abstract!Discover
    <3> QED
      BY <3>1 DEF Abstract!Next
  <2>4. CASE pc' = "panic"
    <3>1. Abstract!TaskPanics
      BY <2>1, <2>4 DEF Abstract!TaskPanics
    <3> QED
      BY <3>1 DEF Abstract!Next
  <2> QED
    BY <2>1, <2>2, <2>3, <2>4
<1>6. CASE PublishDomain
  <2>1. /\ pc = "publish" /\ pc' = "release" /\ UNCHANGED crawled
        /\ entries = <<>> /\ entries' \in {<<>>, <<[robots |-> robots]>>}
    BY <1>2, <1>6, XAddOnce DEF PublishDomain
  <2>2. \A i \in DOMAIN entries' : entries'[i] = [robots |-> robots]
    BY <1>1, <2>1
  <2>3. "page" \notin DOMAIN [robots |-> robots]
    OBVIOUS
  <2>4. Abstract!Discover
    BY <1>1, <2>1, <2>2, <2>3 DEF Abstract!Discover
  <2> QED
    BY <2>4 DEF Abstract!Next
<1>7. CASE AwaitAcquiring \/ GetDelay \/ SkipFile \/ FetchSitemap \/ FetchPage \/ Parse
  <2>1. /\ pc \in {"await", "delay", "xml", "page", "parse"}
        /\ UNCHANGED <<entries, crawled>>
    BY <1>7 DEF AwaitAcquiring, GetDelay, SkipFile, FetchSitemap, FetchPage, Parse
  <2>2. pc' \in {"await", "delay", "xml", "page", "parse", "release", "offer", "save",
                 "panic"}
    BY <1>7 DEF AwaitAcquiring, GetDelay, SkipFile, Got, FetchSitemap, XmlAnswer,
      FetchPage, PageAnswer, Retry, Parse
  <2>3. CASE pc' \in {"await", "delay", "xml", "page", "parse"}
    BY <2>1, <2>3 DEF Abstract!vars
  <2>4. CASE pc' \in {"release", "offer", "save"}
    <3>1. Abstract!Fetch
      BY <2>1, <2>4 DEF Abstract!Fetch
    <3> QED
      BY <3>1 DEF Abstract!Next
  <2>5. CASE pc' = "panic"
    <3>1. Abstract!TaskPanics
      BY <2>1, <2>5 DEF Abstract!TaskPanics
    <3> QED
      BY <3>1 DEF Abstract!Next
  <2> QED
    BY <2>2, <2>3, <2>4, <2>5
<1>8. CASE SavePage
  <2>1. /\ pc = "save" /\ pc' \in {"offer", "release"}
        /\ entries = <<>> /\ entries' \in {<<>>, <<[page |-> page]>>}
        /\ pc' = "offer" => entries' = <<[page |-> page]>>
        /\ ~crawled
    BY <1>2, <1>8, XAddOnce DEF SavePage
  <2>2. crawled' = (pc' = "offer") /\ crawled \in BOOLEAN
    BY <1>8 DEF SavePage, TypeOK
  <2>3. \A i \in DOMAIN entries' : entries'[i] = [page |-> page]
    BY <1>1, <2>1
  <2>4. /\ "robots" \notin DOMAIN [page |-> page]
        /\ "page" \in DOMAIN [page |-> page]
    OBVIOUS
  <2> DEFINE published(kind, es) == \E i \in DOMAIN es : kind \in DOMAIN es[i]
  <2>5. published("robots", entries) = FALSE /\ published("robots", entries') = FALSE
    BY <1>1, <2>1, <2>3, <2>4
  <2>6. published("page", entries') \in BOOLEAN
    OBVIOUS
  <2>7. CASE pc' = "offer"
    <3>1. 1 \in DOMAIN entries'
      BY <2>1, <2>7
    <3>2. published("page", entries')
      BY <2>3, <2>4, <3>1
    <3>3. crawled'
      BY <2>2, <2>7
    <3> HIDE DEF published
    <3>4. Abstract!SavePage
      BY <2>1, <2>5, <2>7, <3>2, <3>3 DEF Abstract!SavePage, published
    <3> QED
      BY <3>4 DEF Abstract!Next
  <2>8. CASE pc' = "release"
    <3>1. crawled' = crawled
      BY <2>1, <2>2, <2>8
    <3>2. Abstract!SavePage
      BY <2>1, <2>5, <2>6, <2>8, <3>1 DEF Abstract!SavePage
    <3> QED
      BY <3>2 DEF Abstract!Next
  <2> QED
    BY <2>1, <2>7, <2>8
<1>9. CASE UNCHANGED vars
  BY <1>9 DEF vars, Abstract!vars
<1> QED
  BY <1>3, <1>4, <1>5, <1>6, <1>7, <1>8, <1>9 DEF Next, Turn

\* With its permission, downloads, retries, redirects and parsers the turn takes the
\* steps CrawlerCore gives its tasks, and leaves behind at most one entry of the
\* stream and one page counted (crawler_core.rs:253).
THEOREM ImplementsTurn == Spec => TurnSpec
<1>1. TurnInv /\ [Next]_vars => [Abstract!Next]_(Abstract!vars)
  BY ImplementsStep DEF TurnInv
<1> QED
  BY <1>1, ImplementsInit, TurnInvariant, PTL DEF Spec, TurnSpec, Abstract!Spec
=============================================================================
