---------------------------- MODULE MCCrawlerCore ----------------------------
(***************************************************************************)
(* Small instances of CrawlerCore for TLC.  Two domains: "home", saved by  *)
(* an earlier run in most scenarios, and "other", which is not.            *)
(***************************************************************************)
EXTENDS CrawlerCore

CONSTANTS w1, w2, w3

\* a and b are pages of home, c of other, s is a sitemap of home or of other
\* (see the configurations), x is a host given by its address.
MCUrl == {"a", "b", "c", "s", "x"}

MCDomain == {"home", "other"}

MCDomainOf == [u \in MCUrl |->
  CASE u \in {"a", "b"} -> "home" [] u \in {"c", "s"} -> "other"
    [] OTHER -> NoDomain]

\* Pages link to each other and back to where the crawl came from.
MCLinksAt == [u \in MCUrl |->
  CASE u = "a" -> <<"a", "b", "c">> [] u = "b" -> <<"c", "x">>
    [] u = "s" -> <<"b", "c">> [] OTHER -> <<>>]

\* A page that links to the sitemap of its site: enough when calls may fail.
FewLinksAt == [u \in MCUrl |-> IF u = "a" THEN <<"s">> ELSE <<>>]

MCXmlUrls == {"s"}

SitemapOfHome == [d \in MCDomain |-> IF d = "home" THEN <<"s">> ELSE <<>>]

SitemapOfOther == [d \in MCDomain |-> IF d = "other" THEN <<"s">> ELSE <<>>]

NoSitemaps == [d \in MCDomain |-> <<>>]

Nowhere == {}

MCDisallowed == {"c"}

MCSeedFile == <<"a", "x">>

\* Enough when calls may fail.
OneSeed == <<"x">>

\* --url on a fresh list, the domain known.
FreshStart == [startUrl |-> "a", queue |-> <<>>, seen |-> {}, known |-> {"home"},
               events |-> <<>>]

\* --url, nothing known at all.
VeryFirstStart == [FreshStart EXCEPT !.known = {}]

\* --url; two tasks of an earlier crawl found the domain, and the second event
\* has still to be read.
TwicePublished == [FreshStart EXCEPT !.known = MCDomain, !.events = <<"home">>]

\* --url while the list still holds URLs of an interrupted crawl.
StartOverLeftovers == [startUrl |-> "a", queue |-> <<"b", "x">>,
                       seen |-> {"a", "b", "x"}, known |-> {"home"},
                       events |-> <<>>]

\* No --url: the list of an interrupted crawl is continued, a published domain
\* has still to be read.
Resumed == [startUrl |-> NoUrl, queue |-> <<"b", "c">>, seen |-> {"a", "b", "c"},
            known |-> {"home"}, events |-> <<"other">>]

\* No --url and an empty list: seed.txt is used.
Seeded == [startUrl |-> NoUrl, queue |-> <<>>, seen |-> {}, known |-> {"home"},
           events |-> <<>>]

AllScenarios == {FreshStart, VeryFirstStart, TwicePublished, StartOverLeftovers,
                 Resumed, Seeded}

ASSUME CleanStartHolds == CleanStart

FreshOnly == {FreshStart}

PublishedOrSeeded == {TwicePublished, Seeded}
=============================================================================
