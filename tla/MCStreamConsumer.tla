-------------------------- MODULE MCStreamConsumer --------------------------
(***************************************************************************)
(* Small instances of StreamConsumer for TLC: one domain, "home", with a   *)
(* sitemap "s" and pages "a" and "b"; "x" is a page of a host that is not  *)
(* saved (the end of a redirect).                                          *)
(***************************************************************************)
EXTENDS StreamConsumer

MCUrl == {"a", "b", "s", "x"}

MCDomain == {"home"}

MCUrlDomain == [u \in MCUrl |-> IF u = "x" THEN NoDomain ELSE "home"]

MCSitemapsOf == [d \in MCDomain |-> <<"s">>]

\* "rust" and "rust!" are near-duplicates, with their bits where the bands are
\* cut; "go" is as near to one of them as it can be without being one.
MCText == {"rust", "rust!", "go"}

MCHashOf == [t \in MCText |-> CASE t = "rust" -> {}
                                [] t = "rust!" -> {8, 24, 40}
                                [] t = "go" -> {1, 2, 3, 56}]

Home == [kind |-> "domain", domain |-> "home"]

Page(u, t) == [kind |-> "page", url |-> u, text |-> t]

\* Page a changes its text from one crawl to the next; b resembles its first
\* text.
MCEvent == {Home, Page("a", "rust"), Page("a", "go"), Page("b", "rust!")}

\* A page that is left pending, one without text, and the two others.
OddEvent == {Home, Page("a", "rust"), Page("x", "go"), Page("b", NoText)}
=============================================================================
