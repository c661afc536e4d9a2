------------------------------ MODULE CrawlTurn ------------------------------
(***************************************************************************)
(* The turn of a URL as CrawlerCore sees it: the permission, then the      *)
(* discovery of a domain or a download, then the saving of a page.  What   *)
(* a turn leaves behind is at most one entry in the stream, and a page is  *)
(* counted only if it is there.  UrlTurn implements this specification.    *)
(***************************************************************************)
VARIABLES
  step,                 \* the label of the task in CrawlerCore
  domains, pages,       \* whether a domain, a page was published in this turn
  counted               \* whether pages_crawled was increased in it

vars == <<step, domains, pages, counted>>

Init == step = "release" /\ ~domains /\ ~pages /\ ~counted

Begin ==
  /\ step \in {"release", "offer", "panic"} /\ step' = "check"
  /\ ~domains' /\ ~pages' /\ ~counted'

CheckUrl ==
  /\ step = "check" /\ step' \in {"discover", "fetch", "release"}
  /\ UNCHANGED <<domains, pages, counted>>

Discover ==
  /\ step = "discover" /\ step' = "release"
  /\ domains' \in BOOLEAN
  /\ UNCHANGED <<pages, counted>>

Fetch ==
  /\ step = "fetch" /\ step' \in {"release", "offer", "save"}
  /\ UNCHANGED <<domains, pages, counted>>

TaskPanics ==
  /\ step \in {"discover", "fetch"} /\ step' = "panic"
  /\ UNCHANGED <<domains, pages, counted>>

SavePage ==
  /\ step = "save"
  /\ \/ step' = "offer" /\ pages' /\ counted'
     \/ step' = "release" /\ pages' \in BOOLEAN /\ UNCHANGED counted
  /\ UNCHANGED domains

Next == Begin \/ CheckUrl \/ Discover \/ Fetch \/ TaskPanics \/ SavePage

Spec == Init /\ [][Next]_vars
=============================================================================
