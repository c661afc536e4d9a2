------------------------------ MODULE MCUrlTurn ------------------------------
(* Two sites; a page that leads to the other site, to itself, up its own site *)
(* and nowhere, a sitemap that breaks, a file, and redirects between sites.    *)
EXTENDS UrlTurn

CONSTANTS here, there

At(site, path, frag) == [place |-> <<site, path>>, fragment |-> frag]

MCSite == {here, there}

MCHrefsAt == [p \in Place |->
  IF p[2] = "page" THEN
    {[kind |-> "relative", to |-> At(here, "sitemap", TRUE)],
     [kind |-> "relative", to |-> At(here, "page", TRUE)],
     [kind |-> "http", to |-> At(there, "page", TRUE)],
     [kind |-> "otherScheme", to |-> At(there, "file", FALSE)],
     [kind |-> "invalid", to |-> At(here, "file", FALSE)]}
  ELSE {}]

MCLocsAt == [p \in Place |->
  IF p[2] = "sitemap" THEN
    <<[kind |-> "invalid", to |-> At(here, "file", FALSE)],
      [kind |-> "url", to |-> At(p[1], "page", TRUE)],
      [kind |-> "broken", to |-> At(here, "file", FALSE)],
      [kind |-> "url", to |-> At(p[1], "file", FALSE)]>>
  ELSE <<>>]

MCKeyworded == {<<there, "page">>}

MCRedirectsTo == [p \in Place |->
  IF p = <<here, "page">> THEN {At(there, "page", FALSE)} ELSE {}]
=============================================================================
