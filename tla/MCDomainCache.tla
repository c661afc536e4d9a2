--------------------------- MODULE MCDomainCache ---------------------------
(***************************************************************************)
(* Small instances of DomainCache for TLC.                                 *)
(***************************************************************************)
EXTENDS DomainCache

CONSTANTS d1, d2, t1, t2, t3
=============================================================================
