------------------------------- MODULE SeenUrls -------------------------------
(***************************************************************************)
(* The Bloom filter of crates/storage_service/src/storage/seen_urls.rs.    *)
(* insert_url tests and sets under one Mutex, so it is a single step.  A   *)
(* recorded URL is always reported as a duplicate; a new one may be as     *)
(* well, when its bits happen to be set: FalsePositives holds the URLs     *)
(* that can collide.                                                       *)
(***************************************************************************)
CONSTANT FalsePositives

VARIABLE seen           \* the URLs recorded so far

InsertUrl(url, isDuplicate) ==
  /\ isDuplicate \in BOOLEAN
  /\ url \in seen => isDuplicate
  /\ isDuplicate => url \in seen \cup FalsePositives
  /\ seen' = seen \cup {url}
=============================================================================
