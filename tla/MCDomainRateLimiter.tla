------------------------ MODULE MCDomainRateLimiter ------------------------
(***************************************************************************)
(* Small instances of DomainRateLimiter for TLC: a domain whose Crawl-delay *)
(* is longer than the default and one whose is shorter, in one shard.      *)
(***************************************************************************)
EXTENDS DomainRateLimiter, TLC

CONSTANTS t1, t2, t3

SlowAndFast == {"slow", "fast"}

SlowOnly == {"slow"}

MCShardOf == [d \in Domain |-> "shard"]

MCShard == {"shard"}

MCCrawlDelay == [d \in Domain |-> IF d = "slow" THEN 3 ELSE 1]

Nowhere == {}

\* The tasks are interchangeable.
TaskSymmetry == Permutations(Task)
=============================================================================
