------------------------------ MODULE TaskQueue ------------------------------
(***************************************************************************)
(* The crawl frontier: one Redis list shared by the tasks of the worker    *)
(* service, which pop URLs and push links, and by the storage service,     *)
(* which pushes sitemap URLs.  RPUSH and BLPOP are atomic in Redis, so     *)
(* every operation of crates/common/src/task_queue/task_queue.rs is one    *)
(* action over the list.                                                   *)
(*                                                                         *)
(* A call can also come back as an Err: the command may then have been     *)
(* executed (the reply was lost or late) or not.  faults counts those      *)
(* calls and MaxFaults bounds them.  The same budget is used by the gRPC   *)
(* calls whose failure matters to the frontier.                            *)
(*                                                                         *)
(* Everything in the list was written by Url::as_str or checked with       *)
(* Url::parse before it was pushed, so the parse error of pop_front cannot *)
(* happen and is left out.                                                 *)
(***************************************************************************)
EXTENDS Naturals, Sequences, Functions

CONSTANT MaxFaults      \* how many calls to Redis and to the storage may fail

ASSUME MaxFaultsAssumption == MaxFaults \in Nat

VARIABLES
  queue,                \* the Redis list "crawler_queue", head first
  faults                \* failed calls so far

queueVars == <<queue, faults>>

Works == UNCHANGED faults

Fails == faults < MaxFaults /\ faults' = faults + 1

\* push and push_bulk: RPUSH, in the order given.
PushBulk(urls) ==
  /\ queue' = queue \o urls
  /\ Works

PushBulkFails(urls) ==
  /\ queue' \in {queue, queue \o urls}
  /\ Fails

\* pop_front: BLPOP with a timeout.
PopFront(url) ==
  /\ queue # <<>>
  /\ url = Head(queue)
  /\ queue' = Tail(queue)
  /\ Works

PopFrontTimesOut ==
  /\ queue = <<>>
  /\ UNCHANGED queueVars

PopFrontFails ==
  /\ \/ UNCHANGED queue
     \/ queue # <<>> /\ queue' = Tail(queue)
  /\ Fails

\* is_empty and len: LLEN.
IsEmpty == queue = <<>> /\ UNCHANGED queueVars

IsNotEmpty == queue # <<>> /\ UNCHANGED queueVars

QueueLen(len) == len = Len(queue) /\ UNCHANGED queueVars

QueueLenFails == UNCHANGED queue /\ Fails

\* clean_queue: DEL.
CleanQueue == queue' = <<>> /\ Works

CleanQueueFails == queue' \in {queue, <<>>} /\ Fails
=============================================================================
