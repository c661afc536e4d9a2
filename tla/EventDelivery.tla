---------------------------- MODULE EventDelivery ----------------------------
(***************************************************************************)
(* What the storage service makes of the stream of events, seen from the   *)
(* outside: entries are looked at in the order in which they were          *)
(* published, each at most once; an entry is acknowledged at its turn or   *)
(* never.  StreamConsumer implements this specification.                   *)
(***************************************************************************)
EXTENDS Naturals, Sequences

CONSTANT Event

VARIABLES
  log,                  \* the entries published so far
  next,                 \* the next entry to be looked at
  acked                 \* the acknowledged entries

vars == <<log, next, acked>>

Init == log = <<>> /\ next = 1 /\ acked = {}

Publish ==
  /\ \E e \in Event : log' = Append(log, e)
  /\ UNCHANGED <<next, acked>>

Acknowledge ==
  /\ next <= Len(log)
  /\ acked' = acked \cup {next}
  /\ next' = next + 1
  /\ UNCHANGED log

\* Some entries are passed over: they were refused, the service crashed with
\* them in hand, or they were published before the service first listened.
PassOver ==
  /\ next' \in (next + 1)..(Len(log) + 1)
  /\ UNCHANGED <<log, acked>>

Next == Publish \/ Acknowledge \/ PassOver

Spec == Init /\ [][Next]_vars
=============================================================================
