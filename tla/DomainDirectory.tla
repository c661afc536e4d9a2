--------------------------- MODULE DomainDirectory ---------------------------
(***************************************************************************)
(* What the storage service promises about domains, seen from the outside: *)
(* versions of a domain's robots.txt and delay are saved, and callers ask  *)
(* for them.  A domain that was saved when the question was asked is never *)
(* unknown, and an answer is a version that was saved.  It need not be the *)
(* last one, and two questions may be answered backwards.                  *)
(* DomainCache implements this specification.                              *)
(***************************************************************************)
EXTENDS Naturals

CONSTANTS
  Domain, NoDomain, Caller,
  Version,              \* the versions there can be, without 0
  NoAnswer

VARIABLES
  saved,                \* the versions saved of each domain
  wanted,               \* the domain a caller asks for, or NoDomain
  wasKnown,             \* whether it was saved when the caller asked, FALSE
                        \* while it does not ask
  answer                \* what it was told: a version, or 0 for unknown

vars == <<saved, wanted, wasKnown, answer>>

Init ==
  /\ saved = [d \in Domain |-> {}]
  /\ wanted = [c \in Caller |-> NoDomain]
  /\ wasKnown = [c \in Caller |-> FALSE]
  /\ answer = [c \in Caller |-> NoAnswer]

Save(d, v) ==
  /\ saved' = [saved EXCEPT ![d] = @ \cup {v}]
  /\ UNCHANGED <<wanted, wasKnown, answer>>

Ask(c, d) ==
  /\ wanted[c] = NoDomain
  /\ wanted' = [wanted EXCEPT ![c] = d]
  /\ wasKnown' = [wasKnown EXCEPT ![c] = saved[d] # {}]
  /\ answer' = [answer EXCEPT ![c] = NoAnswer]
  /\ UNCHANGED saved

Reply(c, v) ==
  /\ wanted[c] # NoDomain
  /\ v \in saved[wanted[c]] \/ (v = 0 /\ ~wasKnown[c])
  /\ wanted' = [wanted EXCEPT ![c] = NoDomain]
  /\ wasKnown' = [wasKnown EXCEPT ![c] = FALSE]
  /\ answer' = [answer EXCEPT ![c] = v]
  /\ UNCHANGED saved

\* Any number of calls come to nothing, or their answers have been used.
GiveUp(C) ==
  /\ wanted' = [c \in Caller |-> IF c \in C THEN NoDomain ELSE wanted[c]]
  /\ wasKnown' = [c \in Caller |-> c \notin C /\ wasKnown[c]]
  /\ answer' = [c \in Caller |-> IF c \in C THEN NoAnswer ELSE answer[c]]
  /\ UNCHANGED saved

Next ==
  \/ \E d \in Domain, v \in Version : Save(d, v)
  \/ \E c \in Caller, d \in Domain : Ask(c, d)
  \/ \E c \in Caller, v \in Version \cup {0} : Reply(c, v)
  \/ \E C \in SUBSET Caller : GiveUp(C)

Spec == Init /\ [][Next]_vars
=============================================================================
