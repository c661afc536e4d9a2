---------------------------- MODULE SequenceLemmas ----------------------------
(***************************************************************************)
(* Facts about sequences without repetitions that the proofs about the     *)
(* frontier need and the library does not state.                           *)
(***************************************************************************)
EXTENDS SequenceTheorems, TLAPS

\* The head of a list without repetitions is no longer in its tail.
LEMMA InjectiveTail ==
  ASSUME NEW S, NEW s \in Seq(S), s # <<>>, IsInjective(s)
  PROVE  /\ IsInjective(Tail(s))
         /\ Range(Tail(s)) = Range(s) \ {Head(s)}
         /\ Head(s) \in Range(s)
<1>1. /\ Len(s) \in Nat \ {0} /\ DOMAIN s = 1..Len(s)
  BY EmptySeq, LenProperties
<1>2. /\ Tail(s) \in Seq(S) /\ Len(Tail(s)) = Len(s) - 1
      /\ \A i \in 1..Len(Tail(s)) : Tail(s)[i] = s[i + 1]
  BY HeadTailProperties
<1>3. DOMAIN Tail(s) = 1..(Len(s) - 1)
  BY <1>2, LenProperties
<1>4. Head(s) = s[1]
  BY <1>1
<1>5. IsInjective(Tail(s))
  BY <1>1, <1>2, <1>3 DEF IsInjective
<1>6. Range(Tail(s)) = {s[i] : i \in 2..Len(s)}
  <2>1. \A i \in 2..Len(s) : i - 1 \in 1..(Len(s) - 1) /\ Tail(s)[i - 1] = s[i]
    BY <1>1, <1>2
  <2>2. Range(Tail(s)) = {Tail(s)[j] : j \in 1..(Len(s) - 1)}
    BY <1>3 DEF Range
  <2>3. \A j \in 1..(Len(s) - 1) : j + 1 \in 2..Len(s) /\ Tail(s)[j] = s[j + 1]
    BY <1>1, <1>2
  <2>4. Range(Tail(s)) \subseteq {s[i] : i \in 2..Len(s)}
    BY <2>2, <2>3
  <2>5. {s[i] : i \in 2..Len(s)} \subseteq Range(Tail(s))
    BY <2>1, <2>2
  <2> QED
    BY <2>4, <2>5
<1>7. Range(s) = {s[i] : i \in 1..Len(s)}
  BY <1>1 DEF Range
<1> QED
  BY <1>1, <1>4, <1>5, <1>6, <1>7 DEF IsInjective

\* Lists without repetitions and without common elements can be joined.
LEMMA InjectiveConcat ==
  ASSUME NEW S, NEW s \in Seq(S), NEW t \in Seq(S),
         IsInjective(s), IsInjective(t), Range(s) \cap Range(t) = {}
  PROVE  IsInjective(s \o t)
<1>1. /\ Len(s) \in Nat /\ DOMAIN s = 1..Len(s)
      /\ Len(t) \in Nat /\ DOMAIN t = 1..Len(t)
  BY LenProperties
<1>2. /\ s \o t \in Seq(S) /\ Len(s \o t) = Len(s) + Len(t)
      /\ \A i \in 1..(Len(s) + Len(t)) :
           (s \o t)[i] = IF i <= Len(s) THEN s[i] ELSE t[i - Len(s)]
  BY ConcatProperties
<1>3. DOMAIN (s \o t) = 1..(Len(s) + Len(t))
  BY <1>2, LenProperties
<1>4. SUFFICES ASSUME NEW a \in 1..(Len(s) + Len(t)), NEW b \in 1..(Len(s) + Len(t)),
                      (s \o t)[a] = (s \o t)[b]
               PROVE  a = b
  BY <1>3 DEF IsInjective
<1>5. \A i \in 1..Len(s), j \in 1..Len(t) : s[i] # t[j]
  BY <1>1 DEF Range
<1>6. CASE a <= Len(s) /\ b <= Len(s)
  BY <1>1, <1>2, <1>4, <1>6 DEF IsInjective
<1>7. CASE a <= Len(s) /\ b > Len(s)
  BY <1>1, <1>2, <1>4, <1>5, <1>7
<1>8. CASE a > Len(s) /\ b <= Len(s)
  BY <1>1, <1>2, <1>4, <1>5, <1>8
<1>9. CASE a > Len(s) /\ b > Len(s)
  <2>1. a - Len(s) \in 1..Len(t) /\ b - Len(s) \in 1..Len(t)
    BY <1>1, <1>9
  <2>2. t[a - Len(s)] = t[b - Len(s)]
    BY <1>1, <1>2, <1>4, <1>9
  <2>3. a - Len(s) = b - Len(s)
    BY <1>1, <2>1, <2>2 DEF IsInjective
  <2> QED
    BY <1>1, <2>3
<1> QED
  BY <1>1, <1>6, <1>7, <1>8, <1>9

\* A list of one element.
LEMMA SingletonSeq ==
  ASSUME NEW S, NEW e \in S
  PROVE  /\ <<e>> \in Seq(S) /\ Len(<<e>>) = 1
         /\ IsInjective(<<e>>) /\ Range(<<e>>) = {e}
BY DEF IsInjective, Range

\* What is appended is new, or the list has a repetition.
LEMMA InjectiveAppend ==
  ASSUME NEW S, NEW s \in Seq(S), NEW e \in S
  PROVE  /\ Append(s, e) \in Seq(S)
         /\ Range(Append(s, e)) = Range(s) \cup {e}
         /\ IsInjective(s) /\ e \notin Range(s) => IsInjective(Append(s, e))
<1>1. Append(s, e) = s \o <<e>>
  BY AppendIsConcat
<1>2. <<e>> \in Seq(S) /\ IsInjective(<<e>>) /\ Range(<<e>>) = {e}
  BY SingletonSeq
<1>3. s \o <<e>> \in Seq(S)
  BY <1>2, ConcatProperties
<1>4. Range(s \o <<e>>) = Range(s) \cup {e}
  <2>1. Range(s \o <<e>>) = Range(s) \cup Range(<<e>>)
    BY <1>2, RangeConcatenation, Zenon
  <2> QED
    BY <1>2, <2>1, Zenon
<1>5. IsInjective(s) /\ e \notin Range(s) => IsInjective(s \o <<e>>)
  BY <1>2, InjectiveConcat
<1> QED
  BY <1>1, <1>3, <1>4, <1>5

\* Every element is the head or is in the tail.
LEMMA RangeTail ==
  ASSUME NEW S, NEW s \in Seq(S), s # <<>>
  PROVE  /\ Head(s) \in Range(s)
         /\ Range(Tail(s)) \subseteq Range(s)
         /\ Range(s) \subseteq Range(Tail(s)) \cup {Head(s)}
<1>1. /\ Len(s) \in Nat \ {0} /\ DOMAIN s = 1..Len(s) /\ Head(s) = s[1]
  BY EmptySeq, LenProperties
<1>2. /\ Tail(s) \in Seq(S) /\ Len(Tail(s)) = Len(s) - 1
      /\ \A i \in 1..Len(Tail(s)) : Tail(s)[i] = s[i + 1]
  BY HeadTailProperties
<1>3. DOMAIN Tail(s) = 1..(Len(s) - 1)
  BY <1>2, LenProperties
<1>4. \A i \in 1..(Len(s) - 1) : i + 1 \in 1..Len(s)
  BY <1>1
<1>5. \A i \in 1..Len(s) : i = 1 \/ (i - 1 \in 1..(Len(s) - 1) /\ s[i] = Tail(s)[i - 1])
  BY <1>1, <1>2
<1>6. Head(s) \in Range(s) /\ Range(Tail(s)) \subseteq Range(s)
  BY <1>1, <1>2, <1>3, <1>4 DEF Range
<1>7. Range(s) \subseteq Range(Tail(s)) \cup {Head(s)}
  <2>1. \A j \in 1..(Len(s) - 1) : Tail(s)[j] \in Range(Tail(s))
    BY <1>3 DEF Range
  <2>2. ASSUME NEW i \in 1..Len(s) PROVE s[i] \in Range(Tail(s)) \cup {Head(s)}
    BY <1>1, <1>5, <2>1
  <2> QED
    BY <1>1, <2>2 DEF Range
<1> QED
  BY <1>6, <1>7
=============================================================================
