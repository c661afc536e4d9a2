---------------------- MODULE ContentDeduplicatorProofs ----------------------
(***************************************************************************)
(* Why eight overlapping bands find every hash within distance 3: of the   *)
(* bands 0, 2, 4 and 6, which do not overlap, three bits can spoil three.  *)
(***************************************************************************)
EXTENDS ContentDeduplicator, FiniteSetTheorems, TLAPS

\* The bits in which two hashes differ.
Differ(h, k) == (h \ k) \cup (k \ h)

LEMMA BitsFinite == ASSUME NEW h \in Hash, NEW k \in Hash PROVE IsFiniteSet(Differ(h, k))
<1>1. 0 \in Int /\ 63 \in Int
  OBVIOUS
<1>2. IsFiniteSet(0..63)
  BY <1>1, FS_Interval, Zenon
<1> QED
  BY <1>2, FS_Subset DEF Differ, Hash

\* Two hashes that disagree on a band differ in one of its bits.
LEMMA BandsDiffer ==
  ASSUME NEW h \in Hash, NEW k \in Hash, NEW band \in 0..7,
         ExtractBand(h, band) # ExtractBand(k, band)
  PROVE  \E x \in Differ(h, k) : band * 8 <= x /\ x <= band * 8 + 15
<1>1. PICK i \in 0..15 : (band * 8 + i \in h) # (band * 8 + i \in k)
  BY DEF ExtractBand, BandBits
<1> QED
  BY <1>1 DEF Differ

LEMMA FourBits ==
  ASSUME NEW S, IsFiniteSet(S), Cardinality(S) <= 3,
         NEW a \in S, NEW b \in S, NEW c \in S, NEW d \in S
  PROVE  \/ a = b \/ a = c \/ a = d \/ b = c \/ b = d \/ c = d
<1> SUFFICES ASSUME a # b, a # c, a # d, b # c, b # d, c # d PROVE FALSE
  OBVIOUS
<1>1. ASSUME NEW T, NEW x, IsFiniteSet(T), x \notin T
      PROVE  IsFiniteSet(T \cup {x}) /\ Cardinality(T \cup {x}) = Cardinality(T) + 1
  BY <1>1, FS_AddElement
<1>2. Cardinality({a, b, c} \cup {d}) = 4
  <2>1. IsFiniteSet({a}) /\ Cardinality({a}) = 1
    BY FS_Singleton
  <2>2. IsFiniteSet({a} \cup {b}) /\ Cardinality({a} \cup {b}) = 2
    <3>1. b \notin {a}
      OBVIOUS
    <3> QED
      BY <1>1, <2>1, <3>1
  <2>3. IsFiniteSet({a, b} \cup {c}) /\ Cardinality({a, b} \cup {c}) = 3
    <3>1. c \notin {a, b} /\ {a, b} = {a} \cup {b}
      OBVIOUS
    <3> QED
      BY <1>1, <2>2, <3>1
  <2>4. d \notin {a, b, c} /\ {a, b, c} = {a, b} \cup {c}
    OBVIOUS
  <2> QED
    BY <1>1, <2>3, <2>4
<1>3. {a, b, c} \cup {d} \subseteq S
  OBVIOUS
<1>4. Cardinality({a, b, c} \cup {d}) <= Cardinality(S)
  BY <1>3, FS_Subset
<1>5. Cardinality(S) \in Nat
  BY FS_CardinalityType
<1>6. 4 <= Cardinality(S)
  BY <1>2, <1>4, Zenon
<1> QED
  BY <1>5, <1>6

\* A hash within distance 3 shares the value of a band, and so a bucket
\* (content_deduplicator.rs:25, :47): the search misses none.
THEOREM BandsFindAll ==
  ASSUME NEW hashes \in SUBSET Hash, NEW h \in Hash, NEW k \in hashes,
         Distance(k, h) <= 3
  PROVE  IsDuplicate(hashes, h, 3)
<1>1. \E band \in 0..7 : ExtractBand(h, band) = ExtractBand(k, band)
  <2> SUFFICES ASSUME \A band \in 0..7 : ExtractBand(h, band) # ExtractBand(k, band)
               PROVE  FALSE
    OBVIOUS
  <2>1. PICK a \in Differ(k, h) : a \in 0..15
    <3>1. \E x \in Differ(k, h) : 0 * 8 <= x /\ x <= 0 * 8 + 15
      BY BandsDiffer
    <3> QED
      BY <3>1 DEF Differ, Hash
  <2>2. PICK b \in Differ(k, h) : b \in 16..31
    <3>1. \E x \in Differ(k, h) : 2 * 8 <= x /\ x <= 2 * 8 + 15
      BY BandsDiffer
    <3> QED
      BY <3>1 DEF Differ, Hash
  <2>3. PICK c \in Differ(k, h) : c \in 32..47
    <3>1. \E x \in Differ(k, h) : 4 * 8 <= x /\ x <= 4 * 8 + 15
      BY BandsDiffer
    <3> QED
      BY <3>1 DEF Differ, Hash
  <2>4. PICK d \in Differ(k, h) : d \in 48..63
    <3>1. \E x \in Differ(k, h) : 6 * 8 <= x /\ x <= 6 * 8 + 15
      BY BandsDiffer
    <3> QED
      BY <3>1 DEF Differ, Hash
  <2>5. IsFiniteSet(Differ(k, h)) /\ Cardinality(Differ(k, h)) <= 3
    BY BitsFinite DEF Distance, Differ
  <2> QED
    BY <2>1, <2>2, <2>3, <2>4, <2>5, FourBits
<1> QED
  BY <1>1 DEF IsDuplicate, Bucket, BandNum

\* Nothing else is refused: what the search finds is that near.
LEMMA OnlyNear ==
  ASSUME NEW hashes \in SUBSET Hash, NEW h \in Hash, NEW dist,
         IsDuplicate(hashes, h, dist)
  PROVE  \E k \in hashes : Distance(k, h) <= dist
BY DEF IsDuplicate, Bucket

LEMMA DistanceSymmetric ==
  ASSUME NEW h, NEW k PROVE Distance(h, k) = Distance(k, h)
<1>1. (h \ k) \cup (k \ h) = (k \ h) \cup (h \ k)
  OBVIOUS
<1> QED
  BY <1>1 DEF Distance
=============================================================================
