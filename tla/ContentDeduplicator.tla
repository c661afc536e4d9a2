------------------------- MODULE ContentDeduplicator -------------------------
(***************************************************************************)
(* The search for a hash near another one, in buckets by parts of the      *)
(* hash.  A hash of 64 bits is the set of the bits that are 1; how it      *)
(* comes from a text is the business of the simhash crate.                 *)
(***************************************************************************)
EXTENDS Naturals, FiniteSets

BandNum == 8

BandBits == 8

Hash == SUBSET (0..63)

\* hamming_distance
Distance(h, k) == Cardinality((h \ k) \cup (k \ h))

\* (hash >> band * BAND_BITS) as u16: sixteen bits at steps of eight, so that
\* neighbours overlap; shifted in are zeros, which leaves eight to the last one.
ExtractBand(h, band) == {i \in 0..15 : band * BandBits + i \in h}

\* The hashes init and insert put under a value of a band.
Bucket(hashes, band, value) == {h \in hashes : ExtractBand(h, band) = value}

\* Mutation: four bands, as README.md:124 counts them, at the same steps.
IsDuplicateInFour(hashes, h, maxDist) ==
  \E band \in 0..3 : \E k \in Bucket(hashes, band, ExtractBand(h, band)) :
    Distance(k, h) <= maxDist

IsDuplicate(hashes, h, maxDist) ==
  \E band \in 0..(BandNum - 1) :
    \E k \in Bucket(hashes, band, ExtractBand(h, band)) :
      Distance(k, h) <= maxDist
=============================================================================
