--------------------------- MODULE MCBucketStore ---------------------------
(* Values of BucketStore's constants for TLC.                               *)
EXTENDS BucketStore, TLC

CONSTANTS c1, c2, r1, n1, n2, d1, d2, bad

TwoCreators == {c1, c2}
OneReader   == {r1}
TwoNames    == {n1, n2}
ThreeDefs   == {d1, d2, bad}
GoodDefs    == {d1, d2}

\* Creators are interchangeable, and so are names and the valid definitions.
Symmetry == Permutations(Creators) \union Permutations(Names) \union Permutations(Valid)
=============================================================================
