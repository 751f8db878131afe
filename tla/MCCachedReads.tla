--------------------------- MODULE MCCachedReads ---------------------------
(* Values of CachedReads' constants for TLC.                                *)
EXTENDS CachedReads, TLC

CONSTANTS h1, h2, r1, r2

TwoHandlers  == {h1, h2}
TwoResolvers == {r1, r2}
OneCopy      == {{r1, r2}}
SmallOnes    == {{r1}, {r1, r2}}

Symmetry == Permutations(Handlers)
=============================================================================
