---------------------------- MODULE MCFileStore ----------------------------
(* Values of FileStore's constants for TLC.                                 *)
EXTENDS FileStore, TLC

CONSTANTS h1, h2, f1, f2, f3, v1

OneHandler  == {h1}
TwoHandlers == {h1, h2}
OneFile     == {f1}
TwoFiles    == {f1, f2}
ThreeFiles  == {f1, f2, f3}
OneVariant  == {v1}
OneSeeded   == {f1}
NoneSeeded  == {}

\* Handlers are interchangeable; so are the files when none is seeded.
HandlerSymmetry == Permutations(Handlers)
FullSymmetry    == Permutations(Handlers) \union Permutations(Files)
=============================================================================
