----------------------------- MODULE MCDealer -----------------------------
(* Values of Dealer's constants for TLC.                                   *)
EXTENDS Dealer

CONSTANTS j1, j2, j3, j4

FourJobs == {j1, j2, j3, j4}
=============================================================================
