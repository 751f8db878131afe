-------------------------- MODULE BucketRegistry --------------------------
(***************************************************************************)
(* What the bucket store promises: a name is registered once, for good and *)
(* with one definition; a process serves requests by registered            *)
(* definitions only, and forgets none of them before it ends.              *)
(***************************************************************************)
CONSTANTS Buckets, Definitions, Unknown

VARIABLES
  registered,  \* the definition of a bucket
  known,       \* the definition the process serves it by
  serving      \* the process has come up

vars == <<registered, known, serving>>

Nothing == [b \in Buckets |-> Unknown]

Init == registered = Nothing /\ known = Nothing /\ serving = FALSE

Register(b, d) ==
  /\ serving
  /\ registered[b] = Unknown
  /\ registered' = [registered EXCEPT ![b] = d]
  /\ UNCHANGED <<known, serving>>

Learn(b) ==
  /\ serving
  /\ registered[b] # Unknown
  /\ known' = [known EXCEPT ![b] = registered[b]]
  /\ UNCHANGED <<registered, serving>>

\* The process starts with any of the registered buckets, and ends.
Boot ==
  /\ ~serving
  /\ serving' = TRUE
  /\ \E B \in SUBSET Buckets :
       known' = [b \in Buckets |-> IF b \in B THEN registered[b] ELSE Unknown]
  /\ UNCHANGED registered

End ==
  /\ serving
  /\ serving' = FALSE
  /\ known' = Nothing
  /\ UNCHANGED registered

Next ==
  \/ \E b \in Buckets : Learn(b) \/ \E d \in Definitions : Register(b, d)
  \/ Boot \/ End

Spec == Init /\ [][Next]_vars
=============================================================================
