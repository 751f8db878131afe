---------------------------- MODULE ObjectStore ----------------------------
(***************************************************************************)
(* What the CDN promises the backend that uploads to it: a file can be     *)
(* read from the moment it is stored as a whole; once its id was returned  *)
(* only a Delete takes it away, and it does not come back.                 *)
(***************************************************************************)
CONSTANT Objects

VARIABLES
  present,   \* the objects a reader can get
  promised,  \* the objects whose id a client was given
  removed    \* the objects taken away by a Delete

vars == <<present, promised, removed>>

Init == present \subseteq Objects /\ promised = {} /\ removed = {}

\* An object never promised before becomes readable as a whole.
Store(o) ==
  /\ o \notin present \union promised \union removed
  /\ present' = present \union {o}
  /\ UNCHANGED <<promised, removed>>

\* A failed upload takes back an object nobody was told about.
Rollback(o) ==
  /\ o \in present \ promised
  /\ present' = present \ {o}
  /\ UNCHANGED <<promised, removed>>

\* A Delete.
Remove(o) ==
  /\ o \in present
  /\ present' = present \ {o}
  /\ removed' = removed \union {o}
  /\ UNCHANGED promised

\* The ids of a form's files are returned together.
Promise(ids) ==
  /\ ids \subseteq present
  /\ promised' = promised \union ids
  /\ UNCHANGED <<present, removed>>

Next ==
  \/ \E o \in Objects : Store(o) \/ Rollback(o) \/ Remove(o)
  \/ \E ids \in SUBSET Objects : Promise(ids)

Spec == Init /\ [][Next]_vars
=============================================================================
