------------------------------ MODULE Executor ------------------------------
(***************************************************************************)
(* What the dealer promises its callers: a job it accepts is taken up once *)
(* and run before its caller is answered, with no more than Limit of them  *)
(* at a time; none is refused before the executor is told to stop, and     *)
(* none is left behind, nor accepted again, once it has come to rest.      *)
(***************************************************************************)
EXTENDS Naturals, FiniteSets

CONSTANTS Jobs, Limit

VARIABLES
  status,  \* how far each job is
  phase,   \* "open", "stopping" or "closed"
  quiet    \* the executor has come to rest

vars == <<status, phase, quiet>>

Init == status = [j \in Jobs |-> "new"] /\ phase = "open" /\ quiet = FALSE

Becomes(j, s) ==
  /\ status' = [status EXCEPT ![j] = s]
  /\ UNCHANGED <<phase, quiet>>

Accept(j) == status[j] = "new" /\ phase # "closed" /\ Becomes(j, "accepted")
Refuse(j) == status[j] = "new" /\ phase # "open" /\ Becomes(j, "refused")

\* Those that occupy a worker.
Taken == {j \in Jobs : status[j] \in {"taken", "run"}}

Take(j) ==
  /\ status[j] = "accepted"
  /\ Cardinality(Taken \union {j}) <= Limit
  /\ Becomes(j, "taken")

Run(j)    == status[j] = "taken" /\ Becomes(j, "run")
Answer(j) == status[j] = "run" /\ Becomes(j, "answered")

Stop  == phase = "open" /\ phase' = "stopping" /\ UNCHANGED <<status, quiet>>
Close == phase = "stopping" /\ phase' = "closed" /\ UNCHANGED <<status, quiet>>

Rest ==
  /\ phase = "closed" /\ ~quiet
  /\ \A j \in Jobs : status[j] \in {"new", "refused", "answered"}
  /\ quiet' = TRUE
  /\ UNCHANGED <<status, phase>>

Next ==
  \/ \E j \in Jobs :
       Accept(j) \/ Refuse(j) \/ Take(j) \/ Run(j) \/ Answer(j)
  \/ Stop \/ Close \/ Rest

Spec == Init /\ [][Next]_vars
=============================================================================
