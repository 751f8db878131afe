---------------------------- MODULE Dealer_proofs ----------------------------
(***************************************************************************)
(* Theorems about Dealer for every set of jobs, number of workers and      *)
(* strategy.                                                               *)
(*                                                                         *)
(* The argument.  An accepted job is in one place at a time: the queue,    *)
(* the dispatcher's hand or one goroutine (Placed), and the place says     *)
(* whether it has run (Counted).  The WaitGroup and the semaphore count    *)
(* the goroutines in certain states (Counts), so a counter at 0 says that  *)
(* no goroutine is in one (Drained).  A goroutine that is waking Stop's    *)
(* Wait is the only one, and the counter is 0 (Waker): so the WaitGroup    *)
(* panics only where something may still raise the counter (StopIsClean).  *)
(***************************************************************************)
EXTENDS Dealer, FiniteSetTheorems, TLAPS

-----------------------------------------------------------------------------
(* The inductive invariant.                                                 *)

InSeq(s, j) == \E i \in 1..Len(s) : s[i] = j

Distinct(s) == \A i, k \in 1..Len(s) : s[i] = s[k] => i = k

\* Placed: a job is in at most one place.
Placed ==
  /\ Distinct(jobq)
  /\ ~InSeq(jobq, hand)
  /\ \A g \in Busy :
       holds[g] \in Jobs /\ ~InSeq(jobq, holds[g]) /\ holds[g] # hand
  /\ \A g, h \in Busy : holds[g] = holds[h] => g = h

\* Counted: where the job or its caller is says how often the job ran.
Counted ==
  /\ \A j \in Jobs :
       /\ runs[j] \in {0, 1}
       /\ caller[j] \in {"idle", "checked", "panicked"} => runs[j] = 0
       /\ caller[j] = "answered" => runs[j] = 1
       /\ InSeq(jobq, j) \/ j = hand => caller[j] = "waiting" /\ runs[j] = 0
  /\ \A g \in Busy : caller[holds[g]] = "waiting"
  /\ \A g \in Busy : worker[g] = "run" => runs[holds[g]] = 0
  /\ \A g \in Busy : worker[g] = "send" => runs[holds[g]] = 1

\* Shape: the states a goroutine takes under each strategy.
Shape ==
  /\ Strategy = "WorkerPool" =>
       /\ hand = NoJob
       /\ \A g \in Goroutines :
            /\ worker[g] \in {"none", "recv", "run", "send", "wake", "exited"}
            /\ worker[g] = "none" <=> g > launched
  /\ Strategy = "Semaphore" =>
       /\ launched = 0
       /\ \A g \in Goroutines : worker[g] # "recv"

\* The goroutines the WaitGroup counts, and those that hold a token.
Active  == {g \in Goroutines : worker[g] \in {"recv", "run", "send", "done"}}
Holders == {g \in Goroutines :
              worker[g] \in {"token", "run", "send", "done", "wake", "release"}}

\* Counts: what the two counters count.
Counts ==
  /\ IsFiniteSet(Active) /\ wg = Cardinality(Active)
  /\ Strategy = "Semaphore" => IsFiniteSet(Holders) /\ sem = Cardinality(Holders)

\* Drained: with the pool, a worker ends only when the queue is closed and
\* empty, and nothing is left once Stop has returned to a manned pool.
Drained ==
  /\ \A j \in Jobs : caller[j] = "waiting" =>
       InSeq(jobq, j) \/ j = hand \/ \E g \in Busy : holds[g] = j
  /\ Strategy = "WorkerPool" =>
       /\ \A g \in Goroutines :
            worker[g] \in {"wake", "exited"} => closed /\ jobq = <<>>
       /\ stop \in {"wait", "asleep", "woken", "stopped"} => closed
       /\ stop = "stopped" /\ manned => jobq = <<>> /\ Busy = {}

\* Waker: one goroutine at a time wakes Wait, and as long as it has not, Wait
\* is asleep and the counter is 0, or the process has ended.
Waker ==
  \A g \in Goroutines : worker[g] = "wake" =>
    /\ Waking \/ Dead
    /\ \A h \in Goroutines : worker[h] = "wake" => h = g

IInv == TypeOK /\ Shape /\ Counts /\ Placed /\ Counted /\ Drained /\ Waker

-----------------------------------------------------------------------------
(* The queue.                                                               *)

\* Appending a job that is not there.
LEMMA Enqueue ==
  ASSUME NEW s \in Seq(Jobs), NEW j \in Jobs, Distinct(s), ~InSeq(s, j)
  PROVE  /\ Append(s, j) \in Seq(Jobs)
         /\ Len(Append(s, j)) = Len(s) + 1
         /\ Distinct(Append(s, j))
         /\ \A k : InSeq(Append(s, j), k) <=> InSeq(s, k) \/ k = j
<1>1. /\ Append(s, j) \in Seq(Jobs)
      /\ Len(Append(s, j)) = Len(s) + 1 /\ Len(s) \in Nat
      /\ \A i \in 1..Len(s) : Append(s, j)[i] = s[i]
      /\ Append(s, j)[Len(s) + 1] = j
  OBVIOUS
<1>2. Distinct(Append(s, j))
  BY <1>1 DEF Distinct, InSeq
<1>3. ASSUME NEW k
      PROVE  InSeq(Append(s, j), k) <=> InSeq(s, k) \/ k = j
  BY <1>1 DEF InSeq
<1> QED
  BY <1>1, <1>2, <1>3

\* Taking the head off a queue without duplicates takes that job out of it.
LEMMA Dequeue ==
  ASSUME NEW s \in Seq(Jobs), s # <<>>, Distinct(s)
  PROVE  /\ Tail(s) \in Seq(Jobs)
         /\ Len(Tail(s)) = Len(s) - 1
         /\ Distinct(Tail(s))
         /\ Head(s) \in Jobs /\ InSeq(s, Head(s))
         /\ \A k : InSeq(Tail(s), k) <=> InSeq(s, k) /\ k # Head(s)
<1>1. /\ Tail(s) \in Seq(Jobs) /\ Head(s) = s[1] /\ Head(s) \in Jobs
      /\ Len(Tail(s)) = Len(s) - 1 /\ Len(s) \in Nat /\ Len(s) >= 1
      /\ \A i \in 1..(Len(s) - 1) : Tail(s)[i] = s[i + 1]
  OBVIOUS
<1>2. Distinct(Tail(s))
  <2> SUFFICES ASSUME NEW i \in 1..Len(Tail(s)), NEW k \in 1..Len(Tail(s)),
                      Tail(s)[i] = Tail(s)[k]
               PROVE  i = k
    BY DEF Distinct
  <2>1. i + 1 \in 1..Len(s) /\ k + 1 \in 1..Len(s) /\ s[i + 1] = s[k + 1]
    BY <1>1
  <2> QED
    BY <1>1, <2>1 DEF Distinct
<1>3. InSeq(s, Head(s))
  BY <1>1 DEF InSeq
<1>4. ASSUME NEW k
      PROVE  InSeq(Tail(s), k) <=> InSeq(s, k) /\ k # Head(s)
  <2>1. ASSUME InSeq(Tail(s), k)  PROVE InSeq(s, k) /\ k # Head(s)
    <3>1. PICK i \in 1..(Len(s) - 1) : s[i + 1] = k
      BY <1>1, <2>1 DEF InSeq
    <3>2. i + 1 \in 1..Len(s) /\ i + 1 # 1 /\ 1 \in 1..Len(s)
      BY <1>1
    <3> QED
      BY <1>1, <3>1, <3>2 DEF InSeq, Distinct
  <2>2. ASSUME InSeq(s, k), k # Head(s)  PROVE InSeq(Tail(s), k)
    <3>1. PICK i \in 1..Len(s) : s[i] = k
      BY <2>2 DEF InSeq
    <3>2. i - 1 \in 1..(Len(s) - 1) /\ Tail(s)[i - 1] = k
      BY <1>1, <2>2, <3>1
    <3> QED
      BY <1>1, <3>2 DEF InSeq
  <2> QED
    BY <2>1, <2>2
<1> QED
  BY <1>1, <1>2, <1>3, <1>4

\* Nothing is in an empty queue, and NoJob is in none.
LEMMA NotQueued ==
  /\ \A j : ~InSeq(<<>>, j)
  /\ \A s \in Seq(Jobs) : ~InSeq(s, NoJob)
BY JobsAssumption DEF InSeq

-----------------------------------------------------------------------------
(* Shape and Counts.                                                        *)

LEMMA GoroutineStates ==
  /\ Strategy = "WorkerPool" => Goroutines = 1..MaxWorkers
  /\ Strategy = "Semaphore" => Goroutines = Jobs
  /\ Strategy = "WorkerPool" \/ Strategy = "Semaphore"
  /\ MaxWorkers \in Nat /\ MaxWorkers > 0
BY StrategyAssumption, MaxWorkersAssumption DEF Goroutines

LEMMA InitIInv == Init => IInv
<1> SUFFICES ASSUME Init PROVE IInv
  OBVIOUS
<1>1. TypeOK
  <2>1. jobq \in Seq(Jobs) /\ Len(jobq) <= MaxWorkers
    BY GoroutineStates DEF Init
  <2>2. sem \in 0..MaxWorkers /\ launched \in 0..MaxWorkers
    BY GoroutineStates DEF Init
  <2>3. /\ worker \in [Goroutines -> {"none", "recv", "token", "run", "send",
                                     "done", "wake", "release", "exited"}]
        /\ holds \in [Goroutines -> Jobs \union {NoJob}]
    BY DEF Init
  <2>4. runs \in [Jobs -> Nat]
    BY DEF Init
  <2> QED
    BY <2>1, <2>2, <2>3, <2>4 DEF Init, TypeOK
<1>2. Shape
  BY GoroutineStates DEF Init, Shape
<1>3. Active = {} /\ Holders = {} /\ Busy = {}
  BY DEF Init, Active, Holders, Busy
<1>4. Counts
  BY <1>3, FS_EmptySet DEF Init, Counts
<1>5. Placed
  BY <1>3, NotQueued DEF Init, Placed, Distinct
<1>6. Counted
  BY <1>3, NotQueued, JobsAssumption DEF Init, Counted
<1>7. Drained
  BY <1>3 DEF Init, Drained
<1>8. Waker
  BY DEF Init, Waker
<1> QED
  BY <1>1, <1>2, <1>4, <1>5, <1>6, <1>7, <1>8 DEF IInv

LEMMA StepShape == IInv /\ [Next]_vars => Shape'
<1> SUFFICES ASSUME IInv, [Next]_vars PROVE Shape'
  OBVIOUS
<1> USE GoroutineStates DEF IInv, TypeOK, Shape
<1>1. ASSUME NEW j \in Jobs, CheckStarted(j) \/ Send(j)  PROVE Shape'
  BY <1>1 DEF CheckStarted, Send
<1>2. ASSUME NEW g \in Goroutines, Receive(g)  PROVE Shape'
  BY <1>2 DEF Receive
<1>3. ASSUME NEW g \in Goroutines, ExitWorker(g)  PROVE Shape'
  BY <1>3 DEF ExitWorker, SignalDone
<1>4. ASSUME NEW g \in Goroutines, RunJob(g)  PROVE Shape'
  BY <1>4 DEF RunJob
<1>5. ASSUME NEW g \in Goroutines, Deliver(g)  PROVE Shape'
  BY <1>5 DEF Deliver
<1>6. ASSUME NEW g \in Goroutines, Done(g)  PROVE Shape'
  BY <1>6 DEF Done, SignalDone
<1>7. ASSUME NEW g \in Goroutines, Wake(g) \/ Release(g)  PROVE Shape'
  BY <1>7 DEF Wake, Release
<1>8. CASE LaunchWorker
  BY <1>8 DEF LaunchWorker, Add
<1>9. CASE Dispatch
  BY <1>9 DEF Dispatch
<1>10. CASE Acquire
  BY <1>10 DEF Acquire
<1>11. CASE Spawn
  BY <1>11 DEF Spawn
<1>12. CASE StopFlag \/ Stopper
  BY <1>12 DEF StopFlag, Stopper, CloseQueue, WaitReturns, WaitSleeps, WaitWoken,
     AfterWait
<1>13. CASE Finished \/ UNCHANGED vars
  BY <1>13 DEF Finished, vars
<1> QED
  BY <1>1, <1>2, <1>3, <1>4, <1>5, <1>6, <1>7, <1>8, <1>9, <1>10, <1>11, <1>12,
     <1>13 DEF Next, Step, WorkerStep, Dispatcher, Stopper

\* The counters follow a goroutine that enters or leaves what they count.
LEMMA CountIn ==
  ASSUME NEW S, NEW g, IsFiniteSet(S), g \notin S
  PROVE  /\ IsFiniteSet(S \union {g})
         /\ Cardinality(S \union {g}) = Cardinality(S) + 1
BY FS_AddElement

LEMMA CountOut ==
  ASSUME NEW S, NEW g \in S, IsFiniteSet(S)
  PROVE  IsFiniteSet(S \ {g}) /\ Cardinality(S \ {g}) = Cardinality(S) - 1
BY FS_RemoveElement

LEMMA StepCounts == IInv /\ [Next]_vars => Counts'
<1> SUFFICES ASSUME IInv, [Next]_vars PROVE Counts'
  OBVIOUS
<1> USE GoroutineStates DEF IInv, TypeOK
<1>0. ASSUME UNCHANGED <<wg, sem, worker>>  PROVE Counts'
  BY <1>0 DEF Counts, Active, Holders
<1>1. ASSUME NEW j \in Jobs, CheckStarted(j) \/ Send(j)  PROVE Counts'
  BY <1>0, <1>1 DEF CheckStarted, Send
<1>2. ASSUME NEW g \in Goroutines, Receive(g)  PROVE Counts'
  <2>1. Active' = Active
    BY <1>2 DEF Receive, Active
  <2>2. Strategy = "WorkerPool"
    BY <1>2 DEF Receive, Shape
  <2> QED
    BY <1>2, <2>1, <2>2 DEF Receive, Counts
<1>3. ASSUME NEW g \in Goroutines, ExitWorker(g)  PROVE Counts'
  <2>1. g \in Active /\ Active' = Active \ {g}
    BY <1>3 DEF ExitWorker, SignalDone, Active
  <2>2. Strategy = "WorkerPool"
    BY <1>3 DEF ExitWorker, Shape
  <2> QED
    BY <1>3, <2>1, <2>2, CountOut DEF ExitWorker, SignalDone, Counts
<1>4. ASSUME NEW g \in Goroutines, RunJob(g)  PROVE Counts'
  <2>1. Active' = Active /\ Holders' = Holders
    BY <1>4 DEF RunJob, Active, Holders
  <2> QED
    BY <1>4, <2>1 DEF RunJob, Counts
<1>5. ASSUME NEW g \in Goroutines, Deliver(g)  PROVE Counts'
  <2>1. Active' = Active
    BY <1>5 DEF Deliver, Active
  <2>2. Strategy = "Semaphore" => Holders' = Holders
    BY <1>5 DEF Deliver, Holders
  <2> QED
    BY <1>5, <2>1, <2>2 DEF Deliver, Counts
<1>6. ASSUME NEW g \in Goroutines, Done(g)  PROVE Counts'
  <2>1. g \in Active /\ Active' = Active \ {g} /\ Holders' = Holders
    BY <1>6 DEF Done, SignalDone, Active, Holders
  <2> QED
    BY <1>6, <2>1, CountOut DEF Done, SignalDone, Counts
<1>7. ASSUME NEW g \in Goroutines, Release(g)  PROVE Counts'
  <2>1. g \in Holders /\ Holders' = Holders \ {g} /\ Active' = Active
    BY <1>7 DEF Release, Active, Holders
  <2> QED
    BY <1>7, <2>1, CountOut DEF Release, Counts
<1>8. CASE LaunchWorker
  <2>0. /\ launched + 1 \in Goroutines /\ worker[launched + 1] = "none"
        /\ \A g \in Goroutines : worker'[g] = IF g = launched + 1 THEN "recv"
                                                                ELSE worker[g]
    <3>1. /\ Strategy = "WorkerPool" /\ launched + 1 \in 1..MaxWorkers
          /\ launched + 1 > launched
      BY <1>8 DEF LaunchWorker
    <3> QED
      BY <1>8, <3>1 DEF LaunchWorker, Shape
  <2>1. launched + 1 \notin Active /\ Active' = Active \union {launched + 1}
    BY <2>0 DEF Active
  <2> QED
    BY <1>8, <2>1, CountIn DEF LaunchWorker, Add, Counts
<1>9. CASE Dispatch
  BY <1>0, <1>9 DEF Dispatch
<1>10. CASE Acquire
  <2>1. Strategy = "Semaphore" /\ hand \in Goroutines
    BY <1>10 DEF Acquire, Shape
  <2>2. hand \notin Holders /\ Holders' = Holders \union {hand} /\ Active' = Active
    BY <1>10, <2>1 DEF Acquire, Active, Holders
  <2> QED
    BY <1>10, <2>1, <2>2, CountIn DEF Acquire, Counts
<1>11. CASE Spawn
  <2>1. Strategy = "Semaphore" /\ hand \in Goroutines
    BY <1>11 DEF Spawn, Shape
  <2>2. hand \notin Active /\ Active' = Active \union {hand} /\ Holders' = Holders
    BY <1>11, <2>1 DEF Spawn, Active, Holders
  <2> QED
    BY <1>11, <2>1, <2>2, CountIn DEF Spawn, Add, Counts
<1>12. CASE StopFlag \/ Stopper
  BY <1>0, <1>12 DEF StopFlag, Stopper, CloseQueue, WaitReturns, WaitSleeps, WaitWoken,
     AfterWait
<1>13. CASE Finished \/ UNCHANGED vars
  BY <1>0, <1>13 DEF Finished, vars
<1>14. ASSUME NEW g \in Goroutines, Wake(g)  PROVE Counts'
  <2>1. Active' = Active
    BY <1>14 DEF Wake, Active
  <2>2. Strategy = "Semaphore" => Holders' = Holders
    BY <1>14 DEF Wake, Holders
  <2> QED
    BY <1>14, <2>1, <2>2 DEF Wake, Counts
<1> QED
  BY <1>1, <1>2, <1>3, <1>4, <1>5, <1>6, <1>7, <1>8, <1>9, <1>10, <1>11, <1>12,
     <1>13, <1>14 DEF Next, Step, WorkerStep, Dispatcher, Stopper

-----------------------------------------------------------------------------
(* Types.  That the two counters do not fall below 0 is what Counts says    *)
(* after the step.                                                          *)

LEMMA StepTypeOK == IInv /\ [Next]_vars => TypeOK'
<1> SUFFICES ASSUME IInv, [Next]_vars PROVE TypeOK'
  OBVIOUS
<1>0. Counts'
  BY StepCounts
<1>a. wg' \in Nat /\ (Strategy = "Semaphore" => sem' \in Nat)
  BY <1>0, FS_CardinalityType DEF Counts
<1> USE GoroutineStates DEF IInv, TypeOK
<1>1. ASSUME NEW j \in Jobs, CheckStarted(j)  PROVE TypeOK'
  BY <1>1 DEF CheckStarted
<1>2. ASSUME NEW j \in Jobs, Send(j)  PROVE TypeOK'
  <2>1. jobq' \in Seq(Jobs) /\ Len(jobq') <= MaxWorkers
    <3>1. Append(jobq, j) \in Seq(Jobs) /\ Len(Append(jobq, j)) = Len(jobq) + 1
      OBVIOUS
    <3>2. Len(jobq) \in Nat
      OBVIOUS
    <3>3. jobq' = jobq \/ (jobq' = Append(jobq, j) /\ Len(jobq) < MaxWorkers)
      BY <1>2 DEF Send
    <3>4. CASE jobq' = jobq
      BY <3>4
    <3>5. CASE jobq' = Append(jobq, j) /\ Len(jobq) < MaxWorkers
      BY <3>1, <3>2, <3>5
    <3> QED
      BY <3>3, <3>4, <3>5
  <2> QED
    BY <1>2, <2>1 DEF Send
<1>3. ASSUME NEW g \in Goroutines, Receive(g)  PROVE TypeOK'
  <2>1. /\ jobq' \in Seq(Jobs) /\ Len(jobq') <= MaxWorkers
        /\ Head(jobq) \in Jobs
    BY <1>3 DEF Receive
  <2> QED
    BY <1>3, <2>1 DEF Receive
<1>4. ASSUME NEW g \in Goroutines, ExitWorker(g)  PROVE TypeOK'
  BY <1>4, <1>a DEF ExitWorker, SignalDone
<1>5. ASSUME NEW g \in Goroutines, RunJob(g)  PROVE TypeOK'
  <2>1. holds[g] \in Jobs
    BY <1>5 DEF RunJob, Placed, Busy
  <2>2. runs' \in [Jobs -> Nat]
    BY <1>5, <2>1 DEF RunJob
  <2> QED
    BY <1>5, <2>2 DEF RunJob
<1>6. ASSUME NEW g \in Goroutines, Deliver(g)  PROVE TypeOK'
  BY <1>6 DEF Deliver
<1>7. ASSUME NEW g \in Goroutines, Done(g)  PROVE TypeOK'
  BY <1>7, <1>a DEF Done, SignalDone
<1>8. ASSUME NEW g \in Goroutines, Release(g)  PROVE TypeOK'
  <2>1. Strategy = "Semaphore"
    BY <1>8 DEF Release, Shape
  <2>2. sem' \in 0..MaxWorkers
    BY <1>8, <1>a, <2>1 DEF Release
  <2> QED
    BY <1>8, <2>2 DEF Release
<1>9. CASE LaunchWorker
  BY <1>9 DEF LaunchWorker, Add
<1>10. CASE Dispatch
  <2>1. /\ jobq' \in Seq(Jobs) /\ Len(jobq') <= MaxWorkers
        /\ Head(jobq) \in Jobs
    BY <1>10 DEF Dispatch
  <2> QED
    BY <1>10, <2>1 DEF Dispatch
<1>11. CASE Acquire
  <2>1. sem' \in 0..MaxWorkers
    BY <1>11 DEF Acquire
  <2>2. hand \in Goroutines
    BY <1>11 DEF Acquire, Shape
  <2> QED
    BY <1>11, <2>1, <2>2 DEF Acquire
<1>12. CASE Spawn
  <2>1. hand \in Goroutines /\ hand \in Jobs
    BY <1>12 DEF Spawn, Shape
  <2>2. /\ worker' \in [Goroutines -> {"none", "recv", "token", "run", "send",
                                      "done", "wake", "release", "exited"}]
        /\ holds' \in [Goroutines -> Jobs \union {NoJob}]
    BY <1>12, <2>1 DEF Spawn
  <2> QED
    BY <1>12, <1>a, <2>2 DEF Spawn, Add
<1>13. CASE StopFlag \/ Stopper
  <2>1. /\ started' \in {0, 1}
        /\ stop' \in {"no", "close", "wait", "asleep", "woken", "stopped", "dead"}
    BY <1>13 DEF StopFlag, Stopper, CloseQueue, WaitReturns, WaitSleeps, WaitWoken,
     AfterWait
  <2>3. closed' \in BOOLEAN
    BY <1>13 DEF StopFlag, Stopper, CloseQueue, WaitReturns, WaitSleeps, WaitWoken,
     AfterWait
  <2>4. manned' \in BOOLEAN
    <3>1. manned' = manned \/ manned' = (launched > 0)
      BY <1>13 DEF StopFlag, Stopper, CloseQueue, WaitReturns, WaitSleeps, WaitWoken,
     AfterWait
    <3>2. (launched > 0) \in BOOLEAN
      OBVIOUS
    <3>3. manned \in BOOLEAN
      OBVIOUS
    <3> QED
      BY <3>1, <3>2, <3>3, Zenon
  <2>2. UNCHANGED <<jobq, wg, sem, launched, caller, worker, holds, hand, runs>>
    BY <1>13 DEF StopFlag, Stopper, CloseQueue, WaitReturns, WaitSleeps, WaitWoken,
     AfterWait
  <2> QED
    BY <2>1, <2>2, <2>3, <2>4
<1>14. CASE Finished \/ UNCHANGED vars
  BY <1>14 DEF Finished, vars
<1>15. ASSUME NEW g \in Goroutines, Wake(g)  PROVE TypeOK'
  BY <1>15 DEF Wake
<1> QED
  BY <1>1, <1>2, <1>3, <1>4, <1>5, <1>6, <1>7, <1>8, <1>9, <1>10, <1>11, <1>12,
     <1>13, <1>14, <1>15 DEF Next, Step, WorkerStep, Dispatcher, Stopper

-----------------------------------------------------------------------------
(* Placed and Counted.                                                      *)

\* What the queue of each step is.
LEMMA QueueStep ==
  ASSUME IInv
  PROVE  /\ \A j \in Jobs : caller[j] = "checked" =>
               /\ Distinct(Append(jobq, j))
               /\ \A k : InSeq(Append(jobq, j), k) <=> InSeq(jobq, k) \/ k = j
         /\ jobq # <<>> =>
               /\ Distinct(Tail(jobq))
               /\ Head(jobq) \in Jobs /\ InSeq(jobq, Head(jobq))
               /\ \A k : InSeq(Tail(jobq), k) <=>
                           InSeq(jobq, k) /\ k # Head(jobq)
         /\ ~InSeq(jobq, NoJob)
<1>1. jobq \in Seq(Jobs) /\ Distinct(jobq)
  BY DEF IInv, TypeOK, Placed
<1>2. \A j \in Jobs : caller[j] = "checked" => ~InSeq(jobq, j)
  BY DEF IInv, Counted
<1> QED
  BY <1>1, <1>2, Enqueue, Dequeue, NotQueued

LEMMA StepPlaced == IInv /\ [Next]_vars => Placed'
<1> SUFFICES ASSUME IInv, [Next]_vars PROVE Placed'
  OBVIOUS
<1> USE DEF IInv, TypeOK, Placed
<1>0. ASSUME UNCHANGED <<jobq, hand, holds>>, Busy' \subseteq Busy  PROVE Placed'
  BY <1>0
<1>1. ASSUME NEW j \in Jobs, CheckStarted(j)  PROVE Placed'
  BY <1>0, <1>1 DEF CheckStarted, Busy
<1>2. ASSUME NEW j \in Jobs, Send(j)  PROVE Placed'
  <2>1. CASE closed
    BY <1>0, <1>2, <2>1 DEF Send, Busy
  <2>2. CASE ~closed
    <3>1. j # hand /\ \A g \in Busy : holds[g] # j
      BY <1>2 DEF Send, Counted
    <3>2. /\ Busy' = Busy /\ UNCHANGED <<hand, holds>>
          /\ jobq' = Append(jobq, j) /\ caller[j] = "checked"
      BY <1>2, <2>2 DEF Send, Busy
    <3> QED
      BY <3>1, <3>2, QueueStep
  <2> QED
    BY <2>1, <2>2
<1>3. ASSUME NEW g \in Goroutines, Receive(g)  PROVE Placed'
  <2>1. g \notin Busy /\ Busy' = Busy \union {g}
    BY <1>3 DEF Receive, Busy
  <2>2. /\ jobq # <<>> /\ jobq' = Tail(jobq) /\ hand' = hand
        /\ \A h \in Goroutines :
             holds'[h] = IF h = g THEN Head(jobq) ELSE holds[h]
    BY <1>3 DEF Receive
  <2>3. Busy \subseteq Goroutines
    BY DEF Busy
  <2> QED
    BY <2>1, <2>2, <2>3, QueueStep
<1>4. ASSUME NEW g \in Goroutines,
             ExitWorker(g) \/ RunJob(g) \/ Done(g) \/ Wake(g) \/ Release(g)
      PROVE  Placed'
  <2>1. Busy' \subseteq Busy
    BY <1>4 DEF ExitWorker, RunJob, Done, SignalDone, Wake, Release, Busy
  <2> QED
    BY <1>0, <1>4, <2>1 DEF ExitWorker, RunJob, Done, Wake, Release
<1>5. ASSUME NEW g \in Goroutines, Deliver(g)  PROVE Placed'
  <2>1. Busy' = Busy \ {g}
    BY <1>5 DEF Deliver, Busy
  <2>2. /\ UNCHANGED <<jobq, hand>>
        /\ \A h \in Goroutines \ {g} : holds'[h] = holds[h]
    BY <1>5 DEF Deliver
  <2>3. Busy \subseteq Goroutines
    BY DEF Busy
  <2> QED
    BY <2>1, <2>2, <2>3
<1>6. CASE LaunchWorker
  <2>1. Busy' = Busy
    <3>1. launched + 1 \notin Busy
      BY <1>6, GoroutineStates DEF LaunchWorker, Busy, Shape
    <3> QED
      BY <1>6, <3>1 DEF LaunchWorker, Busy
  <2> QED
    BY <1>0, <1>6, <2>1 DEF LaunchWorker
<1>7. CASE Dispatch
  <2>1. /\ Busy' = Busy /\ holds' = holds /\ jobq # <<>>
        /\ jobq' = Tail(jobq) /\ hand' = Head(jobq)
    BY <1>7 DEF Dispatch, Busy
  <2> QED
    BY <2>1, QueueStep
<1>8. CASE Acquire
  <2>1. Busy' \subseteq Busy
    BY <1>8 DEF Acquire, Busy
  <2> QED
    BY <1>0, <1>8, <2>1 DEF Acquire
<1>9. CASE Spawn
  <2>1. hand \in Jobs /\ hand \in Goroutines
    BY <1>9, GoroutineStates DEF Spawn, Shape
  <2>2. Busy' = Busy \union {hand} /\ hand \notin Busy
    BY <1>9, <2>1 DEF Spawn, Busy
  <2>3. /\ jobq' = jobq /\ hand' = NoJob
        /\ \A h \in Goroutines : holds'[h] = IF h = hand THEN hand ELSE holds[h]
    BY <1>9, <2>1 DEF Spawn
  <2>4. Busy \subseteq Goroutines
    BY DEF Busy
  <2> QED
    BY <2>1, <2>2, <2>3, <2>4, QueueStep, JobsAssumption
<1>10. CASE StopFlag \/ Stopper
  BY <1>0, <1>10 DEF StopFlag, Stopper, CloseQueue, WaitReturns, WaitSleeps, WaitWoken,
     AfterWait, Busy
<1>11. CASE Finished \/ UNCHANGED vars
  BY <1>0, <1>11 DEF Finished, vars, Busy
<1> QED
  BY <1>1, <1>2, <1>3, <1>4, <1>5, <1>6, <1>7, <1>8, <1>9, <1>10, <1>11
  DEF Next, Step, WorkerStep, Dispatcher, Stopper

LEMMA StepCounted == IInv /\ [Next]_vars => Counted'
<1> SUFFICES ASSUME IInv, [Next]_vars PROVE Counted'
  OBVIOUS
<1> USE DEF IInv, TypeOK, Counted
<1>0. ASSUME UNCHANGED <<jobq, hand, caller, runs, holds>>, Busy' \subseteq Busy,
             \A g \in Busy : worker'[g] = worker[g]
      PROVE  Counted'
  BY <1>0
<1>1. ASSUME NEW j \in Jobs, CheckStarted(j) \/ Send(j)  PROVE Counted'
  <2>1. /\ caller[j] \in {"idle", "checked"}
        /\ Busy' = Busy /\ UNCHANGED <<hand, runs, holds, worker>>
        /\ \A k \in Jobs \ {j} : caller'[k] = caller[k]
    BY <1>1 DEF CheckStarted, Send, Busy
  <2>2. \/ jobq' = jobq /\ caller'[j] \in {"checked", "panicked"}
        \/ /\ jobq' = Append(jobq, j) /\ caller[j] = "checked"
           /\ caller'[j] = "waiting"
    BY <1>1 DEF CheckStarted, Send
  <2>3. \A g \in Busy : holds[g] \in Jobs \ {j}
    BY <2>1 DEF Placed
  <2>4. \A k \in Jobs : InSeq(jobq', k) =>
         InSeq(jobq, k) \/ (k = j /\ caller'[j] = "waiting")
    <3>1. CASE jobq' = jobq
      BY <3>1
    <3>2. CASE jobq' = Append(jobq, j) /\ caller[j] = "checked" /\ caller'[j] = "waiting"
      <4>1. \A k : InSeq(Append(jobq, j), k) <=> InSeq(jobq, k) \/ k = j
        BY <3>2, QueueStep
      <4> QED
        BY <3>2, <4>1
    <3> QED
      BY <2>2, <3>1, <3>2
  <2>5. j # hand /\ ~InSeq(jobq, j) /\ runs[j] = 0
    BY <2>1
  <2> QED
    BY <2>1, <2>2, <2>3, <2>4, <2>5
<1>2. ASSUME NEW g \in Goroutines, Receive(g)  PROVE Counted'
  <2>1. /\ Busy' = Busy \union {g} /\ g \notin Busy /\ Busy \subseteq Goroutines
        /\ worker'[g] = "run" /\ holds'[g] = Head(jobq)
        /\ \A h \in Goroutines \ {g} : worker'[h] = worker[h] /\ holds'[h] = holds[h]
        /\ jobq # <<>> /\ jobq' = Tail(jobq) /\ UNCHANGED <<hand, runs, caller>>
    BY <1>2 DEF Receive, Busy
  <2>2. caller[Head(jobq)] = "waiting" /\ runs[Head(jobq)] = 0
    BY <2>1, QueueStep
  <2> QED
    BY <2>1, <2>2, QueueStep
<1>3. ASSUME NEW g \in Goroutines, ExitWorker(g) \/ Done(g) \/ Wake(g) \/ Release(g)
      PROVE  Counted'
  <2>1. Busy' \subseteq Busy /\ \A h \in Busy : worker'[h] = worker[h]
    BY <1>3 DEF ExitWorker, Done, SignalDone, Wake, Release, Busy
  <2> QED
    BY <1>0, <1>3, <2>1 DEF ExitWorker, Done, Wake, Release
<1>4. ASSUME NEW g \in Goroutines, RunJob(g)  PROVE Counted'
  <2>1. /\ Busy' = Busy /\ g \in Busy /\ Busy \subseteq Goroutines
        /\ worker[g] = "run" /\ worker'[g] = "send"
        /\ \A h \in Goroutines \ {g} : worker'[h] = worker[h]
        /\ UNCHANGED <<jobq, hand, caller, holds>>
    BY <1>4 DEF RunJob, Busy
  <2>2. holds[g] \in Jobs /\ runs[holds[g]] = 0 /\ caller[holds[g]] = "waiting"
    BY <2>1 DEF Placed
  <2>3. /\ runs'[holds[g]] = 1
        /\ \A j \in Jobs \ {holds[g]} : runs'[j] = runs[j]
    BY <1>4, <2>2 DEF RunJob
  <2>4. \A h \in Busy \ {g} : holds[h] \in Jobs \ {holds[g]}
    BY <2>1 DEF Placed
  <2>5. ~InSeq(jobq, holds[g]) /\ holds[g] # hand
    BY <2>1 DEF Placed
  <2>6. \A j \in Jobs :
          /\ runs'[j] \in {0, 1}
          /\ caller'[j] \in {"idle", "checked", "panicked"} => runs'[j] = 0
          /\ caller'[j] = "answered" => runs'[j] = 1
          /\ InSeq(jobq', j) \/ j = hand' => caller'[j] = "waiting" /\ runs'[j] = 0
    <3> TAKE j \in Jobs
    <3>1. CASE j = holds[g]
      BY <2>1, <2>2, <2>3, <2>5, <3>1
    <3>2. CASE j # holds[g]
      BY <2>1, <2>3, <3>2
    <3> QED
      BY <3>1, <3>2
  <2>7. \A h \in Busy' :
          /\ caller'[holds'[h]] = "waiting"
          /\ worker'[h] = "run" => runs'[holds'[h]] = 0
          /\ worker'[h] = "send" => runs'[holds'[h]] = 1
    BY <2>1, <2>2, <2>3, <2>4
  <2> QED
    BY <2>6, <2>7
<1>5. ASSUME NEW g \in Goroutines, Deliver(g)  PROVE Counted'
  <2>1. /\ Busy' = Busy \ {g} /\ g \in Busy /\ Busy \subseteq Goroutines
        /\ worker[g] = "send" /\ UNCHANGED <<jobq, hand, runs>>
        /\ \A h \in Goroutines \ {g} : worker'[h] = worker[h] /\ holds'[h] = holds[h]
    BY <1>5 DEF Deliver, Busy
  <2>2. holds[g] \in Jobs /\ ~InSeq(jobq, holds[g]) /\ holds[g] # hand
        /\ runs[holds[g]] = 1
    BY <2>1 DEF Placed
  <2>3. /\ caller'[holds[g]] = "answered"
        /\ \A j \in Jobs \ {holds[g]} : caller'[j] = caller[j]
    BY <1>5, <2>2 DEF Deliver
  <2>4. \A h \in Busy \ {g} : holds[h] \in Jobs \ {holds[g]}
    BY <2>1 DEF Placed
  <2> QED
    BY <2>1, <2>2, <2>3, <2>4
<1>6. CASE LaunchWorker
  <2>1. launched + 1 \notin Busy
    BY <1>6, GoroutineStates DEF LaunchWorker, Busy, Shape
  <2>2. Busy' \subseteq Busy /\ \A g \in Busy : worker'[g] = worker[g]
    BY <1>6, <2>1 DEF LaunchWorker, Busy
  <2> QED
    BY <1>0, <1>6, <2>2 DEF LaunchWorker
<1>7. CASE Dispatch
  <2>1. /\ Busy' = Busy /\ UNCHANGED <<holds, worker, caller, runs>>
        /\ jobq # <<>> /\ jobq' = Tail(jobq) /\ hand' = Head(jobq)
    BY <1>7 DEF Dispatch, Busy
  <2> QED
    BY <2>1, QueueStep
<1>8. CASE Acquire
  <2>1. Busy' \subseteq Busy /\ \A g \in Busy : worker'[g] = worker[g]
    BY <1>8 DEF Acquire, Busy
  <2> QED
    BY <1>0, <1>8, <2>1 DEF Acquire
<1>9. CASE Spawn
  <2>1. hand \in Jobs /\ hand \in Goroutines
    BY <1>9, GoroutineStates DEF Spawn, Shape
  <2>2. /\ Busy' = Busy \union {hand} /\ hand \notin Busy /\ Busy \subseteq Goroutines
        /\ worker'[hand] = "run" /\ holds'[hand] = hand
        /\ \A h \in Goroutines \ {hand} : worker'[h] = worker[h] /\ holds'[h] = holds[h]
        /\ hand' = NoJob /\ UNCHANGED <<jobq, caller, runs>>
    BY <1>9, <2>1 DEF Spawn, Busy
  <2> QED
    BY <2>1, <2>2, JobsAssumption
<1>10. CASE StopFlag \/ Stopper
  BY <1>0, <1>10 DEF StopFlag, Stopper, CloseQueue, WaitReturns, WaitSleeps, WaitWoken,
     AfterWait, Busy
<1>11. CASE Finished \/ UNCHANGED vars
  BY <1>0, <1>11 DEF Finished, vars, Busy
<1> QED
  BY <1>1, <1>2, <1>3, <1>4, <1>5, <1>6, <1>7, <1>8, <1>9, <1>10, <1>11
  DEF Next, Step, WorkerStep, Dispatcher, Stopper

-----------------------------------------------------------------------------
(* Drained.                                                                 *)

LEMMA StepDrained == IInv /\ [Next]_vars => Drained'
<1> SUFFICES ASSUME IInv, [Next]_vars PROVE Drained'
  OBVIOUS
<1> USE DEF IInv, TypeOK, Drained
<1>0. ASSUME UNCHANGED <<jobq, closed, hand, caller, holds, manned>>, Busy' = Busy,
             stop' \in {stop, "dead"},
             \A g \in Goroutines : worker'[g] \in {"wake", "exited"} =>
                                     worker[g] \in {"wake", "exited"}
      PROVE  Drained'
  BY <1>0
<1>1. ASSUME NEW j \in Jobs, CheckStarted(j)  PROVE Drained'
  <2>1. /\ Busy' = Busy /\ UNCHANGED <<jobq, closed, hand, stop, worker, holds, manned>>
        /\ \A k \in Jobs : caller'[k] = "waiting" => caller[k] = "waiting"
    BY <1>1 DEF CheckStarted, Busy
  <2> QED
    BY <2>1
<1>2. ASSUME NEW j \in Jobs, Send(j)  PROVE Drained'
  <2>1. /\ Busy' = Busy /\ UNCHANGED <<closed, hand, stop, worker, holds, manned>>
        /\ \A k \in Jobs \ {j} : caller'[k] = caller[k]
        /\ caller[j] = "checked"
    BY <1>2 DEF Send, Busy
  <2>2. CASE closed
    <3>1. jobq' = jobq /\ caller'[j] = "panicked"
      BY <1>2, <2>2 DEF Send
    <3> QED
      BY <2>1, <3>1
  <2>3. CASE ~closed
    <3>1. jobq' = Append(jobq, j)
      BY <1>2, <2>3 DEF Send
    <3>2. \A k : InSeq(jobq', k) <=> InSeq(jobq, k) \/ k = j
      BY <2>1, <3>1, QueueStep
    <3>3. \A k \in Jobs : caller'[k] = "waiting" =>
            InSeq(jobq', k) \/ k = hand' \/ \E g \in Busy' : holds'[g] = k
      BY <2>1, <3>2
    <3>4. Strategy = "WorkerPool" =>
            /\ \A g \in Goroutines : worker[g] \notin {"wake", "exited"}
            /\ stop \notin {"wait", "asleep", "woken", "stopped"}
      BY <2>3
    <3> QED
      BY <2>1, <3>3, <3>4
  <2> QED
    BY <2>2, <2>3
<1>3. ASSUME NEW g \in Goroutines, Receive(g)  PROVE Drained'
  <2>1. /\ Busy' = Busy \union {g} /\ g \notin Busy /\ Busy \subseteq Goroutines
        /\ holds'[g] = Head(jobq)
        /\ \A h \in Goroutines \ {g} : worker'[h] = worker[h] /\ holds'[h] = holds[h]
        /\ worker'[g] = "run"
        /\ jobq # <<>> /\ jobq' = Tail(jobq)
        /\ UNCHANGED <<hand, caller, closed, stop, manned>>
    BY <1>3 DEF Receive, Busy
  <2>2. \A k : InSeq(jobq, k) => InSeq(jobq', k) \/ k = holds'[g]
    BY <2>1, QueueStep
  <2>3. \A k \in Jobs : caller'[k] = "waiting" =>
          InSeq(jobq', k) \/ k = hand' \/ \E h \in Busy' : holds'[h] = k
    <3> TAKE k \in Jobs
    <3> HAVE caller'[k] = "waiting"
    <3>1. CASE InSeq(jobq, k) \/ k = hand
      BY <2>1, <2>2, <3>1
    <3>2. CASE \E h \in Busy : holds[h] = k
      BY <2>1, <3>2
    <3> QED
      BY <2>1, <3>1, <3>2
  <2> QED
    BY <2>1, <2>3
<1>4. ASSUME NEW g \in Goroutines, ExitWorker(g)  PROVE Drained'
  <2>1. /\ Busy' = Busy /\ closed /\ jobq = <<>>
        /\ UNCHANGED <<jobq, closed, hand, stop, caller, holds, manned>>
    BY <1>4 DEF ExitWorker, SignalDone, Busy
  <2> QED
    BY <2>1
<1>5. ASSUME NEW g \in Goroutines, RunJob(g)  PROVE Drained'
  <2>1. /\ Busy' = Busy
        /\ \A h \in Goroutines : worker'[h] \in {"wake", "exited"} =>
                                worker[h] \in {"wake", "exited"}
    BY <1>5 DEF RunJob, Busy
  <2> QED
    BY <1>0, <1>5, <2>1 DEF RunJob
<1>6. ASSUME NEW g \in Goroutines, Deliver(g)  PROVE Drained'
  <2>1. /\ Busy' = Busy \ {g} /\ g \in Busy /\ Busy \subseteq Goroutines
        /\ UNCHANGED <<jobq, hand, closed, stop, manned>>
        /\ \A h \in Goroutines \ {g} : worker'[h] = worker[h] /\ holds'[h] = holds[h]
        /\ worker'[g] \notin {"wake", "exited"}
    BY <1>6 DEF Deliver, Busy
  <2>2. holds[g] \in Jobs
    BY <2>1 DEF Placed
  <2>3. /\ caller'[holds[g]] = "answered"
        /\ \A j \in Jobs \ {holds[g]} : caller'[j] = caller[j]
    BY <1>6, <2>2 DEF Deliver
  <2>4. \A k \in Jobs : caller'[k] = "waiting" =>
          InSeq(jobq', k) \/ k = hand' \/ \E h \in Busy' : holds'[h] = k
    <3> TAKE k \in Jobs
    <3> HAVE caller'[k] = "waiting"
    <3>1. k # holds[g] /\ caller[k] = "waiting"
      BY <2>2, <2>3
    <3>2. CASE InSeq(jobq, k) \/ k = hand
      BY <2>1, <3>2
    <3>3. ASSUME NEW h \in Busy, holds[h] = k  PROVE \E i \in Busy' : holds'[i] = k
      BY <2>1, <3>1, <3>3
    <3> QED
      BY <3>1, <3>2, <3>3
  <2> QED
    BY <2>1, <2>4
<1>7. ASSUME NEW g \in Goroutines, Done(g) \/ Release(g)  PROVE Drained'
  <2>1. Strategy # "WorkerPool"
    BY <1>7 DEF Done, Release, Shape
  <2>2. Busy' = Busy /\ UNCHANGED <<jobq, hand, caller, holds>>
    BY <1>7 DEF Done, SignalDone, Release, Busy
  <2> QED
    BY <2>1, <2>2
<1>8. CASE LaunchWorker
  <2>1. /\ Busy' = Busy
        /\ \A h \in Goroutines : worker'[h] \in {"wake", "exited"} =>
                                worker[h] \in {"wake", "exited"}
    <3>1. launched + 1 \notin Busy
      BY <1>8, GoroutineStates DEF LaunchWorker, Busy, Shape
    <3> QED
      BY <1>8, <3>1 DEF LaunchWorker, Busy
  <2> QED
    BY <1>0, <1>8, <2>1 DEF LaunchWorker, Add
<1>9. CASE Dispatch
  <2>1. /\ Strategy # "WorkerPool" /\ Busy' = Busy /\ UNCHANGED <<holds, caller>>
        /\ jobq # <<>> /\ jobq' = Tail(jobq) /\ hand = NoJob /\ hand' = Head(jobq)
    BY <1>9 DEF Dispatch, Busy
  <2> QED
    BY <2>1, QueueStep, JobsAssumption
<1>10. CASE Acquire
  <2>1. Strategy # "WorkerPool"
    BY <1>10 DEF Acquire, Shape
  <2>2. Busy' = Busy /\ UNCHANGED <<jobq, hand, caller, holds>>
    BY <1>10 DEF Acquire, Busy
  <2> QED
    BY <2>1, <2>2
<1>11. CASE Spawn
  <2>1. hand \in Jobs /\ hand \in Goroutines /\ Strategy # "WorkerPool"
    BY <1>11, GoroutineStates DEF Spawn, Shape
  <2>2. /\ Busy' = Busy \union {hand} /\ hand \notin Busy /\ Busy \subseteq Goroutines
        /\ holds'[hand] = hand
        /\ \A h \in Goroutines \ {hand} : holds'[h] = holds[h]
        /\ UNCHANGED <<jobq, caller>>
    BY <1>11, <2>1 DEF Spawn, Busy
  <2> QED
    BY <2>1, <2>2
<1>12. CASE StopFlag \/ CloseQueue \/ WaitSleeps \/ (WaitWoken /\ ~AfterWait)
  <2>1. /\ Busy' = Busy /\ UNCHANGED <<jobq, hand, worker, caller, holds, manned>>
        /\ Strategy = "WorkerPool" => stop' # "stopped"
        /\ closed => closed'
        /\ Strategy = "WorkerPool" /\ stop' # "dead" /\ stop' # "close" => closed'
    BY <1>12 DEF StopFlag, CloseQueue, WaitSleeps, WaitWoken, Busy
  <2> QED
    BY <2>1
<1>13. CASE WaitReturns \/ (WaitWoken /\ AfterWait)
  <2>1. /\ Busy' = Busy /\ UNCHANGED <<jobq, closed, hand, worker, caller, holds>>
        /\ stop \in {"wait", "woken"} /\ wg = 0 /\ manned' = (launched > 0)
        /\ Strategy = "WorkerPool" => stop' = "stopped"
    BY <1>13 DEF WaitReturns, WaitWoken, AfterWait, Busy
  <2>2. Active = {}
    BY <2>1, FS_EmptySet DEF Counts
  <2>3. Busy = {}
    BY <2>2 DEF Active, Busy
  <2>4. ASSUME Strategy = "WorkerPool", launched > 0  PROVE jobq = <<>>
    <3>1. 1 \in Goroutines /\ ~(1 > launched)
      BY <2>4, GoroutineStates
    <3>2. worker[1] \in {"wake", "exited"}
      BY <2>2, <2>4, <3>1 DEF Active, Shape
    <3> QED
      BY <2>4, <3>1, <3>2
  <2> QED
    BY <2>1, <2>3, <2>4
<1>14. CASE Finished \/ UNCHANGED vars
  BY <1>0, <1>14 DEF Finished, vars, Busy
<1>15. ASSUME NEW g \in Goroutines, Wake(g)  PROVE Drained'
  <2>1. /\ Busy' = Busy /\ worker[g] = "wake" /\ stop' = "woken"
        /\ UNCHANGED <<jobq, closed, hand, caller, holds, manned>>
        /\ \A h \in Goroutines \ {g} : worker'[h] = worker[h]
    BY <1>15 DEF Wake, Busy
  <2> QED
    BY <2>1
<1> QED
  BY <1>1, <1>2, <1>3, <1>4, <1>5, <1>6, <1>7, <1>8, <1>9, <1>10, <1>11, <1>12,
     <1>13, <1>14, <1>15 DEF Next, Step, WorkerStep, Dispatcher, Stopper

-----------------------------------------------------------------------------
(* Waker.                                                                   *)

LEMMA StepWaker == IInv /\ [Next]_vars => Waker'
<1> SUFFICES ASSUME IInv, [Next]_vars PROVE Waker'
  OBVIOUS
<1> USE DEF IInv, TypeOK, Waker, Waking, Dead
<1>0. ASSUME UNCHANGED <<wg, stop>>,
             \A h \in Goroutines : worker'[h] = "wake" => worker[h] = "wake"
      PROVE  Waker'
  BY <1>0
<1>1. ASSUME NEW j \in Jobs, CheckStarted(j) \/ Send(j)  PROVE Waker'
  BY <1>0, <1>1 DEF CheckStarted, Send
<1>2. ASSUME NEW g \in Goroutines,
             Receive(g) \/ RunJob(g) \/ Deliver(g) \/ Release(g)
      PROVE  Waker'
  BY <1>0, <1>2 DEF Receive, RunJob, Deliver, Release
<1>3. ASSUME NEW g \in Goroutines, ExitWorker(g) \/ Done(g)  PROVE Waker'
  <2>1. PICK l \in {"exited", "release"} : SignalDone(g, l)
    BY <1>3 DEF ExitWorker, Done
  <2>2. stop' = stop /\ g \in Active
    BY <1>3 DEF ExitWorker, Done, Active
  <2>3. wg # 0
    BY <2>2, FS_EmptySet DEF Counts
  <2>4. CASE Dead
    BY <1>3, <2>4 DEF ExitWorker, Done, Next, Finished, vars
  <2>5. CASE ~Dead
    <3>1. \A h \in Goroutines : worker[h] # "wake"
      BY <2>3, <2>5
    <3> QED
      BY <2>1, <2>2, <3>1 DEF SignalDone
  <2> QED
    BY <2>4, <2>5
<1>4. ASSUME NEW g \in Goroutines, Wake(g)  PROVE Waker'
  BY <1>4 DEF Wake
<1>5. CASE LaunchWorker \/ Spawn
  <2>1. \A h \in Goroutines : worker'[h] = "wake" => worker[h] = "wake"
    BY <1>5 DEF LaunchWorker, Spawn
  <2>2. (Waking \/ Dead) => Dead'
    BY <1>5 DEF LaunchWorker, Spawn, Add
  <2> QED
    BY <2>1, <2>2
<1>6. CASE Dispatch \/ Acquire
  BY <1>0, <1>6 DEF Dispatch, Acquire
<1>7. CASE StopFlag \/ Stopper
  <2>1. stop \notin {"asleep", "dead"} /\ worker' = worker
    BY <1>7 DEF StopFlag, Stopper, CloseQueue, WaitReturns, WaitSleeps, WaitWoken,
       AfterWait
  <2> QED
    BY <2>1
<1>8. CASE Finished \/ UNCHANGED vars
  BY <1>0, <1>8 DEF Finished, vars
<1> QED
  BY <1>1, <1>2, <1>3, <1>4, <1>5, <1>6, <1>7, <1>8
  DEF Next, Step, WorkerStep, Dispatcher

-----------------------------------------------------------------------------
(* The theorems.                                                            *)

LEMMA Invariance == Spec => []IInv
<1>1. IInv /\ [Next]_vars => IInv'
  <2> SUFFICES ASSUME IInv, [Next]_vars PROVE IInv'
    OBVIOUS
  <2>1. TypeOK' /\ Shape' /\ Counts'
    BY StepTypeOK, StepShape, StepCounts
  <2>2. Placed' /\ Counted' /\ Drained' /\ Waker'
    BY StepPlaced, StepCounted, StepDrained, StepWaker
  <2> QED
    BY <2>1, <2>2 DEF IInv
<1> QED
  BY <1>1, InitIInv, PTL DEF Spec

\* The goroutines that have a job are workers of the pool, or hold a token.
Bounded == IsFiniteSet(Busy) /\ Cardinality(Busy) <= MaxWorkers

LEMMA BusyIsBounded == IInv => Bounded
<1> SUFFICES ASSUME IInv PROVE IsFiniteSet(Busy) /\ Cardinality(Busy) <= MaxWorkers
  BY DEF Bounded
<1>1. CASE Strategy = "WorkerPool"
  <2>1. Busy \subseteq 1..MaxWorkers
    BY <1>1 DEF Busy, Goroutines
  <2>2. IsFiniteSet(1..MaxWorkers) /\ Cardinality(1..MaxWorkers) = MaxWorkers
    BY GoroutineStates, FS_Interval
  <2> QED
    BY <2>1, <2>2, FS_Subset
<1>2. CASE Strategy = "Semaphore"
  <2>1. /\ IsFiniteSet(Holders) /\ Cardinality(Holders) = sem
        /\ sem \in Nat /\ sem <= MaxWorkers
    BY <1>2, GoroutineStates DEF IInv, TypeOK, Counts
  <2>2. Busy \subseteq Holders
    BY DEF Busy, Holders
  <2>3. IsFiniteSet(Busy) /\ Cardinality(Busy) <= Cardinality(Holders)
    BY <2>1, <2>2, FS_Subset
  <2>4. Cardinality(Busy) \in Nat
    BY <2>3, FS_CardinalityType
  <2> QED
    BY <2>1, <2>3, <2>4, GoroutineStates, SMT
<1> QED
  BY <1>1, <1>2, GoroutineStates

\* The counter of the WaitGroup does not fall below 0, on which the runtime
\* would panic, and no channel holds more than its capacity.
THEOREM TypeCorrect == Spec => []TypeOK
<1>1. IInv => TypeOK
  BY DEF IInv
<1> QED
  BY <1>1, Invariance, PTL

\* A job never runs twice, an answered caller had its own job run, and the
\* job of a caller that panicked does not run.
THEOREM JobsRunOnce == Spec => []RunsOnce
<1>1. IInv => RunsOnce
  BY DEF IInv, Counted, RunsOnce
<1> QED
  BY <1>1, Invariance, PTL

\* No more than cdn.io_workers jobs run at one time: with the pool there are
\* no more workers, with the semaphore each running job holds a token.
THEOREM ParallelismIsBounded == Spec => []BoundedIO
<1>1. IInv => BoundedIO
  BY BusyIsBounded DEF Bounded, BoundedIO
<1> QED
  BY <1>1, Invariance, PTL

\* When Stop returns to a pool that had a worker, no caller is left in Wait.
THEOREM StopDrainsThePool == Spec => []StopDrains
<1>1. IInv => StopDrains
  <2> SUFFICES ASSUME IInv, Strategy = "WorkerPool", stop = "stopped", manned,
                      NEW j \in Jobs, caller[j] = "waiting"
               PROVE  FALSE
    BY DEF StopDrains
  <2>1. jobq = <<>> /\ Busy = {} /\ hand = NoJob
    BY DEF IInv, Drained, Shape
  <2> QED
    BY <2>1, NotQueued, JobsAssumption DEF IInv, Drained
<1> QED
  BY <1>1, Invariance, PTL

-----------------------------------------------------------------------------
(* When the WaitGroup cannot panic.                                         *)

\* Safe: nothing is left that would raise the counter, and a Wait that has
\* been woken has not seen it raised.
Safe == Settled /\ ~Dead /\ (stop = "woken" => wg = 0)

LEMMA StepSafe == IInv /\ Safe /\ [Next]_vars => Safe'
<1> SUFFICES ASSUME IInv, Safe, [Next]_vars PROVE Safe'
  OBVIOUS
<1> USE GoroutineStates DEF IInv, TypeOK, Safe, Settled, Dead
<1>0. ~LaunchWorker /\ ~Spawn /\ ~Dispatch
  BY DEF LaunchWorker, Spawn, Dispatch, Shape
<1>1. ASSUME UNCHANGED <<started, jobq, launched, hand, caller>>,
             stop' # "dead", stop' = "woken" => wg' = 0
      PROVE  Safe'
  BY <1>1
<1>2. ASSUME NEW j \in Jobs, CheckStarted(j) \/ Send(j)  PROVE Safe'
  <2>1. UNCHANGED <<started, launched, hand, wg, stop>>
    BY <1>2 DEF CheckStarted, Send
  <2>2. CASE Strategy = "WorkerPool"
    BY <2>1, <2>2
  <2>3. CASE Strategy = "Semaphore"
    <3>1. caller' = [caller EXCEPT ![j] = "panicked"] /\ jobq' = jobq
      BY <1>2, <2>3 DEF CheckStarted, Send
    <3> QED
      BY <2>1, <2>3, <3>1
  <2> QED
    BY <2>2, <2>3
<1>3. ASSUME NEW g \in Goroutines, Receive(g)  PROVE Safe'
  <2>1. Strategy = "WorkerPool" /\ UNCHANGED <<launched, wg, stop>>
    BY <1>3 DEF Receive
  <2> QED
    BY <2>1
<1>4. ASSUME NEW g \in Goroutines, ExitWorker(g) \/ Done(g)  PROVE Safe'
  <2>1. g \in Active
    BY <1>4 DEF ExitWorker, Done, Active
  <2>2. wg # 0
    BY <2>1, FS_EmptySet DEF Counts
  <2>3. UNCHANGED <<started, jobq, launched, hand, caller, stop>>
    BY <1>4 DEF ExitWorker, Done
  <2> QED
    BY <1>1, <2>2, <2>3
<1>5. ASSUME NEW g \in Goroutines, Deliver(g)  PROVE Safe'
  <2>1. /\ UNCHANGED <<started, jobq, launched, hand, wg, stop>>
        /\ \A j \in Jobs : caller'[j] = "checked" => caller[j] = "checked"
    BY <1>5 DEF Deliver
  <2> QED
    BY <2>1
<1>6. ASSUME NEW g \in Goroutines, RunJob(g) \/ Release(g)  PROVE Safe'
  BY <1>1, <1>6 DEF RunJob, Release
<1>7. ASSUME NEW g \in Goroutines, Wake(g)  PROVE Safe'
  <2>1. wg = 0
    BY <1>7 DEF Wake, Waker, Waking
  <2> QED
    BY <1>1, <1>7, <2>1 DEF Wake
<1>8. CASE Acquire
  BY <1>1, <1>8 DEF Acquire
<1>9. CASE StopFlag
  BY <1>9 DEF StopFlag
<1>10. CASE Stopper
  <2>1. UNCHANGED <<started, jobq, launched, hand, caller>>
    BY <1>10 DEF Stopper, CloseQueue, WaitReturns, WaitSleeps, WaitWoken
  <2>2. stop' \notin {"dead", "woken"}
    BY <1>10 DEF Stopper, CloseQueue, WaitReturns, WaitSleeps, WaitWoken, AfterWait
  <2> QED
    BY <1>1, <2>1, <2>2
<1>11. CASE Finished \/ UNCHANGED vars
  BY <1>1, <1>11 DEF Finished, vars
<1> QED
  BY <1>0, <1>2, <1>3, <1>4, <1>5, <1>6, <1>7, <1>8, <1>9, <1>10, <1>11
  DEF Next, Step, WorkerStep, Dispatcher

\* Once every worker was launched or, with the semaphore, every accepted job
\* has its goroutine, Stop does not end the process, however its Wait and the
\* last wg.Done interleave.
THEOREM StopIsClean == Spec => CleanStop
<1>1. Settled /\ stop \notin {"woken", "dead"} => Safe
  BY DEF Safe, Dead
<1>2. Safe => ~Dead
  BY DEF Safe
<1>3. Spec => [](Settled /\ stop \notin {"woken", "dead"} => []~Dead)
  BY <1>1, <1>2, StepSafe, Invariance, PTL DEF Spec
<1> QED
  BY <1>3 DEF CleanStop

-----------------------------------------------------------------------------
(* The refinement of Executor.                                              *)

\* Order: the flag falls when Stop begins, and the queue is closed by Stop.
Order ==
  /\ started \in {0, 1}
  /\ stop \in {"no", "close", "wait", "asleep", "woken", "stopped", "dead"}
  /\ started = 0 <=> stop # "no"
  /\ closed => stop \in {"wait", "asleep", "woken", "stopped", "dead"}
  /\ closed /\ Strategy = "Semaphore" => stop = "stopped"

LEMMA OrderInvariance == Spec => []Order
<1>1. Init => Order
  BY DEF Init, Order
<1>2. IInv /\ Order /\ [Next]_vars => Order'
  <2> SUFFICES ASSUME IInv, Order, [Next]_vars PROVE Order'
    OBVIOUS
  <2>1. CASE StopFlag
    BY <2>1 DEF StopFlag, Order
  <2>2. CASE CloseQueue
    BY <2>2, GoroutineStates DEF CloseQueue, Order
  <2>3. CASE WaitReturns \/ WaitSleeps \/ WaitWoken
    BY <2>3, GoroutineStates DEF WaitReturns, WaitSleeps, WaitWoken, AfterWait, Order
  <2>4. CASE LaunchWorker \/ Spawn
    <3>1. /\ started' = started /\ closed' = closed
          /\ stop' = stop \/ (stop = "asleep" /\ stop' = "dead")
      BY <2>4 DEF LaunchWorker, Spawn, Add, Waking
    <3> QED
      BY <3>1, GoroutineStates DEF Order
  <2>5. ASSUME NEW g \in Goroutines, Wake(g)  PROVE Order'
    <3>1. stop \in {"asleep", "dead"}
      BY <2>5 DEF Wake, IInv, Waker, Waking, Dead
    <3> QED
      BY <2>5, <3>1 DEF Wake, Order
  <2>6. CASE ~(StopFlag \/ Stopper \/ LaunchWorker \/ Spawn
               \/ \E g \in Goroutines : Wake(g))
    <3>1. started' = started /\ stop' = stop /\ closed' = closed
      BY <2>6 DEF Next, Step, WorkerStep, Dispatcher, vars, CheckStarted, Send, Receive,
         ExitWorker, RunJob, Deliver, Done, Release, Dispatch, Acquire, Finished
    <3> QED
      BY <3>1 DEF Order
  <2> QED
    BY <2>1, <2>2, <2>3, <2>4, <2>5, <2>6 DEF Stopper
<1> QED
  BY <1>1, <1>2, Invariance, PTL DEF Spec

\* A goroutine has the job.
Held(j) == \E g \in Busy : holds[g] = j

\* A job whose caller, place and count do not change has the same status.
LEMMA SameStatus ==
  ASSUME NEW j \in Jobs, caller'[j] = caller[j], runs'[j] = runs[j], Held(j)' <=> Held(j)
  PROVE  StatusOf(j)' = StatusOf(j)
  BY DEF StatusOf, Held

\* The steps that Executor does not see: no caller returns or is accepted, no
\* goroutine gets a job or runs one.
Unseen ==
  /\ caller' = caller /\ runs' = runs /\ started' = started /\ closed' = closed
  /\ Quiet' = Quiet
  /\ \A g \in Goroutines : (g \in Busy' <=> g \in Busy) /\ (g \in Busy => holds'[g] = holds[g])

LEMMA UnseenStutters ==
  ASSUME Unseen
  PROVE  UNCHANGED Promise!vars
<1>1. \A j \in Jobs : Held(j)' <=> Held(j)
  BY DEF Unseen, Held, Busy
<1>2. \A j \in Jobs : StatusOf(j)' = StatusOf(j)
  BY <1>1, SameStatus DEF Unseen
<1>3. Phase' = Phase /\ Quiet' = Quiet
  BY DEF Unseen, Phase
<1> QED
  BY <1>2, <1>3 DEF Promise!vars

\* One job goes from one status to the next.
LEMMA OneMoves ==
  ASSUME NEW j \in Jobs, NEW s, StatusOf(j)' = s,
         \A k \in Jobs \ {j} : StatusOf(k)' = StatusOf(k),
         started' = started, closed' = closed, Quiet' = Quiet
  PROVE  Promise!Becomes(j, s)
<1>1. Phase' = Phase
  BY DEF Phase
<1>2. [k \in Jobs |-> StatusOf(k)'] = [[k \in Jobs |-> StatusOf(k)] EXCEPT ![j] = s]
  OBVIOUS
<1> QED
  BY <1>1, <1>2 DEF Promise!Becomes

LEMMA BusyStaysBounded == IInv' => Bounded'
  BY BusyIsBounded, PTL

\* A goroutine g gets the job j, which was accepted and nobody's.
LEMMA TakingIsTake ==
  ASSUME IInv, IInv', NEW j \in Jobs, NEW g \in Goroutines, g \notin Busy,
         caller[j] = "waiting", runs[j] = 0, ~Held(j),
         worker' = [worker EXCEPT ![g] = "run"], holds' = [holds EXCEPT ![g] = j],
         caller' = caller, runs' = runs,
         started' = started, closed' = closed, Quiet' = Quiet
  PROVE  Promise!Take(j)
<1>1. Busy' = Busy \union {g} /\ holds'[g] = j /\ \A h \in Busy : holds'[h] = holds[h]
  BY DEF IInv, TypeOK, Busy
<1>2. \A k \in Jobs : Held(k)' <=> Held(k) \/ k = j
  BY <1>1 DEF Held
<1>3. \A k \in Jobs \ {j} : StatusOf(k)' = StatusOf(k)
  BY <1>2, SameStatus
<1>4. StatusOf(j) = "accepted" /\ StatusOf(j)' = "taken"
  BY <1>2 DEF StatusOf, Held
<1>5. Cardinality(Promise!Taken \union {j}) <= MaxWorkers
  <2> DEFINE f == [h \in Busy' |-> holds'[h]]
             T == {f[h] : h \in Busy'}
  <2>1. IsFiniteSet(Busy') /\ Cardinality(Busy') <= MaxWorkers
    BY BusyStaysBounded DEF Bounded
  <2>2. IsFiniteSet(T) /\ Cardinality(T) <= Cardinality(Busy')
    <3>1. f \in Surjection(Busy', T)
      BY DEF Surjection
    <3> QED
      BY <2>1, <3>1, FS_Surjection
  <2>3. Promise!Taken \union {j} \subseteq T
    <3>1. \A k \in Jobs : StatusOf(k) \in {"taken", "run"} => Held(k)
      BY DEF StatusOf, Held, IInv, TypeOK
    <3>2. \A k \in Jobs : Held(k) \/ k = j => k \in T
      BY <1>1 DEF Held
    <3> QED
      BY <3>1, <3>2 DEF Promise!Taken
  <2>4. Cardinality(Promise!Taken \union {j}) <= Cardinality(T)
    BY <2>2, <2>3, FS_Subset
  <2>5. /\ Cardinality(Promise!Taken \union {j}) \in Nat
        /\ Cardinality(T) \in Nat /\ Cardinality(Busy') \in Nat
    BY <2>1, <2>2, <2>3, FS_Subset, FS_CardinalityType
  <2> QED
    BY <2>1, <2>2, <2>4, <2>5, GoroutineStates
<1>6. Promise!Becomes(j, "taken")
  BY <1>3, <1>4, OneMoves
<1>7. Promise!Cardinality(Promise!Taken \union {j}) = Cardinality(Promise!Taken \union {j})
  BY DEF Promise!Cardinality, Cardinality
<1> QED
  BY <1>4, <1>5, <1>6, <1>7 DEF Promise!Take

LEMMA InitExecutor == Init => Promise!Init
  BY DEF Init, Promise!Init, StatusOf, Phase, Quiet

LEMMA StepExecutor == IInv /\ IInv' /\ Order /\ [Next]_vars => [Promise!Next]_(Promise!vars)
<1> SUFFICES ASSUME IInv, IInv', Order, [Next]_vars PROVE [Promise!Next]_(Promise!vars)
  OBVIOUS
<1>0. /\ caller \in [Jobs -> {"idle", "checked", "waiting", "answered", "panicked"}]
      /\ worker \in [Goroutines -> {"none", "recv", "token", "run", "send", "done",
                                    "wake", "release", "exited"}]
      /\ holds \in [Goroutines -> Jobs \union {NoJob}]
      /\ runs \in [Jobs -> Nat]
      /\ closed \in BOOLEAN
  BY DEF IInv, TypeOK
<1>1. ASSUME NEW j \in Jobs, CheckStarted(j) \/ Send(j)
      PROVE  [Promise!Next]_(Promise!vars)
  <2>1. /\ worker' = worker /\ holds' = holds /\ runs' = runs
        /\ started' = started /\ closed' = closed /\ Quiet' = Quiet
        /\ caller[j] \in {"idle", "checked"} /\ \A k \in Jobs \ {j} : caller'[k] = caller[k]
    BY <1>0, <1>1 DEF CheckStarted, Send, Quiet
  <2>2. \A k \in Jobs : Held(k)' <=> Held(k)
    BY <2>1 DEF Held, Busy
  <2>3. \A k \in Jobs \ {j} : StatusOf(k)' = StatusOf(k)
    BY <2>1, <2>2, SameStatus
  <2>4. StatusOf(j) = "new"
    BY <2>1 DEF StatusOf
  <2>5. CASE caller'[j] = "checked"
    <3>1. StatusOf(j)' = StatusOf(j)
      BY <2>4, <2>5 DEF StatusOf
    <3>2. Phase' = Phase /\ Quiet' = Quiet
      BY <2>1 DEF Phase
    <3> QED
      BY <2>3, <3>1, <3>2 DEF Promise!vars
  <2>6. CASE caller'[j] = "panicked"
    <3>1. StatusOf(j)' = "refused"
      BY <2>6 DEF StatusOf
    <3>2. Phase # "open"
      BY <1>0, <1>1, <2>6 DEF CheckStarted, Send, Phase
    <3>3. Promise!Refuse(j)
      BY <2>1, <2>3, <2>4, <3>1, <3>2, OneMoves DEF Promise!Refuse
    <3> QED
      BY <3>3 DEF Promise!Next
  <2>7. CASE caller'[j] = "waiting"
    <3>1. ~closed /\ caller[j] = "checked"
      BY <1>0, <1>1, <2>7 DEF CheckStarted, Send
    <3>2. ~Held(j)
      BY <3>1 DEF IInv, Counted, Held
    <3>3. StatusOf(j)' = "accepted"
      BY <2>2, <2>7, <3>2 DEF StatusOf, Held
    <3>4. Phase # "closed"
      BY <3>1 DEF Phase
    <3>5. Promise!Accept(j)
      BY <2>1, <2>3, <2>4, <3>3, <3>4, OneMoves DEF Promise!Accept
    <3> QED
      BY <3>5 DEF Promise!Next
  <2>8. caller'[j] \in {"checked", "panicked", "waiting"}
    BY <1>0, <1>1 DEF CheckStarted, Send
  <2> QED
    BY <2>5, <2>6, <2>7, <2>8
<1>2. ASSUME NEW g \in Goroutines, Receive(g)
      PROVE  [Promise!Next]_(Promise!vars)
  <2> DEFINE j == Head(jobq)
  <2>1. jobq # <<>> /\ j \in Jobs /\ InSeq(jobq, j)
    BY <1>2, QueueStep DEF Receive
  <2>2. caller[j] = "waiting" /\ runs[j] = 0 /\ ~Held(j)
    BY <2>1 DEF IInv, Counted, Placed, Held
  <2>3. g \notin Busy
    BY <1>2 DEF Receive, Busy
  <2>4. Promise!Take(j)
    BY <1>2, <2>1, <2>2, <2>3, TakingIsTake DEF Receive, Quiet
  <2> QED
    BY <2>1, <2>4 DEF Promise!Next
<1>3. CASE Spawn
  <2>1. hand \in Jobs /\ hand \in Goroutines /\ worker[hand] = "token"
    BY <1>3, GoroutineStates DEF Spawn, IInv, TypeOK, Shape
  <2>2. caller[hand] = "waiting" /\ runs[hand] = 0 /\ ~Held(hand)
    BY <2>1 DEF IInv, Counted, Placed, Held
  <2>3. hand \notin Busy
    BY <2>1 DEF Busy
  <2>4. Quiet' = Quiet
    BY <1>3 DEF Spawn, Add, Waking, Quiet
  <2>5. Promise!Take(hand)
    BY <1>3, <2>1, <2>2, <2>3, <2>4, TakingIsTake DEF Spawn
  <2> QED
    BY <2>1, <2>5 DEF Promise!Next
<1>4. ASSUME NEW g \in Goroutines, RunJob(g)
      PROVE  [Promise!Next]_(Promise!vars)
  <2> DEFINE j == holds[g]
  <2>1. g \in Busy /\ j \in Jobs /\ caller[j] = "waiting" /\ runs[j] = 0 /\ Held(j)
    BY <1>4 DEF RunJob, Busy, Held, IInv, Placed, Counted
  <2>2. Busy' = Busy /\ holds' = holds /\ caller' = caller /\ runs' = [runs EXCEPT ![j] = @ + 1]
    BY <1>0, <1>4 DEF RunJob, Busy
  <2>3. \A k \in Jobs : Held(k)' <=> Held(k)
    BY <2>2 DEF Held
  <2>4. StatusOf(j) = "taken"
    BY <2>1 DEF StatusOf, Held
  <2>5. runs'[j] = 1 /\ \A k \in Jobs \ {j} : runs'[k] = runs[k]
    BY <1>0, <2>1, <2>2
  <2>6. \A k \in Jobs \ {j} : StatusOf(k)' = StatusOf(k)
    BY <2>2, <2>3, <2>5, SameStatus
  <2>7. ASSUME NEW k \in Jobs, k = j
        PROVE  StatusOf(k)' = "run"
    BY <2>1, <2>2, <2>3, <2>5, <2>7 DEF StatusOf, Held
  <2>8. PICK k \in Jobs : k = j
    BY <2>1
  <2>9. Promise!Run(k)
    <3>1. Promise!Becomes(k, "run")
      BY <1>4, <2>6, <2>7, <2>8, OneMoves DEF RunJob, Quiet
    <3> QED
      BY <2>4, <2>8, <3>1 DEF Promise!Run
  <2> QED
    BY <2>9 DEF Promise!Next
<1>5. ASSUME NEW g \in Goroutines, Deliver(g)
      PROVE  [Promise!Next]_(Promise!vars)
  <2>1. g \in Busy /\ holds[g] \in Jobs
    BY <1>5 DEF Deliver, Busy, IInv, Placed
  <2>2. PICK j \in Jobs : holds[g] = j
    BY <2>1
  <2>3. caller[j] = "waiting" /\ runs[j] = 1 /\ Held(j)
    BY <1>5, <2>1, <2>2 DEF Deliver, Held, IInv, Counted
  <2>4. /\ Busy' = Busy \ {g} /\ \A h \in Busy \ {g} : holds'[h] = holds[h]
        /\ caller' = [caller EXCEPT ![j] = "answered"] /\ runs' = runs
    BY <1>0, <1>5, <2>2, GoroutineStates DEF Deliver, Busy
  <2>5. \A k \in Jobs \ {j} : Held(k)' <=> Held(k)
    BY <2>2, <2>4 DEF Held
  <2>6. \A k \in Jobs \ {j} : StatusOf(k)' = StatusOf(k)
    BY <1>0, <2>4, <2>5, SameStatus
  <2>7. StatusOf(j) = "run" /\ StatusOf(j)' = "answered"
    BY <1>0, <2>3, <2>4 DEF StatusOf, Held
  <2>8. Promise!Answer(j)
    <3>1. Promise!Becomes(j, "answered")
      BY <1>5, <2>6, <2>7, OneMoves DEF Deliver, Quiet
    <3> QED
      BY <2>7, <3>1 DEF Promise!Answer
  <2> QED
    BY <2>8 DEF Promise!Next
<1>6. ASSUME NEW g \in Goroutines, ExitWorker(g) \/ Done(g) \/ Wake(g) \/ Release(g)
      PROVE  Unseen
  <2>1. /\ caller' = caller /\ runs' = runs /\ started' = started /\ closed' = closed
        /\ holds' = holds
    BY <1>6 DEF ExitWorker, Done, Wake, Release
  <2>2. Busy' = Busy
    BY <1>0, <1>6 DEF ExitWorker, Done, SignalDone, Wake, Release, Busy
  <2>3. CASE ExitWorker(g) \/ Done(g) \/ Release(g)
    <3>1. stop' = stop /\ manned' = manned
      BY <2>3 DEF ExitWorker, Done, Release
    <3> QED
      BY <2>1, <2>2, <3>1 DEF Unseen, Quiet
  <2>4. CASE Wake(g)
    <3>1. stop \in {"asleep", "dead"} /\ stop' = "woken"
      BY <2>4 DEF Wake, IInv, Waker, Waking, Dead
    <3> QED
      BY <2>1, <2>2, <3>1 DEF Unseen, Quiet
  <2> QED
    BY <1>6, <2>3, <2>4
<1>7. CASE LaunchWorker
  <2>1. launched + 1 \in Goroutines /\ worker[launched + 1] = "none"
    <3>1. /\ Strategy = "WorkerPool" /\ launched + 1 \in 1..MaxWorkers
          /\ launched + 1 > launched
      BY <1>7, GoroutineStates DEF LaunchWorker, IInv, TypeOK
    <3> QED
      BY <3>1, GoroutineStates DEF IInv, Shape
  <2>2. Unseen
    BY <1>0, <1>7, <2>1 DEF LaunchWorker, Add, Waking, Unseen, Quiet, Busy
  <2> QED
    BY <2>2, UnseenStutters
<1>8. CASE Dispatch \/ Finished \/ UNCHANGED vars
  <2>1. Unseen
    BY <1>8 DEF Dispatch, Finished, vars, Unseen, Quiet, Busy
  <2> QED
    BY <2>1, UnseenStutters
<1>9. CASE Acquire
  <2>1. Unseen
    BY <1>0, <1>9 DEF Acquire, Unseen, Quiet, Busy
  <2> QED
    BY <2>1, UnseenStutters
<1>10. CASE StopFlag \/ Stopper
  <2>1. /\ worker' = worker /\ holds' = holds /\ runs' = runs /\ caller' = caller
        /\ jobq' = jobq /\ hand' = hand
    BY <1>10 DEF StopFlag, Stopper, CloseQueue, WaitReturns, WaitSleeps, WaitWoken,
     AfterWait
  <2>2. \A k \in Jobs : Held(k)' <=> Held(k)
    BY <2>1 DEF Held, Busy
  <2>3. \A k \in Jobs : StatusOf(k)' = StatusOf(k)
    BY <2>1, <2>2, SameStatus
  <2>4. [k \in Jobs |-> StatusOf(k)'] = [k \in Jobs |-> StatusOf(k)]
    BY <2>3
  <2>5. CASE StopFlag
    <3>1. Phase = "open" /\ Phase' = "stopping"
      BY <2>5 DEF StopFlag, Order, Phase
    <3>2. Quiet' = Quiet
      BY <2>5, GoroutineStates DEF StopFlag, Quiet
    <3>3. Promise!Stop
      BY <2>4, <3>1, <3>2 DEF Promise!Stop
    <3> QED
      BY <3>3 DEF Promise!Next
  <2>6. CASE CloseQueue
    <3>1. Phase = "stopping" /\ Phase' = "closed"
      BY <2>6 DEF CloseQueue, Order, Phase
    <3>2. Quiet' = Quiet
      BY <2>6, GoroutineStates DEF CloseQueue, Quiet
    <3>3. Promise!Close
      BY <2>4, <3>1, <3>2 DEF Promise!Close
    <3> QED
      BY <3>3 DEF Promise!Next
  <2>7. CASE WaitReturns \/ WaitSleeps \/ WaitWoken
    <3>1. Phase' = Phase /\ Quiet = FALSE
      BY <2>7 DEF WaitReturns, WaitSleeps, WaitWoken, Phase, Quiet
    <3>2. CASE ~Quiet'
      BY <2>4, <3>1, <3>2 DEF Promise!vars, Quiet
    <3>3. CASE Quiet'
      <4>1. Strategy = "WorkerPool" /\ stop' = "stopped" /\ manned' /\ closed
        BY <2>7, <3>3 DEF WaitReturns, WaitSleeps, WaitWoken, Quiet, IInv, Drained
      <4>2. jobq = <<>> /\ Busy = {} /\ hand = NoJob
        BY <2>1, <4>1 DEF IInv, Drained, Shape, Busy
      <4>3. ASSUME NEW k \in Jobs
            PROVE  StatusOf(k) \in {"new", "refused", "answered"}
        <5>1. caller[k] # "waiting"
          BY <4>2, NotQueued, JobsAssumption DEF IInv, Drained
        <5> QED
          BY <1>0, <5>1 DEF StatusOf
      <4>4. Promise!Rest
        BY <2>4, <3>1, <3>3, <4>1, <4>3 DEF Promise!Rest, Phase
      <4> QED
        BY <4>4 DEF Promise!Next
    <3> QED
      BY <3>2, <3>3
  <2> QED
    BY <1>10, <2>5, <2>6, <2>7 DEF Stopper
<1> QED
  BY <1>1, <1>2, <1>3, <1>4, <1>5, <1>6, <1>7, <1>8, <1>9, <1>10, UnseenStutters
     DEF Next, Step, WorkerStep, Dispatcher, Stopper

\* With either strategy, any number of workers and a Stop at any time, the
\* dealer is an executor: it takes a job up once, runs it before it answers,
\* refuses none before Stop, and leaves none behind when the pool has stopped.
THEOREM DealerIsAnExecutor == Spec => ImplementsExecutor
<1>1. Spec => Promise!Init /\ [][Promise!Next]_(Promise!vars)
  BY InitExecutor, StepExecutor, Invariance, OrderInvariance, PTL DEF Spec
<1> QED
  BY <1>1 DEF ImplementsExecutor, Promise!Spec

=============================================================================
