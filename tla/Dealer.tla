------------------------------- MODULE Dealer -------------------------------
(***************************************************************************)
(* pkg/dealer: the queue through which the service runs its disk           *)
(* operations, with a pool of workers (the strategy main chooses) or with  *)
(* a dispatcher and a counting semaphore.                                  *)
(*                                                                         *)
(* A caller submits one job with Run and blocks in Wait; Stop runs         *)
(* concurrently with callers, as it does when srv.Shutdown gave up waiting *)
(* for the handlers.  A step is one channel, WaitGroup or atomic operation.*)
(* The Done that brings the counter to 0 and the return of a Wait that has *)
(* been asleep are two steps, with an Add possible in between: the         *)
(* WaitGroup panics, in a goroutine nobody recovers, and the process ends. *)
(***************************************************************************)
EXTENDS Naturals, Sequences, FiniteSets

CONSTANTS
  Jobs,        \* the jobs callers submit
  NoJob,       \* the value of "no job"
  MaxWorkers,  \* cdn.io_workers
  Strategy     \* "WorkerPool" or "Semaphore"

ASSUME JobsAssumption == NoJob \notin Jobs
ASSUME MaxWorkersAssumption == MaxWorkers \in Nat \ {0}
ASSUME StrategyAssumption == Strategy \in {"WorkerPool", "Semaphore"}

VARIABLES
  started,   \* the atomic flag
  jobq,      \* the buffered channel of jobs
  closed,    \* jobq has been closed
  wg,        \* the counter of the WaitGroup
  sem,       \* the tokens in the semaphore's channel
  launched,  \* workers startWorkerPool has launched
  caller,    \* where the caller of each job is
  worker,    \* where each goroutine that runs jobs is
  holds,     \* the job it has received
  hand,      \* the job the dispatcher has received and not passed on
  stop,      \* where Stop is; "dead" when the WaitGroup has ended the process
  runs,      \* history: how often a job's function was called
  manned     \* history: a worker had been launched when Stop's Wait returned

vars == <<started, jobq, closed, wg, sem, launched, caller, worker, holds,
          hand, stop, runs, manned>>

\* The goroutines that run jobs: the workers of the pool; with the semaphore
\* one per job, named after it.
Goroutines == IF Strategy = "WorkerPool" THEN 1..MaxWorkers ELSE Jobs

\* A goroutine between receiving a job and handing over its result.
Busy == {g \in Goroutines : worker[g] \in {"run", "send"}}

\* New and Start: the goroutine of startWorkerPool or startWithSemaphore is
\* created and has not run.
Init ==
  /\ started = 1
  /\ jobq = <<>>
  /\ closed = FALSE
  /\ wg = 0
  /\ sem = 0
  /\ launched = 0
  /\ caller = [j \in Jobs |-> "idle"]
  /\ worker = [g \in Goroutines |-> "none"]
  /\ holds = [g \in Goroutines |-> NoJob]
  /\ hand = NoJob
  /\ stop = "no"
  /\ runs = [j \in Jobs |-> 0]
  /\ manned = FALSE

-----------------------------------------------------------------------------
(* Callers.                                                                 *)

\* Mutant: addJob does not look at the flag.
CheckStarted_NotAsked(j) ==
  /\ caller[j] = "idle"
  /\ caller' = [caller EXCEPT ![j] = "checked"]
  /\ UNCHANGED <<started, jobq, closed, wg, sem, launched, worker, holds, hand,
                 stop, runs, manned>>

\* addJob reads the flag; it panics when the dealer is not started.
CheckStarted(j) ==
  /\ caller[j] = "idle"
  /\ caller' = [caller EXCEPT ![j] = IF started = 0 THEN "panicked" ELSE "checked"]
  /\ UNCHANGED <<started, jobq, closed, wg, sem, launched, worker, holds, hand,
                 stop, runs, manned>>

\* Mutant: the queue has no capacity to wait for.
Send_Unbounded(j) ==
  /\ caller[j] = "checked"
  /\ jobq' = IF closed THEN jobq ELSE Append(jobq, j)
  /\ caller' = [caller EXCEPT ![j] = IF closed THEN "panicked" ELSE "waiting"]
  /\ UNCHANGED <<started, closed, wg, sem, launched, worker, holds, hand, stop,
                 runs, manned>>

\* Mutant: a send that would have to wait gives up.
Send_NoWait(j) ==
  /\ caller[j] = "checked"
  /\ IF closed \/ Len(jobq) = MaxWorkers
       THEN caller' = [caller EXCEPT ![j] = "panicked"] /\ UNCHANGED jobq
       ELSE caller' = [caller EXCEPT ![j] = "waiting"] /\ jobq' = Append(jobq, j)
  /\ UNCHANGED <<started, closed, wg, sem, launched, worker, holds, hand, stop,
                 runs, manned>>

\* addJob sends: it waits for room, and panics when the channel is closed
\* before or while it waits.
Send(j) ==
  /\ caller[j] = "checked"
  /\ \/ /\ ~closed
        /\ Len(jobq) < MaxWorkers
        /\ jobq' = Append(jobq, j)
        /\ caller' = [caller EXCEPT ![j] = "waiting"]
     \/ /\ closed
        /\ caller' = [caller EXCEPT ![j] = "panicked"]
        /\ UNCHANGED jobq
  /\ UNCHANGED <<started, closed, wg, sem, launched, worker, holds, hand, stop,
                 runs, manned>>

-----------------------------------------------------------------------------
(* Goroutines that run jobs.                                                *)

\* The counter is 0 and Wait is still asleep: a Done is about to wake it.
Waking == stop = "asleep" /\ wg = 0

Dead == stop = "dead"

\* wg.Add(1), which panics while a Done is waking Wait.
Add ==
  /\ wg' = wg + 1
  /\ stop' = IF Waking THEN "dead" ELSE stop

\* Mutant: a worker that has ended is replaced.
LaunchWorker_Respawns ==
  /\ Strategy = "WorkerPool"
  /\ \E n \in 1..MaxWorkers :
       /\ worker[n] \in {"none", "exited"}
       /\ launched' = IF launched < MaxWorkers THEN launched + 1 ELSE launched
       /\ Add
       /\ worker' = [worker EXCEPT ![n] = "recv"]
  /\ UNCHANGED <<started, jobq, closed, sem, caller, holds, hand, runs, manned>>

\* One round of startWorkerPool.
LaunchWorker ==
  /\ Strategy = "WorkerPool"
  /\ launched < MaxWorkers
  /\ launched' = launched + 1
  /\ Add
  /\ worker' = [worker EXCEPT ![launched + 1] = "recv"]
  /\ UNCHANGED <<started, jobq, closed, sem, caller, holds, hand, runs, manned>>

\* Mutant: the job stays in the queue until a result was handed over.
Receive_Peek(g) ==
  /\ worker[g] = "recv"
  /\ \E i \in 1..Len(jobq) :
       /\ caller[jobq[i]] = "waiting"
       /\ holds' = [holds EXCEPT ![g] = jobq[i]]
  /\ worker' = [worker EXCEPT ![g] = "run"]
  /\ UNCHANGED <<started, jobq, closed, wg, sem, launched, caller, hand, stop,
                 runs, manned>>

\* The range of startWorker: a buffered job, ...
Receive(g) ==
  /\ worker[g] = "recv"
  /\ jobq # <<>>
  /\ jobq' = Tail(jobq)
  /\ holds' = [holds EXCEPT ![g] = Head(jobq)]
  /\ worker' = [worker EXCEPT ![g] = "run"]
  /\ UNCHANGED <<started, closed, wg, sem, launched, caller, hand, stop, runs,
                 manned>>

\* wg.Done in g, which then goes on at place l; the last one wakes Wait first.
SignalDone(g, l) ==
  /\ wg' = wg - 1
  /\ worker' = [worker EXCEPT ![g] = IF wg = 1 /\ stop = "asleep" THEN "wake" ELSE l]

\* Mutant: the worker ends when it is told to, as with a select on shutdown.
ExitWorker_OnClose(g) ==
  /\ worker[g] = "recv"
  /\ closed
  /\ SignalDone(g, "exited")
  /\ UNCHANGED <<started, jobq, closed, sem, launched, caller, holds, hand,
                 stop, runs, manned>>

\* ... or its end, once the channel is closed and empty.
ExitWorker(g) ==
  /\ worker[g] = "recv"
  /\ closed /\ jobq = <<>>
  /\ SignalDone(g, "exited")
  /\ UNCHANGED <<started, jobq, closed, sem, launched, caller, holds, hand,
                 stop, runs, manned>>

\* The range of startWithSemaphore, in the dispatcher's goroutine.
Dispatch ==
  /\ Strategy = "Semaphore"
  /\ hand = NoJob
  /\ jobq # <<>>
  /\ hand' = Head(jobq)
  /\ jobq' = Tail(jobq)
  /\ UNCHANGED <<started, closed, wg, sem, launched, caller, worker, holds,
                 stop, runs, manned>>

\* Mutant: the number of tokens is not limited.
Acquire_NoLimit ==
  /\ hand # NoJob
  /\ worker[hand] = "none"
  /\ sem' = sem + 1
  /\ worker' = [worker EXCEPT ![hand] = "token"]
  /\ UNCHANGED <<started, jobq, closed, wg, launched, caller, holds, hand, stop,
                 runs, manned>>

\* acquire, which waits for a token, ...
Acquire ==
  /\ hand # NoJob
  /\ worker[hand] = "none"
  /\ sem < MaxWorkers
  /\ sem' = sem + 1
  /\ worker' = [worker EXCEPT ![hand] = "token"]
  /\ UNCHANGED <<started, jobq, closed, wg, launched, caller, holds, hand, stop,
                 runs, manned>>

\* ... then wg.Add and the job's own goroutine.
Spawn ==
  /\ hand # NoJob
  /\ worker[hand] = "token"
  /\ Add
  /\ worker' = [worker EXCEPT ![hand] = "run"]
  /\ holds' = [holds EXCEPT ![hand] = hand]
  /\ hand' = NoJob
  /\ UNCHANGED <<started, jobq, closed, sem, launched, caller, runs, manned>>

\* Mutant: the goroutine reads the loop's variable, which may be the next job.
RunJob_LoopVariable(g) ==
  /\ worker[g] = "run"
  /\ LET j == IF hand = NoJob THEN holds[g] ELSE hand
     IN runs' = [runs EXCEPT ![j] = @ + 1]
  /\ worker' = [worker EXCEPT ![g] = "send"]
  /\ UNCHANGED <<started, jobq, closed, wg, sem, launched, caller, holds, hand,
                 stop, manned>>

\* j.f()
RunJob(g) ==
  /\ worker[g] = "run"
  /\ runs' = [runs EXCEPT ![holds[g]] = @ + 1]
  /\ worker' = [worker EXCEPT ![g] = "send"]
  /\ UNCHANGED <<started, jobq, closed, wg, sem, launched, caller, holds, hand,
                 stop, manned>>

\* resultch is not buffered: the result is handed over when the job's caller
\* is in Wait.
Deliver(g) ==
  /\ worker[g] = "send"
  /\ caller[holds[g]] = "waiting"
  /\ caller' = [caller EXCEPT ![holds[g]] = "answered"]
  /\ worker' = [worker EXCEPT ![g] =
                 IF Strategy = "WorkerPool" THEN "recv" ELSE "done"]
  /\ holds' = [holds EXCEPT ![g] = NoJob]
  /\ UNCHANGED <<started, jobq, closed, wg, sem, launched, hand, stop, runs,
                 manned>>

\* Mutants: the deferred function forgets one of its two calls.
Done_Missing(g) ==
  /\ worker[g] = "done"
  /\ worker' = [worker EXCEPT ![g] = "release"]
  /\ UNCHANGED <<started, jobq, closed, wg, sem, launched, caller, holds, hand,
                 stop, runs, manned>>

Release_Missing(g) ==
  /\ worker[g] = "release"
  /\ worker' = [worker EXCEPT ![g] = "exited"]
  /\ UNCHANGED <<started, jobq, closed, wg, sem, launched, caller, holds, hand,
                 stop, runs, manned>>

\* The deferred wg.Done ...
Done(g) ==
  /\ worker[g] = "done"
  /\ SignalDone(g, "release")
  /\ UNCHANGED <<started, jobq, closed, sem, launched, caller, holds, hand,
                 stop, runs, manned>>

\* The end of the last Done: the WaitGroup is reset and Wait is woken.
Wake(g) ==
  /\ worker[g] = "wake"
  /\ stop' = "woken"
  /\ worker' = [worker EXCEPT ![g] =
                 IF Strategy = "WorkerPool" THEN "exited" ELSE "release"]
  /\ UNCHANGED <<started, jobq, closed, wg, sem, launched, caller, holds, hand,
                 runs, manned>>

\* ... and release.
Release(g) ==
  /\ worker[g] = "release"
  /\ worker' = [worker EXCEPT ![g] = "exited"]
  /\ sem' = sem - 1
  /\ UNCHANGED <<started, jobq, closed, wg, launched, caller, holds, hand, stop,
                 runs, manned>>

-----------------------------------------------------------------------------
(* Stop.                                                                    *)

\* Mutant: the pool's Stop waits for the workers before it closes the queue.
StopFlag_WaitFirst ==
  /\ stop = "no"
  /\ started' = 0
  /\ stop' = "wait"
  /\ UNCHANGED <<jobq, closed, wg, sem, launched, caller, worker, holds, hand,
                 runs, manned>>

\* The flag, then what the strategy's case does first.
StopFlag ==
  /\ stop = "no"
  /\ started' = 0
  /\ stop' = IF Strategy = "WorkerPool" THEN "close" ELSE "wait"
  /\ UNCHANGED <<jobq, closed, wg, sem, launched, caller, worker, holds, hand,
                 runs, manned>>

\* close(d.jobq)
CloseQueue ==
  /\ stop = "close"
  /\ closed' = TRUE
  /\ stop' = IF Strategy = "WorkerPool" THEN "wait" ELSE "stopped"
  /\ UNCHANGED <<started, jobq, wg, sem, launched, caller, worker, holds, hand,
                 runs, manned>>

AfterWait ==
  /\ stop' = IF Strategy = "WorkerPool" THEN "stopped" ELSE "close"
  /\ manned' = (launched > 0)

\* d.wg.Wait(): it returns at once when the counter is 0, ...
WaitReturns ==
  /\ stop = "wait"
  /\ wg = 0
  /\ AfterWait
  /\ UNCHANGED <<started, jobq, closed, wg, sem, launched, caller, worker, holds,
                 hand, runs>>

\* ... or it sleeps, ...
WaitSleeps ==
  /\ stop = "wait"
  /\ wg > 0
  /\ stop' = "asleep"
  /\ UNCHANGED <<started, jobq, closed, wg, sem, launched, caller, worker, holds,
                 hand, runs, manned>>

\* ... and once it was woken it returns, or panics when the counter was raised
\* meanwhile: "WaitGroup is reused before previous Wait has returned".
WaitWoken ==
  /\ stop = "woken"
  /\ \/ wg = 0 /\ AfterWait
     \/ wg > 0 /\ stop' = "dead" /\ UNCHANGED manned
  /\ UNCHANGED <<started, jobq, closed, wg, sem, launched, caller, worker, holds,
                 hand, runs>>

-----------------------------------------------------------------------------
WorkerStep(g) ==
  \/ Receive(g) \/ ExitWorker(g) \/ RunJob(g) \/ Deliver(g) \/ Done(g)
  \/ Wake(g) \/ Release(g)

Dispatcher == Dispatch \/ Acquire \/ Spawn

Stopper == CloseQueue \/ WaitReturns \/ WaitSleeps \/ WaitWoken

Step ==
  \/ \E j \in Jobs : CheckStarted(j) \/ Send(j)
  \/ \E g \in Goroutines : WorkerStep(g)
  \/ LaunchWorker \/ Dispatcher \/ StopFlag \/ Stopper

\* Everything has ended: every caller has returned, and Stop has; or the
\* process.
Finished ==
  /\ Dead \/ (stop = "stopped" /\ \A j \in Jobs : caller[j] \in {"answered", "panicked"})
  /\ UNCHANGED vars

Next == (~Dead /\ Step) \/ Finished

\* Runnable goroutines run, and j.f() returns.  Nobody has to submit a job or
\* to stop the dealer.  A sender queued on a full channel is served in the
\* order of its arrival by the runtime: strong fairness.
Fairness ==
  /\ \A j \in Jobs : SF_vars(~Dead /\ Send(j))
  /\ \A g \in Goroutines : WF_vars(~Dead /\ WorkerStep(g))
  /\ WF_vars(~Dead /\ LaunchWorker)
  /\ WF_vars(~Dead /\ Dispatcher)
  /\ WF_vars(~Dead /\ Stopper)

Spec == Init /\ [][Next]_vars /\ Fairness

-----------------------------------------------------------------------------
\* Types of the variables.  The counter of the WaitGroup never falls below 0,
\* which would panic, and the channels hold what their capacity allows.
TypeOK ==
  /\ started \in {0, 1}
  /\ jobq \in Seq(Jobs) /\ Len(jobq) <= MaxWorkers
  /\ closed \in BOOLEAN
  /\ wg \in Nat
  /\ sem \in 0..MaxWorkers
  /\ launched \in 0..MaxWorkers
  /\ caller \in [Jobs -> {"idle", "checked", "waiting", "answered", "panicked"}]
  /\ worker \in [Goroutines -> {"none", "recv", "token", "run", "send", "done",
                                "wake", "release", "exited"}]
  /\ holds \in [Goroutines -> Jobs \union {NoJob}]
  /\ hand \in Jobs \union {NoJob}
  /\ stop \in {"no", "close", "wait", "asleep", "woken", "stopped", "dead"}
  /\ runs \in [Jobs -> Nat]
  /\ manned \in BOOLEAN

\* A job runs at most once; a caller that returns from Wait had its own job
\* run, and the job of one that panicked never runs, now or later.
RunsOnce ==
  \A j \in Jobs :
    /\ runs[j] <= 1
    /\ caller[j] = "answered" => runs[j] = 1
    /\ caller[j] = "panicked" => runs[j] = 0

\* No more jobs run at one time than cdn.io_workers allows, with either
\* strategy and also while the dealer stops.
BoundedIO == Cardinality(Busy) <= MaxWorkers

\* Stop of the worker pool returns only when every job that was accepted has
\* run and its caller has the result, if the pool had a worker by then.
StopDrains ==
  Strategy = "WorkerPool" /\ stop = "stopped" /\ manned =>
    \A j \in Jobs : caller[j] # "waiting"

\* An accepted job is answered, also when Stop comes in between; so a caller in
\* Wait is never stuck.  What may take the process away first is CleanStop's.
AcceptedIsAnswered ==
  \A j \in Jobs : caller[j] = "waiting" ~> caller[j] = "answered" \/ Dead

\* A caller that passed the check of the flag is not stuck in the send, and
\* Stop returns.
NobodyHangs ==
  /\ \A j \in Jobs :
       caller[j] = "checked" ~> caller[j] \in {"answered", "panicked"} \/ Dead
  /\ stop \in {"close", "wait", "asleep", "woken"} ~> stop = "stopped" \/ Dead

\* Nothing is left that would raise the counter: every worker was launched; or,
\* with the semaphore, no job is on its way to its goroutine, nor will be.
Settled ==
  IF Strategy = "WorkerPool"
    THEN launched = MaxWorkers
    ELSE /\ started = 0
         /\ jobq = <<>> /\ hand = NoJob
         /\ \A j \in Jobs : caller[j] # "checked"

\* The WaitGroup panics only if Stop overlaps the launch of the pool or, with
\* the semaphore, jobs that have no goroutine yet: once that is over, and Wait
\* has not been woken before, Stop ends nothing but the dealer.
CleanStop == [](Settled /\ stop \notin {"woken", "dead"} => []~Dead)

\* How the dealer implements Executor: a job is new until it is in the queue,
\* taken by the goroutine that holds it, and the executor is at rest when Stop
\* has returned to a pool that had a worker.
StatusOf(j) ==
  CASE caller[j] \in {"idle", "checked"} -> "new"
    [] caller[j] = "panicked" -> "refused"
    [] caller[j] = "answered" -> "answered"
    [] OTHER -> IF \E g \in Busy : holds[g] = j
                  THEN IF runs[j] = 0 THEN "taken" ELSE "run"
                  ELSE "accepted"

Phase == IF closed THEN "closed" ELSE IF started = 0 THEN "stopping" ELSE "open"
Quiet == Strategy = "WorkerPool" /\ stop = "stopped" /\ manned

Promise == INSTANCE Executor
  WITH Limit <- MaxWorkers, status <- [j \in Jobs |-> StatusOf(j)],
       phase <- Phase, quiet <- Quiet

\* Through the queue, the goroutines and a Stop at any time the dealer keeps
\* what Executor promises of every job.
ImplementsExecutor == Promise!Spec

=============================================================================
