----------------------------- MODULE Lifecycle -----------------------------
(***************************************************************************)
(* cmd/main.go: the start of the process, and its shutdown against the     *)
(* requests in flight, over FileCache.  A handler is the sequence of the   *)
(* calls it still has to make: of MongoDB, of the dealer, and of the file  *)
(* cache's Increment.  The dealer is what Dealer shows of it: an accepted  *)
(* job is answered, a call after Stop panics, Stop waits for the jobs.     *)
(***************************************************************************)
EXTENDS FileCache

CONSTANTS
  Requests,    \* what a request calls: sequences over "db", "io", "cache"
  MaxRequests  \* bound: requests

ASSUME RequestsAssumption == Requests \subseteq Seq({"db", "io", "cache"})
ASSUME BoundAssumption == MaxRequests \in Nat

VARIABLES
  main,       \* where main is
  listening,  \* new requests are accepted
  mongo,      \* the connection is open
  dealer,     \* the dealer accepts jobs
  todo,       \* the calls a handler has still to make
  inJob,      \* the handler waits for its job
  timedOut,   \* history: srv.Shutdown gave up
  broken,     \* history: a request met something that was stopped already
  requests    \* history: number of requests

process  == <<main, listening, mongo, dealer, timedOut>>
handlers == <<todo, inJob, broken, requests>>
vars     == <<cacheVars, process, handlers>>

LInit ==
  /\ Init
  /\ main = "config"
  /\ listening = FALSE
  /\ mongo = FALSE
  /\ dealer = FALSE
  /\ todo = [c \in Callers |-> <<>>]
  /\ inJob = [c \in Callers |-> FALSE]
  /\ timedOut = FALSE
  /\ broken = FALSE
  /\ requests = 0

Serving(c) == todo[c] # <<>>

-----------------------------------------------------------------------------
(* Start.                                                                   *)

\* The steps of main up to the server, in their order.
BootOrder == <<"config", "connect", "buckets", "cache", "dealer", "notify", "await">>

BootStep ==
  \E i \in 1..(Len(BootOrder) - 1) :
    /\ main = BootOrder[i]
    /\ main' = BootOrder[i + 1]
    /\ mongo' = (mongo \/ main = "connect")
    /\ dealer' = (dealer \/ main = "dealer")
    /\ listening' = (listening \/ main = "notify")
    /\ IF main = "cache" THEN StartCache ELSE UNCHANGED cacheVars
    /\ UNCHANGED <<timedOut, handlers>>

\* The errors that end the process: one at the start (one of InitBuckets does
\* not, see BucketStore), or one of ListenAndServe.
Refuse ==
  /\ main \in {"config", "connect", "cache", "await"}
  /\ main' = "refused"
  /\ Kill
  /\ UNCHANGED <<listening, mongo, dealer, timedOut, handlers>>

-----------------------------------------------------------------------------
(* Requests.                                                                *)

Arrive(c) ==
  /\ listening
  /\ ~Serving(c)
  /\ pc[c] = "idle"
  /\ requests < MaxRequests
  /\ requests' = requests + 1
  /\ \E r \in Requests : todo' = [todo EXCEPT ![c] = r]
  /\ UNCHANGED <<cacheVars, process, inJob, broken>>

Proceed(c) == todo' = [todo EXCEPT ![c] = Tail(@)]
Leave(c)   == todo' = [todo EXCEPT ![c] = <<>>]
Calling(c, what) == Serving(c) /\ pc[c] = "idle" /\ ~inJob[c] /\ Head(todo[c]) = what

\* An error ends the request; on a closed connection it is the only outcome.
CallMongo(c) ==
  /\ Calling(c, "db")
  /\ \/ mongo /\ Proceed(c)
     \/ Leave(c)
  /\ broken' = (broken \/ ~mongo)
  /\ UNCHANGED <<cacheVars, process, inJob, requests>>

\* dealer.Run; net/http recovers its panic and ends the request.
RunJob(c) ==
  /\ Calling(c, "io")
  /\ \/ dealer /\ inJob' = [inJob EXCEPT ![c] = TRUE] /\ UNCHANGED <<todo, broken>>
     \/ ~dealer /\ Leave(c) /\ broken' = TRUE /\ UNCHANGED inJob
  /\ UNCHANGED <<cacheVars, process, requests>>

\* Job.Wait returns, with a result or an error.
JobReturns(c) ==
  /\ Serving(c)
  /\ inJob[c]
  /\ inJob' = [inJob EXCEPT ![c] = FALSE]
  /\ Proceed(c) \/ Leave(c)
  /\ UNCHANGED <<cacheVars, process, broken, requests>>

CallCache(c) == Calling(c, "cache") /\ Call(c) /\ UNCHANGED <<process, handlers>>

ReturnFromCache(c) ==
  /\ Finish(c)
  /\ Proceed(c)
  /\ UNCHANGED <<process, inJob, broken, requests>>

\* net/http recovers a panic inside Increment too.
Recover(c) ==
  /\ pc[c] = "panicked"
  /\ Serving(c)
  /\ Leave(c)
  /\ broken' = TRUE
  /\ UNCHANGED <<cacheVars, process, inJob, requests>>

InCacheStep(c) ==
  /\ \/ CheckCached(c) \/ ReadHits(c) \/ Lock(c) \/ SetFirst(c) \/ SetNext(c)
     \/ MakeRoom(c) \/ SendPath(c) \/ DeleteHits(c)
  /\ UNCHANGED <<process, handlers>>

-----------------------------------------------------------------------------
(* Shutdown.                                                                *)

\* Before signal.Notify a signal ends the process; main takes it when it
\* receives; at any other time there is no room for it in the channel and it
\* is lost, which is no step.
Signal ==
  /\ \/ main \in {"config", "connect", "buckets", "cache", "dealer"}
        /\ main' = "killed" /\ Kill /\ UNCHANGED listening
     \/ main = "await" /\ main' = "drain" /\ listening' = FALSE /\ UNCHANGED cacheVars
  /\ UNCHANGED <<mongo, dealer, timedOut, handlers>>

\* Mutant: srv.Shutdown does not wait for the requests.
Drained_NoWait ==
  /\ main = "drain"
  /\ main' = "mongo"
  /\ UNCHANGED <<cacheVars, listening, mongo, dealer, timedOut, handlers>>

\* srv.Shutdown: every handler has returned, its panics included.
Drained ==
  /\ main = "drain"
  /\ \A c \in Callers : ~Serving(c)
  /\ main' = "mongo"
  /\ UNCHANGED <<cacheVars, listening, mongo, dealer, timedOut, handlers>>

\* ... or its 5 seconds are over, and the clean-up goes on all the same.
GiveUp ==
  /\ main = "drain"
  /\ main' = "mongo"
  /\ timedOut' = TRUE
  /\ UNCHANGED <<cacheVars, listening, mongo, dealer, handlers>>

CloseMongo ==
  /\ main = "mongo"
  /\ mongo' = FALSE
  /\ main' = "filecache"
  /\ UNCHANGED <<cacheVars, listening, dealer, timedOut, handlers>>

StopCache ==
  /\ main = "filecache"
  /\ StopBegins \/ Stopper
  /\ main' = IF stop' = "stopped" THEN "jobs" ELSE main
  /\ UNCHANGED <<listening, mongo, dealer, timedOut, handlers>>

\* dealer.Stop: the flag and the queue ...
StopDealer ==
  /\ main = "jobs"
  /\ dealer
  /\ dealer' = FALSE
  /\ UNCHANGED <<cacheVars, main, listening, mongo, timedOut, handlers>>

\* ... and wg.Wait.  main returns, and with it every goroutine ends.
Exit ==
  /\ main = "jobs"
  /\ ~dealer
  /\ \A c \in Callers : ~inJob[c]
  /\ main' = "exited"
  /\ Kill
  /\ UNCHANGED <<listening, mongo, dealer, timedOut, handlers>>

\* A fatal error of the runtime, or a panic nobody recovers.
Die ==
  /\ MapRace \/ ListenerPanics
  /\ main' = "killed"
  /\ Kill
  /\ UNCHANGED <<listening, mongo, dealer, timedOut, handlers>>

-----------------------------------------------------------------------------
Ended == main \in {"refused", "killed", "exited"}

HandlerStep(c) ==
  \/ CallMongo(c) \/ RunJob(c) \/ JobReturns(c) \/ CallCache(c) \/ InCacheStep(c)
  \/ ReturnFromCache(c) \/ Recover(c)

MainStep == BootStep \/ Drained \/ CloseMongo \/ StopCache \/ StopDealer \/ Exit

BackgroundStep == Background /\ UNCHANGED <<process, handlers>>

Next ==
  \/ ~Ended /\ \/ MainStep \/ Refuse \/ Signal \/ GiveUp \/ Die
               \/ BackgroundStep
               \/ \E c \in Callers : Arrive(c) \/ HandlerStep(c)
  \/ Ended /\ UNCHANGED vars

Spec == LInit /\ [][Next]_vars

Frame(A) == A /\ ~Ended /\ UNCHANGED <<process, handlers>>

Flushing  == FlusherExits \/ FlushLock \/ Flush
Listening == Fetch \/ Store \/ ListenerExits

\* Goroutines run on and calls return; nobody has to send a request or a
\* signal, and Shutdown need not time out.
Fairness ==
  /\ WF_vars(~Ended /\ MainStep)
  /\ \A c \in Callers : WF_vars(~Ended /\ HandlerStep(c))
  /\ WF_vars(Frame(Flushing))
  /\ WF_vars(Frame(Listening) \/ (~Ended /\ ListenerPanics /\ Die))

FairSpec == Spec /\ Fairness

-----------------------------------------------------------------------------
\* Types of the variables.  No counter of the file cache passes the threshold.
TypeOK ==
  /\ CacheTypeOK
  /\ main \in {BootOrder[i] : i \in 1..Len(BootOrder)} \union
              {"drain", "mongo", "filecache", "jobs", "exited", "refused", "killed"}
  /\ {listening, mongo, dealer, timedOut, broken} \subseteq BOOLEAN
  /\ todo \in [Callers -> Seq({"db", "io", "cache"})]
  /\ inJob \in [Callers -> BOOLEAN]
  /\ requests \in 0..MaxRequests

\* No request meets a part that is not started yet or stopped already, and none
\* is cut short by the end of main, unless srv.Shutdown gave up on it.
GracefulIsClean ==
  broken \/ (main = "exited" /\ \E c \in Callers : Serving(c)) => timedOut

\* A graceful shutdown ends: the file cache's goroutines and the workers are
\* all gone before main is.
ShutdownEnds == main = "drain" ~> (Ended \/ timedOut)

\* While the cache is not stopped, a request does not get stuck in Increment:
\* the mutex comes free and the channel to the library gets room.
IncrementReturns ==
  \A c \in Callers : pc[c] = "incache" ~> (pc[c] = "idle" \/ nilled \/ Ended)

\* "No fatal error to make clean up" (cmd/main.go:127): the clean-up is made
\* also when requests outlive the time Shutdown gives them.
CleanUpIsMade == main = "mongo" ~> Ended

=============================================================================
