--------------------------- MODULE Lifecycle_proofs ---------------------------
(***************************************************************************)
(* Theorems about Lifecycle, and through it about FileCache, for any       *)
(* number of handlers, requests and paths.                                 *)
(*                                                                         *)
(* The argument.  Whatever main, the handlers and the background do, the   *)
(* file cache's variables move by its own steps (NextCache), so its        *)
(* invariant holds.  main starts and stops the parts in an order in which  *)
(* they are all there while it listens and drains; only by giving up can   *)
(* it leave that stretch with a request in flight (Order).                 *)
(***************************************************************************)
EXTENDS Lifecycle, FileCache_proofs

-----------------------------------------------------------------------------
(* The invariant.                                                           *)

\* Where main can be.
Mains == {"config", "connect", "buckets", "cache", "dealer", "notify", "await", "drain",
          "mongo", "filecache", "jobs", "exited", "refused", "killed"}

ProcessTypes ==
  /\ main \in Mains
  /\ {listening, mongo, dealer, timedOut, broken} \subseteq BOOLEAN
  /\ todo \in [Callers -> Seq({"db", "io", "cache"})]
  /\ inJob \in [Callers -> BOOLEAN]
  /\ requests \in 0..MaxRequests

\* InCall: a handler inside Increment has a call to go on from, and no job.
InCall ==
  \A c \in Callers :
    pc[c] \notin {"idle", "panicked", Killed} => Serving(c) /\ ~inJob[c]

\* Order: which parts are there where main is, and that a request in flight
\* behind the drain has outlived it.
Order ==
  /\ main \in {"buckets", "cache", "dealer", "notify", "await", "drain"} => mongo
  /\ main \in {"notify", "await", "drain"} => dealer
  /\ listening => main \in {"await", "refused", "killed"}
  /\ stop # "no" => main \in {"filecache", "jobs", "exited", "refused", "killed"}
  /\ nilled \/ ~open => stop # "no"
  /\ \A c \in Callers : pc[c] = "panicked" => nilled \/ ~open
  /\ \A c \in Callers :
       Serving(c) => main \in {"await", "drain", "refused", "killed"} \/ timedOut
  /\ broken => timedOut

LInv == CInv /\ ProcessTypes /\ InCall /\ Order

-----------------------------------------------------------------------------
LEMMA MainsFacts ==
  /\ Mains = {BootOrder[i] : i \in 1..Len(BootOrder)} \union
               {"drain", "mongo", "filecache", "jobs", "exited", "refused", "killed"}
  /\ MaxRequests \in Nat /\ Requests \subseteq Seq({"db", "io", "cache"})
<1>1. Len(BootOrder) = 7 /\ 1..7 = {1, 2, 3, 4, 5, 6, 7}
  BY DEF BootOrder
<1> QED
  BY <1>1, BoundAssumption, RequestsAssumption DEF Mains, BootOrder

\* The steps of the start, one by one.
LEMMA BootSteps ==
  ASSUME BootStep, ProcessTypes
  PROVE  /\ UNCHANGED <<timedOut, handlers>>
         /\ StartCache \/ UNCHANGED cacheVars
         /\ \/ main = "config" /\ main' = "connect" /\ UNCHANGED <<mongo, dealer, listening>>
            \/ main = "connect" /\ main' = "buckets" /\ mongo' = TRUE /\ UNCHANGED <<dealer, listening>>
            \/ main = "buckets" /\ main' = "cache" /\ UNCHANGED <<mongo, dealer, listening>>
            \/ main = "cache" /\ main' = "dealer" /\ UNCHANGED <<mongo, dealer, listening>>
            \/ main = "dealer" /\ main' = "notify" /\ dealer' = TRUE /\ UNCHANGED <<mongo, listening>>
            \/ main = "notify" /\ main' = "await" /\ listening' = TRUE /\ UNCHANGED <<mongo, dealer>>
<1>1. Len(BootOrder) = 7
  BY DEF BootOrder
<1>2. PICK i \in 1..6 :
        /\ main = BootOrder[i] /\ main' = BootOrder[i + 1]
        /\ mongo' = (mongo \/ main = "connect")
        /\ dealer' = (dealer \/ main = "dealer")
        /\ listening' = (listening \/ main = "notify")
        /\ IF main = "cache" THEN StartCache ELSE UNCHANGED cacheVars
        /\ UNCHANGED <<timedOut, handlers>>
  BY <1>1 DEF BootStep
<1>3. \/ main = "config" /\ main' = "connect"
      \/ main = "connect" /\ main' = "buckets"
      \/ main = "buckets" /\ main' = "cache"
      \/ main = "cache" /\ main' = "dealer"
      \/ main = "dealer" /\ main' = "notify"
      \/ main = "notify" /\ main' = "await"
  <2>1. /\ BootOrder[1] = "config" /\ BootOrder[2] = "connect" /\ BootOrder[3] = "buckets"
        /\ BootOrder[4] = "cache" /\ BootOrder[5] = "dealer" /\ BootOrder[6] = "notify"
        /\ BootOrder[7] = "await"
    BY DEF BootOrder
  <2>2. i \in {1, 2, 3, 4, 5, 6}
    OBVIOUS
  <2> QED
    BY <1>2, <2>1, <2>2
<1>4. mongo \in BOOLEAN /\ dealer \in BOOLEAN /\ listening \in BOOLEAN
  BY DEF ProcessTypes
<1>5. /\ main # "connect" => mongo' = mongo
      /\ main = "connect" => mongo' = TRUE
      /\ main # "dealer" => dealer' = dealer
      /\ main = "dealer" => dealer' = TRUE
      /\ main # "notify" => listening' = listening
      /\ main = "notify" => listening' = TRUE
  BY <1>2, <1>4
<1> QED
  BY <1>2, <1>3, <1>5

\* Every step moves the file cache's variables by a step of FileCache.
LEMMA NextCache == [Next]_vars => [CacheNext]_cacheVars
<1> SUFFICES ASSUME [Next]_vars PROVE [CacheNext]_cacheVars
  OBVIOUS
<1>1. CASE MainStep
  BY <1>1 DEF MainStep, BootStep, Drained, CloseMongo, StopCache, StopDealer, Exit, CacheNext
<1>2. CASE Refuse \/ Signal \/ GiveUp \/ Die \/ BackgroundStep
  BY <1>2 DEF Refuse, Signal, GiveUp, Die, BackgroundStep, CacheNext
<1>3. ASSUME NEW c \in Callers, Arrive(c) \/ HandlerStep(c) PROVE [CacheNext]_cacheVars
  BY <1>3 DEF Arrive, HandlerStep, CallMongo, RunJob, JobReturns, CallCache, InCacheStep,
              ReturnFromCache, Recover, CacheNext, IncrementStep
<1>4. CASE UNCHANGED vars
  BY <1>4 DEF vars
<1> QED
  BY <1>1, <1>2, <1>3, <1>4 DEF Next

LEMMA InitLInv == LInit => LInv
<1> SUFFICES ASSUME LInit PROVE LInv
  OBVIOUS
<1>1. CInv
  BY InitCInv DEF LInit
<1>2. ProcessTypes
  <2>1. {listening, mongo, dealer, timedOut, broken} \subseteq BOOLEAN
    BY DEF LInit
  <2>2. main \in Mains /\ requests \in 0..MaxRequests /\ inJob \in [Callers -> BOOLEAN]
    BY MainsFacts DEF LInit, Mains
  <2>3. todo \in [Callers -> Seq({"db", "io", "cache"})]
    BY DEF LInit
  <2> QED
    BY <2>1, <2>2, <2>3 DEF ProcessTypes
<1>3. InCall /\ Order
  BY DEF LInit, Init, InCall, Order, Serving
<1> QED
  BY <1>1, <1>2, <1>3 DEF LInv

\* Next, as a goal for each action.
LEMMA LifecycleCases ==
  ASSUME NEW P,
         ~Ended /\ BootStep => P,
         ~Ended /\ (Drained \/ CloseMongo \/ StopDealer \/ GiveUp) => P,
         ~Ended /\ StopCache => P,
         ~Ended /\ (Refuse \/ Exit \/ Die \/ Signal) => P,
         ~Ended /\ BackgroundStep => P,
         \A c \in Callers : ~Ended /\ Arrive(c) => P,
         \A c \in Callers : ~Ended /\ (CallMongo(c) \/ RunJob(c) \/ Recover(c)) => P,
         \A c \in Callers : ~Ended /\ (JobReturns(c) \/ ReturnFromCache(c)) => P,
         \A c \in Callers : ~Ended /\ (CallCache(c) \/ InCacheStep(c)) => P,
         UNCHANGED vars => P,
         [Next]_vars
  PROVE  P
  BY DEF Next, MainStep, HandlerStep

\* A handler goes on to its next call, or leaves.
LEMMA TodoTypes ==
  ASSUME ProcessTypes, NEW c \in Callers, Proceed(c) \/ Leave(c), Serving(c)
  PROVE  todo' \in [Callers -> Seq({"db", "io", "cache"})]
<1> USE DEF Serving
<1>1. todo[c] \in Seq({"db", "io", "cache"})
  BY DEF ProcessTypes
<1>2. Tail(todo[c]) \in Seq({"db", "io", "cache"}) /\ <<>> \in Seq({"db", "io", "cache"})
  BY <1>1
<1>3. todo' = [todo EXCEPT ![c] = Tail(todo[c])] \/ todo' = [todo EXCEPT ![c] = <<>>]
  BY DEF Proceed, Leave
<1> QED
  BY <1>2, <1>3 DEF ProcessTypes

LEMMA StepProcessTypes == LInv /\ [Next]_vars => ProcessTypes'
<1> SUFFICES ASSUME ProcessTypes, InCall, [Next]_vars PROVE ProcessTypes'
  BY DEF LInv
<1> USE MainsFacts DEF ProcessTypes, Mains, process, handlers
<1>1. CASE BootStep
  BY <1>1, BootSteps
<1>2. CASE Drained \/ CloseMongo \/ StopDealer \/ GiveUp
  BY <1>2 DEF Drained, CloseMongo, StopDealer, GiveUp
<1>3. CASE StopCache
  BY <1>3 DEF StopCache
<1>4. CASE Refuse \/ Exit \/ Die \/ Signal
  BY <1>4 DEF Refuse, Exit, Die, Signal
<1>5. CASE BackgroundStep
  BY <1>5 DEF BackgroundStep
<1>6. ASSUME NEW c \in Callers, Arrive(c) PROVE ProcessTypes'
  BY <1>6 DEF Arrive
<1>7. ASSUME NEW c \in Callers, CallMongo(c) \/ RunJob(c) \/ Recover(c) PROVE ProcessTypes'
  <2>1. Serving(c) /\ UNCHANGED <<main, listening, mongo, dealer, timedOut, requests>>
    BY <1>7 DEF CallMongo, RunJob, Recover, Calling
  <2>2. /\ broken' \in {broken, TRUE, broken \/ ~mongo}
        /\ inJob' \in {inJob, [inJob EXCEPT ![c] = TRUE]}
    BY <1>7 DEF CallMongo, RunJob, Recover
  <2>3. todo' = todo \/ Proceed(c) \/ Leave(c)
    BY <1>7 DEF CallMongo, RunJob, Recover
  <2>4. todo' \in [Callers -> Seq({"db", "io", "cache"})]
    BY <2>1, <2>3, TodoTypes
  <2>5. broken' \in BOOLEAN
    BY <2>2
  <2> QED
    BY <2>1, <2>2, <2>4, <2>5
<1>8. ASSUME NEW c \in Callers, JobReturns(c) \/ ReturnFromCache(c) PROVE ProcessTypes'
  <2>1. Serving(c) /\ (Proceed(c) \/ Leave(c))
        /\ UNCHANGED <<main, listening, mongo, dealer, timedOut, broken, requests>>
        /\ inJob' \in {inJob, [inJob EXCEPT ![c] = FALSE]}
    BY <1>8 DEF JobReturns, ReturnFromCache, Finish, InCall, Killed
  <2>2. todo' \in [Callers -> Seq({"db", "io", "cache"})]
    BY <2>1, TodoTypes
  <2> QED
    BY <2>1, <2>2
<1>9. ASSUME NEW c \in Callers, CallCache(c) \/ InCacheStep(c) PROVE ProcessTypes'
  BY <1>9 DEF CallCache, InCacheStep
<1>10. CASE UNCHANGED vars
  BY <1>10 DEF vars
<1> HIDE DEF ProcessTypes
<1> QED
  BY <1>1, <1>2, <1>3, <1>4, <1>5, <1>6, <1>7, <1>8, <1>9, <1>10, LifecycleCases

LEMMA StepInCall == LInv /\ [Next]_vars => InCall'
<1> SUFFICES ASSUME LInv, [Next]_vars PROVE InCall'
  OBVIOUS
<1>0. /\ InCall /\ pc \in [Callers -> PCs] /\ inJob \in [Callers -> BOOLEAN]
      /\ todo \in [Callers -> Seq({"db", "io", "cache"})]
  BY DEF LInv, CInv, CTInv, CacheTypeOK, ProcessTypes
<1> USE <1>0 DEF InCall, Serving, process, handlers, Killed
<1>1. CASE BootStep
  BY <1>1, BootSteps DEF LInv, StartCache, cacheVars
<1>2. CASE Drained \/ CloseMongo \/ StopDealer \/ GiveUp
  BY <1>2 DEF Drained, CloseMongo, StopDealer, GiveUp, cacheVars
<1>3. CASE StopCache
  BY <1>3 DEF StopCache, StopBegins, Stopper, StopClears, StopCloses, LibraryStops,
              LibraryDrops, StopReturns
<1>4. CASE Refuse \/ Exit \/ Die \/ Signal
  BY <1>4 DEF Refuse, Exit, Die, Signal, Kill, cacheVars
<1>5. CASE BackgroundStep
  BY <1>5 DEF BackgroundStep, Background, Tick, FlusherExits, FlushLock, Flush, Fetch,
              Store, ListenerExits, Vacuum
<1>6. ASSUME NEW c \in Callers, Arrive(c) PROVE InCall'
  BY <1>6 DEF Arrive, cacheVars
<1>7. ASSUME NEW c \in Callers, CallMongo(c) \/ RunJob(c) \/ Recover(c) PROVE InCall'
  BY <1>7 DEF CallMongo, RunJob, Recover, Calling, Proceed, Leave, cacheVars
<1>8. ASSUME NEW c \in Callers, JobReturns(c) \/ ReturnFromCache(c) PROVE InCall'
  BY <1>8 DEF JobReturns, ReturnFromCache, Finish, Goto, Proceed, Leave, cacheVars
<1>9. ASSUME NEW c \in Callers, CallCache(c) PROVE InCall'
  BY <1>9 DEF CallCache, Call, Calling, Goto
<1>10. ASSUME NEW c \in Callers, InCacheStep(c) PROVE InCall'
  <2>1. /\ pc[c] \in {"incache", "read", "lock1", "lockn", "set1", "setn", "promote", "send", "delete"}
        /\ todo' = todo /\ inJob' = inJob
        /\ \A d \in Callers \ {c} : pc'[d] = pc[d]
    BY <1>10 DEF InCacheStep, CheckCached, ReadHits, Lock, SetFirst, SetNext, SetHits,
                 MakeRoom, SendPath, DeleteHits, Goto
  <2> QED
    BY <2>1
<1>11. CASE UNCHANGED vars
  BY <1>11 DEF vars, cacheVars
<1> HIDE DEF InCall
<1> QED
  BY <1>1, <1>2, <1>3, <1>4, <1>5, <1>6, <1>7, <1>8, <1>9, <1>10, <1>11, LifecycleCases

LEMMA StepOrder == LInv /\ [Next]_vars => Order'
<1> SUFFICES ASSUME LInv, [Next]_vars PROVE Order'
  OBVIOUS
<1>0. /\ Order /\ InCall /\ pc \in [Callers -> PCs] /\ main \in Mains
      /\ todo \in [Callers -> Seq({"db", "io", "cache"})]
      /\ stop \in {"no", "lock", "close", "wait", "drop", "join", "stopped", Killed}
      /\ mongo \in BOOLEAN /\ dealer \in BOOLEAN /\ broken \in BOOLEAN
      /\ listening \in BOOLEAN /\ timedOut \in BOOLEAN
      /\ nilled \in BOOLEAN /\ open \in BOOLEAN
  BY DEF LInv, CInv, CTInv, CacheTypeOK, ProcessTypes
<1> USE <1>0 DEF Order, Serving, Mains, Ended, process, handlers, Killed
<1>1. CASE ~Ended /\ BootStep
  <2>0. ProcessTypes
    BY DEF LInv
  <2>1. UNCHANGED <<timedOut, handlers, pc, nilled, open, stop>>
    BY <1>1, BootSteps DEF LInv, StartCache, cacheVars, counters, library
  <2>2. stop = "no" /\ ~listening /\ \A c \in Callers : Serving(c) => timedOut
    BY <1>1, BootSteps DEF LInv
  <2>3. /\ main' \in {"buckets", "cache", "dealer", "notify", "await"} => mongo'
        /\ main' \in {"notify", "await"} => dealer'
        /\ listening' => main' = "await"
        /\ main' \in {"connect", "buckets", "cache", "dealer", "notify", "await"}
    <3>1. \/ main = "config" /\ main' = "connect" /\ listening' = listening
          \/ main = "connect" /\ main' = "buckets" /\ mongo' = TRUE /\ listening' = listening
          \/ /\ main \in {"buckets", "cache"} /\ main' \in {"cache", "dealer"}
             /\ mongo' = mongo /\ listening' = listening
          \/ /\ main = "dealer" /\ main' = "notify"
             /\ dealer' = TRUE /\ mongo' = mongo /\ listening' = listening
          \/ /\ main = "notify" /\ main' = "await"
             /\ dealer' = dealer /\ mongo' = mongo
      BY <1>1, <2>0, BootSteps
    <3> QED
      BY <2>2, <3>1
  <2> QED
    BY <2>1, <2>2, <2>3
<1>2. CASE ~Ended /\ (Drained \/ CloseMongo \/ StopDealer \/ GiveUp)
  BY <1>2 DEF Drained, CloseMongo, StopDealer, GiveUp, cacheVars, counters, library
<1>3. CASE ~Ended /\ StopCache
  BY <1>3 DEF StopCache, StopBegins, Stopper, StopClears, StopCloses, LibraryStops,
              LibraryDrops, StopReturns, counters, library
<1>4. CASE ~Ended /\ (Refuse \/ Exit \/ Die \/ Signal)
  BY <1>4 DEF Refuse, Exit, Die, Signal, Kill, cacheVars, counters, library
<1>5. CASE ~Ended /\ BackgroundStep
  <2>1. /\ UNCHANGED <<process, handlers, pc, nilled, open, stop>>
    BY <1>5 DEF BackgroundStep, Background, Tick, FlusherExits, FlushLock, Flush, Fetch,
                Store, ListenerExits, Vacuum, counters, library
  <2> QED
    BY <2>1
<1>6. ASSUME NEW c \in Callers, ~Ended /\ Arrive(c) PROVE Order'
  BY <1>6 DEF Arrive, cacheVars, counters, library
<1>7. ASSUME NEW c \in Callers, ~Ended /\ (CallMongo(c) \/ RunJob(c) \/ Recover(c))
      PROVE  Order'
  <2>1. UNCHANGED <<process, pc, nilled, open, stop>> /\ Serving(c)
    BY <1>7 DEF CallMongo, RunJob, Recover, Calling, cacheVars, counters, library
  <2>2. todo' \in {todo, [todo EXCEPT ![c] = Tail(@)], [todo EXCEPT ![c] = <<>>]}
    BY <1>7 DEF CallMongo, RunJob, Recover, Proceed, Leave
  <2>3. \A d \in Callers : Serving(d)' => Serving(d)
    BY <2>1, <2>2
  <2>4. broken' => timedOut
    BY <1>7, <2>1 DEF CallMongo, RunJob, Recover
  <2> QED
    BY <2>1, <2>3, <2>4
<1>8. ASSUME NEW c \in Callers, ~Ended /\ (JobReturns(c) \/ ReturnFromCache(c))
      PROVE  Order'
  <2>1. /\ UNCHANGED <<process, broken, nilled, open, stop>> /\ Serving(c)
        /\ \A d \in Callers : pc'[d] = "panicked" => pc[d] = "panicked"
    BY <1>8 DEF JobReturns, ReturnFromCache, Finish, Goto, InCall, cacheVars, counters, library
  <2>2. todo' \in {todo, [todo EXCEPT ![c] = Tail(@)], [todo EXCEPT ![c] = <<>>]}
    BY <1>8 DEF JobReturns, ReturnFromCache, Proceed, Leave
  <2>3. \A d \in Callers : Serving(d)' => Serving(d)
    BY <2>1, <2>2
  <2> QED
    BY <2>1, <2>3
<1>9. ASSUME NEW c \in Callers, ~Ended /\ (CallCache(c) \/ InCacheStep(c)) PROVE Order'
  <2>1. /\ UNCHANGED <<process, handlers, nilled, open, stop>>
        /\ \A d \in Callers : pc'[d] = "panicked" => pc[d] = "panicked" \/ nilled \/ ~open
    BY <1>9 DEF CallCache, Call, InCacheStep, CheckCached, ReadHits, AfterFirst, Lock,
                SetFirst, SetNext, SetHits, MakeRoom, SendPath, DeleteHits, Goto,
                counters, library
  <2> QED
    BY <2>1
<1>10. CASE UNCHANGED vars
  BY <1>10 DEF vars, cacheVars, counters, library
<1> HIDE DEF Order
<1> QED
  BY <1>1, <1>2, <1>3, <1>4, <1>5, <1>6, <1>7, <1>8, <1>9, <1>10, LifecycleCases

-----------------------------------------------------------------------------
(* The theorems.                                                            *)

LEMMA Invariance == Spec => []LInv
<1>1. LInv /\ [Next]_vars => LInv'
  <2>1. LInv /\ [Next]_vars => CInv'
    BY NextCache, StepCInv DEF LInv
  <2> QED
    BY <2>1, StepProcessTypes, StepInCall, StepOrder DEF LInv
<1> QED
  BY InitLInv, <1>1, PTL DEF Spec

\* Every variable keeps its type; no counter passes the threshold.
THEOREM TypeCorrect == Spec => []TypeOK
<1>1. LInv => TypeOK
  BY MainsFacts DEF LInv, CInv, CTInv, ProcessTypes, TypeOK
<1> QED
  BY Invariance, <1>1, PTL

\* However handlers, flushes and deletes overtake each other in the map, a
\* file is handed to the library only after cache.threshold calls.
THEOREM PromotionsAreEarned == Spec => []PromotionIsEarned
<1>1. LInv => PromotionIsEarned
  BY DEF LInv, CInv, Earning
<1> QED
  BY Invariance, <1>1, PTL

\* The mutex excludes, and only a write to the map that Stop has set to nil
\* leaves it locked.
THEOREM MutexIsSound == Spec => []MutexIsHeld
<1>1. LInv => MutexIsHeld
  BY DEF LInv, CInv
<1> QED
  BY Invariance, <1>1, PTL

\* A request meets a part that is not there, or is cut short by the end of
\* main, only when srv.Shutdown has given up on it.
THEOREM GracefulShutdownIsClean == Spec => []GracefulIsClean
<1>1. LInv => GracefulIsClean
  BY DEF LInv, Order, GracefulIsClean
<1> QED
  BY Invariance, <1>1, PTL

\* Inside the process the file cache is FileCache: it starts as that does and
\* main, the handlers and the runtime move its variables by its steps only, so
\* that whatever holds of the cache by itself holds while main stops it.
THEOREM CacheIsFileCache == Spec => Init /\ [][CacheNext]_cacheVars
<1>1. LInit => Init
  BY DEF LInit
<1> QED
  BY <1>1, NextCache, PTL DEF Spec

=============================================================================
