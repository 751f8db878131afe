--------------------------- MODULE FileCache_proofs ---------------------------
(***************************************************************************)
(* Invariants of FileCache for any number of handlers and paths, any       *)
(* threshold, limit and capacity of the channel.                           *)
(*                                                                         *)
(* The argument.  The map is read without the mutex, so a handler may      *)
(* write back what is long gone.  But what it has read was earned then,    *)
(* and the calls that are not counted yet, its own among them, come on     *)
(* top: a counter and the calls of its path still to be counted never      *)
(* exceed the calls made (Earning), and this only gets more room with      *)
(* time.                                                                   *)
(***************************************************************************)
EXTENDS FileCache, FiniteSetTheorems, TLAPS

-----------------------------------------------------------------------------
(* The cache's steps and its invariant.                                     *)

CacheNext ==
  \/ \E c \in Callers : Call(c) \/ IncrementStep(c) \/ Lock(c) \/ SendPath(c)
  \/ StartCache \/ Background \/ StopBegins \/ Stopper \/ Kill

\* CControl: what the place of a goroutine says of its local variables.
CControl ==
  /\ \A c \in Callers : pc[c] \notin {"idle", Killed} => path[c] \in Paths
  /\ \A c \in Callers : pc[c] \in {"lock1", "set1"} => curr[c] = 0
  /\ \A c \in Callers : pc[c] \in {"lockn", "setn"} => curr[c] < Threshold
  /\ listener = "store" => fetched \in Paths

CTInv == CacheTypeOK /\ CControl

\* The calls of a path whose hit is not counted yet: one that read nothing is
\* counted by its first write, any other by its second.
Pending(c) ==
  \/ pc[c] \in {"incache", "read", "lock1", "set1"}
  \/ pc[c] \in {"lockn", "setn"} /\ curr[c] # 0
InFlight(p) == {c \in Callers : path[c] = p /\ Pending(c)}

Earned(p, n) == n + Cardinality(InFlight(p)) <= calls[p]

\* Earning: every number a counter has, or will be given, was earned.
Earning ==
  /\ \A p \in Paths : IsFiniteSet(InFlight(p)) /\ Earned(p, hits[p])
  /\ \A c \in Callers : pc[c] \in {"lockn", "setn"} =>
       Earned(path[c], IF curr[c] = 0 THEN 1 ELSE curr[c])
  /\ \A c \in Callers : pc[c] \in {"promote", "send"} => calls[path[c]] >= Threshold
  /\ PromotionIsEarned

CInv == CTInv /\ MutexIsHeld /\ Earning

-----------------------------------------------------------------------------
LEMMA Constants ==
  /\ NoPath \notin Paths /\ Flusher \notin Callers /\ NoOne \notin Callers /\ NoOne # Flusher
  /\ Threshold \in Nat /\ Threshold > 0 /\ MaxItems \in Nat
  /\ PipeSize \in Nat /\ PipeSize > 0
  /\ MaxTicks \in Nat
  BY NamesAssumption, ConfigAssumption, PipeAssumption, TicksAssumption DEF Configured

\* CacheNext, as a goal for each action.
LEMMA CacheCases ==
  ASSUME NEW P,
         \A c \in Callers : Call(c) \/ CheckCached(c) \/ ReadHits(c) \/ Lock(c) => P,
         \A c \in Callers : SetFirst(c) \/ SetNext(c) => P,
         \A c \in Callers : MakeRoom(c) \/ SendPath(c) \/ DeleteHits(c) \/ Finish(c) => P,
         Tick \/ FlusherExits \/ FlushLock \/ Flush => P,
         Fetch \/ Store \/ ListenerExits \/ Vacuum => P,
         StartCache \/ StopBegins \/ StopClears \/ StopCloses => P,
         LibraryStops \/ LibraryDrops \/ StopReturns => P,
         Kill => P,
         UNCHANGED cacheVars => P,
         [CacheNext]_cacheVars
  PROVE  P
  BY DEF CacheNext, IncrementStep, Background, Stopper

\* The places of the goroutines, and what goes with them.
Places ==
  /\ pc \in [Callers -> PCs]
  /\ path \in [Callers -> Paths \union {NoPath}]
  /\ \A c \in Callers : pc[c] \notin {"idle", Killed} => path[c] \in Paths
  /\ mu \in Callers \union {Flusher, NoOne}
  /\ nilled \in BOOLEAN
  /\ flusher \in {"none", "select", "lock", "flush", "exited", Killed}
  /\ stop \in {"no", "lock", "close", "wait", "drop", "join", "stopped", Killed}

\* The counters.
Numbers ==
  /\ hits \in [Paths -> 0..Threshold]
  /\ curr \in [Callers -> 0..Threshold]
  /\ \A c \in Callers : pc[c] \in {"lock1", "set1"} => curr[c] = 0
  /\ \A c \in Callers : pc[c] \in {"lockn", "setn"} => curr[c] < Threshold
  /\ calls \in [Paths -> Nat]
  /\ ticks \in 0..MaxTicks

\* The library's variables, and those that only hold truth values.
Contents ==
  /\ items \subseteq Paths
  /\ pipe \in Seq(Paths) /\ Len(pipe) <= PipeSize
  /\ listener \in {"none", "select", "store", "exited", Killed}
  /\ fetched \in Paths \union {NoPath}
  /\ listener = "store" => fetched \in Paths
  /\ {shutdown, gone, open} \subseteq BOOLEAN
  /\ cached \in [Callers -> BOOLEAN]

LEMMA CTInvParts == CTInv <=> Places /\ Numbers /\ Contents
  BY DEF CTInv, CacheTypeOK, CControl, Places, Numbers, Contents

LEMMA InitCInv == Init => CInv
<1> SUFFICES ASSUME Init PROVE CInv
  OBVIOUS
<1> USE Constants DEF Init
<1>1. CTInv
  <2>1. Places
    BY DEF Places, PCs, Killed
  <2>2. Numbers
    BY DEF Numbers
  <2>3. Contents
    <3>1. pipe \in Seq(Paths) /\ Len(pipe) <= PipeSize
      OBVIOUS
    <3>2. cached \in [Callers -> BOOLEAN] /\ {shutdown, gone, open} \subseteq BOOLEAN
      OBVIOUS
    <3>3. /\ items \subseteq Paths
          /\ listener \in {"none", "select", "store", "exited", Killed}
          /\ fetched \in Paths \union {NoPath}
          /\ listener = "store" => fetched \in Paths
      OBVIOUS
    <3> QED
      BY <3>1, <3>2, <3>3 DEF Contents
  <2> QED
    BY <2>1, <2>2, <2>3, CTInvParts
<1>2. MutexIsHeld
  BY DEF MutexIsHeld
<1>3. Earning
  <2>1. \A p \in Paths : InFlight(p) = {}
    BY DEF InFlight, Pending
  <2>2. ASSUME NEW p \in Paths PROVE IsFiniteSet(InFlight(p)) /\ Earned(p, hits[p])
    <3>1. IsFiniteSet(InFlight(p)) /\ Cardinality(InFlight(p)) = 0
      BY <2>1, FS_EmptySet
    <3>2. hits[p] = 0 /\ calls[p] = 0
      OBVIOUS
    <3> QED
      BY <3>1, <3>2 DEF Earned
  <2>3. Promoted \ {NoPath} = {}
    BY DEF Promoted
  <2> QED
    BY <2>2, <2>3 DEF Earning, PromotionIsEarned
<1> QED
  BY <1>1, <1>2, <1>3 DEF CInv

-----------------------------------------------------------------------------
(* Types and control.                                                       *)

LEMMA StepPlaces == Places /\ Numbers /\ Contents /\ [CacheNext]_cacheVars => Places'
<1> SUFFICES ASSUME Places, Numbers, Contents, [CacheNext]_cacheVars PROVE Places'
  OBVIOUS
<1> USE Constants DEF Places, PCs, Killed, counters, library, local, Goto
<1>1. ASSUME NEW c \in Callers, Call(c) PROVE Places'
  BY <1>1 DEF Call
<1>2. ASSUME NEW c \in Callers, CheckCached(c) PROVE Places'
  BY <1>2 DEF CheckCached
<1>3. ASSUME NEW c \in Callers, ReadHits(c) PROVE Places'
  BY <1>3 DEF ReadHits, AfterFirst
<1>4. ASSUME NEW c \in Callers, Lock(c) PROVE Places'
  BY <1>4 DEF Lock
<1>5. ASSUME NEW c \in Callers, SetFirst(c) PROVE Places'
  BY <1>5 DEF SetFirst, SetHits, AfterFirst
<1>6. ASSUME NEW c \in Callers, SetNext(c) PROVE Places'
  BY <1>6 DEF SetNext, SetHits
<1>7. ASSUME NEW c \in Callers, MakeRoom(c) PROVE Places'
  BY <1>7 DEF MakeRoom
<1>8. ASSUME NEW c \in Callers, SendPath(c) PROVE Places'
  BY <1>8 DEF SendPath
<1>9. ASSUME NEW c \in Callers, DeleteHits(c) \/ Finish(c) PROVE Places'
  BY <1>9 DEF DeleteHits, Finish
<1>10. CASE Tick \/ FlusherExits \/ FlushLock \/ Flush
  BY <1>10 DEF Tick, FlusherExits, FlushLock, Flush
<1>11. CASE Fetch \/ Store \/ ListenerExits \/ Vacuum
  BY <1>11 DEF Fetch, Store, ListenerExits, Vacuum
<1>12. CASE StartCache \/ StopBegins \/ StopClears \/ StopCloses
  BY <1>12 DEF StartCache, StopBegins, StopClears, StopCloses
<1>13. CASE LibraryStops \/ LibraryDrops \/ StopReturns
  BY <1>13 DEF LibraryStops, LibraryDrops, StopReturns
<1>14. CASE Kill
  BY <1>14 DEF Kill
<1>15. CASE UNCHANGED cacheVars
  BY <1>15 DEF cacheVars
<1> HIDE DEF Places
<1> QED
  BY <1>1, <1>2, <1>3, <1>4, <1>5, <1>6, <1>7, <1>8, <1>9, <1>10, <1>11, <1>12, <1>13,
     <1>14, <1>15, CacheCases

LEMMA StepNumbers == Places /\ Numbers /\ Contents /\ [CacheNext]_cacheVars => Numbers'
<1> SUFFICES ASSUME Places, Numbers, Contents, [CacheNext]_cacheVars PROVE Numbers'
  OBVIOUS
<1> USE Constants DEF Places, Numbers, PCs, Killed, counters, library, local, Goto
<1>1. ASSUME NEW c \in Callers, Call(c) PROVE Numbers'
  BY <1>1 DEF Call
<1>2. ASSUME NEW c \in Callers, CheckCached(c) PROVE Numbers'
  BY <1>2 DEF CheckCached
<1>3. ASSUME NEW c \in Callers, ReadHits(c) PROVE Numbers'
  BY <1>3 DEF ReadHits, AfterFirst
<1>4. ASSUME NEW c \in Callers, Lock(c) PROVE Numbers'
  BY <1>4 DEF Lock
<1>5. ASSUME NEW c \in Callers, SetFirst(c) PROVE Numbers'
  BY <1>5 DEF SetFirst, SetHits, AfterFirst
<1>6. ASSUME NEW c \in Callers, SetNext(c) PROVE Numbers'
  BY <1>6 DEF SetNext, SetHits
<1>7. ASSUME NEW c \in Callers, MakeRoom(c) PROVE Numbers'
  BY <1>7 DEF MakeRoom
<1>8. ASSUME NEW c \in Callers, SendPath(c) PROVE Numbers'
  BY <1>8 DEF SendPath
<1>9. ASSUME NEW c \in Callers, DeleteHits(c) \/ Finish(c) PROVE Numbers'
  BY <1>9 DEF DeleteHits, Finish
<1>10. CASE Tick \/ FlusherExits \/ FlushLock \/ Flush
  BY <1>10 DEF Tick, FlusherExits, FlushLock, Flush
<1>11. CASE Fetch \/ Store \/ ListenerExits \/ Vacuum
  BY <1>11 DEF Fetch, Store, ListenerExits, Vacuum
<1>12. CASE StartCache \/ StopBegins \/ StopClears \/ StopCloses
  BY <1>12 DEF StartCache, StopBegins, StopClears, StopCloses
<1>13. CASE LibraryStops \/ LibraryDrops \/ StopReturns
  BY <1>13 DEF LibraryStops, LibraryDrops, StopReturns
<1>14. CASE Kill
  BY <1>14 DEF Kill
<1>15. CASE UNCHANGED cacheVars
  BY <1>15 DEF cacheVars
<1> HIDE DEF Numbers
<1> QED
  BY <1>1, <1>2, <1>3, <1>4, <1>5, <1>6, <1>7, <1>8, <1>9, <1>10, <1>11, <1>12, <1>13,
     <1>14, <1>15, CacheCases

LEMMA StepContents == Places /\ Numbers /\ Contents /\ [CacheNext]_cacheVars => Contents'
<1> SUFFICES ASSUME Places, Numbers, Contents, [CacheNext]_cacheVars PROVE Contents'
  OBVIOUS
<1> USE Constants DEF Places, Contents, PCs, Killed, counters, library, local, Goto
<1>1. ASSUME NEW c \in Callers, Call(c) PROVE Contents'
  BY <1>1 DEF Call
<1>2. ASSUME NEW c \in Callers, CheckCached(c) PROVE Contents'
  BY <1>2 DEF CheckCached
<1>3. ASSUME NEW c \in Callers, ReadHits(c) PROVE Contents'
  BY <1>3 DEF ReadHits, AfterFirst
<1>4. ASSUME NEW c \in Callers, Lock(c) PROVE Contents'
  BY <1>4 DEF Lock
<1>5. ASSUME NEW c \in Callers, SetFirst(c) PROVE Contents'
  BY <1>5 DEF SetFirst, SetHits, AfterFirst
<1>6. ASSUME NEW c \in Callers, SetNext(c) PROVE Contents'
  BY <1>6 DEF SetNext, SetHits
<1>7. ASSUME NEW c \in Callers, MakeRoom(c) PROVE Contents'
  BY <1>7 DEF MakeRoom
<1>8. ASSUME NEW c \in Callers, SendPath(c) PROVE Contents'
  BY <1>8 DEF SendPath
<1>9. ASSUME NEW c \in Callers, DeleteHits(c) \/ Finish(c) PROVE Contents'
  BY <1>9 DEF DeleteHits, Finish
<1>10. CASE Tick \/ FlusherExits \/ FlushLock \/ Flush
  BY <1>10 DEF Tick, FlusherExits, FlushLock, Flush
<1>11. CASE Fetch \/ Store \/ ListenerExits \/ Vacuum
  BY <1>11 DEF Fetch, Store, ListenerExits, Vacuum
<1>12. CASE StartCache \/ StopBegins \/ StopClears \/ StopCloses
  BY <1>12 DEF StartCache, StopBegins, StopClears, StopCloses
<1>13. CASE LibraryStops \/ LibraryDrops \/ StopReturns
  BY <1>13 DEF LibraryStops, LibraryDrops, StopReturns
<1>14. CASE Kill
  BY <1>14 DEF Kill
<1>15. CASE UNCHANGED cacheVars
  BY <1>15 DEF cacheVars
<1> HIDE DEF Contents
<1> QED
  BY <1>1, <1>2, <1>3, <1>4, <1>5, <1>6, <1>7, <1>8, <1>9, <1>10, <1>11, <1>12, <1>13,
     <1>14, <1>15, CacheCases

LEMMA StepCTInv == CTInv /\ [CacheNext]_cacheVars => CTInv'
<1>1. (Places /\ Numbers /\ Contents)' <=> CTInv'
  BY CTInvParts, PTL
<1> QED
  BY <1>1, CTInvParts, StepPlaces, StepNumbers, StepContents

-----------------------------------------------------------------------------
(* The mutex.                                                               *)

LEMMA StepMutex == CTInv /\ MutexIsHeld /\ [CacheNext]_cacheVars => MutexIsHeld'
<1> SUFFICES ASSUME CTInv, MutexIsHeld, [CacheNext]_cacheVars PROVE MutexIsHeld'
  OBVIOUS
<1>0. pc \in [Callers -> PCs] /\ mu \in Callers \union {Flusher, NoOne}
  BY DEF CTInv, CacheTypeOK
<1> USE <1>0, Constants DEF MutexIsHeld, Killed, counters, library, local, Goto
<1>1. ASSUME NEW c \in Callers, Call(c) \/ CheckCached(c) \/ ReadHits(c) \/ Lock(c)
      PROVE  MutexIsHeld'
  BY <1>1 DEF Call, CheckCached, ReadHits, AfterFirst, Lock
<1>2. ASSUME NEW c \in Callers, SetFirst(c) \/ SetNext(c) PROVE MutexIsHeld'
  BY <1>2 DEF SetFirst, SetNext, SetHits, AfterFirst
<1>3. ASSUME NEW c \in Callers, MakeRoom(c) \/ SendPath(c) \/ DeleteHits(c) \/ Finish(c)
      PROVE  MutexIsHeld'
  BY <1>3 DEF MakeRoom, SendPath, DeleteHits, Finish
<1>4. CASE Tick \/ FlusherExits \/ FlushLock \/ Flush
  BY <1>4 DEF Tick, FlusherExits, FlushLock, Flush
<1>5. CASE Fetch \/ Store \/ ListenerExits \/ Vacuum
  BY <1>5 DEF Fetch, Store, ListenerExits, Vacuum
<1>6. CASE StartCache \/ StopBegins \/ StopClears \/ StopCloses
  BY <1>6 DEF StartCache, StopBegins, StopClears, StopCloses
<1>7. CASE LibraryStops \/ LibraryDrops \/ StopReturns
  BY <1>7 DEF LibraryStops, LibraryDrops, StopReturns
<1>8. CASE Kill
  BY <1>8 DEF Kill
<1>9. CASE UNCHANGED cacheVars
  BY <1>9 DEF cacheVars
<1> HIDE DEF MutexIsHeld
<1> QED
  BY <1>1, <1>2, <1>3, <1>4, <1>5, <1>6, <1>7, <1>8, <1>9, CacheCases

-----------------------------------------------------------------------------
(* Counting.                                                                *)

\* A step of Earning's parts: the calls in flight change by at most one.
EarningKept ==
  \A p \in Paths :
    /\ IsFiniteSet(InFlight(p)')
    /\ calls'[p] >= calls[p]
    /\ \A n \in Nat : Earned(p, n) => n + Cardinality(InFlight(p)') <= calls'[p]

\* Nothing changes but for the one path of a call.
LEMMA FlightKept ==
  ASSUME CTInv, Earning, calls' = calls,
         \A p \in Paths : InFlight(p)' = InFlight(p)
  PROVE  EarningKept
<1>1. \A p \in Paths : IsFiniteSet(InFlight(p)) /\ calls[p] \in Nat
  BY DEF Earning, CTInv, CacheTypeOK
<1> QED
  BY <1>1 DEF EarningKept, Earned

\* A hit is counted, or given up.
LEMMA FlightEnds ==
  ASSUME CTInv, Earning, calls' = calls, NEW c \in Callers, NEW q \in Paths,
         c \in InFlight(q), InFlight(q)' = InFlight(q) \ {c},
         \A p \in Paths \ {q} : InFlight(p)' = InFlight(p)
  PROVE  /\ EarningKept
         /\ \A n \in Nat : Earned(q, n) => n + 1 + Cardinality(InFlight(q)') <= calls[q]
         /\ 1 + Cardinality(InFlight(q)') <= calls[q]
<1>1. \A p \in Paths : /\ IsFiniteSet(InFlight(p)) /\ calls[p] \in Nat /\ hits[p] \in Nat
                        /\ Cardinality(InFlight(p)) \in Nat /\ Earned(p, hits[p])
  BY FS_CardinalityType, Constants DEF Earning, CTInv, CacheTypeOK
<1>2. /\ IsFiniteSet(InFlight(q)')
      /\ Cardinality(InFlight(q)') = Cardinality(InFlight(q)) - 1
  BY <1>1, FS_RemoveElement
<1>3. \A n \in Nat : Earned(q, n) => n + 1 + Cardinality(InFlight(q)') <= calls[q]
  BY <1>1, <1>2 DEF Earned
<1>4. 1 + Cardinality(InFlight(q)') <= calls[q]
  BY <1>1, <1>2 DEF Earned
<1>5. EarningKept
  <2> SUFFICES ASSUME NEW p \in Paths
               PROVE  /\ IsFiniteSet(InFlight(p)')
                      /\ calls'[p] >= calls[p]
                      /\ \A n \in Nat : Earned(p, n) => n + Cardinality(InFlight(p)') <= calls'[p]
    BY DEF EarningKept
  <2>1. CASE p = q
    <3>1. Cardinality(InFlight(q)') \in Nat /\ calls[q] \in Nat
      BY <1>1, <1>2, FS_CardinalityType
    <3>2. InFlight(p)' = InFlight(q)' /\ InFlight(p) = InFlight(q) /\ calls[p] = calls[q]
      BY <2>1 DEF InFlight
    <3>3. ASSUME NEW n \in Nat, Earned(p, n) PROVE n + Cardinality(InFlight(q)') <= calls[q]
      <4>1. Earned(q, n)
        BY <2>1, <3>3
      <4>2. n + 1 + Cardinality(InFlight(q)') <= calls[q]
        BY <1>3, <4>1
      <4> QED
        BY <3>1, <4>2
    <3>4. IsFiniteSet(InFlight(p)')
      BY <1>2, <3>2
    <3>5. calls'[p] = calls[q] /\ calls[p] = calls[q]
      BY <3>2
    <3>6. \A n \in Nat : Earned(p, n) => n + Cardinality(InFlight(p)') <= calls'[p]
      BY <3>2, <3>3, <3>5
    <3> QED
      BY <3>1, <3>4, <3>5, <3>6
  <2>2. CASE p # q
    BY <1>1, <2>2 DEF Earned
  <2> QED
    BY <2>1, <2>2
<1> QED
  BY <1>3, <1>4, <1>5

\* A new call.
LEMMA FlightBegins ==
  ASSUME CTInv, Earning, NEW c \in Callers, NEW q \in Paths,
         calls' = [calls EXCEPT ![q] = @ + 1],
         c \notin InFlight(q), InFlight(q)' = InFlight(q) \union {c},
         \A p \in Paths \ {q} : InFlight(p)' = InFlight(p)
  PROVE  EarningKept
<1>1. \A p \in Paths : /\ IsFiniteSet(InFlight(p)) /\ calls[p] \in Nat
                        /\ Cardinality(InFlight(p)) \in Nat
  BY FS_CardinalityType DEF Earning, CTInv, CacheTypeOK
<1>2. /\ IsFiniteSet(InFlight(q)')
      /\ Cardinality(InFlight(q)') = Cardinality(InFlight(q)) + 1
  BY <1>1, FS_AddElement
<1>3. calls'[q] = calls[q] + 1 /\ \A p \in Paths \ {q} : calls'[p] = calls[p]
  BY DEF CTInv, CacheTypeOK
<1> SUFFICES ASSUME NEW p \in Paths
             PROVE  /\ IsFiniteSet(InFlight(p)')
                    /\ calls'[p] >= calls[p]
                    /\ \A n \in Nat : Earned(p, n) => n + Cardinality(InFlight(p)') <= calls'[p]
  BY DEF EarningKept
<1>4. CASE p = q
  BY <1>1, <1>2, <1>3, <1>4 DEF Earned
<1>5. CASE p # q
  BY <1>1, <1>3, <1>5 DEF Earned
<1> QED
  BY <1>4, <1>5

\* What is left of Earning when the calls in flight are accounted for: the
\* numbers a step writes, and the paths it promotes.
LEMMA EarningStep ==
  ASSUME CTInv, CTInv', Earning, EarningKept,
         \A p \in Paths :
           hits'[p] = hits[p] \/ hits'[p] + Cardinality(InFlight(p)') <= calls'[p],
         \A c \in Callers, p \in Paths : pc'[c] \in {"lockn", "setn"} /\ path'[c] = p =>
           \/ pc[c] \in {"lockn", "setn"} /\ path[c] = p /\ curr'[c] = curr[c]
           \/ (IF curr'[c] = 0 THEN 1 ELSE curr'[c]) + Cardinality(InFlight(p)') <= calls'[p],
         \A c \in Callers : pc'[c] \in {"promote", "send"} =>
           \/ pc[c] \in {"promote", "send"} /\ path'[c] = path[c]
           \/ calls'[path'[c]] >= Threshold,
         \A p \in Promoted' \ {NoPath} : p \in Promoted \/ calls[p] >= Threshold
  PROVE  Earning'
<1>1. \A p \in Paths : /\ IsFiniteSet(InFlight(p)') /\ calls'[p] >= calls[p]
                        /\ calls[p] \in Nat /\ calls'[p] \in Nat
                        /\ hits[p] \in Nat /\ hits'[p] \in Nat
                        /\ Earned(p, hits[p])
  BY Constants DEF EarningKept, Earning, CTInv, CacheTypeOK
<1>2. \A p \in Paths : IsFiniteSet(InFlight(p)') /\ Earned(p, hits[p])'
  BY <1>1 DEF EarningKept, Earned
<1>3. ASSUME NEW c \in Callers, pc'[c] \in {"lockn", "setn"}
      PROVE  Earned(path[c], IF curr[c] = 0 THEN 1 ELSE curr[c])'
  <2>1. path'[c] \in Paths /\ curr'[c] \in Nat
    <3>1. path'[c] \in Paths
      BY <1>3 DEF CTInv, CControl, Killed
    <3>2. curr'[c] \in 0..Threshold
      BY DEF CTInv, CacheTypeOK
    <3> QED
      BY <3>1, <3>2, Constants
  <2>2. PICK q \in Paths : q = path'[c]
    BY <2>1
  <2>3. PICK n \in Nat : n = IF curr'[c] = 0 THEN 1 ELSE curr'[c]
    BY <2>1
  <2>4. n + Cardinality(InFlight(q)') <= calls'[q]
    <3>1. CASE pc[c] \in {"lockn", "setn"} /\ path[c] = q /\ curr'[c] = curr[c]
      <4>1. Earned(q, n)
        BY <2>3, <3>1 DEF Earning
      <4> QED
        BY <4>1 DEF EarningKept
    <3>2. CASE (IF curr'[c] = 0 THEN 1 ELSE curr'[c]) + Cardinality(InFlight(q)') <= calls'[q]
      BY <2>3, <3>2
    <3> QED
      BY <1>3, <2>2, <3>1, <3>2
  <2>5. InFlight(path[c])' = InFlight(q)'
    BY <2>2 DEF InFlight
  <2> QED
    BY <2>2, <2>3, <2>4, <2>5 DEF Earned
<1>4. ASSUME NEW c \in Callers, pc'[c] \in {"promote", "send"}
      PROVE  calls'[path'[c]] >= Threshold
  <2>1. path'[c] \in Paths
    BY <1>4 DEF CTInv, CControl, Killed
  <2> QED
    BY <1>1, <1>4, <2>1, Constants DEF Earning
<1>5. PromotionIsEarned'
  <2> SUFFICES ASSUME NEW p \in Promoted', p # NoPath PROVE calls'[p] >= Threshold
    BY DEF PromotionIsEarned
  <2>1. p \in Paths
    BY DEF Promoted, CTInv, CacheTypeOK
  <2>2. calls[p] >= Threshold
    BY DEF Earning, PromotionIsEarned
  <2> QED
    BY <1>1, <2>1, <2>2, Constants
<1> QED
  BY <1>2, <1>3, <1>4, <1>5 DEF Earning

LEMMA StepEarning == CTInv /\ Earning /\ [CacheNext]_cacheVars => Earning'
<1> SUFFICES ASSUME CTInv, Earning, [CacheNext]_cacheVars PROVE Earning'
  OBVIOUS
<1>0. /\ CTInv'
      /\ \A c \in Callers : pc[c] \notin {"idle", Killed} => path[c] \in Paths
      /\ pc \in [Callers -> PCs] /\ path \in [Callers -> Paths \union {NoPath}]
      /\ curr \in [Callers -> 0..Threshold] /\ hits \in [Paths -> 0..Threshold]
      /\ calls \in [Paths -> Nat]
      /\ \A c \in Callers : pc[c] \in {"lock1", "set1"} => curr[c] = 0
      /\ Threshold \in Nat /\ Threshold > 0
  BY StepCTInv, Constants DEF CTInv, CacheTypeOK, CControl
<1> USE <1>0 DEF Killed, counters, library, local, Goto
<1>1. ASSUME NEW c \in Callers, Call(c) PROVE Earning'
  <2>1. PICK q \in Paths : /\ path' = [path EXCEPT ![c] = q]
                           /\ calls' = [calls EXCEPT ![q] = @ + 1]
    BY <1>1 DEF Call
  <2>2. pc[c] = "idle" /\ pc' = [pc EXCEPT ![c] = "incache"] /\ curr' = curr
        /\ hits' = hits /\ Promoted' = Promoted
    BY <1>1 DEF Call, Promoted
  <2>3. /\ c \notin InFlight(q) /\ InFlight(q)' = InFlight(q) \union {c}
        /\ \A p \in Paths \ {q} : InFlight(p)' = InFlight(p)
    BY <2>1, <2>2 DEF InFlight, Pending
  <2>4. EarningKept
    BY <2>1, <2>3, FlightBegins
  <2>5. \A d \in Callers : \/ d = c /\ pc'[d] = "incache"
                           \/ pc'[d] = pc[d] /\ path'[d] = path[d] /\ curr'[d] = curr[d]
    BY <2>1, <2>2
  <2> QED
    BY <2>2, <2>4, <2>5, EarningStep
<1>2. ASSUME NEW c \in Callers, CheckCached(c) \/ Lock(c) PROVE Earning'
  <2>1. /\ calls' = calls /\ hits' = hits /\ path' = path /\ curr' = curr
        /\ Promoted' \subseteq Promoted
    BY <1>2 DEF CheckCached, Lock, Promoted
  <2>2. \A d \in Callers :
          \/ pc'[d] = pc[d]
          \/ pc[d] = "incache" /\ pc'[d] = "read"
          \/ pc[d] = "lock1" /\ pc'[d] = "set1"
          \/ pc[d] = "lockn" /\ pc'[d] = "setn"
    BY <1>2 DEF CheckCached, Lock
  <2>3. EarningKept
    BY <2>1, <2>2, FlightKept DEF InFlight, Pending
  <2> QED
    BY <2>1, <2>2, <2>3, EarningStep
<1>3. ASSUME NEW c \in Callers, ReadHits(c) PROVE Earning'
  <2>1. /\ calls' = calls /\ hits' = hits /\ path' = path /\ Promoted' = Promoted
        /\ pc[c] = "read"
    BY <1>3 DEF ReadHits, Promoted
  <2>2. PICK q \in Paths : q = path[c]
    BY <2>1
  <2>3. PICK n \in 0..Threshold : n = IF nilled THEN 0 ELSE hits[q]
    BY <2>2
  <2>4. /\ curr' = [curr EXCEPT ![c] = n]
        /\ pc' = [pc EXCEPT ![c] = IF n = 0 THEN "lock1" ELSE AfterFirst(c, n)]
    BY <1>3, <2>2, <2>3 DEF ReadHits
  <2>5. /\ curr'[c] = n /\ pc'[c] \in {"lock1", "lockn", "promote", "done"}
        /\ pc'[c] = "lock1" <=> n = 0
        /\ pc'[c] = "promote" => n >= Threshold
        /\ \A d \in Callers \ {c} : pc'[d] = pc[d] /\ curr'[d] = curr[d]
    BY <2>4 DEF AfterFirst
  <2>6. /\ IsFiniteSet(InFlight(q)) /\ Earned(q, n) /\ n \in Nat /\ calls[q] \in Nat
        /\ Cardinality(InFlight(q)) \in Nat
    BY <2>3, FS_CardinalityType DEF Earning, Earned
  <2>7. CASE pc'[c] \in {"lock1", "lockn"}
    <3>1. \A p \in Paths : InFlight(p)' = InFlight(p)
      BY <2>1, <2>5, <2>7 DEF InFlight, Pending
    <3>2. EarningKept
      BY <2>1, <3>1, FlightKept
    <3>3. \A p \in Paths : path'[c] = p /\ pc'[c] = "lockn" =>
            (IF curr'[c] = 0 THEN 1 ELSE curr'[c]) + Cardinality(InFlight(p)') <= calls'[p]
      BY <2>1, <2>2, <2>5, <2>6, <3>1 DEF Earned
    <3> QED
      BY <2>1, <2>5, <2>7, <3>2, <3>3, EarningStep
  <2>8. CASE pc'[c] \in {"promote", "done"}
    <3>1. /\ c \in InFlight(q) /\ InFlight(q)' = InFlight(q) \ {c}
          /\ \A p \in Paths \ {q} : InFlight(p)' = InFlight(p)
      BY <2>1, <2>2, <2>5, <2>8 DEF InFlight, Pending
    <3>2. EarningKept
      BY <2>1, <3>1, FlightEnds
    <3>3. pc'[c] = "promote" => calls'[path'[c]] >= Threshold
      BY <2>1, <2>2, <2>5, <2>6 DEF Earned
    <3> QED
      BY <2>1, <2>5, <2>8, <3>2, <3>3, EarningStep
  <2> QED
    BY <2>5, <2>7, <2>8
<1>4. ASSUME NEW c \in Callers, SetFirst(c) PROVE Earning'
  <2>1. /\ calls' = calls /\ path' = path /\ curr' = curr /\ Promoted' = Promoted
        /\ pc[c] = "set1" /\ curr[c] = 0
    BY <1>4 DEF SetFirst, SetHits, Promoted
  <2>2. PICK q \in Paths : q = path[c]
    BY <2>1
  <2>3. /\ hits' = hits \/ hits' = [hits EXCEPT ![q] = 1]
        /\ pc'[c] \in {"panicked", "done", "lockn"}
        /\ \A d \in Callers \ {c} : pc'[d] = pc[d]
    BY <1>4, <2>1, <2>2 DEF SetFirst, SetHits, AfterFirst
  <2>4. /\ c \in InFlight(q) /\ InFlight(q)' = InFlight(q) \ {c}
        /\ \A p \in Paths \ {q} : InFlight(p)' = InFlight(p)
    BY <2>1, <2>2, <2>3 DEF InFlight, Pending
  <2>5. EarningKept /\ 1 + Cardinality(InFlight(q)') <= calls[q]
    BY <2>1, <2>4, FlightEnds
  <2>6. \A p \in Paths :
          hits'[p] = hits[p] \/ hits'[p] + Cardinality(InFlight(p)') <= calls'[p]
    BY <2>1, <2>3, <2>5
  <2>7. \A p \in Paths : path'[c] = p =>
          (IF curr'[c] = 0 THEN 1 ELSE curr'[c]) + Cardinality(InFlight(p)') <= calls'[p]
    BY <2>1, <2>2, <2>5
  <2> QED
    BY <2>1, <2>3, <2>5, <2>6, <2>7, EarningStep
<1>5. ASSUME NEW c \in Callers, SetNext(c) PROVE Earning'
  <2>1. /\ calls' = calls /\ path' = path /\ curr' = curr /\ Promoted' = Promoted
        /\ pc[c] = "setn"
    BY <1>5 DEF SetNext, SetHits, Promoted
  <2>2. PICK q \in Paths : q = path[c]
    BY <2>1
  <2>3. PICK n \in 0..Threshold : n = curr[c]
    OBVIOUS
  <2>4. /\ hits' = hits \/ hits' = [hits EXCEPT ![q] = n + 1]
        /\ pc'[c] \in {"panicked", "done", "promote"}
        /\ pc'[c] = "promote" => n + 1 = Threshold
        /\ \A d \in Callers \ {c} : pc'[d] = pc[d]
    BY <1>5, <2>1, <2>2, <2>3 DEF SetNext, SetHits
  <2>5. Earned(q, IF n = 0 THEN 1 ELSE n)
    BY <2>1, <2>2, <2>3 DEF Earning
  <2>6. EarningKept /\ n + 1 + Cardinality(InFlight(q)') <= calls[q]
    <3>1. CASE n = 0
      <4>1. \A p \in Paths : InFlight(p)' = InFlight(p)
        BY <2>1, <2>3, <2>4, <3>1 DEF InFlight, Pending
      <4>2. EarningKept
        BY <2>1, <4>1, FlightKept
      <4> QED
        BY <2>5, <3>1, <4>1, <4>2 DEF Earned
    <3>2. CASE n # 0
      <4>1. /\ c \in InFlight(q) /\ InFlight(q)' = InFlight(q) \ {c}
            /\ \A p \in Paths \ {q} : InFlight(p)' = InFlight(p)
        BY <2>1, <2>2, <2>3, <2>4, <3>2 DEF InFlight, Pending
      <4>2. EarningKept /\ \A m \in Nat : Earned(q, m) => m + 1 + Cardinality(InFlight(q)') <= calls[q]
        BY <2>1, <4>1, FlightEnds
      <4>3. Earned(q, n) /\ n \in Nat
        BY <2>3, <2>5, <3>2
      <4> QED
        BY <4>2, <4>3
    <3> QED
      BY <3>1, <3>2
  <2>7. \A p \in Paths :
          hits'[p] = hits[p] \/ hits'[p] + Cardinality(InFlight(p)') <= calls'[p]
    BY <2>1, <2>4, <2>6
  <2>8. pc'[c] = "promote" => calls'[path'[c]] >= Threshold
    <3>1. Cardinality(InFlight(q)') \in Nat /\ calls[q] \in Nat
      BY <2>6, FS_CardinalityType DEF EarningKept
    <3> QED
      BY <2>1, <2>2, <2>4, <2>6, <3>1
  <2> QED
    BY <2>1, <2>4, <2>6, <2>7, <2>8, EarningStep
<1>6. ASSUME NEW c \in Callers, MakeRoom(c) \/ SendPath(c) PROVE Earning'
  <2>1. /\ calls' = calls /\ hits' = hits /\ path' = path /\ curr' = curr
        /\ \A d \in Callers : \/ pc'[d] = pc[d]
                              \/ pc[d] = "promote" /\ pc'[d] = "send"
                              \/ pc[d] = "send" /\ pc'[d] \in {"delete", "panicked"}
    BY <1>6 DEF MakeRoom, SendPath
  <2>2. EarningKept
    BY <2>1, FlightKept DEF InFlight, Pending
  <2>3. \A p \in Promoted' \ {NoPath} : p \in Promoted \/ calls[p] >= Threshold
    <3>1. CASE MakeRoom(c)
      BY <3>1 DEF MakeRoom, Promoted
    <3>2. CASE SendPath(c)
      <4>1. calls[path[c]] >= Threshold
        BY <3>2 DEF SendPath, Earning
      <4>2. pipe \in Seq(Paths) /\ items' = items /\ fetched' = fetched
            /\ (pipe' = pipe \/ pipe' = Append(pipe, path[c])) /\ path[c] \in Paths
        BY <3>2 DEF SendPath, CTInv, CacheTypeOK
      <4>3. \A k \in 1..Len(pipe') : pipe'[k] = path[c] \/ \E m \in 1..Len(pipe) : pipe'[k] = pipe[m]
        BY <4>2
      <4>4. {pipe'[k] : k \in 1..Len(pipe')}
              \subseteq {pipe[k] : k \in 1..Len(pipe)} \union {path[c]}
        BY <4>3
      <4>5. Promoted' \subseteq Promoted \union {path[c]}
        BY <4>2, <4>4 DEF Promoted
      <4> QED
        BY <4>1, <4>5
    <3> QED
      BY <1>6, <3>1, <3>2
  <2> QED
    BY <2>1, <2>2, <2>3, EarningStep
<1>7. ASSUME NEW c \in Callers, DeleteHits(c) \/ Finish(c) PROVE Earning'
  <2>1. /\ calls' = calls /\ Promoted' = Promoted
        /\ \A p \in Paths : hits'[p] = hits[p] \/ hits'[p] = 0
        /\ \A d \in Callers :
             \/ pc'[d] = pc[d] /\ path'[d] = path[d] /\ curr'[d] = curr[d]
             \/ pc[d] \in {"delete", "done"} /\ pc'[d] \in {"done", "idle"}
    BY <1>7 DEF DeleteHits, Finish, Promoted
  <2>2. \A p \in Paths : InFlight(p)' = InFlight(p)
    BY <2>1 DEF InFlight, Pending
  <2>3. EarningKept
    BY <2>1, <2>2, FlightKept
  <2>4. \A p \in Paths :
          hits'[p] = hits[p] \/ hits'[p] + Cardinality(InFlight(p)') <= calls'[p]
    BY <2>1, <2>2, FS_CardinalityType DEF Earning, Earned
  <2> QED
    BY <2>1, <2>3, <2>4, EarningStep
<1>8. CASE Tick \/ FlusherExits \/ FlushLock \/ Flush
  <2>1. /\ calls' = calls /\ Promoted' = Promoted /\ pc' = pc /\ path' = path /\ curr' = curr
        /\ \A p \in Paths : hits'[p] = hits[p] \/ hits'[p] = 0
    BY <1>8 DEF Tick, FlusherExits, FlushLock, Flush, Promoted
  <2>2. \A p \in Paths : InFlight(p)' = InFlight(p)
    BY <2>1 DEF InFlight, Pending
  <2>3. EarningKept
    BY <2>1, <2>2, FlightKept
  <2>4. \A p \in Paths :
          hits'[p] = hits[p] \/ hits'[p] + Cardinality(InFlight(p)') <= calls'[p]
    BY <2>1, <2>2, FS_CardinalityType DEF Earning, Earned
  <2> QED
    BY <2>1, <2>3, <2>4, EarningStep
<1>9. CASE \/ Fetch \/ Store \/ ListenerExits \/ Vacuum
           \/ StartCache \/ StopBegins \/ StopClears \/ StopCloses
           \/ LibraryStops \/ LibraryDrops \/ StopReturns
           \/ UNCHANGED cacheVars
  <2>1. calls' = calls /\ hits' = hits /\ pc' = pc /\ path' = path /\ curr' = curr
    BY <1>9 DEF Fetch, Store, ListenerExits, Vacuum, StartCache, StopBegins, StopClears, StopCloses,
                LibraryStops, LibraryDrops, StopReturns, cacheVars
  <2>2. Promoted' \ {NoPath} \subseteq Promoted
    <3>1. CASE Fetch
      <4>1. pipe \in Seq(Paths) /\ pipe # <<>> /\ pipe' = Tail(pipe) /\ items' = items
            /\ fetched' \in {fetched, Head(pipe)}
        BY <3>1 DEF Fetch, CTInv, CacheTypeOK
      <4>2. Head(pipe) = pipe[1] /\ 1 \in 1..Len(pipe)
        BY <4>1
      <4>3. \A k \in 1..Len(pipe') : k + 1 \in 1..Len(pipe) /\ pipe'[k] = pipe[k + 1]
        BY <4>1
      <4>4. fetched' \in Promoted
        BY <4>1, <4>2 DEF Promoted
      <4>5. {pipe'[k] : k \in 1..Len(pipe')} \subseteq {pipe[k] : k \in 1..Len(pipe)}
        BY <4>3
      <4> QED
        BY <4>1, <4>4, <4>5 DEF Promoted
    <3>2. CASE Store \/ Vacuum \/ LibraryDrops
      BY <3>2 DEF Store, Vacuum, LibraryDrops, Promoted
    <3>3. CASE \/ ListenerExits \/ StartCache \/ StopBegins \/ StopClears \/ StopCloses
               \/ LibraryStops \/ StopReturns \/ UNCHANGED cacheVars
      BY <3>3 DEF ListenerExits, StartCache, StopBegins, StopClears, StopCloses, LibraryStops,
                  StopReturns, cacheVars, Promoted
    <3> QED
      BY <1>9, <3>1, <3>2, <3>3
  <2>3. EarningKept
    BY <2>1, FlightKept DEF InFlight, Pending
  <2> QED
    BY <2>1, <2>2, <2>3, EarningStep
<1>10. CASE Kill
  <2>1. /\ calls' = calls /\ hits' = hits /\ Promoted' = Promoted
        /\ \A c \in Callers : pc'[c] = Killed
    BY <1>10 DEF Kill, Promoted
  <2>2. \A p \in Paths : InFlight(p)' = {}
    BY <2>1 DEF InFlight, Pending
  <2>3. EarningKept
    <3> SUFFICES ASSUME NEW p \in Paths
                 PROVE  /\ IsFiniteSet({}) /\ calls[p] >= calls[p]
                        /\ \A n \in Nat : Earned(p, n) => n + Cardinality({}) <= calls[p]
      BY <2>1, <2>2 DEF EarningKept
    <3>1. IsFiniteSet(InFlight(p)) /\ Cardinality(InFlight(p)) \in Nat /\ calls[p] \in Nat
      BY FS_CardinalityType DEF Earning
    <3>2. IsFiniteSet({}) /\ Cardinality({}) = 0
      BY FS_EmptySet
    <3> QED
      BY <3>1, <3>2 DEF Earned
  <2> QED
    BY <2>1, <2>3, EarningStep
<1> HIDE <1>0
<1> QED
  BY <1>1, <1>2, <1>3, <1>4, <1>5, <1>6, <1>7, <1>8, <1>9, <1>10, CacheCases

\* CInv is an invariant of everything that moves the cache's variables by its
\* own steps only.
LEMMA StepCInv == CInv /\ [CacheNext]_cacheVars => CInv'
  BY StepCTInv, StepMutex, StepEarning DEF CInv

=============================================================================
