----------------------------- MODULE FileCache -----------------------------
(***************************************************************************)
(* pkg/cache/file: which files are kept in memory.  Handlers count the     *)
(* hits of a path in a map and hand the path over to the library           *)
(* gokyle/filecache when it was hit often enough; a ticker flushes the     *)
(* counters; Stop runs at shutdown, possibly with handlers still inside.   *)
(*                                                                         *)
(* The map is read and deleted from outside its mutex.  A step is one      *)
(* access to the map, one operation on the mutex or a channel, or one call *)
(* of the library; the bytes of the items are CachedReads' subject.        *)
(***************************************************************************)
EXTENDS Naturals, Sequences, FiniteSets

CONSTANTS
  Callers,    \* goroutines of handlers
  Paths,      \* files on disk
  NoPath,     \* the value of "no path"
  NoOne,      \* the value of "no goroutine"
  Flusher,    \* the goroutine of flushing()
  Threshold,  \* cache.threshold
  MaxItems,   \* cache.max_items
  PipeSize,   \* the library's NewCachePipeSize
  MaxTicks    \* bound: ticks of the flusher's ticker

\* GetAppConfig refuses settings that are missing or zero.
Configured(setting) == setting # 0

ASSUME NamesAssumption ==
  NoPath \notin Paths /\ Flusher \notin Callers /\ NoOne \notin Callers \union {Flusher}
ASSUME ConfigAssumption ==
  /\ Threshold \in Nat /\ Configured(Threshold)
  /\ MaxItems \in Nat /\ Configured(MaxItems)
ASSUME PipeAssumption == PipeSize \in Nat \ {0}
ASSUME TicksAssumption == MaxTicks \in Nat

VARIABLES
  hits,      \* hits[p]: p's counter, 0 when the map has no entry
  nilled,    \* Stop has set the map to nil
  mu,        \* who holds the mutex
  pc,        \* where each caller of Increment is
  path,      \* the path it was called with
  curr,      \* the counter it has read
  cached,    \* what InCache told it
  flusher,   \* where the goroutine of flushing() is
  stop,      \* where Stop is
  shutdown,  \* the channel of that name has been closed
  items,     \* the library's map of items
  gone,      \* ... which is nil
  pipe,      \* the library's channel of files to cache
  open,      \* ... which has not been closed
  listener,  \* where the library's itemListener is
  fetched,   \* the file it has read
  calls,     \* history: calls of Increment per path
  ticks      \* ticks so far

counters == <<hits, nilled, mu>>
library  == <<items, gone, pipe, open, listener, fetched>>
local    == <<path, curr, cached>>
cacheVars == <<counters, library, pc, local, flusher, stop, shutdown, calls, ticks>>

Init ==
  /\ hits = [p \in Paths |-> 0]
  /\ nilled = FALSE
  /\ mu = NoOne
  /\ pc = [c \in Callers |-> "idle"]
  /\ path = [c \in Callers |-> NoPath]
  /\ curr = [c \in Callers |-> 0]
  /\ cached = [c \in Callers |-> FALSE]
  /\ flusher = "none"
  /\ stop = "no"
  /\ shutdown = FALSE
  /\ items = {}
  /\ gone = TRUE
  /\ pipe = <<>>
  /\ open = TRUE
  /\ listener = "none"
  /\ fetched = NoPath
  /\ calls = [p \in Paths |-> 0]
  /\ ticks = 0

Goto(c, l) == pc' = [pc EXCEPT ![c] = l]

\* Start: the library makes its map and starts its goroutines, and then there
\* is flushing().
StartCache ==
  /\ flusher = "none"
  /\ gone' = FALSE
  /\ listener' = "select"
  /\ flusher' = "select"
  /\ UNCHANGED <<counters, items, pipe, open, fetched, pc, local, stop, shutdown, calls, ticks>>

-----------------------------------------------------------------------------
(* Increment.                                                               *)

Call(c) ==
  /\ pc[c] = "idle"
  /\ \E p \in Paths :
       /\ path' = [path EXCEPT ![c] = p]
       /\ calls' = [calls EXCEPT ![p] = @ + 1]
  /\ Goto(c, "incache")
  /\ UNCHANGED <<counters, library, curr, cached, flusher, stop, shutdown, ticks>>

\* InCache: an item whose file changed or is gone is dropped.
CheckCached(c) ==
  /\ pc[c] = "incache"
  /\ \/ /\ path[c] \in items
        /\ cached' = [cached EXCEPT ![c] = TRUE]
        /\ UNCHANGED items
     \/ /\ items' = items \ {path[c]}
        /\ cached' = [cached EXCEPT ![c] = FALSE]
  /\ Goto(c, "read")
  /\ UNCHANGED <<counters, gone, pipe, open, listener, fetched, path, curr,
                 flusher, stop, shutdown, calls, ticks>>

\* What follows the first entry of a path: the next hit, or the promotion.
AfterFirst(c, n) ==
  IF cached[c] THEN "done" ELSE IF n < Threshold THEN "lockn" ELSE "promote"

\* The read without the mutex.
ReadHits(c) ==
  /\ pc[c] = "read"
  /\ LET n == IF nilled THEN 0 ELSE hits[path[c]]
     IN /\ curr' = [curr EXCEPT ![c] = n]
        /\ Goto(c, IF n = 0 THEN "lock1" ELSE AfterFirst(c, n))
  /\ UNCHANGED <<counters, library, path, cached, flusher, stop, shutdown, calls, ticks>>

Lock(c) ==
  /\ pc[c] \in {"lock1", "lockn"}
  /\ mu = NoOne
  /\ mu' = c
  /\ Goto(c, IF pc[c] = "lock1" THEN "set1" ELSE "setn")
  /\ UNCHANGED <<hits, nilled, library, local, flusher, stop, shutdown, calls, ticks>>

\* The write of n under the mutex.  A write to the nil map panics: the mutex
\* stays locked, as its Unlock is not deferred.
SetHits(c, n, next) ==
  /\ IF nilled
       THEN Goto(c, "panicked") /\ UNCHANGED <<hits, mu>>
       ELSE /\ hits' = [hits EXCEPT ![path[c]] = n]
            /\ mu' = NoOne
            /\ Goto(c, next)
  /\ UNCHANGED <<nilled, library, local, flusher, stop, shutdown, calls, ticks>>

\* Mutant: the mutex is kept for the second write, which locks it again.
SetFirst_KeepsLock(c) ==
  /\ pc[c] = "set1"
  /\ hits' = [hits EXCEPT ![path[c]] = 1]
  /\ Goto(c, AfterFirst(c, curr[c]))
  /\ UNCHANGED <<nilled, mu, library, local, flusher, stop, shutdown, calls, ticks>>

SetFirst(c) == pc[c] = "set1" /\ SetHits(c, 1, AfterFirst(c, curr[c]))

\* Mutant: the entry is incremented, not set to what was read and one: the
\* first hit, whose entry has just been made, counts twice.
SetNext_Increments(c) ==
  /\ pc[c] = "setn"
  /\ LET n == hits[path[c]] + 1
     IN SetHits(c, n, IF n = Threshold THEN "promote" ELSE "done")

SetNext(c) ==
  /\ pc[c] = "setn"
  /\ SetHits(c, curr[c] + 1, IF curr[c] + 1 = Threshold THEN "promote" ELSE "done")

\* The library's Cache: it makes room only when the number of items equals
\* the limit; which item is the oldest is left open.
MakeRoom(c) ==
  /\ pc[c] = "promote"
  /\ items' \in IF Cardinality(items) = MaxItems THEN {items \ {p} : p \in items}
                                                 ELSE {items}
  /\ Goto(c, "send")
  /\ UNCHANGED <<counters, gone, pipe, open, listener, fetched, local, flusher,
                 stop, shutdown, calls, ticks>>

\* ... and sends, which panics on the closed channel.
SendPath(c) ==
  /\ pc[c] = "send"
  /\ \/ /\ open
        /\ Len(pipe) < PipeSize
        /\ pipe' = Append(pipe, path[c])
        /\ Goto(c, "delete")
     \/ ~open /\ Goto(c, "panicked") /\ UNCHANGED pipe
  /\ UNCHANGED <<counters, items, gone, open, listener, fetched, local, flusher,
                 stop, shutdown, calls, ticks>>

\* The delete without the mutex; on the nil map it does nothing.
DeleteHits(c) ==
  /\ pc[c] = "delete"
  /\ hits' = [hits EXCEPT ![path[c]] = 0]
  /\ Goto(c, "done")
  /\ UNCHANGED <<nilled, mu, library, local, flusher, stop, shutdown, calls, ticks>>

Finish(c) ==
  /\ pc[c] = "done"
  /\ Goto(c, "idle")
  /\ path' = [path EXCEPT ![c] = NoPath]
  /\ curr' = [curr EXCEPT ![c] = 0]
  /\ cached' = [cached EXCEPT ![c] = FALSE]
  /\ UNCHANGED <<counters, library, flusher, stop, shutdown, calls, ticks>>

IncrementStep(c) ==
  \/ CheckCached(c) \/ ReadHits(c) \/ SetFirst(c) \/ SetNext(c) \/ MakeRoom(c)
  \/ DeleteHits(c) \/ Finish(c)

-----------------------------------------------------------------------------
(* flushing().                                                              *)

\* The select: a tick, or the end; either when both are ready.
Tick ==
  /\ flusher = "select"
  /\ ticks < MaxTicks
  /\ ticks' = ticks + 1
  /\ flusher' = "lock"
  /\ UNCHANGED <<counters, library, pc, local, stop, shutdown, calls>>

FlusherExits ==
  /\ flusher = "select"
  /\ shutdown
  /\ flusher' = "exited"
  /\ UNCHANGED <<counters, library, pc, local, stop, shutdown, calls, ticks>>

FlushLock ==
  /\ flusher = "lock"
  /\ mu = NoOne
  /\ mu' = Flusher
  /\ flusher' = "flush"
  /\ UNCHANGED <<hits, nilled, library, pc, local, stop, shutdown, calls, ticks>>

Flush ==
  /\ flusher = "flush"
  /\ hits' = [p \in Paths |-> 0]
  /\ mu' = NoOne
  /\ flusher' = "select"
  /\ UNCHANGED <<nilled, library, pc, local, stop, shutdown, calls, ticks>>

-----------------------------------------------------------------------------
(* The library's goroutines.                                                *)

\* itemListener takes a path and reads its file, unless the file is cached
\* already or cannot be read.
Fetch ==
  /\ listener = "select"
  /\ pipe # <<>>
  /\ pipe' = Tail(pipe)
  /\ \/ /\ ~gone
        /\ fetched' = Head(pipe)
        /\ listener' = "store"
     \/ UNCHANGED <<fetched, listener>>
  /\ UNCHANGED <<counters, items, gone, open, pc, local, flusher, stop, shutdown, calls, ticks>>

\* ... and adds it, without a look at the limit.
Store ==
  /\ listener = "store"
  /\ ~gone
  /\ items' = items \union {fetched}
  /\ listener' = "select"
  /\ fetched' = NoPath
  /\ UNCHANGED <<counters, gone, pipe, open, pc, local, flusher, stop, shutdown, calls, ticks>>

ListenerExits ==
  /\ listener = "select"
  /\ ~open
  /\ listener' = "exited"
  /\ UNCHANGED <<counters, items, gone, pipe, open, fetched, pc, local, flusher,
                 stop, shutdown, calls, ticks>>

\* vacuum drops expired items, and then the oldest until the limit holds.
Vacuum ==
  /\ ~gone
  /\ items' \in {s \in SUBSET items : Cardinality(s) <= MaxItems}
  /\ UNCHANGED <<counters, gone, pipe, open, listener, fetched, pc, local,
                 flusher, stop, shutdown, calls, ticks>>

-----------------------------------------------------------------------------
(* Stop.                                                                    *)

StopBegins ==
  /\ stop = "no"
  /\ stop' = "lock"
  /\ UNCHANGED <<counters, library, pc, local, flusher, shutdown, calls, ticks>>

\* The map is set to nil under the mutex.
StopClears ==
  /\ stop = "lock"
  /\ mu = NoOne
  /\ nilled' = TRUE
  /\ stop' = "close"
  /\ UNCHANGED <<hits, mu, library, pc, local, flusher, shutdown, calls, ticks>>

\* Mutant: the channel is not closed.
StopCloses_Missing ==
  /\ stop = "close"
  /\ stop' = "wait"
  /\ UNCHANGED <<counters, library, pc, local, flusher, shutdown, calls, ticks>>

StopCloses ==
  /\ stop = "close"
  /\ shutdown' = TRUE
  /\ stop' = "wait"
  /\ UNCHANGED <<counters, library, pc, local, flusher, calls, ticks>>

\* wg.Wait returns; the library's Stop closes its channels ...
LibraryStops ==
  /\ stop = "wait"
  /\ flusher = "exited"
  /\ open' = FALSE
  /\ stop' = "drop"
  /\ UNCHANGED <<counters, items, gone, pipe, listener, fetched, pc, local,
                 flusher, shutdown, calls, ticks>>

\* ... sets its items to nil, whether or not the listener got the message ...
LibraryDrops ==
  /\ stop = "drop"
  /\ items' = {}
  /\ gone' = TRUE
  /\ stop' = "join"
  /\ UNCHANGED <<counters, pipe, open, listener, fetched, pc, local, flusher,
                 shutdown, calls, ticks>>

\* ... and waits for its goroutines.
StopReturns ==
  /\ stop = "join"
  /\ listener = "exited"
  /\ stop' = "stopped"
  /\ UNCHANGED <<counters, library, pc, local, flusher, shutdown, calls, ticks>>

Stopper == StopClears \/ StopCloses \/ LibraryStops \/ LibraryDrops \/ StopReturns

Background == Tick \/ FlusherExits \/ FlushLock \/ Flush \/ Fetch \/ Store
              \/ ListenerExits \/ Vacuum

-----------------------------------------------------------------------------
(* What ends the process.                                                   *)

\* A goroutine in the middle of a write of the map, and one that is about to
\* access it.
Writes(c)   == pc[c] \in {"set1", "setn", "delete"}
Accesses(c) == pc[c] = "read" \/ Writes(c)

\* The library looks for the item, and for the oldest, without its own lock.
AccessesItems(c) ==
  \/ pc[c] = "incache" /\ path[c] \in items
  \/ pc[c] = "promote" /\ Cardinality(items) = MaxItems

\* The Go runtime ends the process when it catches an access to a map that
\* another goroutine writes.  Two that hold the mutex never meet.  The items
\* are written by the listener, and by vacuum, which also walks through them
\* without the lock, whenever there are any.
MapRace ==
  \/ /\ ~nilled
     /\ \E c \in Callers : Accesses(c) /\
          \/ \E d \in Callers \ {c} : Writes(d)
          \/ flusher = "flush"
  \/ /\ ~gone /\ items # {}
     /\ listener = "store" \/ \E c \in Callers : AccessesItems(c)

\* The listener stores into the items that Stop has set to nil meanwhile: a
\* panic nobody recovers.
ListenerPanics == listener = "store" /\ gone

Killed == "killed"

\* Every goroutine is gone.
Kill ==
  /\ pc' = [c \in Callers |-> Killed]
  /\ flusher' = Killed
  /\ listener' = Killed
  /\ stop' = Killed
  /\ UNCHANGED <<counters, items, gone, pipe, open, fetched, local, shutdown, calls, ticks>>

-----------------------------------------------------------------------------
PCs == {"idle", "incache", "read", "lock1", "set1", "lockn", "setn", "promote",
        "send", "delete", "done", "panicked", Killed}

\* Types of the variables.  No counter passes the threshold and no channel
\* its capacity.
CacheTypeOK ==
  /\ hits \in [Paths -> 0..Threshold]
  /\ nilled \in BOOLEAN
  /\ mu \in Callers \union {Flusher, NoOne}
  /\ pc \in [Callers -> PCs]
  /\ path \in [Callers -> Paths \union {NoPath}]
  /\ curr \in [Callers -> 0..Threshold]
  /\ cached \in [Callers -> BOOLEAN]
  /\ flusher \in {"none", "select", "lock", "flush", "exited", Killed}
  /\ stop \in {"no", "lock", "close", "wait", "drop", "join", "stopped", Killed}
  /\ shutdown \in BOOLEAN
  /\ items \subseteq Paths
  /\ gone \in BOOLEAN
  /\ pipe \in Seq(Paths) /\ Len(pipe) <= PipeSize
  /\ open \in BOOLEAN
  /\ listener \in {"none", "select", "store", "exited", Killed}
  /\ fetched \in Paths \union {NoPath}
  /\ calls \in [Paths -> Nat]
  /\ ticks \in 0..MaxTicks

\* Paths the library has been asked to cache.
Promoted == items \union {pipe[i] : i \in 1..Len(pipe)} \union {fetched}

\* A file is cached only after cache.threshold hits, however its counter is
\* lost, flushed, or written back by a handler that had read it before.
PromotionIsEarned == \A p \in Promoted \ {NoPath} : calls[p] >= Threshold

\* Who holds the mutex is inside its critical section and nobody else is; the
\* one exception is a handler whose write to the nil map has panicked.
MutexIsHeld ==
  /\ \A c \in Callers : pc[c] \in {"set1", "setn"} => mu = c
  /\ flusher = "flush" => mu = Flusher
  /\ mu \in Callers =>
       pc[mu] \in {"set1", "setn", Killed} \/ (pc[mu] = "panicked" /\ nilled)

=============================================================================
