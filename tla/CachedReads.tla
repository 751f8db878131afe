---------------------------- MODULE CachedReads ----------------------------
(***************************************************************************)
(* The bytes Get serves from memory.  The library keeps a file's content   *)
(* in an array, with the modification time of the file, and GetItem hands  *)
(* out that array, not a copy.  A resolver resets a bytes.Buffer made of   *)
(* it and writes its result: in place, when the result is not longer than  *)
(* the array's capacity.                                                   *)
(*                                                                         *)
(* One file, its original and its processed copies, each named after the   *)
(* resolvers that make it.  Documents, deletions and retries are           *)
(* FileStore's; which file is promoted, and when, is FileCache's and is    *)
(* left open here.  The clock of the file system is coarse: two changes of *)
(* a file may give it the same time, as the two of one os.WriteFile mostly *)
(* do.                                                                     *)
(***************************************************************************)
EXTENDS Naturals, FiniteSets

CONSTANTS
  Handlers,    \* goroutines that serve Get
  Resolvers,   \* the resolvers of the bucket's module
  Variants,    \* the copies that are asked for
  Fits,        \* results that fit into the array of the original
  Absent,      \* there is no such file
  Part,        \* the bytes of a file that is truncated and not written yet
  Spoiled,     \* what a resolver makes of other bytes than the original's
  None,        \* the value of "none"
  MaxRequests  \* bound: requests

\* An original or a copy of it, its name and its bytes, is the set of the
\* resolvers applied to it.
Original == {}
Images   == {Original} \union {{r} \union n : r \in Resolvers, n \in SUBSET Resolvers}
Names    == {Original} \union Variants
Bytes    == Images \union {Part, Spoiled}

ASSUME VariantsAssumption == Variants \subseteq Images \ {Original}
ASSUME FitsAssumption == Fits \subseteq Images
ASSUME NamesAssumption ==
  /\ Cardinality({Absent, Part, Spoiled, None}) = 4
  /\ {Absent, Part, Spoiled, None} \intersect Images = {}
  /\ None \notin Nat
ASSUME BoundAssumption == MaxRequests \in Nat

VARIABLES
  disk,      \* disk[n]: the bytes of the file
  mtime,     \* mtime[n]: the number of its modification time
  item,      \* item[n]: the array and the time of the library's item
  heap,      \* heap[a]: the bytes of the arrays something refers to
  pc,        \* where each handler is
  want,      \* the name it is asked for
  cur,       \* the name it looks up
  ref,       \* the array it has got
  todo,      \* the resolvers it has not applied yet
  made,      \* the resolver's result
  body,      \* the answer
  listener,  \* the file the library is reading, and the time it saw
  had,       \* history: had[n]: what the file was while it had its present time
  during,    \* history: what file cur[h], a copy, was since h's request began, or
             \* before with the time it had then
  reused,    \* history: a resolver wrote into an array others refer to
  requests   \* number of requests

files   == <<disk, mtime>>
memory  == <<item, heap>>
history == <<had, during, reused, requests>>
vars    == <<files, memory, pc, want, cur, ref, todo, made, body, listener, history>>

NoItem == [array |-> None, time |-> None]

\* An earlier process may have left copies, and a part of one it died over.
Init ==
  /\ disk \in {d \in [Names -> Bytes \union {Absent}] :
                /\ d[Original] = Original
                /\ \A v \in Variants : d[v] \in {Absent, v, Part}}
  /\ mtime = [n \in Names |-> 0]
  /\ item = [n \in Names |-> NoItem]
  /\ heap = <<>>
  /\ pc = [h \in Handlers |-> "idle"]
  /\ want = [h \in Handlers |-> None]
  /\ cur = [h \in Handlers |-> None]
  /\ ref = [h \in Handlers |-> None]
  /\ todo = [h \in Handlers |-> {}]
  /\ made = [h \in Handlers |-> None]
  /\ body = [h \in Handlers |-> None]
  /\ listener = [name |-> None, time |-> None]
  /\ had = [n \in Names |-> {disk[n]}]
  /\ during = [h \in Handlers |-> {}]
  /\ reused = FALSE
  /\ requests = 0

Goto(h, l) == pc' = [pc EXCEPT ![h] = l]

\* The file of a query: SHA1 of what Raw makes of it.
FileOf(n) == n

\* Arrays are numbered; the garbage collector frees those nobody refers to.
InUse == ({ref[h] : h \in Handlers} \union {item[n].array : n \in Names}) \ {None}

NewArray == CHOOSE a \in 0..Cardinality(InUse) : a \notin InUse

Keep       == heap' = [a \in InUse' |-> heap[a]]
Fill(a, b) == heap' = [x \in InUse' |-> IF x = a THEN b ELSE heap[x]]

\* Times are numbered too; only those the library has seen are told apart.
Seen(n) == {item[n].time} \union {listener.time}

NewTime(n) == CHOOSE t \in 0..2 : t \notin Seen(n)

-----------------------------------------------------------------------------
(* The library.                                                             *)

Valid(n) == item[n] # NoItem /\ disk[n] # Absent /\ item[n].time = mtime[n]

\* The listener stats a file that was promoted ...
FetchBegin ==
  /\ listener.name = None
  /\ \E n \in Names :
       /\ ~Valid(n)
       /\ disk[n] # Absent
       /\ listener' = [name |-> n, time |-> mtime[n]]
       /\ item' = [item EXCEPT ![n] = NoItem]
  /\ UNCHANGED <<files, pc, want, cur, ref, todo, made, body, history>>
  /\ Keep

\* ... and reads it into an item with the time it saw before.
FetchEnd ==
  /\ listener.name # None
  /\ item' = [item EXCEPT ![listener.name] = [array |-> NewArray, time |-> listener.time]]
  /\ listener' = [name |-> None, time |-> None]
  /\ UNCHANGED <<files, pc, want, cur, ref, todo, made, body, history>>
  /\ Fill(NewArray, disk[listener.name])

\* Expired, or the oldest.
Evict ==
  /\ \E n \in Names : item[n] # NoItem /\ item' = [item EXCEPT ![n] = NoItem]
  /\ UNCHANGED <<files, pc, want, cur, ref, todo, made, body, listener, history>>
  /\ Keep

-----------------------------------------------------------------------------
(* Get.                                                                     *)

StartGet(h) ==
  /\ pc[h] = "idle"
  /\ requests < MaxRequests
  /\ requests' = requests + 1
  /\ \E n \in Names :
       /\ want' = [want EXCEPT ![h] = n]
       /\ cur' = [cur EXCEPT ![h] = FileOf(n)]
       /\ todo' = [todo EXCEPT ![h] = n]
       /\ during' = [during EXCEPT ![h] = had[FileOf(n)]]
  /\ Goto(h, "incache")
  /\ UNCHANGED <<files, memory, ref, made, body, listener, had, reused>>

\* Mutant: Lookup takes the item without asking InCache.
InCache_NotAsked(h) ==
  /\ pc[h] = "incache"
  /\ Goto(h, "getitem")
  /\ UNCHANGED <<files, memory, want, cur, ref, todo, made, body, listener, history>>

\* Lookup: an item whose file has changed is dropped ...
InCache(h) ==
  /\ pc[h] = "incache"
  /\ IF Valid(cur[h])
       THEN Goto(h, "getitem") /\ UNCHANGED item
       ELSE Goto(h, "read") /\ item' = [item EXCEPT ![cur[h]] = NoItem]
  /\ UNCHANGED <<files, want, cur, ref, todo, made, body, listener, history>>
  /\ Keep

\* With the bytes of the original of a processed copy comes the resolver; all
\* others are the answer.
Got(h) == Goto(h, IF cur[h] = Original /\ want[h] # Original THEN "resolve" ELSE "respond")

\* ... and the array of a good one is handed out, if it is still there.
GetItem(h) ==
  /\ pc[h] = "getitem"
  /\ IF item[cur[h]] # NoItem
       THEN ref' = [ref EXCEPT ![h] = item[cur[h]].array] /\ Got(h)
       ELSE Goto(h, "read") /\ UNCHANGED ref
  /\ UNCHANGED <<files, memory, want, cur, todo, made, body, listener, history>>

IntoNewArray(h, b) ==
  /\ ref' = [ref EXCEPT ![h] = NewArray]
  /\ Fill(NewArray, b)

\* Mutant: an absent copy is read all the same, its error dropped.
ReadDisk_ErrorDropped(h) ==
  /\ pc[h] = "read"
  /\ Got(h)
  /\ UNCHANGED <<files, item, want, cur, todo, made, body, listener, history>>
  /\ IntoNewArray(h, disk[cur[h]])

\* The file is read; a copy that does not exist is made from the original.
ReadDisk(h) ==
  /\ pc[h] = "read"
  /\ UNCHANGED <<files, item, want, todo, made, body, listener, had, reused, requests>>
  /\ \/ /\ disk[cur[h]] # Absent
        /\ IntoNewArray(h, disk[cur[h]])
        /\ Got(h)
        /\ UNCHANGED <<cur, during>>
     \/ /\ disk[cur[h]] = Absent
        /\ cur' = [cur EXCEPT ![h] = Original]
        /\ during' = [during EXCEPT ![h] = {}]
        /\ Goto(h, "incache")
        /\ UNCHANGED <<ref, heap>>

\* What resolver r makes of the bytes b.
Resolved(b, r) ==
  IF b \in {Part, Spoiled} \/ r \in b THEN Spoiled ELSE b \union {r}

\* UseResolvers applies the resolvers in any order.  One of them reads the
\* array; an error ends the request ...
Resolve(h) ==
  /\ pc[h] = "resolve"
  /\ \/ /\ \E r \in todo[h] :
             /\ made' = [made EXCEPT ![h] = Resolved(heap[ref[h]], r)]
             /\ todo' = [todo EXCEPT ![h] = @ \ {r}]
        /\ Goto(h, "overwrite")
     \/ Goto(h, "return") /\ UNCHANGED <<todo, made>>
  /\ UNCHANGED <<files, memory, want, cur, ref, body, listener, history>>

Shared(h) ==
  \/ \E n \in Names : item[n].array = ref[h]
  \/ \E g \in Handlers \ {h} : ref[g] = ref[h]

\* Mutant: UseResolvers returns after the first resolver.
Overwrite_OnlyOne(h) ==
  /\ pc[h] = "overwrite"
  /\ Goto(h, "respond")
  /\ made' = [made EXCEPT ![h] = None]
  /\ UNCHANGED <<files, item, want, cur, todo, body, listener, had, during, requests>>
  /\ \/ /\ made[h] \in Fits \union {Spoiled}
        /\ heap' = [heap EXCEPT ![ref[h]] = made[h]]
        /\ reused' = (reused \/ Shared(h))
        /\ UNCHANGED ref
     \/ /\ made[h] \notin Fits
        /\ IntoNewArray(h, made[h])
        /\ UNCHANGED reused

\* ... and its result is written there, or into a new one.
Overwrite(h) ==
  /\ pc[h] = "overwrite"
  /\ Goto(h, IF todo[h] = {} THEN "respond" ELSE "resolve")
  /\ made' = [made EXCEPT ![h] = None]
  /\ UNCHANGED <<files, item, want, cur, todo, body, listener, had, during, requests>>
  /\ \/ /\ made[h] \in Fits \union {Spoiled}
        /\ heap' = [heap EXCEPT ![ref[h]] = made[h]]
        /\ reused' = (reused \/ Shared(h))
        /\ UNCHANGED ref
     \/ /\ made[h] \notin Fits
        /\ IntoNewArray(h, made[h])
        /\ UNCHANGED reused

\* The answer is what the array holds by now.
Respond(h) ==
  /\ pc[h] = "respond"
  /\ body' = [body EXCEPT ![h] = heap[ref[h]]]
  /\ UNCHANGED <<files, item, want, cur, todo, made, listener, history>>
  /\ IF cur[h] = Original /\ want[h] # Original
       THEN Goto(h, "save") /\ UNCHANGED <<ref, heap>>
       ELSE Goto(h, "return") /\ ref' = [ref EXCEPT ![h] = None] /\ Keep

\* The file of h's query gets the bytes b, and the time of the present tick.
WriteFile(h, b) ==
  LET n == FileOf(want[h])
  IN /\ disk' = [disk EXCEPT ![n] = b]
     /\ \/ /\ mtime' = [mtime EXCEPT ![n] = NewTime(n)]
           /\ had' = [had EXCEPT ![n] = {b}]
        \/ /\ mtime' = mtime
           /\ had' = [had EXCEPT ![n] = @ \union {b}]
     /\ during' = [g \in Handlers |->
          IF cur[g] = n THEN during[g] \union {b} ELSE during[g]]

\* MustSave, its last attempt: the file is truncated, and written with what
\* the array holds then; each may fail.
SaveCreate(h) ==
  /\ pc[h] = "save"
  /\ \/ WriteFile(h, Part) /\ Goto(h, "write")
     \/ Goto(h, "return") /\ UNCHANGED <<files, had, during>>
  /\ UNCHANGED <<memory, want, cur, ref, todo, made, body, listener, reused, requests>>

SaveWrite(h) ==
  /\ pc[h] = "write"
  /\ WriteFile(h, heap[ref[h]]) \/ UNCHANGED <<files, had, during>>
  /\ Goto(h, "return")
  /\ UNCHANGED <<memory, want, cur, ref, todo, made, body, listener, reused, requests>>

Return(h) ==
  /\ pc[h] = "return"
  /\ Goto(h, "idle")
  /\ want' = [want EXCEPT ![h] = None]
  /\ cur' = [cur EXCEPT ![h] = None]
  /\ ref' = [ref EXCEPT ![h] = None]
  /\ todo' = [todo EXCEPT ![h] = {}]
  /\ made' = [made EXCEPT ![h] = None]
  /\ body' = [body EXCEPT ![h] = None]
  /\ during' = [during EXCEPT ![h] = {}]
  /\ UNCHANGED <<files, item, listener, had, reused, requests>>
  /\ Keep

-----------------------------------------------------------------------------
GetStep(h) ==
  \/ InCache(h) \/ GetItem(h) \/ ReadDisk(h) \/ Resolve(h) \/ Overwrite(h)
  \/ Respond(h) \/ SaveCreate(h) \/ SaveWrite(h) \/ Return(h)

Next ==
  \/ \E h \in Handlers : StartGet(h) \/ GetStep(h)
  \/ FetchBegin \/ FetchEnd \/ Evict

Spec == Init /\ [][Next]_vars

-----------------------------------------------------------------------------
PCs == {"idle", "incache", "getitem", "read", "resolve", "overwrite", "respond",
        "save", "write", "return"}

\* Types of the variables; no array ever holds a file that is not there.
TypeOK ==
  /\ disk \in [Names -> Bytes \union {Absent}]
  /\ mtime \in [Names -> Nat]
  /\ item \in [Names -> [array : Nat, time : Nat] \union {NoItem}]
  /\ heap \in [InUse -> Bytes]
  /\ pc \in [Handlers -> PCs]
  /\ want \in [Handlers -> Names \union {None}]
  /\ cur \in [Handlers -> Names \union {None}]
  /\ ref \in [Handlers -> Nat \union {None}]
  /\ todo \in [Handlers -> SUBSET Resolvers]
  /\ made \in [Handlers -> Bytes \union {None}]
  /\ body \in [Handlers -> Bytes \union {None}]
  /\ listener \in [name : Names \union {None}, time : Nat \union {None}]
  /\ had \in [Names -> SUBSET (Bytes \union {Absent})]
  /\ during \in [Handlers -> SUBSET (Bytes \union {Absent})]
  /\ reused \in BOOLEAN
  /\ requests \in 0..MaxRequests

\* What is served of a processed copy that exists was on disk under its name
\* at some time since the request began, from whatever array it came, or in the
\* same tick of the clock as what was: nothing outlives in the cache a change
\* that gave the file another time.
FreshRead ==
  \A h \in Handlers :
    pc[h] = "return" /\ cur[h] # Original => body[h] \in during[h]

\* A wrong answer, or a wrong file, has one cause: some resolver wrote its
\* result into an array that the cache or another handler refers to.  (A part
\* of a copy is FreshRead's.)
OnlyReuseCorrupts ==
  reused \/
    /\ \A h \in Handlers : body[h] \in {None, want[h], Part}
    /\ \A n \in Names : disk[n] \in {Absent, n, Part}

\* README.md:150: a Get of a file without a query "will return original file".
OriginalIsServed ==
  \A h \in Handlers : pc[h] = "return" /\ want[h] = Original => body[h] = Original

=============================================================================
