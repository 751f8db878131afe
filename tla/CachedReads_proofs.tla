-------------------------- MODULE CachedReads_proofs --------------------------
(***************************************************************************)
(* Theorems about CachedReads for any number of handlers, copies and       *)
(* requests.                                                               *)
(*                                                                         *)
(* The argument.  Arrays are shared, but only between those that look up   *)
(* one name (Apart), and a resolver only works on arrays of the original:  *)
(* so the array of a copy is never written, and keeps the bytes the disk   *)
(* had at some time; if its time is still the file's, the file had them    *)
(* with that time (Timed, Fresh).  Arrays of the original are written      *)
(* in place; as long as nobody else refers to the one that is, every array *)
(* holds what its name says (Honest).                                      *)
(***************************************************************************)
EXTENDS CachedReads, FiniteSetTheorems, TLAPS

-----------------------------------------------------------------------------
(* The invariant.                                                           *)

Real(n) == item[n] # NoItem

\* Control: what the place of a handler says of its local variables.
Control ==
  \A h \in Handlers :
    /\ pc[h] = "idle" => cur[h] = None
    /\ pc[h] # "idle" => want[h] \in Names /\ cur[h] \in {want[h], Original}
    /\ pc[h] \in {"idle", "incache", "getitem", "read"} => ref[h] = None
    /\ pc[h] \in {"resolve", "overwrite", "respond", "save", "write"} => ref[h] # None
    /\ pc[h] \in {"resolve", "overwrite", "save", "write"} =>
         cur[h] = Original /\ want[h] # Original
    /\ pc[h] = "overwrite" => made[h] # None
    /\ pc[h] # "idle" => todo[h] \subseteq want[h]
    /\ pc[h] \in {"incache", "getitem", "read"} => todo[h] = want[h]
    /\ pc[h] \notin {"save", "write", "return"} => body[h] = None

\* Stored: the original stays, and the file the library reads is there.
Stored ==
  /\ disk[Original] = Original
  /\ \A n \in Names : disk[n] \in had[n]
  /\ listener.name # None =>
       disk[listener.name] # Absent /\ ~Real(listener.name) /\ listener.time \in Nat

\* Apart: who refers to one array looks up one name.
Apart ==
  /\ \A n, m \in Names : Real(n) /\ item[n].array = item[m].array => n = m
  /\ \A h \in Handlers, n \in Names :
       ref[h] # None /\ item[n].array = ref[h] => cur[h] = n
  /\ \A g, h \in Handlers : ref[h] # None /\ ref[g] = ref[h] => cur[g] = cur[h]

\* Timed: an item of a copy that has the time of its file has bytes the file
\* had with it.
Timed ==
  \A n \in Variants : Real(n) /\ item[n].time = mtime[n] => heap[item[n].array] \in had[n]

\* Fresh: whatever a handler may yet serve of a copy was on disk meanwhile.
Fresh ==
  \A h \in Handlers : cur[h] \in Variants =>
    /\ had[cur[h]] \subseteq during[h]
    /\ pc[h] = "getitem" /\ Real(cur[h]) => heap[item[cur[h]].array] \in during[h]
    /\ ref[h] # None => heap[ref[h]] \in during[h]
    /\ pc[h] = "return" => body[h] \in during[h]

\* Honest: before the first reuse of an array that others refer to, items,
\* arrays and results hold what they are taken for.
HonestItem(n) == Real(n) => heap[item[n].array] \in (IF n = Original THEN {n} ELSE {n, Part})
HonestGet(h)  ==
  /\ pc[h] = "resolve" => heap[ref[h]] = want[h] \ todo[h]
  /\ pc[h] = "overwrite" => made[h] = want[h] \ todo[h]
  /\ pc[h] \in {"respond", "save", "write"} => heap[ref[h]] \in {want[h], Part}

Honest ==
  reused \/ /\ \A n \in Names : HonestItem(n)
            /\ \A h \in Handlers : HonestGet(h)

Types == TypeOK /\ IsFiniteSet(InUse)
IInv  == Types /\ Control /\ Stored /\ Apart /\ Timed /\ Fresh /\ Honest /\ OnlyReuseCorrupts

-----------------------------------------------------------------------------
(* The constants, the arrays and the heap.                                  *)

LEMMA ThreeElements ==
  ASSUME NEW a, NEW b, NEW c
  PROVE  Cardinality({a, b, c}) <= 3
<1>1. IsFiniteSet({a}) /\ Cardinality({a}) = 1
  BY FS_Singleton
<1>2. IsFiniteSet({a} \union {b}) /\ Cardinality({a} \union {b}) \in 1..2
  BY <1>1, FS_AddElement
<1>3. Cardinality({a} \union {b} \union {c}) \in 1..3
  BY <1>2, FS_AddElement
<1>4. {a, b, c} = {a} \union {b} \union {c}
  OBVIOUS
<1> QED
  BY <1>3, <1>4

\* The special values are four, and no images.
LEMMA Constants ==
  /\ Original \notin {Absent, Part, Spoiled, None} \union Variants
  /\ Absent \notin {Part, Spoiled, None} \union Variants
  /\ Part \notin {Spoiled, None} \union Variants
  /\ None \notin Variants \union {Spoiled} /\ None \notin Nat
  /\ Absent \notin Bytes /\ None \notin Bytes /\ None \notin Names
<1> DEFINE four == {Absent, Part, Spoiled, None}
<1>1. \A a, b, c : four # {a, b, c}
  <2> SUFFICES ASSUME NEW a, NEW b, NEW c, four = {a, b, c} PROVE FALSE
    OBVIOUS
  <2>1. Cardinality(four) <= 3
    BY ThreeElements
  <2>2. Cardinality(four) = 4
    BY NamesAssumption
  <2> QED
    BY <2>1, <2>2
<1>2. Absent # Part /\ Absent # Spoiled /\ Absent # None
  <2>1. four # {Part, Spoiled, None}
    BY <1>1
  <2> QED
    BY <2>1
<1>3. Part # Spoiled /\ Part # None
  <2>1. four # {Absent, Spoiled, None}
    BY <1>1
  <2> QED
    BY <2>1
<1>4. Spoiled # None
  <2>1. four # {Absent, Part, None}
    BY <1>1
  <2> QED
    BY <2>1
<1>5. four \intersect Images = {} /\ None \notin Nat
  BY NamesAssumption
<1>6. Variants \subseteq Images /\ Original \notin Variants
  BY VariantsAssumption
<1>7. Original \in Images
  BY DEF Images
<1> HIDE DEF four
<1>8. \A x \in {Absent, Part, Spoiled, None} : x \notin Images
  BY <1>5 DEF four
<1> QED
  BY <1>2, <1>3, <1>4, <1>5, <1>6, <1>7, <1>8 DEF Bytes, Names

\* Names are images, and an image is a set of resolvers.
LEMMA ImageSets ==
  /\ Names \subseteq Images
  /\ \A b : b \in Images <=> b \in SUBSET Resolvers
<1>1. ASSUME NEW b \in SUBSET Resolvers, b # {}
      PROVE  b \in Images
  <2>1. PICK r \in b : TRUE
    BY <1>1
  <2>2. b = {r} \union b /\ r \in Resolvers
    OBVIOUS
  <2> QED
    BY <2>2 DEF Images
<1>2. \A b \in Images : b \in SUBSET Resolvers
  BY DEF Images, Original
<1>3. Original \in Images /\ Original = {}
  BY DEF Images, Original
<1> QED
  BY <1>1, <1>2, <1>3, VariantsAssumption DEF Names

\* What a resolver returns are bytes, and the next image if it got one.
LEMMA ResolvedBytes ==
  ASSUME NEW b \in Bytes, NEW r \in Resolvers
  PROVE  /\ Resolved(b, r) \in Bytes
         /\ b \in Images /\ r \notin b => Resolved(b, r) = b \union {r}
<1>1. Part \notin Images /\ Spoiled \notin Images
  BY NamesAssumption
<1>2. CASE b \in {Part, Spoiled} \/ r \in b
  BY <1>1, <1>2 DEF Resolved, Bytes
<1>3. CASE ~(b \in {Part, Spoiled} \/ r \in b)
  <2>1. b \in SUBSET Resolvers
    BY <1>3, ImageSets DEF Bytes
  <2>2. b \union {r} \in Images
    BY <2>1, ImageSets
  <2> QED
    BY <1>3, <2>2 DEF Resolved, Bytes
<1> QED
  BY <1>2, <1>3

\* A new time is one the library has not seen.
LEMMA NewTimeIsNew ==
  ASSUME NEW n
  PROVE  NewTime(n) \in Nat /\ NewTime(n) # item[n].time /\ NewTime(n) # listener.time
<1>1. \E t \in 0..2 : t \notin Seen(n)
  <2>1. \E t \in 0..2 : t # item[n].time /\ t # listener.time
    OBVIOUS
  <2> QED
    BY <2>1 DEF Seen
<1>2. NewTime(n) \in 0..2 /\ NewTime(n) \notin Seen(n)
  BY <1>1 DEF NewTime
<1> QED
  BY <1>2 DEF Seen

\* A new array is nobody's.
LEMMA NewArrayIsNew ==
  ASSUME IsFiniteSet(InUse)
  PROVE  NewArray \in Nat /\ NewArray \notin InUse
<1> DEFINE n == Cardinality(InUse)
<1>1. n \in Nat
  BY FS_CardinalityType
<1>2. \E a \in 0..n : a \notin InUse
  <2>1. SUFFICES ASSUME 0..n \subseteq InUse PROVE FALSE
    OBVIOUS
  <2>2. Cardinality(0..n) <= n
    BY <2>1, FS_Subset
  <2>3. Cardinality(0..n) = n + 1
    BY <1>1, FS_Interval
  <2> QED
    BY <1>1, <2>2, <2>3
<1>3. NewArray \in 0..n /\ NewArray \notin InUse
  BY <1>2 DEF NewArray
<1> QED
  BY <1>1, <1>3

LEMMA InUseRefs ==
  /\ \A h \in Handlers : ref[h] # None => ref[h] \in InUse
  /\ \A n \in Names : item[n].array # None => item[n].array \in InUse
  /\ \A a \in InUse : (\E h \in Handlers : a = ref[h] /\ ref[h] # None)
                       \/ (\E n \in Names : a = item[n].array /\ item[n].array # None)
  BY DEF InUse

LEMMA ItemTypes ==
  ASSUME item \in [Names -> [array : Nat, time : Nat] \union {NoItem}], NEW n \in Names
  PROVE  /\ Real(n) <=> item[n].array # None
         /\ Real(n) => item[n].array \in Nat /\ item[n].time \in Nat
         /\ ~Real(n) => item[n].array = None
  BY Constants DEF Real, NoItem

\* The heap of a step that makes no array, and of one that makes one.
LEMMA HeapKept ==
  ASSUME Types, Keep, InUse' \subseteq InUse
  PROVE  /\ heap' \in [InUse' -> Bytes] /\ IsFiniteSet(InUse')
         /\ \A a \in InUse' : heap'[a] = heap[a]
<1>1. IsFiniteSet(InUse')
  BY FS_Subset DEF Types
<1> QED
  BY <1>1 DEF Types, TypeOK, Keep

LEMMA HeapFilled ==
  ASSUME Types, NEW b \in Bytes, Fill(NewArray, b), InUse' \subseteq InUse \union {NewArray}
  PROVE  /\ heap' \in [InUse' -> Bytes] /\ IsFiniteSet(InUse')
         /\ \A a \in InUse' : heap'[a] = IF a = NewArray THEN b ELSE heap[a]
         /\ NewArray \in Nat /\ NewArray \notin InUse
<1>1. IsFiniteSet(InUse \union {NewArray})
  BY FS_AddElement DEF Types
<1>2. IsFiniteSet(InUse')
  BY <1>1, FS_Subset
<1>3. NewArray \in Nat /\ NewArray \notin InUse
  BY NewArrayIsNew DEF Types
<1> QED
  BY <1>2, <1>3 DEF Types, TypeOK, Fill

-----------------------------------------------------------------------------
(* What the steps do to the memory.                                         *)

MemoryTypes ==
  /\ item \in [Names -> [array : Nat, time : Nat] \union {NoItem}]
  /\ ref \in [Handlers -> Nat \union {None}]
  /\ heap \in [InUse -> Bytes]
  /\ IsFiniteSet(InUse)

\* No array is made or written; some may be freed.
Spared == \A a \in InUse' : a \in InUse /\ heap'[a] = heap[a]

\* One array is made, with the bytes b.
Made(b) ==
  /\ NewArray \in Nat /\ NewArray \notin InUse
  /\ \A a \in InUse' :
       (a = NewArray /\ heap'[a] = b) \/ (a \in InUse /\ a # NewArray /\ heap'[a] = heap[a])

LEMMA Sparing ==
  ASSUME Types,
         item' \in [Names -> [array : Nat, time : Nat] \union {NoItem}],
         ref' \in [Handlers -> Nat \union {None}],
         \A n \in Names : item'[n] \in {item[n], NoItem},
         \A h \in Handlers : ref'[h] \in {ref[h], None} \union {item[n].array : n \in Names},
         Keep \/ (heap' = heap /\ InUse' = InUse)
  PROVE  MemoryTypes' /\ Spared
<1>1. InUse' \subseteq InUse
  BY DEF InUse, NoItem
<1>2. CASE Keep
  BY <1>1, <1>2, HeapKept DEF MemoryTypes, Spared
<1>3. CASE heap' = heap /\ InUse' = InUse
  BY <1>3 DEF MemoryTypes, Spared, Types, TypeOK
<1> QED
  BY <1>2, <1>3

LEMMA Making ==
  ASSUME Types, NEW b \in Bytes, Fill(NewArray, b),
         item' \in [Names -> [array : Nat, time : Nat] \union {NoItem}],
         ref' \in [Handlers -> Nat \union {None}],
         \A n \in Names : item'[n] = item[n] \/ item'[n].array = NewArray,
         \A h \in Handlers : ref'[h] = ref[h] \/ ref'[h] = NewArray
  PROVE  MemoryTypes' /\ Made(b)
<1>1. InUse' \subseteq InUse \union {NewArray}
  BY DEF InUse
<1>2. /\ heap' \in [InUse' -> Bytes] /\ IsFiniteSet(InUse')
      /\ \A a \in InUse' : heap'[a] = IF a = NewArray THEN b ELSE heap[a]
      /\ NewArray \in Nat /\ NewArray \notin InUse
  BY <1>1, HeapFilled
<1>3. MemoryTypes'
  BY <1>2 DEF MemoryTypes
<1>4. ASSUME NEW a \in InUse'
      PROVE  (a = NewArray /\ heap'[a] = b) \/ (a \in InUse /\ a # NewArray /\ heap'[a] = heap[a])
  BY <1>1, <1>2
<1> QED
  BY <1>2, <1>3, <1>4 DEF Made

LEMMA MemoryOfFetchBegin ==
  ASSUME Types, FetchBegin \/ Evict
  PROVE  MemoryTypes' /\ Spared
<1>1. PICK n \in Names : item' = [item EXCEPT ![n] = NoItem]
  BY DEF FetchBegin, Evict
<1>2. ref' = ref /\ Keep
  BY DEF FetchBegin, Evict
<1> QED
  BY <1>1, <1>2, Sparing DEF Types, TypeOK

LEMMA MemoryOfFetchEnd ==
  ASSUME Types, Stored, FetchEnd
  PROVE  MemoryTypes' /\ Made(disk[listener.name])
<1>1. listener.name \in Names /\ listener.time \in Nat /\ disk[listener.name] \in Bytes
  BY DEF Types, TypeOK, Stored, FetchEnd
<1>2. NewArray \in Nat
  BY NewArrayIsNew DEF Types
<1> QED
  BY <1>1, <1>2, Making DEF Types, TypeOK, FetchEnd

LEMMA MemoryOfGet ==
  ASSUME Types, Control, NEW h \in Handlers,
         InCache(h) \/ GetItem(h) \/ Respond(h) \/ Return(h)
  PROVE  MemoryTypes' /\ Spared
<1>1. CASE InCache(h)
  <2>1. cur[h] \in Names
    BY <1>1 DEF InCache, Control, Names
  <2> QED
    BY <1>1, <2>1, Sparing DEF Types, TypeOK, InCache
<1>2. CASE GetItem(h)
  <2>1. cur[h] \in Names /\ ref[h] = None /\ item' = item /\ heap' = heap
    BY <1>2 DEF GetItem, Control, Names, memory
  <2>2. \/ ref' = ref
        \/ Real(cur[h]) /\ ref' = [ref EXCEPT ![h] = item[cur[h]].array]
    BY <1>2 DEF GetItem, Real
  <2>3. CASE ref' = ref
    <3>1. InUse' = InUse
      BY <2>1, <2>3 DEF InUse
    <3> QED
      BY <2>1, <2>3, <3>1, Sparing DEF Types, TypeOK
  <2>4. CASE Real(cur[h]) /\ ref' = [ref EXCEPT ![h] = item[cur[h]].array]
    <3>1. item[cur[h]].array \in Nat
      BY <2>1, <2>4, ItemTypes DEF Types, TypeOK
    <3>2. ref' \in [Handlers -> Nat \union {None}]
      BY <2>4, <3>1 DEF Types, TypeOK
    <3>3. \A g \in Handlers : ref'[g] = IF g = h THEN item[cur[h]].array ELSE ref[g]
      BY <2>4 DEF Types, TypeOK
    <3>4. InUse' = InUse
      BY <2>1, <3>3 DEF InUse
    <3> QED
      BY <2>1, <3>2, <3>3, <3>4, Sparing DEF Types, TypeOK
  <2> QED
    BY <2>2, <2>3, <2>4
<1>3. CASE Respond(h)
  <2>1. CASE Keep /\ ref' = [ref EXCEPT ![h] = None]
    BY <1>3, <2>1, Sparing DEF Types, TypeOK, Respond
  <2>2. CASE UNCHANGED <<ref, heap>>
    <3>1. item' = item /\ InUse' = InUse
      BY <1>3, <2>2 DEF Respond, InUse
    <3> QED
      BY <2>2, <3>1, Sparing DEF Types, TypeOK
  <2> QED
    BY <1>3, <2>1, <2>2 DEF Respond
<1>4. CASE Return(h)
  BY <1>4, Sparing DEF Types, TypeOK, Return
<1> QED
  BY <1>1, <1>2, <1>3, <1>4

LEMMA MemoryUnchanged ==
  ASSUME Types, UNCHANGED <<item, heap, ref>>
  PROVE  MemoryTypes' /\ Spared
<1>1. InUse' = InUse
  BY DEF InUse
<1> QED
  BY <1>1 DEF MemoryTypes, Spared, Types, TypeOK

LEMMA MemoryOfReadDisk ==
  ASSUME Types, Control, NEW h \in Handlers, ReadDisk(h), disk[cur[h]] # Absent
  PROVE  /\ MemoryTypes' /\ Made(disk[cur[h]])
         /\ ref' = [ref EXCEPT ![h] = NewArray]
<1>1. cur[h] \in Names /\ disk[cur[h]] \in Bytes
  BY DEF ReadDisk, Control, Names, Types, TypeOK
<1>2. NewArray \in Nat
  BY NewArrayIsNew DEF Types
<1>3. Fill(NewArray, disk[cur[h]]) /\ ref' = [ref EXCEPT ![h] = NewArray] /\ item' = item
  BY DEF ReadDisk, IntoNewArray
<1> QED
  BY <1>1, <1>2, <1>3, Making DEF Types, TypeOK

LEMMA MemoryOfOverwrite ==
  ASSUME Types, Control, NEW h \in Handlers, Overwrite(h)
  PROVE  /\ MemoryTypes' /\ made[h] \in Bytes /\ ref[h] \in InUse /\ item' = item
         /\ \/ /\ Made(made[h]) /\ ref' = [ref EXCEPT ![h] = NewArray]
               /\ reused' = reused
            \/ /\ ref' = ref /\ heap' = [heap EXCEPT ![ref[h]] = made[h]]
               /\ reused' = (reused \/ Shared(h)) /\ InUse' = InUse
<1>1. made[h] \in Bytes /\ ref[h] # None
  BY DEF Overwrite, Control, Types, TypeOK
<1>2. ref[h] \in InUse
  BY <1>1, InUseRefs
<1>3. NewArray \in Nat
  BY NewArrayIsNew DEF Types
<1>4. item' = item
  BY DEF Overwrite
<1>5. CASE IntoNewArray(h, made[h]) /\ UNCHANGED reused
  <2>1. Fill(NewArray, made[h]) /\ ref' = [ref EXCEPT ![h] = NewArray] /\ reused' = reused
    BY <1>5 DEF IntoNewArray
  <2>2. MemoryTypes' /\ Made(made[h])
    BY <1>1, <1>3, <1>4, <2>1, Making DEF Types, TypeOK
  <2> QED
    BY <1>1, <1>2, <1>4, <2>1, <2>2
<1>6. CASE /\ ref' = ref /\ heap' = [heap EXCEPT ![ref[h]] = made[h]]
           /\ reused' = (reused \/ Shared(h))
  <2>1. InUse' = InUse
    BY <1>4, <1>6 DEF InUse
  <2>2. MemoryTypes'
    BY <1>1, <1>2, <1>4, <1>6, <2>1 DEF MemoryTypes, Types, TypeOK
  <2> QED
    BY <1>1, <1>2, <1>4, <1>6, <2>1, <2>2
<1> QED
  BY <1>5, <1>6, Zenon DEF Overwrite

-----------------------------------------------------------------------------
(* Types, and the places of the handlers.                                   *)

\* The variables that are not in memory.
OtherTypes ==
  /\ disk \in [Names -> Bytes \union {Absent}]
  /\ mtime \in [Names -> Nat]
  /\ pc \in [Handlers -> PCs]
  /\ want \in [Handlers -> Names \union {None}]
  /\ cur \in [Handlers -> Names \union {None}]
  /\ todo \in [Handlers -> SUBSET Resolvers]
  /\ made \in [Handlers -> Bytes \union {None}]
  /\ body \in [Handlers -> Bytes \union {None}]
  /\ listener \in [name : Names \union {None}, time : Nat \union {None}]
  /\ had \in [Names -> SUBSET (Bytes \union {Absent})]
  /\ during \in [Handlers -> SUBSET (Bytes \union {Absent})]
  /\ requests \in 0..MaxRequests

LEMMA TypesParts == Types <=> MemoryTypes /\ OtherTypes /\ reused \in BOOLEAN
  BY DEF Types, TypeOK, MemoryTypes, OtherTypes

LEMMA WriteTypes ==
  ASSUME OtherTypes, NEW h \in Handlers, want[h] \in Names, NEW b \in Bytes, WriteFile(h, b)
  PROVE  /\ disk' \in [Names -> Bytes \union {Absent}] /\ mtime' \in [Names -> Nat]
         /\ had' \in [Names -> SUBSET (Bytes \union {Absent})]
         /\ during' \in [Handlers -> SUBSET (Bytes \union {Absent})]
<1>1. NewTime(want[h]) \in Nat
  BY NewTimeIsNew
<1> QED
  BY <1>1 DEF WriteFile, FileOf, OtherTypes

\* The memory of every step.
LEMMA StepMemory ==
  ASSUME Types, Control, Stored, [Next]_vars
  PROVE  MemoryTypes'
<1>1. CASE FetchBegin \/ Evict
  BY <1>1, MemoryOfFetchBegin
<1>2. CASE FetchEnd
  BY <1>2, MemoryOfFetchEnd
<1>3. ASSUME NEW h \in Handlers, StartGet(h) \/ GetStep(h)
      PROVE  MemoryTypes'
  <2>1. CASE InCache(h) \/ GetItem(h) \/ Respond(h) \/ Return(h)
    BY <2>1, MemoryOfGet
  <2>2. CASE StartGet(h) \/ Resolve(h) \/ SaveCreate(h) \/ SaveWrite(h)
    <3>1. UNCHANGED <<item, heap, ref>>
      BY <2>2 DEF StartGet, Resolve, SaveCreate, SaveWrite, memory
    <3> QED
      BY <3>1, MemoryUnchanged
  <2>3. CASE ReadDisk(h)
    <3>1. CASE disk[cur[h]] # Absent
      BY <2>3, <3>1, MemoryOfReadDisk
    <3>2. CASE disk[cur[h]] = Absent
      <4>1. UNCHANGED <<item, heap, ref>>
        BY <2>3, <3>2 DEF ReadDisk
      <4> QED
        BY <4>1, MemoryUnchanged
    <3> QED
      BY <3>1, <3>2
  <2>4. CASE Overwrite(h)
    BY <2>4, MemoryOfOverwrite
  <2> QED
    BY <1>3, <2>1, <2>2, <2>3, <2>4 DEF GetStep
<1>4. CASE UNCHANGED vars
  <2>1. UNCHANGED <<item, heap, ref>>
    BY <1>4 DEF vars, memory
  <2> QED
    BY <2>1, MemoryUnchanged
<1> QED
  BY <1>1, <1>2, <1>3, <1>4 DEF Next

LEMMA StepOthers ==
  ASSUME Types, Control, Stored, [Next]_vars
  PROVE  OtherTypes'
<1>0. OtherTypes
  BY TypesParts
<1> USE <1>0 DEF OtherTypes, files, memory, history, Goto, PCs
<1>1. CASE FetchBegin
  BY <1>1 DEF FetchBegin
<1>2. CASE FetchEnd
  BY <1>2 DEF FetchEnd
<1>3. CASE Evict
  BY <1>3 DEF Evict
<1>4. ASSUME NEW h \in Handlers, StartGet(h) \/ GetStep(h)
      PROVE  OtherTypes'
  <2>1. CASE StartGet(h)
    <3>1. Names \subseteq SUBSET Resolvers
      BY ImageSets
    <3> QED
      BY <2>1, <3>1, BoundAssumption DEF StartGet, FileOf
  <2>2. CASE InCache(h)
    BY <2>2 DEF InCache
  <2>3. CASE GetItem(h)
    BY <2>3 DEF GetItem, Got
  <2>4. CASE ReadDisk(h)
    BY <2>4 DEF ReadDisk, Got, Names
  <2>5. CASE Resolve(h)
    <3>1. heap[ref[h]] \in Bytes
      BY <2>5, InUseRefs DEF Resolve, Control, Types, TypeOK
    <3>2. \A t \in todo[h] : Resolved(heap[ref[h]], t) \in Bytes
      BY <3>1, ResolvedBytes
    <3> QED
      BY <2>5, <3>2 DEF Resolve
  <2>6. CASE Overwrite(h)
    BY <2>6 DEF Overwrite
  <2>7. CASE Respond(h)
    <3>1. heap[ref[h]] \in Bytes
      BY <2>7, InUseRefs DEF Respond, Control, Types, TypeOK
    <3> QED
      BY <2>7, <3>1 DEF Respond
  <2>8. CASE SaveCreate(h)
    <3>1. want[h] \in Names /\ Part \in Bytes
      BY <2>8 DEF SaveCreate, Control, Bytes
    <3>2. CASE WriteFile(h, Part)
      BY <2>8, <3>1, <3>2, WriteTypes DEF SaveCreate
    <3>3. CASE UNCHANGED <<files, had, during>>
      BY <2>8, <3>3 DEF SaveCreate
    <3> QED
      BY <2>8, <3>2, <3>3 DEF SaveCreate
  <2>9. CASE SaveWrite(h)
    <3>1. want[h] \in Names /\ heap[ref[h]] \in Bytes
      BY <2>9, InUseRefs DEF SaveWrite, Control, Types, TypeOK
    <3>2. CASE WriteFile(h, heap[ref[h]])
      BY <2>9, <3>1, <3>2, WriteTypes DEF SaveWrite
    <3>3. CASE UNCHANGED <<files, had, during>>
      BY <2>9, <3>3 DEF SaveWrite
    <3> QED
      BY <2>9, <3>2, <3>3 DEF SaveWrite
  <2>10. CASE Return(h)
    BY <2>10 DEF Return
  <2> QED
    BY <1>4, <2>1, <2>2, <2>3, <2>4, <2>5, <2>6, <2>7, <2>8, <2>9, <2>10 DEF GetStep
<1>5. CASE UNCHANGED vars
  BY <1>5 DEF vars
<1> QED
  BY <1>1, <1>2, <1>3, <1>4, <1>5 DEF Next

LEMMA StepReused ==
  ASSUME reused \in BOOLEAN, [Next]_vars
  PROVE  reused' \in BOOLEAN /\ (reused => reused')
<1>1. CASE \E h \in Handlers : Overwrite(h)
  <2>1. PICK h \in Handlers : reused' = reused \/ reused' = (reused \/ Shared(h))
    BY <1>1, Zenon DEF Overwrite
  <2> QED
    BY <2>1, Zenon
<1>2. CASE ~\E h \in Handlers : Overwrite(h)
  <2>1. reused' = reused
    BY <1>2, Zenon DEF Next, GetStep, vars, history, FetchBegin, FetchEnd, Evict, StartGet, InCache,
       GetItem, ReadDisk, Resolve, Respond, SaveCreate, SaveWrite, Return
  <2> QED
    BY <2>1
<1> QED
  BY <1>1, <1>2

LEMMA StepTypes ==
  ASSUME Types, Control, Stored, [Next]_vars
  PROVE  Types'
<1>1. MemoryTypes' /\ OtherTypes'
  BY StepMemory, StepOthers
<1>2. reused' \in BOOLEAN
  BY StepReused, TypesParts
<1> QED
  BY <1>1, <1>2 DEF Types, TypeOK, MemoryTypes, OtherTypes

LEMMA StepControl ==
  ASSUME Types, Control, [Next]_vars
  PROVE  Control'
<1> USE DEF Control, Goto, files, memory, history
<1>0. /\ pc \in [Handlers -> PCs]
      /\ want \in [Handlers -> Names \union {None}]
      /\ cur \in [Handlers -> Names \union {None}]
      /\ made \in [Handlers -> Bytes \union {None}]
      /\ ref \in [Handlers -> Nat \union {None}]
      /\ body \in [Handlers -> Bytes \union {None}]
      /\ todo \in [Handlers -> SUBSET Resolvers]
  BY DEF Types, TypeOK
<1>1. CASE FetchBegin \/ FetchEnd \/ Evict
  BY <1>1 DEF FetchBegin, FetchEnd, Evict
<1>2. ASSUME NEW h \in Handlers, StartGet(h) \/ GetStep(h)
      PROVE  Control'
  <2> USE <1>0
  <2>1. CASE StartGet(h)
    BY <2>1 DEF StartGet, FileOf
  <2>2. CASE InCache(h)
    BY <2>2 DEF InCache
  <2>3. CASE GetItem(h)
    <3>1. cur[h] \in Names
      BY <2>3 DEF GetItem, Names
    <3>2. CASE item[cur[h]] = NoItem
      BY <2>3, <3>2 DEF GetItem
    <3>3. CASE item[cur[h]] # NoItem
      <4>1. item[cur[h]].array # None
        BY <3>1, <3>3, ItemTypes DEF Types, TypeOK, Real
      <4> QED
        BY <2>3, <3>3, <4>1 DEF GetItem, Got
    <3> QED
      BY <3>2, <3>3
  <2>4. CASE ReadDisk(h)
    <3>1. CASE disk[cur[h]] # Absent
      <4>1. NewArray # None
        BY NewArrayIsNew, Constants DEF Types
      <4> QED
        BY <2>4, <3>1, <4>1, MemoryOfReadDisk DEF ReadDisk, Got
    <3>2. CASE disk[cur[h]] = Absent
      BY <2>4, <3>2 DEF ReadDisk, Names
    <3> QED
      BY <3>1, <3>2
  <2>5. CASE Resolve(h)
    <3>1. heap[ref[h]] \in Bytes
      BY <2>5, InUseRefs DEF Resolve, Types, TypeOK
    <3>2. \A t \in todo[h] : Resolved(heap[ref[h]], t) # None
      BY <3>1, ResolvedBytes, Constants
    <3>3. /\ pc[h] = "resolve" /\ UNCHANGED <<want, cur, ref, body>>
          /\ \/ /\ pc' = [pc EXCEPT ![h] = "overwrite"]
                /\ \E t \in todo[h] :
                     /\ made' = [made EXCEPT ![h] = Resolved(heap[ref[h]], t)]
                     /\ todo' = [todo EXCEPT ![h] = @ \ {t}]
             \/ /\ pc' = [pc EXCEPT ![h] = "return"]
                /\ UNCHANGED <<made, todo>>
      BY <2>5 DEF Resolve
    <3> QED
      BY <3>2, <3>3
  <2>6. CASE Overwrite(h)
    <3>1. NewArray # None
      BY NewArrayIsNew, Constants DEF Types
    <3>2. ref' = ref \/ ref' = [ref EXCEPT ![h] = NewArray]
      BY <2>6, MemoryOfOverwrite
    <3>3. /\ pc[h] = "overwrite"
          /\ \/ pc' = [pc EXCEPT ![h] = "respond"]
             \/ pc' = [pc EXCEPT ![h] = "resolve"]
          /\ UNCHANGED <<want, cur, body, todo>>
          /\ made' = [made EXCEPT ![h] = None]
      BY <2>6 DEF Overwrite
    <3> QED
      BY <3>1, <3>2, <3>3
  <2>7. CASE Respond(h)
    BY <2>7 DEF Respond
  <2>8. CASE SaveCreate(h)
    BY <2>8 DEF SaveCreate
  <2>9. CASE SaveWrite(h)
    BY <2>9 DEF SaveWrite
  <2>10. CASE Return(h)
    BY <2>10 DEF Return
  <2> QED
    BY <1>2, <2>1, <2>2, <2>3, <2>4, <2>5, <2>6, <2>7, <2>8, <2>9, <2>10 DEF GetStep
<1>3. CASE UNCHANGED vars
  BY <1>3 DEF vars
<1> QED
  BY <1>1, <1>2, <1>3 DEF Next

-----------------------------------------------------------------------------
(* Files, items and the arrays they share.                                  *)

\* The steps as the files see them: a save writes a copy, and its time.
Saves(h) ==
  LET n == want[h]
  IN /\ h \in Handlers /\ n \in Variants /\ pc[h] \in {"save", "write"}
     /\ \E b \in {Part, heap[ref[h]]} :
          /\ b \in Bytes
          /\ disk' = [disk EXCEPT ![n] = b]
          /\ \/ /\ mtime' = [mtime EXCEPT ![n] = NewTime(n)]
                /\ had' = [had EXCEPT ![n] = {b}]
             \/ /\ mtime' = mtime
                /\ had' = [had EXCEPT ![n] = @ \union {b}]
          /\ \A g \in Handlers :
               during'[g] = IF cur[g] = n THEN during[g] \union {b} ELSE during[g]
     /\ UNCHANGED <<item, heap, ref, cur, want, body, todo, made, listener, reused>>
     /\ pc' \in {[pc EXCEPT ![h] = "write"], [pc EXCEPT ![h] = "return"]}

LEMMA FilesStep ==
  ASSUME Types, Control, [Next]_vars
  PROVE  \/ /\ UNCHANGED <<files, had>>
            /\ (\E h \in Handlers : SaveCreate(h) \/ SaveWrite(h)) => during' = during
         \/ \E h \in Handlers : Saves(h)
<1>1. ASSUME NEW h \in Handlers, SaveCreate(h) \/ SaveWrite(h)
      PROVE  UNCHANGED <<files, had, during>> \/ Saves(h)
  <2>1. want[h] \in Variants /\ pc[h] \in {"save", "write"} /\ heap[ref[h]] \in Bytes
    BY <1>1, InUseRefs DEF SaveCreate, SaveWrite, Control, Names, Types, TypeOK
  <2>2. UNCHANGED <<files, had, during>> \/ WriteFile(h, Part) \/ WriteFile(h, heap[ref[h]])
    BY <1>1 DEF SaveCreate, SaveWrite
  <2>3. /\ UNCHANGED <<item, heap, ref, cur, want, body, todo, made, listener, reused>>
        /\ pc' \in {[pc EXCEPT ![h] = "write"], [pc EXCEPT ![h] = "return"]}
    BY <1>1 DEF SaveCreate, SaveWrite, memory, Goto
  <2>4. Part \in Bytes
    BY DEF Bytes
  <2> QED
    BY <2>1, <2>2, <2>3, <2>4 DEF WriteFile, FileOf, Saves
<1>2. CASE ~\E h \in Handlers : SaveCreate(h) \/ SaveWrite(h)
  BY <1>2 DEF Next, GetStep, vars, files, history, FetchBegin, FetchEnd, Evict, StartGet, InCache,
     GetItem, ReadDisk, Resolve, Overwrite, Respond, Return
<1> QED
  BY <1>1, <1>2

\* The steps as the items see them.
LEMMA ItemsStep ==
  ASSUME Types, Control, [Next]_vars
  PROVE  FetchEnd \/ \A n \in Names : item'[n] \in {item[n], NoItem}
<1>1. CASE FetchBegin \/ Evict
  BY <1>1 DEF FetchBegin, Evict, Types, TypeOK
<1>2. ASSUME NEW h \in Handlers, InCache(h)
      PROVE  \A n \in Names : item'[n] \in {item[n], NoItem}
  BY <1>2 DEF InCache, Types, TypeOK
<1>3. CASE ~(FetchBegin \/ Evict \/ FetchEnd \/ \E h \in Handlers : InCache(h))
  <2>1. item' = item
    BY <1>3 DEF Next, GetStep, vars, memory, StartGet,
       GetItem, ReadDisk, Resolve, Overwrite, Respond, SaveCreate, SaveWrite, Return
  <2> QED
    BY <2>1
<1> QED
  BY <1>1, <1>2, <1>3

LEMMA FetchEndItems ==
  ASSUME Types, Stored, FetchEnd, NEW n \in Names
  PROVE  /\ listener.name \in Names /\ disk[listener.name] \in Bytes
         /\ UNCHANGED <<ref, cur, pc, want, todo, made, body, reused, had, during, disk, mtime>>
         /\ NewArray \in Nat
         /\ item'[n] = IF n = listener.name THEN [array |-> NewArray, time |-> listener.time]
                                            ELSE item[n]
  BY NewArrayIsNew DEF Types, TypeOK, Stored, FetchEnd, files, history

LEMMA StepStored ==
  ASSUME Types, Control, Stored, [Next]_vars
  PROVE  Stored'
<1>1. disk'[Original] = Original /\ \A n \in Names : disk'[n] \in had'[n]
  <2>1. CASE UNCHANGED <<files, had>>
    BY <2>1 DEF files, Stored
  <2>2. CASE \E h \in Handlers : Saves(h)
    BY <2>2, Constants DEF Saves, Types, TypeOK, Stored, Names
  <2> QED
    BY <2>1, <2>2, FilesStep
<1>2. CASE FetchBegin
  <2>1. disk' = disk
    BY <1>2 DEF FetchBegin, files
  <2>2. PICK n \in Names : /\ disk[n] # Absent /\ listener' = [name |-> n, time |-> mtime[n]]
                           /\ item' = [item EXCEPT ![n] = NoItem]
    BY <1>2 DEF FetchBegin
  <2>3. item'[n] = NoItem
    BY <2>2 DEF Types, TypeOK
  <2>4. mtime[n] \in Nat
    BY DEF Types, TypeOK
  <2> QED
    BY <1>1, <2>1, <2>2, <2>3, <2>4 DEF Stored, Real
<1>3. CASE FetchEnd
  BY <1>1, <1>3 DEF FetchEnd, Stored
<1>4. CASE ~FetchBegin /\ ~FetchEnd
  <2>1. listener' = listener
    BY <1>4 DEF Next, GetStep, vars, Evict, StartGet, InCache, GetItem, ReadDisk, Resolve,
       Overwrite, Respond, SaveCreate, SaveWrite, Return
  <2>2. SUFFICES ASSUME listener.name # None
                 PROVE  /\ disk'[listener.name] # Absent /\ item'[listener.name] = NoItem
                        /\ listener.time \in Nat
    BY <1>1, <2>1 DEF Stored, Real
  <2>3. /\ listener.name \in Names /\ disk[listener.name] # Absent
        /\ item[listener.name] = NoItem /\ listener.time \in Nat
    BY <2>2 DEF Types, TypeOK, Stored, Real
  <2>4. item'[listener.name] = NoItem
    BY <1>4, <2>3, ItemsStep
  <2>5. disk'[listener.name] # Absent
    <3>1. CASE UNCHANGED <<files, had>>
      BY <2>3, <3>1 DEF files
    <3>2. CASE \E h \in Handlers : Saves(h)
      BY <2>3, <3>2, Constants DEF Saves, Types, TypeOK
    <3> QED
      BY <3>1, <3>2, FilesStep
  <2> QED
    BY <2>3, <2>4, <2>5
<1> QED
  BY <1>2, <1>3, <1>4

\* The steps as the references see them: a handler takes the array of an item
\* or a new one, or each keeps its array and its name, or lets the array go.
Takes(h, a) ==
  /\ ref' = [ref EXCEPT ![h] = a]
  /\ cur' = cur /\ item' = item

LEMMA RefsStep ==
  ASSUME Types, Control, [Next]_vars
  PROVE  \/ \A g \in Handlers : ref'[g] = None \/ (ref'[g] = ref[g] /\ cur'[g] = cur[g])
         \/ \E h \in Handlers : cur[h] \in Names /\ Real(cur[h]) /\ Takes(h, item[cur[h]].array)
         \/ \E h \in Handlers : Takes(h, NewArray)
<1> DEFINE Keeps == \A g \in Handlers : ref'[g] = None \/ (ref'[g] = ref[g] /\ cur'[g] = cur[g])
<1>1. ASSUME NEW h \in Handlers, GetItem(h)
      PROVE  Keeps \/ (cur[h] \in Names /\ Real(cur[h]) /\ Takes(h, item[cur[h]].array))
  BY <1>1 DEF GetItem, Control, Names, Real, Takes, memory
<1>2. ASSUME NEW h \in Handlers, ReadDisk(h)
      PROVE  Keeps \/ Takes(h, NewArray)
  <2>1. CASE disk[cur[h]] # Absent
    BY <1>2, <2>1 DEF ReadDisk, IntoNewArray, Takes
  <2>2. CASE disk[cur[h]] = Absent
    <3>1. ref' = ref /\ ref[h] = None /\ \A g \in Handlers : g # h => cur'[g] = cur[g]
      BY <1>2, <2>2 DEF ReadDisk, Control, Types, TypeOK
    <3> QED
      BY <3>1
  <2> QED
    BY <2>1, <2>2
<1>3. ASSUME NEW h \in Handlers, Overwrite(h)
      PROVE  Keeps \/ Takes(h, NewArray)
  BY <1>3 DEF Overwrite, IntoNewArray, Takes
<1>4. ASSUME NEW h \in Handlers, StartGet(h)
      PROVE  Keeps
  <2>1. ref' = ref /\ ref[h] = None /\ \A g \in Handlers : g # h => cur'[g] = cur[g]
    BY <1>4 DEF StartGet, Control, Types, TypeOK
  <2> QED
    BY <2>1
<1>5. ASSUME NEW h \in Handlers, Respond(h) \/ Return(h)
      PROVE  Keeps
  <2>1. \A g \in Handlers : g # h => ref'[g] = ref[g] /\ cur'[g] = cur[g]
    BY <1>5 DEF Respond, Return, Types, TypeOK
  <2>2. ref'[h] = None \/ (ref'[h] = ref[h] /\ cur'[h] = cur[h])
    BY <1>5 DEF Respond, Return, Types, TypeOK
  <2> QED
    BY <2>1, <2>2
<1>6. CASE ~\E h \in Handlers : GetItem(h) \/ ReadDisk(h) \/ Overwrite(h)
                               \/ StartGet(h) \/ Respond(h) \/ Return(h)
  <2>1. ref' = ref /\ cur' = cur
    BY <1>6 DEF Next, GetStep, vars, FetchBegin, FetchEnd, Evict, InCache, Resolve,
       SaveCreate, SaveWrite, memory
  <2> QED
    BY <2>1
<1> QED
  BY <1>1, <1>2, <1>3, <1>4, <1>5, <1>6

LEMMA StepApart ==
  ASSUME Types, Control, Stored, Apart, [Next]_vars
  PROVE  Apart'
<1>0. /\ item \in [Names -> [array : Nat, time : Nat] \union {NoItem}]
      /\ ref \in [Handlers -> Nat \union {None}]
      /\ NewArray \in Nat /\ NewArray \notin InUse /\ None \notin Nat
      /\ NoItem.array = None
  BY NewArrayIsNew, Constants DEF Types, TypeOK, NoItem
<1> DEFINE NewItem == [array |-> NewArray, time |-> listener.time]
           Keeps   == \A g \in Handlers : ref'[g] = None \/ (ref'[g] = ref[g] /\ cur'[g] = cur[g])
<1>1. CASE FetchEnd
  <2>1. ref' = ref /\ cur' = cur /\ listener.name \in Names
    BY <1>1 DEF FetchEnd, Types, TypeOK
  <2>2. \A n \in Names : item'[n] = IF n = listener.name THEN NewItem ELSE item[n]
    BY <1>1, FetchEndItems
  <2>3. NewItem.array = NewArray /\ NewArray # None
    BY <1>0
  <2>4. /\ \A n \in Names : item[n].array # NewArray
        /\ \A h \in Handlers : ref[h] # NewArray
    BY <1>0, InUseRefs
  <2>5. \A n, m \in Names : Real(n)' /\ item'[n].array = item'[m].array => n = m
    BY <2>2, <2>3, <2>4 DEF Apart, Real
  <2>6. \A h \in Handlers, n \in Names : ref'[h] # None /\ item'[n].array = ref'[h] => cur'[h] = n
    BY <2>1, <2>2, <2>3, <2>4 DEF Apart
  <2>7. \A g, h \in Handlers : ref'[h] # None /\ ref'[g] = ref'[h] => cur'[g] = cur'[h]
    BY <2>1 DEF Apart
  <2> QED
    BY <2>5, <2>6, <2>7 DEF Apart
<1>2. CASE Keeps /\ \A n \in Names : item'[n] \in {item[n], NoItem}
  <2>1. \A n, m \in Names : Real(n)' /\ item'[n].array = item'[m].array => n = m
    <3> SUFFICES ASSUME NEW n \in Names, NEW m \in Names, item'[n] # NoItem,
                        item'[n].array = item'[m].array
                 PROVE  n = m
      BY DEF Real
    <3>1. item'[n] = item[n] /\ Real(n) /\ item[n].array # None
      BY <1>0, <1>2, ItemTypes DEF Real
    <3>2. item'[m] = item[m]
      BY <1>0, <1>2, <3>1
    <3> QED
      BY <3>1, <3>2 DEF Apart
  <2>2. \A h \in Handlers, n \in Names : ref'[h] # None /\ item'[n].array = ref'[h] => cur'[h] = n
    BY <1>0, <1>2 DEF Apart
  <2>3. \A g, h \in Handlers : ref'[h] # None /\ ref'[g] = ref'[h] => cur'[g] = cur'[h]
    BY <1>2 DEF Apart
  <2> QED
    BY <2>1, <2>2, <2>3 DEF Apart
<1>3. ASSUME NEW h \in Handlers, cur[h] \in Names, Real(cur[h]), Takes(h, item[cur[h]].array)
      PROVE  Apart'
  <2>1. /\ cur' = cur /\ item' = item
        /\ \A g \in Handlers : ref'[g] = IF g = h THEN item[cur[h]].array ELSE ref[g]
    BY <1>0, <1>3 DEF Takes
  <2>2. item[cur[h]].array # None
    BY <1>0, <1>3, ItemTypes
  <2>3. \A n, m \in Names : Real(n)' /\ item'[n].array = item'[m].array => n = m
    BY <2>1 DEF Apart, Real
  <2>4. \A g \in Handlers, n \in Names : ref'[g] # None /\ item'[n].array = ref'[g] => cur'[g] = n
    BY <1>3, <2>1 DEF Apart
  <2>5. \A f, g \in Handlers : ref'[g] # None /\ ref'[f] = ref'[g] => cur'[f] = cur'[g]
    BY <1>3, <2>1, <2>2 DEF Apart
  <2> QED
    BY <2>3, <2>4, <2>5 DEF Apart
<1>4. ASSUME NEW h \in Handlers, Takes(h, NewArray)
      PROVE  Apart'
  <2>1. /\ cur' = cur /\ item' = item
        /\ \A g \in Handlers : ref'[g] = IF g = h THEN NewArray ELSE ref[g]
    BY <1>0, <1>4 DEF Takes
  <2>2. /\ \A n \in Names : item[n].array # NewArray
        /\ \A g \in Handlers : ref[g] # NewArray
        /\ NewArray # None
    BY <1>0, InUseRefs
  <2>3. \A n, m \in Names : Real(n)' /\ item'[n].array = item'[m].array => n = m
    BY <2>1 DEF Apart, Real
  <2>4. \A g \in Handlers, n \in Names : ref'[g] # None /\ item'[n].array = ref'[g] => cur'[g] = n
    BY <2>1, <2>2 DEF Apart
  <2>5. \A f, g \in Handlers : ref'[g] # None /\ ref'[f] = ref'[g] => cur'[f] = cur'[g]
    BY <2>1, <2>2 DEF Apart
  <2> QED
    BY <2>3, <2>4, <2>5 DEF Apart
<1>5. CASE Keeps /\ ~FetchEnd
  BY <1>2, <1>5, ItemsStep
<1> QED
  BY <1>1, <1>3, <1>4, <1>5, RefsStep

-----------------------------------------------------------------------------
(* The bytes in the arrays.                                                 *)

\* The result of a resolver is written over what the array holds.
InPlace(h) ==
  /\ Overwrite(h)
  /\ ref' = ref /\ item' = item /\ InUse' = InUse
  /\ heap' = [heap EXCEPT ![ref[h]] = made[h]]
  /\ reused' = (reused \/ Shared(h))

LEMMA HeapStep ==
  ASSUME Types, Control, Stored, [Next]_vars
  PROVE  \/ Spared \/ (\E b \in Bytes : Made(b))
         \/ \E h \in Handlers : InPlace(h)
<1>1. CASE FetchBegin \/ Evict
  BY <1>1, MemoryOfFetchBegin
<1>2. CASE FetchEnd
  BY <1>2, MemoryOfFetchEnd DEF Types, TypeOK, FetchEnd, Stored
<1>3. ASSUME NEW h \in Handlers, InCache(h) \/ GetItem(h) \/ Respond(h) \/ Return(h)
      PROVE  Spared
  BY <1>3, MemoryOfGet
<1>4. ASSUME NEW h \in Handlers, ReadDisk(h)
      PROVE  Spared \/ \E b \in Bytes : Made(b)
  <2>1. CASE disk[cur[h]] # Absent
    <3>1. disk[cur[h]] \in Bytes
      BY <1>4, <2>1 DEF ReadDisk, Control, Names, Types, TypeOK
    <3> QED
      BY <1>4, <2>1, <3>1, MemoryOfReadDisk
  <2>2. CASE disk[cur[h]] = Absent
    <3>1. UNCHANGED <<item, heap, ref>>
      BY <1>4, <2>2 DEF ReadDisk
    <3> QED
      BY <3>1, MemoryUnchanged
  <2> QED
    BY <2>1, <2>2
<1>5. ASSUME NEW h \in Handlers, Overwrite(h)
      PROVE  (\E b \in Bytes : Made(b)) \/ InPlace(h)
  BY <1>5, MemoryOfOverwrite DEF InPlace
<1>6. CASE /\ ~(FetchBegin \/ Evict \/ FetchEnd)
           /\ ~\E h \in Handlers : InCache(h) \/ GetItem(h) \/ Respond(h) \/ Return(h)
                                   \/ ReadDisk(h) \/ Overwrite(h)
  <2>1. UNCHANGED <<item, heap, ref>>
    BY <1>6 DEF Next, GetStep, vars, memory, StartGet, Resolve, SaveCreate, SaveWrite
  <2> QED
    BY <2>1, MemoryUnchanged
<1> QED
  BY <1>1, <1>2, <1>3, <1>4, <1>5, <1>6

\* An array keeps its bytes while it is in use, but for a result written in
\* place.
LEMMA ArrayKept ==
  ASSUME Types, Control, Stored, [Next]_vars, NEW a \in InUse, a \in InUse'
  PROVE  heap'[a] = heap[a] \/ \E h \in Handlers : InPlace(h) /\ ref[h] = a
<1>1. CASE \E h \in Handlers : InPlace(h)
  <2>1. PICK h \in Handlers : InPlace(h)
    BY <1>1
  <2>2. CASE ref[h] = a
    BY <2>1, <2>2
  <2>3. CASE ref[h] # a
    BY <2>1, <2>3 DEF InPlace, Types, TypeOK
  <2> QED
    BY <2>2, <2>3
<1>2. CASE Spared \/ \E b \in Bytes : Made(b)
  BY <1>2 DEF Spared, Made
<1> QED
  BY <1>1, <1>2, HeapStep

\* The array of a copy is never written.
LEMMA CopyKept ==
  ASSUME Types, Control, Stored, Apart, [Next]_vars, NEW a \in InUse, a \in InUse',
         \/ \E n \in Variants : item[n].array = a
         \/ \E g \in Handlers : ref[g] = a /\ cur[g] \in Variants
  PROVE  heap'[a] = heap[a]
<1> SUFFICES ASSUME NEW h \in Handlers, InPlace(h), ref[h] = a PROVE FALSE
  BY ArrayKept
<1>1. cur[h] = Original /\ ref[h] # None /\ Original \notin Variants
  BY Constants DEF InPlace, Overwrite, Control
<1> QED
  BY <1>1 DEF Apart, Names

LEMMA NextInUse ==
  ASSUME MemoryTypes'
  PROVE  /\ \A n \in Names : Real(n)' => item'[n].array \in InUse'
         /\ \A h \in Handlers : ref'[h] # None => ref'[h] \in InUse'
<1>1. ASSUME NEW n \in Names, Real(n)'
      PROVE  item'[n].array \in InUse'
  <2>1. item'[n].array \in Nat
    BY <1>1 DEF MemoryTypes, Real
  <2>2. item'[n].array # None
    BY <2>1, Constants
  <2> QED
    BY <2>2 DEF InUse
<1>2. ASSUME NEW h \in Handlers, ref'[h] # None
      PROVE  ref'[h] \in InUse'
  BY <1>2 DEF InUse
<1> QED
  BY <1>1, <1>2

LEMMA StepTimed ==
  ASSUME Types, Control, Stored, Apart, Timed, [Next]_vars
  PROVE  Timed'
<1>1. MemoryTypes'
  BY StepMemory
<1>2. SUFFICES ASSUME NEW n \in Variants, Real(n)', item'[n].time = mtime'[n]
               PROVE  heap'[item'[n].array] \in had'[n]
  BY DEF Timed
<1>3. n \in Names /\ item'[n].array \in InUse'
  BY <1>1, <1>2, NextInUse DEF Names
<1>4. CASE FetchEnd /\ n = listener.name
  <2>1. item'[n] = [array |-> NewArray, time |-> listener.time] /\ had' = had
    BY <1>3, <1>4, FetchEndItems
  <2>2. heap'[NewArray] = disk[n]
    BY <1>3, <1>4, <2>1, MemoryOfFetchEnd DEF Made
  <2> QED
    BY <1>3, <2>1, <2>2 DEF Stored
<1>5. CASE ~(FetchEnd /\ n = listener.name)
  <2>1. item'[n] = item[n] /\ Real(n)
    BY <1>2, <1>3, <1>5, FetchEndItems, ItemsStep DEF Real
  <2>2. item[n].array \in InUse /\ item[n].array \in InUse'
    BY <1>3, <2>1, ItemTypes, InUseRefs DEF Types, TypeOK
  <2>3. heap'[item[n].array] = heap[item[n].array]
    BY <2>2, CopyKept
  <2>4. CASE UNCHANGED <<files, had>>
    BY <1>2, <2>1, <2>3, <2>4 DEF files, Timed
  <2>5. ASSUME NEW h \in Handlers, Saves(h)
        PROVE  mtime'[n] = mtime[n] /\ had[n] \subseteq had'[n]
    <3>1. mtime'[n] = mtime[n] \/ mtime'[n] = NewTime(n)
      BY <1>3, <2>5 DEF Saves, Types, TypeOK
    <3>2. mtime'[n] # NewTime(n)
      BY <1>2, <2>1, NewTimeIsNew
    <3> QED
      BY <1>3, <2>5, <3>1, <3>2 DEF Saves, Types, TypeOK
  <2>6. CASE \E h \in Handlers : Saves(h)
    BY <1>2, <2>1, <2>3, <2>5, <2>6 DEF Timed
  <2> QED
    BY <2>4, <2>6, FilesStep
<1> QED
  BY <1>4, <1>5

\* A step of others, as a handler sees it.
Bystander(g) ==
  /\ \/ UNCHANGED <<files, had>> /\ during'[g] = during[g]
     \/ \E h \in Handlers : Saves(h)
  /\ pc'[g] = pc[g] /\ want'[g] = want[g] /\ cur'[g] = cur[g]
  /\ ref'[g] = ref[g] /\ todo'[g] = todo[g] /\ made'[g] = made[g] /\ body'[g] = body[g]

LEMMA StepOfOthers ==
  ASSUME Types, Control, NEW g \in Handlers, [Next]_vars, ~StartGet(g), ~GetStep(g)
  PROVE  Bystander(g)
<1>0. /\ pc \in [Handlers -> PCs]
      /\ want \in [Handlers -> Names \union {None}]
      /\ cur \in [Handlers -> Names \union {None}]
      /\ ref \in [Handlers -> Nat \union {None}]
      /\ made \in [Handlers -> Bytes \union {None}]
      /\ body \in [Handlers -> Bytes \union {None}]
      /\ todo \in [Handlers -> SUBSET Resolvers]
      /\ during \in [Handlers -> SUBSET (Bytes \union {Absent})]
  BY DEF Types, TypeOK
<1> USE <1>0 DEF files, memory, history, Goto
<1>1. /\ pc'[g] = pc[g] /\ want'[g] = want[g] /\ cur'[g] = cur[g]
      /\ ref'[g] = ref[g] /\ todo'[g] = todo[g] /\ made'[g] = made[g] /\ body'[g] = body[g]
  <2>1. CASE FetchBegin \/ FetchEnd \/ Evict \/ UNCHANGED vars
    BY <2>1 DEF FetchBegin, FetchEnd, Evict, vars
  <2>2. ASSUME NEW h \in Handlers, h # g, StartGet(h) \/ InCache(h) \/ GetItem(h) \/ ReadDisk(h)
        PROVE  <1>1!:
    BY <2>2 DEF StartGet, InCache, GetItem, Got, ReadDisk, IntoNewArray
  <2>3. ASSUME NEW h \in Handlers, h # g, Resolve(h) \/ Overwrite(h) \/ Respond(h)
        PROVE  <1>1!:
    BY <2>3 DEF Resolve, Overwrite, IntoNewArray, Respond
  <2>4. ASSUME NEW h \in Handlers, h # g, SaveCreate(h) \/ SaveWrite(h) \/ Return(h)
        PROVE  <1>1!:
    BY <2>4 DEF SaveCreate, SaveWrite, Return
  <2> QED
    BY <2>1, <2>2, <2>3, <2>4 DEF Next, GetStep
<1>2. CASE /\ UNCHANGED <<files, had>>
           /\ (\E h \in Handlers : SaveCreate(h) \/ SaveWrite(h)) => during' = during
  <2>1. ASSUME NEW h \in Handlers, SaveCreate(h) \/ SaveWrite(h)
        PROVE  during'[g] = during[g]
    BY <1>2, <2>1
  <2>2. ASSUME NEW h \in Handlers, h # g, StartGet(h) \/ ReadDisk(h) \/ Return(h)
        PROVE  during'[g] = during[g]
    BY <2>2 DEF StartGet, ReadDisk, Return
  <2>3. ASSUME ~\E h \in Handlers : SaveCreate(h) \/ SaveWrite(h) \/ StartGet(h) \/ ReadDisk(h) \/ Return(h)
        PROVE  during' = during
    BY <2>3 DEF Next, GetStep, vars, FetchBegin, FetchEnd, Evict, InCache, GetItem, Resolve,
       Overwrite, Respond
  <2>4. during'[g] = during[g]
    BY <2>1, <2>2, <2>3 DEF GetStep
  <2> QED
    BY <1>1, <1>2, <2>4 DEF Bystander
<1>3. CASE \E h \in Handlers : Saves(h)
  BY <1>1, <1>3 DEF Bystander
<1> QED
  BY <1>2, <1>3, FilesStep

FreshGet(g) == cur[g] \in Variants =>
  /\ had[cur[g]] \subseteq during[g]
  /\ pc[g] = "getitem" /\ Real(cur[g]) => heap[item[cur[g]].array] \in during[g]
  /\ ref[g] # None => heap[ref[g]] \in during[g]
  /\ pc[g] = "return" => body[g] \in during[g]

LEMMA FreshOfOthers ==
  ASSUME Types, Control, Stored, Apart, NEW g \in Handlers, FreshGet(g), [Next]_vars, Bystander(g)
  PROVE  FreshGet(g)'
<1> DEFINE n == cur[g]
<1>1. SUFFICES ASSUME n \in Variants
               PROVE  /\ had'[n] \subseteq during'[g]
                      /\ pc[g] = "getitem" /\ Real(n)' => heap'[item'[n].array] \in during'[g]
                      /\ ref[g] # None => heap'[ref[g]] \in during'[g]
                      /\ pc[g] = "return" => body[g] \in during'[g]
  BY DEF Bystander, FreshGet, Real
<1>2. MemoryTypes' /\ n \in Names
  BY <1>1, StepMemory DEF Names
<1>3. during[g] \subseteq during'[g] /\ had'[n] \subseteq during'[g]
  <2>1. CASE UNCHANGED <<files, had>> /\ during'[g] = during[g]
    BY <1>1, <2>1 DEF FreshGet, files
  <2>2. ASSUME NEW h \in Handlers, Saves(h)
        PROVE  during[g] \subseteq during'[g] /\ had'[n] \subseteq during'[g]
    <3>1. PICK b \in Bytes :
            /\ \/ had' = [had EXCEPT ![want[h]] = {b}]
               \/ had' = [had EXCEPT ![want[h]] = @ \union {b}]
            /\ during'[g] = IF n = want[h] THEN during[g] \union {b} ELSE during[g]
      BY <2>2 DEF Saves
    <3>2. had[n] \subseteq during[g]
      BY <1>1 DEF FreshGet
    <3>3. /\ n # want[h] => had'[n] = had[n]
          /\ n = want[h] => had'[n] \in {{b}, had[n] \union {b}}
      BY <1>2, <3>1 DEF Types, TypeOK
    <3> QED
      BY <3>1, <3>2, <3>3
  <2> QED
    BY <2>1, <2>2 DEF Bystander
<1>4. ASSUME pc[g] = "getitem", Real(n)'
      PROVE  heap'[item'[n].array] \in during'[g]
  <2>1. item'[n].array \in InUse'
    BY <1>2, <1>4, NextInUse DEF Bystander
  <2>2. CASE FetchEnd /\ n = listener.name
    <3>1. item'[n] = [array |-> NewArray, time |-> listener.time] /\ during' = during
      BY <1>2, <2>2, FetchEndItems
    <3>2. heap'[NewArray] = disk[n]
      BY <2>1, <2>2, <3>1, MemoryOfFetchEnd DEF Made
    <3> QED
      BY <1>1, <1>2, <3>1, <3>2 DEF FreshGet, Stored
  <2>3. CASE ~(FetchEnd /\ n = listener.name)
    <3>1. item'[n] = item[n] /\ Real(n)
      BY <1>2, <1>4, <2>3, FetchEndItems, ItemsStep DEF Real, Bystander
    <3>2. item[n].array \in InUse
      BY <1>2, <3>1, ItemTypes, InUseRefs DEF Types, TypeOK
    <3>3. heap'[item[n].array] = heap[item[n].array]
      BY <1>1, <2>1, <3>1, <3>2, CopyKept
    <3> QED
      BY <1>1, <1>3, <1>4, <3>1, <3>3 DEF FreshGet
  <2> QED
    BY <2>2, <2>3
<1>5. ASSUME ref[g] # None
      PROVE  heap'[ref[g]] \in during'[g]
  <2>1. ref[g] \in InUse
    BY <1>5, InUseRefs
  <2>2. ref[g] \in InUse'
    BY <1>2, <1>5, NextInUse DEF Bystander
  <2>3. heap'[ref[g]] = heap[ref[g]]
    BY <1>1, <2>1, <2>2, CopyKept
  <2> QED
    BY <1>1, <1>3, <1>5, <2>3 DEF FreshGet
<1> QED
  BY <1>1, <1>3, <1>4, <1>5 DEF FreshGet

LEMMA FreshOfGet ==
  ASSUME Types, Control, Stored, Timed, NEW g \in Handlers, FreshGet(g), StartGet(g) \/ GetStep(g)
  PROVE  FreshGet(g)'
<1> DEFINE n == cur[g]
<1> USE DEF Goto, files, memory, history
<1>0. /\ pc \in [Handlers -> PCs]
      /\ cur \in [Handlers -> Names \union {None}]
      /\ ref \in [Handlers -> Nat \union {None}]
      /\ body \in [Handlers -> Bytes \union {None}]
      /\ during \in [Handlers -> SUBSET (Bytes \union {Absent})]
      /\ Original \notin Variants /\ None \notin Variants
  BY Constants DEF Types, TypeOK
<1>1. CASE StartGet(g)
  <2>1. PICK m \in Names : cur'[g] = m /\ during'[g] = had[m]
    BY <1>0, <1>1 DEF StartGet, FileOf
  <2>2. had' = had /\ pc'[g] = "incache" /\ ref'[g] = None
    BY <1>0, <1>1 DEF StartGet, Control
  <2> QED
    BY <2>1, <2>2 DEF FreshGet
<1>2. CASE InCache(g)
  <2>1. /\ cur' = cur /\ had' = had /\ during' = during /\ ref' = ref /\ ref[g] = None
        /\ pc'[g] # "return"
    BY <1>0, <1>2 DEF InCache, Control
  <2>2. ASSUME n \in Variants, pc'[g] = "getitem", Real(n)'
        PROVE  heap'[item'[n].array] \in during[g]
    <3>1. Valid(n) /\ item' = item /\ n \in Names /\ n # Original
      BY <1>0, <1>2, <2>2 DEF InCache, Names
    <3>2. heap[item[n].array] \in had[n]
      BY <2>2, <3>1 DEF Valid, Timed, Real
    <3>3. item[n].array \in InUse'
      BY <1>2, <2>1, <2>2, <3>1, MemoryOfGet, NextInUse
    <3>4. heap'[item[n].array] = heap[item[n].array]
      BY <1>2, <3>3, MemoryOfGet DEF Spared
    <3> QED
      BY <2>2, <3>1, <3>2, <3>4 DEF FreshGet
  <2> QED
    BY <2>1, <2>2 DEF FreshGet
<1>3. CASE GetItem(g)
  <2>1. /\ cur' = cur /\ had' = had /\ during' = during /\ heap' = heap /\ item' = item
        /\ ref[g] = None /\ pc[g] = "getitem" /\ pc'[g] \notin {"getitem", "return"}
    BY <1>0, <1>3 DEF GetItem, Got, Control
  <2>2. ref'[g] = None \/ (Real(n) /\ ref'[g] = item[n].array)
    BY <1>0, <1>3, <2>1 DEF GetItem, Real
  <2> QED
    BY <2>1, <2>2 DEF FreshGet
<1>4. CASE ReadDisk(g)
  <2>1. CASE disk[n] = Absent
    BY <1>0, <1>4, <2>1 DEF ReadDisk, FreshGet
  <2>2. CASE disk[n] # Absent
    <3>1. /\ cur' = cur /\ had' = had /\ during' = during /\ item' = item
          /\ pc'[g] \notin {"getitem", "return"}
      BY <1>0, <1>4, <2>2 DEF ReadDisk, Got
    <3>2. MemoryTypes' /\ Made(disk[n]) /\ ref'[g] = NewArray
      BY <1>0, <1>4, <2>2, MemoryOfReadDisk
    <3>3. ref'[g] # None => heap'[ref'[g]] = disk[n]
      BY <3>2, NextInUse DEF Made
    <3> QED
      BY <1>0, <1>4, <2>2, <3>1, <3>3 DEF FreshGet, Stored, Control, Names
  <2> QED
    BY <2>1, <2>2
<1>5. CASE Resolve(g) \/ Overwrite(g) \/ SaveCreate(g) \/ SaveWrite(g)
  <2>1. cur' = cur /\ cur[g] = Original
    BY <1>5 DEF Resolve, Overwrite, SaveCreate, SaveWrite, Control
  <2> QED
    BY <1>0, <2>1 DEF FreshGet
<1>6. CASE Respond(g)
  <2>1. /\ cur' = cur /\ had' = had /\ during' = during /\ ref[g] # None
        /\ body'[g] = heap[ref[g]] /\ pc'[g] # "getitem"
    BY <1>0, <1>6 DEF Respond, Control
  <2>2. n \in Variants => ref'[g] = None
    BY <1>0, <1>6 DEF Respond
  <2> QED
    BY <2>1, <2>2 DEF FreshGet
<1>7. CASE Return(g)
  <2>1. cur'[g] = None
    BY <1>0, <1>7 DEF Return
  <2> QED
    BY <1>0, <2>1 DEF FreshGet
<1> QED
  BY <1>1, <1>2, <1>3, <1>4, <1>5, <1>6, <1>7 DEF GetStep

LEMMA StepFresh ==
  ASSUME Types, Control, Stored, Apart, Timed, Fresh, [Next]_vars
  PROVE  Fresh'
<1>1. ASSUME NEW g \in Handlers
      PROVE  FreshGet(g)'
  <2>1. FreshGet(g)
    BY DEF Fresh, FreshGet
  <2>2. CASE StartGet(g) \/ GetStep(g)
    BY <2>1, <2>2, FreshOfGet
  <2>3. CASE ~StartGet(g) /\ ~GetStep(g)
    BY <2>1, <2>3, StepOfOthers, FreshOfOthers
  <2> QED
    BY <2>2, <2>3
<1> QED
  BY <1>1 DEF Fresh, FreshGet

-----------------------------------------------------------------------------
(* The bytes before the first reuse of an array that others refer to.       *)

HonestNames == /\ \A h \in Handlers : body[h] \in {None, want[h], Part}
               /\ \A n \in Names : disk[n] \in {Absent, n, Part}

\* What a resolver writes in place is seen by nobody else.
LEMMA InPlaceUnseen ==
  ASSUME NEW h \in Handlers, InPlace(h), ~reused'
  PROVE  /\ \A n \in Names : item[n].array # ref[h]
         /\ \A g \in Handlers : ref[g] = ref[h] => g = h
<1>1. ~Shared(h)
  BY Zenon DEF InPlace
<1> QED
  BY <1>1 DEF Shared

LEMMA HonestItems ==
  ASSUME Types, Control, Stored, Apart, [Next]_vars, ~reused', HonestNames,
         NEW n \in Names, HonestItem(n)
  PROVE  HonestItem(n)'
<1>1. SUFFICES ASSUME Real(n)'
               PROVE  heap'[item'[n].array] \in (IF n = Original THEN {n} ELSE {n, Part})
  BY DEF HonestItem
<1>2. item'[n].array \in InUse'
  BY <1>1, StepMemory, NextInUse
<1>3. CASE FetchEnd /\ n = listener.name
  <2>1. item'[n].array = NewArray
    BY <1>3, FetchEndItems
  <2>2. heap'[item'[n].array] = disk[n]
    BY <1>2, <1>3, <2>1, MemoryOfFetchEnd DEF Made
  <2>3. disk[n] \in {n, Part} /\ disk[Original] = Original
    BY <1>3, Constants DEF HonestNames, Stored
  <2> QED
    BY <2>2, <2>3
<1>4. CASE ~(FetchEnd /\ n = listener.name)
  <2>1. item'[n] = item[n] /\ Real(n)
    BY <1>1, <1>4, FetchEndItems, ItemsStep DEF Real
  <2>2. item[n].array \in InUse
    BY <2>1, ItemTypes, InUseRefs DEF Types, TypeOK
  <2>3. heap'[item[n].array] = heap[item[n].array]
    BY <1>2, <2>1, <2>2, ArrayKept, InPlaceUnseen
  <2> QED
    BY <2>1, <2>3 DEF HonestItem
<1> QED
  BY <1>3, <1>4

LEMMA HonestGetOfOthers ==
  ASSUME Types, Control, Stored, Apart, [Next]_vars, ~reused',
         NEW g \in Handlers, HonestGet(g), ~GetStep(g), Bystander(g)
  PROVE  HonestGet(g)'
<1>1. CASE pc[g] \in {"resolve", "respond", "save", "write"}
  <2>1. ref[g] \in InUse
    BY <1>1, InUseRefs DEF Control
  <2>2. ref[g] \in InUse'
    BY <1>1, StepMemory, NextInUse DEF Bystander, Control
  <2>3. heap'[ref[g]] = heap[ref[g]]
    BY <2>1, <2>2, ArrayKept, InPlaceUnseen DEF InPlace, GetStep
  <2> QED
    BY <1>1, <2>3 DEF HonestGet, Bystander
<1>2. CASE pc[g] \notin {"resolve", "respond", "save", "write"}
  BY <1>2 DEF HonestGet, Bystander
<1> QED
  BY <1>1, <1>2

LEMMA HonestGetOfGet ==
  ASSUME Types, Control, Stored, [Next]_vars, HonestNames, \A n \in Names : HonestItem(n),
         NEW g \in Handlers, HonestGet(g), StartGet(g) \/ GetStep(g)
  PROVE  HonestGet(g)'
<1> USE DEF Goto, files, memory, history
<1>0. /\ pc \in [Handlers -> PCs]
      /\ ref \in [Handlers -> Nat \union {None}]
      /\ made \in [Handlers -> Bytes \union {None}]
      /\ heap \in [InUse -> Bytes]
      /\ ref[g] # None => ref[g] \in InUse
      /\ pc[g] # "idle" => cur[g] \in Names /\ want[g] \in Names /\ cur[g] \in {want[g], Original}
      /\ todo \in [Handlers -> SUBSET Resolvers]
      /\ pc[g] \in {"getitem", "read"} => Original = want[g] \ todo[g]
  BY InUseRefs DEF Types, TypeOK, Control, Names, Original
<1>1. CASE StartGet(g)
  BY <1>0, <1>1 DEF StartGet, HonestGet
<1>2. CASE InCache(g)
  BY <1>0, <1>2 DEF InCache, HonestGet
<1>3. CASE GetItem(g)
  <2>1. heap' = heap /\ want' = want /\ todo' = todo /\ pc[g] = "getitem"
    BY <1>3 DEF GetItem
  <2>2. CASE item[cur[g]] = NoItem
    BY <1>0, <1>3, <2>2 DEF GetItem, HonestGet
  <2>3. CASE item[cur[g]] # NoItem
    <3>1. /\ ref'[g] = item[cur[g]].array
          /\ pc'[g] = (IF cur[g] = Original /\ want[g] # Original THEN "resolve" ELSE "respond")
      BY <1>0, <1>3, <2>3 DEF GetItem, Got
    <3>2. heap[item[cur[g]].array] \in (IF cur[g] = Original THEN {cur[g]} ELSE {cur[g], Part})
      BY <1>0, <1>3, <2>3 DEF GetItem, HonestItem, Real
    <3> QED
      BY <1>0, <2>1, <3>1, <3>2 DEF HonestGet
  <2> QED
    BY <2>2, <2>3
<1>4. CASE ReadDisk(g)
  <2>1. CASE disk[cur[g]] = Absent
    BY <1>0, <1>4, <2>1 DEF ReadDisk, HonestGet
  <2>2. CASE disk[cur[g]] # Absent
    <3>1. /\ pc'[g] = (IF cur[g] = Original /\ want[g] # Original THEN "resolve" ELSE "respond")
          /\ want' = want /\ todo' = todo /\ pc[g] = "read"
      BY <1>0, <1>4, <2>2 DEF ReadDisk, Got
    <3>2. MemoryTypes' /\ Made(disk[cur[g]]) /\ ref'[g] = NewArray /\ NewArray # None
      BY <1>0, <1>4, <2>2, MemoryOfReadDisk, Constants DEF Made
    <3>3. heap'[ref'[g]] = disk[cur[g]]
      BY <3>2, NextInUse DEF Made
    <3>4. disk[cur[g]] \in {cur[g], Part} /\ disk[Original] = Original
      BY <1>0, <2>2, <3>1 DEF HonestNames, Stored
    <3> QED
      BY <1>0, <3>1, <3>3, <3>4 DEF HonestGet
  <2> QED
    BY <2>1, <2>2
<1>5. CASE Resolve(g)
  <2>1. pc[g] = "resolve" /\ UNCHANGED <<want, heap, ref>> /\ pc'[g] \in {"overwrite", "return"}
    BY <1>0, <1>5 DEF Resolve
  <2>2. /\ heap[ref[g]] = want[g] \ todo[g] /\ todo[g] \subseteq want[g]
        /\ heap[ref[g]] \in Bytes /\ want[g] \subseteq Resolvers
    BY <1>0, <2>1, ImageSets DEF HonestGet, Control
  <2>3. CASE pc'[g] = "overwrite"
    <3>1. PICK r \in todo[g] : /\ made'[g] = Resolved(heap[ref[g]], r)
                               /\ todo'[g] = todo[g] \ {r}
      BY <1>0, <1>5, <2>3 DEF Resolve
    <3>2. heap[ref[g]] \in Images /\ r \notin heap[ref[g]] /\ r \in Resolvers
      BY <2>2, ImageSets
    <3>3. made'[g] = heap[ref[g]] \union {r}
      BY <2>2, <3>1, <3>2, ResolvedBytes
    <3>4. made'[g] = want[g] \ todo'[g]
      BY <2>2, <3>1, <3>3
    <3> QED
      BY <2>1, <2>3, <3>4 DEF HonestGet
  <2>4. CASE pc'[g] = "return"
    BY <2>4 DEF HonestGet
  <2> QED
    BY <2>1, <2>3, <2>4
<1>6. CASE Overwrite(g)
  <2>1. /\ pc[g] = "overwrite" /\ UNCHANGED <<want, todo>> /\ made[g] = want[g] \ todo[g]
        /\ pc'[g] = IF todo[g] = {} THEN "respond" ELSE "resolve"
    BY <1>0, <1>6 DEF Overwrite, HonestGet
  <2>2. MemoryTypes' /\ made[g] \in Bytes /\ ref[g] \in InUse
    BY <1>6, MemoryOfOverwrite
  <2>3. heap'[ref'[g]] = made[g]
    <3>1. CASE Made(made[g]) /\ ref' = [ref EXCEPT ![g] = NewArray]
      <4>1. ref'[g] = NewArray /\ NewArray # None
        BY <1>0, <3>1, Constants DEF Made
      <4> QED
        BY <2>2, <3>1, <4>1, NextInUse DEF Made
    <3>2. CASE ref' = ref /\ heap' = [heap EXCEPT ![ref[g]] = made[g]]
      BY <1>0, <2>2, <3>2
    <3> QED
      BY <1>6, <3>1, <3>2, MemoryOfOverwrite
  <2>4. CASE todo[g] = {}
    BY <2>1, <2>3, <2>4 DEF HonestGet
  <2>5. CASE todo[g] # {}
    BY <2>1, <2>3, <2>5 DEF HonestGet
  <2> QED
    BY <2>4, <2>5
<1>7. CASE Respond(g)
  BY <1>0, <1>7 DEF Respond, HonestGet
<1>8. CASE SaveCreate(g) \/ SaveWrite(g)
  BY <1>0, <1>8 DEF SaveCreate, SaveWrite, HonestGet
<1>9. CASE Return(g)
  BY <1>0, <1>9 DEF Return, HonestGet
<1> QED
  BY <1>1, <1>2, <1>3, <1>4, <1>5, <1>6, <1>7, <1>8, <1>9 DEF GetStep

LEMMA HonestBody ==
  ASSUME Types, Control, HonestNames, [Next]_vars, NEW g \in Handlers, HonestGet(g)
  PROVE  body'[g] \in {None, want'[g], Part}
<1>0. body \in [Handlers -> Bytes \union {None}] /\ pc \in [Handlers -> PCs]
  BY DEF Types, TypeOK
<1>1. CASE StartGet(g)
  BY <1>1 DEF StartGet, Control
<1>2. CASE Respond(g)
  BY <1>0, <1>2 DEF Respond, HonestGet
<1>3. CASE Return(g)
  BY <1>0, <1>3 DEF Return
<1>4. CASE GetStep(g) /\ ~Respond(g) /\ ~Return(g)
  <2>1. body' = body /\ want' = want
    BY <1>4 DEF GetStep, InCache, GetItem, ReadDisk, Resolve, Overwrite, SaveCreate, SaveWrite
  <2> QED
    BY <2>1 DEF HonestNames
<1>5. CASE ~StartGet(g) /\ ~GetStep(g)
  BY <1>5, StepOfOthers DEF Bystander, HonestNames
<1> QED
  BY <1>1, <1>2, <1>3, <1>4, <1>5

LEMMA HonestFiles ==
  ASSUME Types, Control, HonestNames, [Next]_vars, \A g \in Handlers : HonestGet(g),
         NEW n \in Names
  PROVE  disk'[n] \in {Absent, n, Part}
<1>1. CASE UNCHANGED <<files, had>>
  BY <1>1 DEF files, HonestNames
<1>2. ASSUME NEW h \in Handlers, Saves(h)
      PROVE  disk'[n] \in {Absent, n, Part}
  <2>1. heap[ref[h]] \in {want[h], Part}
    BY <1>2 DEF Saves, HonestGet
  <2> QED
    BY <1>2, <2>1 DEF Saves, HonestNames, Types, TypeOK
<1> QED
  BY <1>1, <1>2, FilesStep

LEMMA StepHonest ==
  ASSUME Types, Control, Stored, Apart, Honest, OnlyReuseCorrupts, [Next]_vars
  PROVE  Honest' /\ OnlyReuseCorrupts'
<1>1. SUFFICES ASSUME ~reused'
               PROVE  /\ \A n \in Names : HonestItem(n)'
                      /\ \A g \in Handlers : HonestGet(g)'
                      /\ HonestNames'
  BY Zenon DEF Honest, OnlyReuseCorrupts, HonestNames
<1>2. ~reused
  BY <1>1, StepReused, Zenon DEF Types, TypeOK
<1>3. /\ HonestNames
      /\ \A n \in Names : HonestItem(n)
      /\ \A g \in Handlers : HonestGet(g)
  BY <1>2, Zenon DEF Honest, OnlyReuseCorrupts, HonestNames
<1>4. ASSUME NEW n \in Names
      PROVE  HonestItem(n)'
  BY <1>1, <1>3, HonestItems
<1>5. ASSUME NEW g \in Handlers
      PROVE  HonestGet(g)'
  <2>1. CASE StartGet(g) \/ GetStep(g)
    BY <1>3, <2>1, HonestGetOfGet
  <2>2. CASE ~StartGet(g) /\ ~GetStep(g)
    BY <1>1, <1>3, <2>2, StepOfOthers, HonestGetOfOthers
  <2> QED
    BY <2>1, <2>2
<1>6. HonestNames'
  BY <1>3, HonestBody, HonestFiles DEF HonestNames
<1> QED
  BY <1>4, <1>5, <1>6

-----------------------------------------------------------------------------
(* The theorems.                                                            *)

LEMMA InitIInv == Init => IInv
<1> SUFFICES ASSUME Init PROVE IInv
  OBVIOUS
<1>1. InUse = {}
  BY DEF Init, InUse, NoItem
<1>2. IsFiniteSet(InUse)
  BY <1>1, FS_EmptySet
<1>3. heap \in [InUse -> Bytes]
  BY <1>1 DEF Init
<1>4. Types
  <2>1. disk \in [Names -> Bytes \union {Absent}]
    BY DEF Init
  <2>2. mtime \in [Names -> Nat] /\ had \in [Names -> SUBSET (Bytes \union {Absent})]
    BY <2>1 DEF Init
  <2>6. item \in [Names -> [array : Nat, time : Nat] \union {NoItem}]
    BY DEF Init
  <2>3. listener \in [name : Names \union {None}, time : Nat \union {None}] /\ requests \in 0..MaxRequests
    BY BoundAssumption DEF Init
  <2>4. during \in [Handlers -> SUBSET (Bytes \union {Absent})] /\ reused \in BOOLEAN
    BY DEF Init
  <2>5. /\ pc \in [Handlers -> PCs]
        /\ want \in [Handlers -> Names \union {None}]
        /\ cur \in [Handlers -> Names \union {None}]
        /\ ref \in [Handlers -> Nat \union {None}]
        /\ todo \in [Handlers -> SUBSET Resolvers]
        /\ made \in [Handlers -> Bytes \union {None}]
        /\ body \in [Handlers -> Bytes \union {None}]
    BY DEF Init, PCs
  <2> QED
    BY <1>2, <1>3, <2>1, <2>2, <2>3, <2>4, <2>5, <2>6 DEF Types, TypeOK
<1>5. Control /\ Stored
  BY Constants DEF Control, Stored, Init
<1>6. Apart /\ Timed /\ Fresh
  <2>1. \A n \in Names : item[n] = NoItem /\ ~Real(n)
    BY DEF Init, Real
  <2>2. \A h \in Handlers : ref[h] = None /\ cur[h] = None
    BY DEF Init
  <2>3. Timed
    BY <2>1 DEF Timed, Names
  <2> QED
    BY <2>1, <2>2, <2>3, Constants DEF Apart, Fresh
<1>7. Honest /\ OnlyReuseCorrupts
  <2>1. \A n \in Names : HonestItem(n)
    BY DEF Init, HonestItem, Real
  <2>2. \A g \in Handlers : HonestGet(g)
    BY DEF Init, HonestGet
  <2>3. HonestNames
    BY DEF Init, HonestNames, Names
  <2> QED
    BY <2>1, <2>2, <2>3, Zenon DEF Honest, OnlyReuseCorrupts, HonestNames
<1> QED
  BY <1>4, <1>5, <1>6, <1>7 DEF IInv

LEMMA StepIInv == IInv /\ [Next]_vars => IInv'
<1> SUFFICES ASSUME IInv, [Next]_vars PROVE IInv'
  OBVIOUS
<1>1. Types' /\ Control' /\ Stored'
  BY StepTypes, StepControl, StepStored DEF IInv
<1>2. Apart' /\ Timed' /\ Fresh'
  BY StepApart, StepTimed, StepFresh DEF IInv
<1>3. Honest' /\ OnlyReuseCorrupts'
  BY StepHonest DEF IInv
<1> QED
  BY <1>1, <1>2, <1>3 DEF IInv

LEMMA Invariance == Spec => []IInv
  BY InitIInv, StepIInv, PTL DEF Spec

\* Every array that an item or a handler refers to holds bytes; an absent file
\* never gets into one (Lookup, GetItem, fileDataOrResolver).
THEOREM TypeCorrect == Spec => []TypeOK
<1>1. IInv => TypeOK
  BY DEF IInv, Types
<1> QED
  BY <1>1, Invariance, PTL

\* However the library caches and drops items, whoever saves the copy
\* meanwhile and however coarse the times of the files are, Get serves of an
\* existing copy only what its file was at some time since the request began,
\* or just before that with the time the file still had then.
THEOREM CopiesAreFresh == Spec => []FreshRead
<1>1. IInv => FreshRead
  <2> SUFFICES ASSUME IInv, NEW h \in Handlers, pc[h] = "return", cur[h] # Original
               PROVE  body[h] \in during[h]
    BY DEF FreshRead
  <2>1. cur[h] \in Variants
    BY DEF IInv, Control, Names
  <2> QED
    BY <2>1 DEF IInv, Fresh
<1> QED
  BY <1>1, Invariance, PTL

\* Answers and saved copies can only go wrong once a resolver has written its
\* result into an array of the original that the cache or another Get holds.
THEOREM OnlyReuseDoesHarm == Spec => []OnlyReuseCorrupts
<1>1. IInv => OnlyReuseCorrupts
  BY DEF IInv
<1> QED
  BY <1>1, Invariance, PTL

\* Of the arrays in use none that holds a copy for the cache or for a handler
\* is ever written, and neither is the original on disk.
CopiesUnwritten ==
  /\ \A a \in InUse :
       /\ a \in InUse'
       /\ \/ \E n \in Variants : item[n].array = a
          \/ \E g \in Handlers : ref[g] = a /\ cur[g] \in Variants
       => heap'[a] = heap[a]
  /\ disk'[Original] = disk[Original]

\* A resolver's bytes.Buffer only ever reuses arrays of the original: what
\* image.go writes in place cannot reach a processed copy.
THEOREM CopiesAreNeverWritten == Spec => [][CopiesUnwritten]_vars
<1>1. IInv /\ IInv' /\ [Next]_vars => CopiesUnwritten
  <2> SUFFICES ASSUME IInv, IInv', [Next]_vars PROVE CopiesUnwritten
    OBVIOUS
  <2>1. Types /\ Control /\ Stored /\ Apart /\ Stored'
    BY DEF IInv
  <2>2. disk'[Original] = disk[Original]
    BY <2>1 DEF Stored
  <2>3. ASSUME NEW a \in InUse, a \in InUse',
               \/ \E n \in Variants : item[n].array = a
               \/ \E g \in Handlers : ref[g] = a /\ cur[g] \in Variants
        PROVE  heap'[a] = heap[a]
    BY <2>1, <2>3, CopyKept
  <2> QED
    BY <2>2, <2>3 DEF CopiesUnwritten
<1> QED
  BY <1>1, Invariance, PTL DEF Spec

=============================================================================
