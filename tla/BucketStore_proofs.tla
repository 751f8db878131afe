------------------------- MODULE BucketStore_proofs -------------------------
(***************************************************************************)
(* Theorems about BucketStore for any number of goroutines, names,         *)
(* definitions and ends of the process.                                    *)
(*                                                                         *)
(* The argument.  The collection's index lets one insert of a name through *)
(* and nothing removes a document, so between its insert and its 201 a     *)
(* creation is the only one of its name that got this far, and the         *)
(* document is its own (Storage).  What the map gets is therefore the one  *)
(* document of the name, and so is what any reader can see of it, in       *)
(* whichever half of a write (Serving).                                    *)
(***************************************************************************)
EXTENDS BucketStore, TLAPS

-----------------------------------------------------------------------------
(* The inductive invariant.                                                 *)

CreatorPCs == {"idle", "readdir", "mkdir", "meta", "insert", "add", "adding", "return"}
ReaderPCs  == {"idle", "auth", "handler", "return"}
Storing    == {"add", "adding"}

\* Control: what the place of a goroutine says of its local variables, of the
\* mutex and of the server.
Control ==
  /\ \A p \in Procs : pc[p] # "idle" => name[p] \in Names
  /\ \A c \in Creators : pc[c] \in CreatorPCs
  /\ \A c \in Creators : pc[c] \notin {"idle", "return"} => def[c] \in Defs
  /\ \A r \in Readers : pc[r] \in ReaderPCs
  /\ mu \in Creators => pc[mu] = "adding"
  /\ \A c \in Creators : pc[c] = "adding" => mu = c
  /\ server = "boot" => \A p \in Procs : pc[p] = "idle"

TInv == TypeOK /\ Control

\* Storage: a name has one document, and a creation that is past its insert
\* is the one that stored it and the only one of that name.
Storage ==
  /\ \A n \in Names : docs[n] = {} \/ \E d \in Defs : docs[n] = {d}
  /\ \A c \in Creators :
       pc[c] \in Storing => docs[name[c]] = {def[c]} /\ oks[name[c]] = 0
  /\ \A b, c \in Creators :
       pc[b] \in Storing /\ pc[c] \in Storing /\ name[b] = name[c] => b = c
  /\ \A n \in Names : oks[n] = 0 => promised[n] = NoDef
  /\ CreatedOnce
  /\ CacheIsStored

\* Serving: what readers and the first boot know.
Serving ==
  /\ server = "boot" => \A n \in Names : cache[n] = NoDef
  /\ server = "boot" /\ crashes = 0 => \A n \in Names : oks[n] = 0
  /\ \A r \in Readers : pc[r] = "handler" => docs[name[r]] = {def[r]}
  /\ CreatedIsKnown
  /\ OnePolicyPerRequest

IInv == TInv /\ Storage /\ Serving /\ StuckHasCause

-----------------------------------------------------------------------------
LEMMA ProcsFacts ==
  /\ \A c \in Creators : c \in Procs /\ c \notin Readers /\ c # NoOne
  /\ \A r \in Readers : r \in Procs /\ r \notin Creators
  /\ Valid \subseteq Defs /\ NoDef \notin Defs
  BY ProcessesAssumption, DefsAssumption DEF Procs

LEMMA InitIInv == Init => IInv
<1> SUFFICES ASSUME Init PROVE IInv
  OBVIOUS
<1> USE ProcsFacts DEF Init
<1>1. TInv
  <2>1. TypeOK
    <3>1. crashes \in 0..MaxCrashes
      BY CrashesAssumption
    <3>2. oks \in [Names -> Nat]
      OBVIOUS
    <3>3. /\ mu \in Creators \union {NoOne} /\ server \in {"boot", "up"}
          /\ complete \in BOOLEAN /\ spoiled \subseteq Names
      OBVIOUS
    <3>4. /\ folder \in [Names -> {"absent", "empty", "used"}]
          /\ docs \in [Names -> SUBSET Defs]
          /\ cache \in [Names -> Defs \union {NoDef}]
          /\ promised \in [Names -> Defs \union {NoDef}]
      OBVIOUS
    <3>5. /\ pc \in [Procs -> PCs]
          /\ name \in [Procs -> Names \union {NoName}]
          /\ def \in [Procs -> Defs \union {NoDef}]
          /\ used \in [Procs -> Defs \union {NoDef}]
          /\ answer \in [Procs -> {"none", "200", "201", "400", "404", "409", "500"}]
      BY DEF PCs
    <3> QED
      BY <3>1, <3>2, <3>3, <3>4, <3>5 DEF TypeOK
  <2>2. Control
    BY DEF Control, CreatorPCs, ReaderPCs
  <2> QED
    BY <2>1, <2>2 DEF TInv
<1>2. Storage
  BY DEF Storage, Storing, CreatedOnce, CacheIsStored
<1>3. Serving
  BY DEF Serving, CreatedIsKnown, OnePolicyPerRequest
<1>4. StuckHasCause
  BY DEF StuckHasCause
<1> QED
  BY <1>1, <1>2, <1>3, <1>4 DEF IInv

\* Next, as a goal for each action.
LEMMA Cases ==
  ASSUME NEW P,
         \A c \in Creators : StartCreate(c) \/ ReadDir(c) \/ MkDir(c) \/ CreateMeta(c)
                             \/ Insert(c) \/ AddBegin(c) \/ AddEnd(c) => P,
         \A r \in Readers : StartRequest(r) \/ AuthLookup(r) \/ HandlerLookup(r) => P,
         \A p \in Procs : Return(p) => P,
         InitBuckets \/ Restart => P,
         UNCHANGED vars => P,
         [Next]_vars
  PROVE  P
  BY ProcsFacts DEF Next, CreateStep, ReadStep, MapRace, Crash

-----------------------------------------------------------------------------
(* Types and control.                                                       *)

LEMMA StepTInv == TInv /\ [Next]_vars => TInv'
<1> SUFFICES ASSUME TInv, [Next]_vars PROVE TInv'
  OBVIOUS
<1> USE ProcsFacts DEF TInv, TypeOK, Control, PCs, CreatorPCs, ReaderPCs, store, memory,
                       local, history, Goto, Respond
<1>1. ASSUME NEW c \in Creators, StartCreate(c) PROVE TInv'
  BY <1>1 DEF StartCreate
<1>2. ASSUME NEW c \in Creators, ReadDir(c) PROVE TInv'
  BY <1>2 DEF ReadDir
<1>3. ASSUME NEW c \in Creators, MkDir(c) PROVE TInv'
  BY <1>3 DEF MkDir
<1>4. ASSUME NEW c \in Creators, CreateMeta(c) PROVE TInv'
  BY <1>4 DEF CreateMeta
<1>5. ASSUME NEW c \in Creators, Insert(c) PROVE TInv'
  BY <1>5 DEF Insert
<1>6. ASSUME NEW c \in Creators, AddBegin(c) PROVE TInv'
  BY <1>6 DEF AddBegin
<1>7. ASSUME NEW c \in Creators, AddEnd(c) PROVE TInv'
  BY <1>7 DEF AddEnd
<1>8. ASSUME NEW r \in Readers, StartRequest(r) PROVE TInv'
  BY <1>8 DEF StartRequest
<1>9. ASSUME NEW r \in Readers, AuthLookup(r) PROVE TInv'
  <2>1. Seen(name[r]) \subseteq Defs \union {NoDef}
    BY <1>9 DEF AuthLookup, Seen
  <2> QED
    BY <1>9, <2>1 DEF AuthLookup
<1>10. ASSUME NEW r \in Readers, HandlerLookup(r) PROVE TInv'
  <2>1. Seen(name[r]) \subseteq Defs \union {NoDef}
    BY <1>10 DEF HandlerLookup, Seen
  <2> QED
    BY <1>10, <2>1 DEF HandlerLookup
<1>11. ASSUME NEW p \in Procs, Return(p) PROVE TInv'
  BY <1>11 DEF Return, Reset
<1>12. CASE InitBuckets
  BY <1>12 DEF InitBuckets, Loaded
<1>13. CASE Restart
  <2> DEFINE spoiling == {n \in Names : Creating(n) # {}}
  <2>1. spoiled' = spoiled \union spoiling /\ spoiling \subseteq Names
    BY <1>13 DEF Restart
  <2> HIDE DEF spoiling
  <2>2. crashes' \in 0..MaxCrashes
    BY <1>13, CrashesAssumption DEF Restart
  <2> QED
    BY <1>13, <2>1, <2>2 DEF Restart, Reset
<1>14. CASE UNCHANGED vars
  BY <1>14 DEF vars
<1> HIDE DEF TInv
<1> QED
  BY <1>1, <1>2, <1>3, <1>4, <1>5, <1>6, <1>7, <1>8, <1>9, <1>10, <1>11, <1>12, <1>13,
     <1>14, Cases

-----------------------------------------------------------------------------
(* Storage.                                                                 *)

\* A step that stores nothing and brings nobody past an insert keeps Storage.
LEMMA StorageStutter ==
  ASSUME Storage, Control, Control', docs' = docs,
         \A c \in Creators : pc'[c] \in Storing =>
           pc[c] \in Storing /\ name'[c] = name[c] /\ def'[c] = def[c],
         cache' = cache \/ \A n \in Names : cache'[n] = NoDef \/ docs[n] = {cache'[n]},
         oks' = oks, promised' = promised
  PROVE  Storage'
  BY ProcsFacts DEF Storage, Storing, Control, CreatedOnce, CacheIsStored

LEMMA StepStorage == TInv /\ Storage /\ [Next]_vars => Storage'
<1> SUFFICES ASSUME TInv, Storage, [Next]_vars PROVE Storage'
  OBVIOUS
<1>0. /\ Control /\ TypeOK /\ Control' /\ TypeOK'
      /\ \A c \in Creators : pc[c] # "idle" => name[c] \in Names
  BY StepTInv, ProcsFacts DEF TInv, Control
<1> USE DEF store, memory, local, history, Goto, Respond
<1>1. ASSUME NEW c \in Creators, StartCreate(c) PROVE Storage'
  BY <1>0, <1>1, StorageStutter, ProcsFacts DEF StartCreate, TypeOK, Storing
<1>2. ASSUME NEW c \in Creators, ReadDir(c) PROVE Storage'
  BY <1>0, <1>2, StorageStutter, ProcsFacts DEF ReadDir, TypeOK, Storing
<1>3. ASSUME NEW c \in Creators, MkDir(c) PROVE Storage'
  BY <1>0, <1>3, StorageStutter, ProcsFacts DEF MkDir, TypeOK, Storing
<1>4. ASSUME NEW c \in Creators, CreateMeta(c) PROVE Storage'
  BY <1>0, <1>4, StorageStutter, ProcsFacts DEF CreateMeta, TypeOK, Storing
<1>5. ASSUME NEW c \in Creators, Insert(c) PROVE Storage'
  <2>1. /\ name[c] \in Names /\ def[c] \in Defs /\ c \in Procs
        /\ name' = name /\ def' = def /\ cache' = cache /\ oks' = oks /\ promised' = promised
        /\ pc[c] = "insert"
    BY <1>0, <1>5, ProcsFacts DEF Insert, Control
  <2>2. CASE docs' = docs /\ pc'[c] = "return"
    BY <1>0, <1>5, <2>1, <2>2, StorageStutter, ProcsFacts DEF Insert, TypeOK, Storing
  <2>3. CASE /\ docs[name[c]] = {}
             /\ docs' = [docs EXCEPT ![name[c]] = {def[c]}]
             /\ pc'[c] \in {"add", "return"}
             /\ \A b \in Creators \ {c} : pc'[b] = pc[b]
    <3>1. oks[name[c]] = 0 /\ cache[name[c]] = NoDef
      <4>1. \A x : docs[name[c]] # {x}
        BY <2>3
      <4>2. oks[name[c]] \in Nat /\ oks[name[c]] <= 1 /\ oks[name[c]] # 1
        BY <1>0, <2>1, <4>1 DEF Storage, CreatedOnce, TypeOK
      <4>3. cache[name[c]] = NoDef
        BY <2>1, <4>1 DEF Storage, CacheIsStored
      <4> QED
        BY <4>2, <4>3
    <3>2. \A b \in Creators : pc[b] \in Storing => name[b] # name[c]
      BY <2>3 DEF Storage
    <3>3. /\ docs'[name[c]] = {def[c]}
          /\ \A n \in Names : n # name[c] => docs'[n] = docs[n]
      BY <1>0, <2>1, <2>3 DEF TypeOK
    <3> QED
      BY <1>0, <2>1, <2>3, <3>1, <3>2, <3>3
      DEF Storage, Storing, CreatedOnce, CacheIsStored
  <2>4. pc' = [pc EXCEPT ![c] = "return"] \/ pc' = [pc EXCEPT ![c] = "add"]
    BY <1>5 DEF Insert
  <2>5. /\ pc'[c] \in {"add", "return"}
        /\ \A b \in Creators \ {c} : pc'[b] = pc[b]
    BY <1>0, <2>1, <2>4, ProcsFacts DEF TypeOK
  <2>6. \/ docs' = docs /\ pc' = [pc EXCEPT ![c] = "return"]
        \/ docs[name[c]] = {} /\ docs' = [docs EXCEPT ![name[c]] = {def[c]}]
    BY <1>5 DEF Insert
  <2>7. docs' = docs /\ pc' = [pc EXCEPT ![c] = "return"] => pc'[c] = "return"
    BY <1>0, <2>1 DEF TypeOK
  <2> QED
    BY <2>2, <2>3, <2>5, <2>6, <2>7
<1>6. ASSUME NEW c \in Creators, AddBegin(c) PROVE Storage'
  BY <1>0, <1>6, StorageStutter, ProcsFacts DEF AddBegin, TypeOK, Storing
<1>7. ASSUME NEW c \in Creators, AddEnd(c) PROVE Storage'
  <2>1. /\ name[c] \in Names /\ def[c] \in Defs /\ c \in Procs /\ pc[c] = "adding"
        /\ name' = name /\ def' = def /\ docs' = docs /\ pc'[c] = "return"
        /\ \A b \in Creators \ {c} : pc'[b] = pc[b]
    BY <1>0, <1>7, ProcsFacts DEF AddEnd, Control, TypeOK
  <2>2. docs[name[c]] = {def[c]} /\ oks[name[c]] = 0 /\ promised[name[c]] = NoDef
    BY <2>1 DEF Storage, Storing
  <2>3. /\ cache'[name[c]] = def[c] /\ oks'[name[c]] = 1 /\ promised'[name[c]] = def[c]
        /\ \A n \in Names : n # name[c] =>
             cache'[n] = cache[n] /\ oks'[n] = oks[n] /\ promised'[n] = promised[n]
    BY <1>0, <1>7, <2>1, <2>2 DEF AddEnd, TypeOK
  <2>4. \A b \in Creators : pc'[b] \in Storing => pc[b] \in Storing /\ name[b] # name[c]
    BY <2>1 DEF Storage, Storing
  <2> QED
    BY <1>0, <2>1, <2>2, <2>3, <2>4 DEF Storage, Storing, CreatedOnce, CacheIsStored, Control
<1>8. ASSUME NEW r \in Readers, StartRequest(r) \/ AuthLookup(r) \/ HandlerLookup(r)
      PROVE  Storage'
  BY <1>0, <1>8, StorageStutter, ProcsFacts
  DEF StartRequest, AuthLookup, HandlerLookup, TypeOK, Storing
<1>9. ASSUME NEW p \in Procs, Return(p) PROVE Storage'
  BY <1>0, <1>9, StorageStutter, ProcsFacts DEF Return, Reset, TypeOK, Storing
<1>10. CASE InitBuckets
  <2>1. \A n \in Names : cache'[n] = NoDef \/ docs[n] = {cache'[n]}
    BY <1>0, <1>10 DEF InitBuckets, Loaded, Storage
  <2> QED
    BY <1>0, <1>10, <2>1, StorageStutter DEF InitBuckets
<1>11. CASE Restart
  BY <1>0, <1>11, StorageStutter, ProcsFacts DEF Restart, Reset, Storing
<1>12. CASE UNCHANGED vars
  BY <1>0, <1>12, StorageStutter DEF vars
<1> QED
  BY <1>1, <1>2, <1>3, <1>4, <1>5, <1>6, <1>7, <1>8, <1>9, <1>10, <1>11, <1>12, Cases

-----------------------------------------------------------------------------
(* Serving.                                                                 *)

\* Whichever half of a write a reader sees, it sees the stored document.
LEMMA SeenIsStored ==
  ASSUME TInv, Storage, NEW n \in Names, NEW d \in Seen(n), d # NoDef
  PROVE  docs[n] = {d}
<1>1. d = cache[n] \/ (mu \in Creators /\ name[mu] = n /\ d = def[mu])
  BY DEF Seen
<1>2. mu \in Creators => docs[name[mu]] = {def[mu]}
  BY DEF TInv, Control, Storage, Storing
<1> QED
  BY <1>1, <1>2 DEF Storage, CacheIsStored

\* A creator's step before its 201 touches nothing that Serving speaks of but
\* the document of a name that had none.
LEMMA ServingStutter ==
  ASSUME TInv, Serving, server' = server, cache' = cache, crashes' = crashes,
         complete' = complete, oks' = oks, promised' = promised,
         \A n \in Names : docs[n] # {} => docs'[n] = docs[n],
         \A r \in Readers :
           \/ pc'[r] \in {"idle", "auth"}
           \/ /\ pc'[r] = pc[r] /\ name'[r] = name[r] /\ def'[r] = def[r]
              /\ used'[r] = used[r] /\ answer'[r] = answer[r]
  PROVE  Serving'
<1>1. \A r \in Readers : pc'[r] = "handler" => docs'[name'[r]] = {def'[r]}
  BY ProcsFacts DEF Serving, TInv, Control
<1>2. OnePolicyPerRequest'
  BY DEF Serving, OnePolicyPerRequest
<1> QED
  BY <1>1, <1>2 DEF Serving, CreatedIsKnown

LEMMA StepServing == TInv /\ Storage /\ Serving /\ [Next]_vars => Serving'
<1> SUFFICES ASSUME TInv, Storage, Serving, [Next]_vars PROVE Serving'
  OBVIOUS
<1>0. /\ Control /\ TypeOK /\ Control' /\ TypeOK' /\ Storage'
      /\ \A p \in Procs : pc[p] # "idle" => name[p] \in Names
  BY StepTInv, StepStorage, ProcsFacts DEF TInv, Control
<1> USE DEF store, memory, local, history, Goto, Respond
<1>1. ASSUME NEW c \in Creators,
             StartCreate(c) \/ ReadDir(c) \/ MkDir(c) \/ CreateMeta(c) \/ AddBegin(c)
      PROVE  Serving'
  <2>1. docs' = docs /\ server' = server /\ cache' = cache /\ used' = used /\ UNCHANGED history
    BY <1>1 DEF StartCreate, ReadDir, MkDir, CreateMeta, AddBegin
  <2>2. \A r \in Readers : /\ pc'[r] = pc[r] /\ name'[r] = name[r] /\ def'[r] = def[r]
                           /\ answer'[r] = answer[r]
    BY <1>0, <1>1, ProcsFacts DEF StartCreate, ReadDir, MkDir, CreateMeta, AddBegin, TypeOK
  <2> QED
    BY <2>1, <2>2, ServingStutter
<1>2. ASSUME NEW c \in Creators, Insert(c) PROVE Serving'
  <2>1. /\ server' = server /\ cache' = cache /\ used' = used /\ name' = name /\ def' = def
        /\ crashes' = crashes /\ complete' = complete /\ oks' = oks /\ promised' = promised
    BY <1>2 DEF Insert
  <2>2. \A r \in Readers : pc'[r] = pc[r] /\ answer'[r] = answer[r]
    BY <1>0, <1>2, ProcsFacts DEF Insert, TypeOK
  <2>3. \/ docs' = docs
        \/ docs[name[c]] = {} /\ docs' = [docs EXCEPT ![name[c]] = {def[c]}]
    BY <1>2 DEF Insert
  <2>4. \A n \in Names : docs[n] # {} => docs'[n] = docs[n]
    BY <1>0, <2>3 DEF TypeOK
  <2> QED
    BY <2>1, <2>2, <2>4, ServingStutter
<1>3. ASSUME NEW c \in Creators, AddEnd(c) PROVE Serving'
  <2>1. /\ name[c] \in Names /\ c \in Procs /\ pc[c] = "adding" /\ server' = server
        /\ UNCHANGED <<docs, name, def, used, crashes, complete>> /\ server # "boot"
    BY <1>0, <1>3, ProcsFacts DEF AddEnd, Control
  <2>2. \A r \in Readers : pc'[r] = pc[r] /\ answer'[r] = answer[r]
    BY <1>0, <1>3, ProcsFacts DEF AddEnd, TypeOK
  <2>3. oks[name[c]] = 0 /\ promised[name[c]] = NoDef
    BY <2>1 DEF Storage, Storing
  <2>4. /\ cache'[name[c]] = def[c] /\ promised'[name[c]] = def[c]
        /\ \A n \in Names : n # name[c] =>
             cache'[n] = cache[n] /\ oks'[n] = oks[n] /\ promised'[n] = promised[n]
    BY <1>0, <1>3, <2>1, <2>3 DEF AddEnd, TypeOK
  <2>5. CreatedIsKnown'
    BY <2>1, <2>4 DEF Serving, CreatedIsKnown
  <2> QED
    BY <2>1, <2>2, <2>5 DEF Serving, OnePolicyPerRequest
<1>4. ASSUME NEW r \in Readers, StartRequest(r) PROVE Serving'
  <2>1. /\ UNCHANGED <<docs, server, cache, used, def, answer>> /\ UNCHANGED history
        /\ pc'[r] = "auth"
        /\ \A q \in Readers \ {r} : pc'[q] = pc[q] /\ name'[q] = name[q]
    BY <1>0, <1>4, ProcsFacts DEF StartRequest, TypeOK
  <2> QED
    BY <2>1, ServingStutter
<1>5. ASSUME NEW r \in Readers, AuthLookup(r) PROVE Serving'
  <2>1. PICK d \in Seen(name[r]) :
          /\ def' = [def EXCEPT ![r] = d]
          /\ IF d = NoDef THEN Respond(r, "404") ELSE Goto(r, "handler")
    BY <1>5 DEF AuthLookup
  <2>2. name[r] \in Names /\ r \in Procs
    BY <1>0, <1>5, ProcsFacts DEF AuthLookup
  <2>3. UNCHANGED <<docs, server, cache, used, name>> /\ UNCHANGED history
    BY <1>5 DEF AuthLookup
  <2>4. \A q \in Readers \ {r} : pc'[q] = pc[q] /\ def'[q] = def[q] /\ answer'[q] = answer[q]
    BY <1>0, <2>1, <2>2, ProcsFacts DEF TypeOK
  <2>5. /\ pc'[r] = "handler" => d # NoDef /\ def'[r] = d
        /\ pc'[r] = "return" => answer'[r] = "404"
    BY <1>0, <2>1, <2>2 DEF TypeOK
  <2>6. \A q \in Readers : pc'[q] = "handler" => docs[name[q]] = {def'[q]}
    BY <2>2, <2>4, <2>5, SeenIsStored DEF Serving
  <2>7. OnePolicyPerRequest'
    BY <2>3, <2>4, <2>5 DEF Serving, OnePolicyPerRequest
  <2> QED
    BY <2>3, <2>6, <2>7 DEF Serving, CreatedIsKnown
<1>6. ASSUME NEW r \in Readers, HandlerLookup(r) PROVE Serving'
  <2>1. PICK d \in Seen(name[r]) :
          /\ used' = [used EXCEPT ![r] = d]
          /\ IF d = NoDef THEN Respond(r, "404") ELSE Respond(r, "200")
    BY <1>6 DEF HandlerLookup
  <2>2. name[r] \in Names /\ r \in Procs /\ docs[name[r]] = {def[r]}
    BY <1>0, <1>6, ProcsFacts DEF HandlerLookup, Serving
  <2>3. UNCHANGED <<docs, server, cache, def, name>> /\ UNCHANGED history
    BY <1>6 DEF HandlerLookup
  <2>4. \A q \in Readers \ {r} : pc'[q] = pc[q] /\ used'[q] = used[q] /\ answer'[q] = answer[q]
    BY <1>0, <2>1, <2>2, ProcsFacts DEF TypeOK
  <2>5. /\ pc'[r] = "return" /\ used'[r] = d
        /\ answer'[r] # "404" => d # NoDef
    BY <1>0, <2>1, <2>2 DEF TypeOK
  <2>6. d # NoDef => d = def[r]
    BY <2>2, SeenIsStored
  <2>7. OnePolicyPerRequest'
    BY <2>3, <2>4, <2>5, <2>6 DEF Serving, OnePolicyPerRequest
  <2>8. \A q \in Readers : pc'[q] = "handler" => docs[name[q]] = {def[q]}
    BY <2>4, <2>5 DEF Serving
  <2> QED
    BY <2>3, <2>7, <2>8 DEF Serving, CreatedIsKnown
<1>7. ASSUME NEW p \in Procs, Return(p) PROVE Serving'
  <2>1. UNCHANGED <<docs, server, cache>> /\ UNCHANGED history
    BY <1>7 DEF Return
  <2>2. \A r \in Readers :
          \/ pc'[r] \in {"idle", "auth"}
          \/ /\ pc'[r] = pc[r] /\ name'[r] = name[r] /\ def'[r] = def[r]
             /\ used'[r] = used[r] /\ answer'[r] = answer[r]
    BY <1>7, ProcsFacts DEF Return, Reset
  <2> QED
    BY <2>1, <2>2, ServingStutter
<1>8. CASE InitBuckets
  <2>1. server = "boot" /\ server' = "up"
        /\ UNCHANGED <<docs, pc, name, def, used, answer, crashes, oks, promised>>
    BY <1>8 DEF InitBuckets
  <2>2. PICK names \in SUBSET Names :
          Loaded(names, cache') /\ complete' = (names = Names)
    BY <1>8 DEF InitBuckets
  <2>3. CreatedIsKnown'
    <3> SUFFICES ASSUME NEW n \in Names, oks[n] = 1, complete' \/ crashes = 0
                 PROVE  cache'[n] = promised[n]
      BY <2>1 DEF CreatedIsKnown
    <3>1. crashes # 0
      BY <2>1 DEF Serving
    <3>2. n \in names
      BY <2>2, <3>1
    <3>3. docs[n] = {promised[n]}
      BY DEF Storage, CreatedOnce
    <3> QED
      BY <2>2, <3>2, <3>3 DEF Loaded
  <2> QED
    BY <2>1, <2>3 DEF Serving, OnePolicyPerRequest
<1>9. CASE Restart
  <2>1. crashes' # 0 /\ \A p \in Procs : pc'[p] = "idle"
    BY <1>0, <1>9 DEF Restart, Reset, TypeOK
  <2>2. server' = "boot" /\ \A n \in Names : cache'[n] = NoDef
    BY <1>9 DEF Restart
  <2> QED
    BY <2>1, <2>2, ProcsFacts DEF Serving, CreatedIsKnown, OnePolicyPerRequest
<1>10. CASE UNCHANGED vars
  BY <1>10, ServingStutter DEF vars
<1> QED
  BY <1>1, <1>2, <1>3, <1>4, <1>5, <1>6, <1>7, <1>8, <1>9, <1>10, Cases

-----------------------------------------------------------------------------
(* Folders without a bucket.                                                *)

\* A step that fills no folder and after which every insert is still ahead.
LEMMA StuckStutter ==
  ASSUME StuckHasCause, docs' = docs,
         \A n \in Names : folder'[n] = "used" => folder[n] = "used",
         spoiled \subseteq spoiled',
         \A c \in Creators :
           pc[c] = "insert" => pc'[c] = "insert" /\ name'[c] = name[c]
  PROVE  StuckHasCause'
<1>1. \A n \in Names : Creating(n) \subseteq Creating(n)'
  BY DEF Creating
<1> QED
  BY <1>1 DEF StuckHasCause

LEMMA StepStuck == TInv /\ StuckHasCause /\ [Next]_vars => StuckHasCause'
<1> SUFFICES ASSUME TInv, StuckHasCause, [Next]_vars PROVE StuckHasCause'
  OBVIOUS
<1>0. TypeOK /\ \A p \in Procs : pc[p] # "idle" => name[p] \in Names
  BY DEF TInv, Control
<1> USE DEF store, memory, local, history, Goto, Respond
<1>1. ASSUME NEW c \in Creators, StartCreate(c) \/ ReadDir(c) \/ AddBegin(c) \/ AddEnd(c)
      PROVE  StuckHasCause'
  BY <1>0, <1>1, StuckStutter, ProcsFacts
  DEF StartCreate, ReadDir, AddBegin, AddEnd, TypeOK
<1>2. ASSUME NEW c \in Creators, MkDir(c) PROVE StuckHasCause'
  <2>1. \A n \in Names : folder'[n] = "used" => folder[n] = "used"
    BY <1>0, <1>2 DEF MkDir, TypeOK
  <2> QED
    BY <1>0, <1>2, <2>1, StuckStutter, ProcsFacts DEF MkDir, TypeOK
<1>3. ASSUME NEW c \in Creators, CreateMeta(c) PROVE StuckHasCause'
  <2>1. /\ pc[c] = "meta" /\ name' = name /\ docs' = docs /\ spoiled' = spoiled
        /\ name[c] \in Names
        /\ \A b \in Creators \ {c} : pc'[b] = pc[b]
    BY <1>0, <1>3, ProcsFacts DEF CreateMeta, TypeOK
  <2>2. CASE folder' = folder
    BY <2>1, <2>2, StuckStutter
  <2>3. CASE folder' = [folder EXCEPT ![name[c]] = "used"] /\ pc'[c] = "insert"
    <3>1. c \in Creating(name[c])' /\ \A n \in Names : Creating(n) \subseteq Creating(n)'
      BY <2>1, <2>3 DEF Creating
    <3>2. \A n \in Names : n # name[c] => folder'[n] = folder[n]
      BY <1>0, <2>3 DEF TypeOK
    <3> QED
      BY <2>1, <3>1, <3>2 DEF StuckHasCause
  <2> QED
    BY <1>0, <1>3, <2>2, <2>3, ProcsFacts DEF CreateMeta, TypeOK
<1>4. ASSUME NEW c \in Creators, Insert(c) PROVE StuckHasCause'
  <2>1. /\ pc[c] = "insert" /\ name' = name /\ folder' = folder
        /\ name[c] \in Names /\ spoiled \subseteq spoiled'
        /\ \A b \in Creators \ {c} : pc'[b] = pc[b]
    BY <1>0, <1>4, ProcsFacts DEF Insert, TypeOK
  <2>2. \A n \in Names : n # name[c] => docs'[n] = docs[n]
    BY <1>0, <1>4 DEF Insert, TypeOK
  <2>3. docs'[name[c]] # {} \/ name[c] \in spoiled'
    <3>1. CASE docs[name[c]] # {} /\ docs' = docs
      BY <3>1
    <3>2. CASE docs' = [docs EXCEPT ![name[c]] = {def[c]}]
      BY <1>0, <2>1, <3>2 DEF TypeOK
    <3>3. CASE spoiled' = spoiled \union {name[c]}
      BY <3>3
    <3> QED
      BY <1>4, <3>1, <3>2, <3>3 DEF Insert
  <2>4. \A n \in Names : n # name[c] => Creating(n) \subseteq Creating(n)'
    BY <2>1 DEF Creating
  <2> QED
    BY <2>1, <2>2, <2>3, <2>4 DEF StuckHasCause
<1>5. ASSUME NEW r \in Readers, StartRequest(r) \/ AuthLookup(r) \/ HandlerLookup(r)
      PROVE  StuckHasCause'
  BY <1>0, <1>5, StuckStutter, ProcsFacts
  DEF StartRequest, AuthLookup, HandlerLookup, TypeOK
<1>6. ASSUME NEW p \in Procs, Return(p) PROVE StuckHasCause'
  BY <1>6, StuckStutter, ProcsFacts DEF Return, Reset
<1>7. CASE InitBuckets
  BY <1>7, StuckStutter DEF InitBuckets
<1>8. CASE Restart
  <2>1. folder' = folder /\ docs' = docs
        /\ spoiled' = spoiled \union {n \in Names : Creating(n) # {}}
    BY <1>8 DEF Restart
  <2> QED
    BY <2>1 DEF StuckHasCause
<1>9. CASE UNCHANGED vars
  BY <1>9, StuckStutter DEF vars
<1> QED
  BY <1>1, <1>2, <1>3, <1>4, <1>5, <1>6, <1>7, <1>8, <1>9, Cases

-----------------------------------------------------------------------------
(* The theorems.                                                            *)

LEMMA Invariance == Spec => []IInv
<1>1. IInv /\ [Next]_vars => IInv'
  BY StepTInv, StepStorage, StepServing, StepStuck DEF IInv
<1> QED
  BY InitIInv, <1>1, PTL DEF Spec

\* Every variable keeps its type.
THEOREM TypeCorrect == Spec => []TypeOK
<1>1. IInv => TypeOK
  BY DEF IInv, TInv
<1> QED
  BY Invariance, <1>1, PTL

\* Of any number of requests that create one name, over any number of ends of
\* the process, one is answered 201 and the document is that request's.
THEOREM BucketsAreCreatedOnce == Spec => []CreatedOnce
<1>1. IInv => CreatedOnce
  BY DEF IInv, Storage
<1> QED
  BY Invariance, <1>1, PTL

\* The map of buckets holds nothing the database does not.
THEOREM CacheHoldsStoredBuckets == Spec => []CacheIsStored
<1>1. IInv => CacheIsStored
  BY DEF IInv, Storage
<1> QED
  BY Invariance, <1>1, PTL

\* A bucket whose creation was answered 201 is known to every request until a
\* restart loads the buckets incompletely.
THEOREM CreatedBucketsAreKnown == Spec => []CreatedIsKnown
<1>1. IInv => CreatedIsKnown
  BY DEF IInv, Serving
<1> QED
  BY Invariance, <1>1, PTL

\* The unlocked lookups of Auth and of the handler never find two policies.
THEOREM RequestsHaveOnePolicy == Spec => []OnePolicyPerRequest
<1>1. IInv => OnePolicyPerRequest
  BY DEF IInv, Serving
<1> QED
  BY Invariance, <1>1, PTL

\* A name whose folder is in use although there is no such bucket has had a
\* creation cut short at its insert, or has one there.
THEOREM StuckNamesHaveCause == Spec => []StuckHasCause
<1>1. IInv => StuckHasCause
  BY DEF IInv
<1> QED
  BY Invariance, <1>1, PTL

-----------------------------------------------------------------------------
(* The refinement of BucketRegistry.                                        *)

LEMMA StoredFacts ==
  ASSUME Storage, NEW n \in Names
  PROVE  /\ docs[n] = {} <=> Stored(n) = NoDef
         /\ docs[n] # {} => docs[n] = {Stored(n)} /\ Stored(n) \in Defs
<1>1. CASE docs[n] = {}
  BY <1>1 DEF Stored
<1>2. CASE docs[n] # {}
  <2>1. PICK d \in Defs : docs[n] = {d}
    BY <1>2 DEF Storage
  <2>2. Stored(n) = d
    BY <2>1 DEF Stored
  <2> QED
    BY <2>1, <2>2, ProcsFacts
<1> QED
  BY <1>1, <1>2

LEMMA InitRegistry == Init => Registry!Init
  BY DEF Init, Registry!Init, Registry!Nothing, Stored

\* A step that leaves the documents, the map and the server alone.
LEMMA RegistryStutter ==
  ASSUME docs' = docs, cache' = cache, server' = server
  PROVE  UNCHANGED Registry!vars
  BY DEF Registry!vars, Stored

LEMMA StepRegistry == IInv /\ IInv' /\ [Next]_vars => [Registry!Next]_(Registry!vars)
<1> SUFFICES ASSUME IInv, IInv', [Next]_vars PROVE [Registry!Next]_(Registry!vars)
  OBVIOUS
<1>0. /\ TInv /\ TypeOK /\ Control /\ Storage /\ Storage' /\ Serving
      /\ \A p \in Procs : pc[p] # "idle" => name[p] \in Names
  BY DEF IInv, TInv, Control
<1> USE DEF store, memory, local, history, Goto, Respond
<1>1. ASSUME NEW c \in Creators,
             StartCreate(c) \/ ReadDir(c) \/ MkDir(c) \/ CreateMeta(c) \/ AddBegin(c)
      PROVE  [Registry!Next]_(Registry!vars)
  BY <1>1, RegistryStutter DEF StartCreate, ReadDir, MkDir, CreateMeta, AddBegin
<1>2. ASSUME NEW c \in Creators, Insert(c) PROVE [Registry!Next]_(Registry!vars)
  <2>1. /\ name[c] \in Names /\ def[c] \in Defs /\ server = "up"
        /\ cache' = cache /\ server' = server
    BY <1>0, <1>2, ProcsFacts DEF Insert, Control, TypeOK
  <2>2. CASE docs' = docs
    BY <2>1, <2>2, RegistryStutter
  <2>3. CASE docs[name[c]] = {} /\ docs' = [docs EXCEPT ![name[c]] = {def[c]}]
    <3>1. PICK b \in Names : b = name[c]
      BY <2>1
    <3>2. PICK d \in Defs : d = def[c]
      BY <2>1
    <3>3. docs' = [docs EXCEPT ![b] = {d}] /\ docs'[b] = {d}
      BY <1>0, <2>3, <3>1, <3>2 DEF TypeOK
    <3>4. Stored(b) = NoDef
      BY <2>3, <3>1 DEF Stored
    <3>5. ASSUME NEW n \in Names PROVE Stored(n)' = IF n = b THEN d ELSE Stored(n)
      <4>1. CASE n = b
        BY <3>3, <4>1 DEF Stored
      <4>2. CASE n # b
        <5>1. docs'[n] = docs[n]
          BY <1>0, <3>3, <4>2 DEF TypeOK
        <5> QED
          BY <4>2, <5>1 DEF Stored
      <4> QED
        BY <4>1, <4>2
    <3>6. [n \in Names |-> Stored(n)]' = [[n \in Names |-> Stored(n)] EXCEPT ![b] = d]
      BY <3>5
    <3>7. Registry!Register(b, d)
      BY <2>1, <3>4, <3>6 DEF Registry!Register
    <3> QED
      BY <3>7 DEF Registry!Next
  <2> QED
    BY <1>2, <2>2, <2>3 DEF Insert
<1>3. ASSUME NEW c \in Creators, AddEnd(c) PROVE [Registry!Next]_(Registry!vars)
  <2>1. /\ name[c] \in Names /\ server = "up" /\ docs[name[c]] = {def[c]}
        /\ docs' = docs /\ server' = server
        /\ cache' = [cache EXCEPT ![name[c]] = def[c]]
    BY <1>0, <1>3, ProcsFacts DEF AddEnd, Control, TypeOK, Storage, Storing
  <2>2. Stored(name[c]) = def[c] /\ Stored(name[c]) # NoDef
    BY <1>0, <2>1, StoredFacts
  <2>3. [n \in Names |-> Stored(n)]' = [n \in Names |-> Stored(n)]
    BY <2>1 DEF Stored
  <2>4. Registry!Learn(name[c])
    BY <2>1, <2>2, <2>3 DEF Registry!Learn
  <2> QED
    BY <2>1, <2>4 DEF Registry!Next
<1>4. ASSUME NEW r \in Readers, StartRequest(r) \/ AuthLookup(r) \/ HandlerLookup(r)
      PROVE  [Registry!Next]_(Registry!vars)
  BY <1>4, RegistryStutter DEF StartRequest, AuthLookup, HandlerLookup
<1>5. ASSUME NEW p \in Procs, Return(p) PROVE [Registry!Next]_(Registry!vars)
  BY <1>5, RegistryStutter DEF Return
<1>6. CASE InitBuckets
  <2>1. PICK names \in SUBSET Names :
          Loaded(names, cache') /\ cache' \in [Names -> Defs \union {NoDef}]
    BY <1>6 DEF InitBuckets, Loaded
  <2>2. \A n \in Names : cache'[n] = IF n \in names THEN Stored(n) ELSE NoDef
    BY <1>0, <2>1, StoredFacts DEF Loaded
  <2>3. cache' = [n \in Names |-> IF n \in names THEN [m \in Names |-> Stored(m)][n] ELSE NoDef]
    BY <2>1, <2>2
  <2>4. server = "boot" /\ server' = "up" /\ docs' = docs
    BY <1>6 DEF InitBuckets
  <2>5. [n \in Names |-> Stored(n)]' = [n \in Names |-> Stored(n)]
    BY <2>4 DEF Stored
  <2>6. Registry!Boot
    BY <2>3, <2>4, <2>5 DEF Registry!Boot
  <2> QED
    BY <2>6 DEF Registry!Next
<1>7. CASE Restart
  <2>1. docs' = docs /\ cache' = [n \in Names |-> NoDef] /\ server' = "boot"
    BY <1>7 DEF Restart
  <2>2. CASE server = "up"
    <3>1. [n \in Names |-> Stored(n)]' = [n \in Names |-> Stored(n)]
      BY <2>1 DEF Stored
    <3>2. Registry!End
      BY <2>1, <2>2, <3>1 DEF Registry!End, Registry!Nothing
    <3> QED
      BY <3>2 DEF Registry!Next
  <2>3. CASE server = "boot"
    <3>1. cache' = cache
      BY <1>0, <2>1, <2>3 DEF Serving, TypeOK
    <3> QED
      BY <2>1, <2>3, <3>1, RegistryStutter
  <2> QED
    BY <1>0, <2>2, <2>3 DEF TypeOK
<1>8. CASE UNCHANGED vars
  BY <1>8, RegistryStutter DEF vars
<1> QED
  BY <1>1, <1>2, <1>3, <1>4, <1>5, <1>6, <1>7, <1>8, Cases

\* The collection and the map together implement a registry: a name is
\* registered once and with one definition, what a process knows is
\* registered, and it forgets nothing before it ends.
THEOREM BucketStoreIsARegistry == Spec => ImplementsRegistry
<1>1. Spec => Registry!Init /\ [][Registry!Next]_(Registry!vars)
  BY InitRegistry, StepRegistry, Invariance, PTL DEF Spec
<1> QED
  BY <1>1 DEF ImplementsRegistry, Registry!Spec

=============================================================================
