---------------------------- MODULE BucketStore ----------------------------
(***************************************************************************)
(* The life of a bucket: CreateBucket writes it to three places one after  *)
(* the other, its folder on disk, the collection in MongoDB and the map    *)
(* the process keeps, which is empty after a restart and filled again by   *)
(* InitBuckets.  Every handler decides with what that map holds, looked up *)
(* once by the Auth middleware and once more by the handler itself.        *)
(*                                                                         *)
(* The collection has the unique index of migrations/, the map's mutex is  *)
(* taken by its writers only.                                              *)
(***************************************************************************)
EXTENDS Naturals, FiniteSets

CONSTANTS
  Creators,    \* goroutines that serve POST /api/bucket
  Readers,     \* goroutines that serve requests for files
  Names,       \* bucket names
  Defs,        \* what a request defines: a module, operations and their keys
  Valid,       \* the definitions that pass the validations
  NoDef,       \* the value of "no definition"
  NoName,      \* the value of "no name"
  NoOne,       \* the value of "no goroutine"
  MaxCrashes   \* bound: ends of the process

ASSUME ProcessesAssumption ==
  Creators \intersect Readers = {} /\ NoOne \notin Creators \union Readers
ASSUME DefsAssumption == Valid \subseteq Defs /\ NoDef \notin Defs
ASSUME NamesAssumption == NoName \notin Names
ASSUME CrashesAssumption == MaxCrashes \in Nat

VARIABLES
  folder,    \* folder[n]: the bucket's folder and whether something is in it
  docs,      \* docs[n]: the documents with that name
  cache,     \* cache[n]: the entry of the map
  mu,        \* the writer inside Add, if any
  server,    \* "boot" until InitBuckets returned
  pc,        \* where each goroutine is
  name,      \* the bucket a goroutine works on
  def,       \* a creator's definition, or the entry a reader's Auth looked up
  used,      \* the entry a reader's handler looked up
  answer,    \* the status written to the client
  crashes,   \* ends of the process so far
  complete,  \* history: InitBuckets loaded all documents when it last ran
  oks,       \* history: how many creations of a name were answered 201
  promised,  \* history: the definition the first of them promised
  spoiled    \* history: names whose creation was cut short behind the folder

Procs == Creators \union Readers

store   == <<folder, docs>>
memory  == <<cache, mu, server>>
local   == <<name, def, used, answer>>
history == <<crashes, complete, oks, promised, spoiled>>
vars    == <<store, memory, pc, local, history>>

-----------------------------------------------------------------------------
Goto(p, l) ==
  /\ pc' = [pc EXCEPT ![p] = l]
  /\ UNCHANGED answer

Respond(p, code) ==
  /\ pc' = [pc EXCEPT ![p] = "return"]
  /\ answer' = [answer EXCEPT ![p] = code]

\* A creator that made the folder and has not stored the document yet.
Creating(n) == {c \in Creators : pc[c] = "insert" /\ name[c] = n}

Init ==
  /\ folder = [n \in Names |-> "absent"]
  /\ docs = [n \in Names |-> {}]
  /\ cache = [n \in Names |-> NoDef]
  /\ mu = NoOne
  /\ server = "boot"
  /\ pc = [p \in Procs |-> "idle"]
  /\ name = [p \in Procs |-> NoName]
  /\ def = [p \in Procs |-> NoDef]
  /\ used = [p \in Procs |-> NoDef]
  /\ answer = [p \in Procs |-> "none"]
  /\ crashes = 0
  /\ complete = FALSE
  /\ oks = [n \in Names |-> 0]
  /\ promised = [n \in Names |-> NoDef]
  /\ spoiled = {}

-----------------------------------------------------------------------------
(* Boot.                                                                    *)

\* Mutant: the documents are decoded into one variable, so every entry of the
\* slice is the document that came last.
InitBuckets_OneVariable ==
  /\ server = "boot"
  /\ \E last \in Names, d \in Defs :
       /\ d \in docs[last] \/ \A n \in Names : docs[n] = {}
       /\ cache' = [n \in Names |-> IF n = last /\ d \in docs[n] THEN d ELSE NoDef]
  /\ server' = "up"
  /\ complete' = TRUE
  /\ UNCHANGED <<store, mu, pc, local, crashes, oks, promised, spoiled>>

\* The cache that a list of documents makes; of two with one name the last
\* wins.
Loaded(names, f) ==
  /\ f \in [Names -> Defs \union {NoDef}]
  /\ \A n \in Names : IF n \in names /\ docs[n] # {} THEN f[n] \in docs[n]
                                                     ELSE f[n] = NoDef

\* All documents are loaded; or the loop over the cursor ends early, on an
\* error nobody asks for; or the query fails, which main only logs.  The
\* server listens in every case.
InitBuckets ==
  /\ server = "boot"
  /\ \E names \in SUBSET Names, f \in [Names -> Defs \union {NoDef}] :
       /\ Loaded(names, f)
       /\ cache' = f
       /\ complete' = (names = Names)
  /\ server' = "up"
  /\ UNCHANGED <<store, mu, pc, local, crashes, oks, promised, spoiled>>

-----------------------------------------------------------------------------
(* CreateBucket.                                                            *)

\* A request with a definition; 400 when a validation or the look for its
\* module fails, 500 when the body is no JSON.
StartCreate(c) ==
  /\ server = "up"
  /\ pc[c] = "idle"
  /\ \E n \in Names, d \in Defs :
       /\ name' = [name EXCEPT ![c] = n]
       /\ def' = [def EXCEPT ![c] = d]
       /\ \/ IF d \in Valid THEN Goto(c, "readdir") ELSE Respond(c, "400")
          \/ Respond(c, "500")
  /\ UNCHANGED <<store, memory, used, history>>

\* fs.CreateBucket: a folder with something in it is a bucket.
ReadDir(c) ==
  /\ pc[c] = "readdir"
  /\ \/ folder[name[c]] = "used" /\ Respond(c, "409")
     \/ folder[name[c]] # "used" /\ Goto(c, "mkdir")
     \/ Respond(c, "500")
  /\ UNCHANGED <<store, memory, name, def, used, history>>

MkDir(c) ==
  /\ pc[c] = "mkdir"
  /\ \/ /\ folder' = [folder EXCEPT ![name[c]] = IF @ = "absent" THEN "empty" ELSE @]
        /\ Goto(c, "meta")
     \/ Respond(c, "500") /\ UNCHANGED folder
  /\ UNCHANGED <<docs, memory, name, def, used, history>>

\* Mutant: the bucket is added to the cache before it is stored.
CreateMeta_CachesFirst(c) ==
  /\ pc[c] = "meta"
  /\ folder' = [folder EXCEPT ![name[c]] = "used"]
  /\ cache' = [cache EXCEPT ![name[c]] = def[c]]
  /\ Goto(c, "insert")
  /\ UNCHANGED <<docs, mu, server, name, def, used, history>>

CreateMeta(c) ==
  /\ pc[c] = "meta"
  /\ \/ /\ folder' = [folder EXCEPT ![name[c]] = "used"]
        /\ Goto(c, "insert")
     \/ Respond(c, "500") /\ UNCHANGED folder
  /\ UNCHANGED <<docs, memory, name, def, used, history>>

\* Mutants: the collection has no unique index; the error is dropped.
Insert_NoIndex(c) ==
  /\ pc[c] = "insert"
  /\ docs' = [docs EXCEPT ![name[c]] = @ \union {def[c]}]
  /\ Goto(c, "add")
  /\ UNCHANGED <<folder, memory, name, def, used, history>>

Insert_ErrorDropped(c) ==
  /\ pc[c] = "insert"
  /\ docs' = [docs EXCEPT ![name[c]] = IF @ = {} THEN {def[c]} ELSE @] \/ UNCHANGED docs
  /\ Goto(c, "add")
  /\ UNCHANGED <<folder, memory, name, def, used, history>>

\* SaveBucketDB: stored; refused as a duplicate by the unique index; or an
\* error, which may be reported for an insert the database applied.  Nothing
\* removes the folder.
Insert(c) ==
  /\ pc[c] = "insert"
  /\ LET free == docs[name[c]] = {}
         stored == [docs EXCEPT ![name[c]] = {def[c]}]
     IN \/ free /\ docs' = stored /\ Goto(c, "add") /\ UNCHANGED spoiled
        \/ ~free /\ Respond(c, "409") /\ UNCHANGED <<docs, spoiled>>
        \/ /\ UNCHANGED docs \/ (free /\ docs' = stored)
           /\ Respond(c, "500")
           /\ spoiled' = spoiled \union {name[c]}
  /\ UNCHANGED <<folder, memory, name, def, used, crashes, complete, oks, promised>>

\* bc.Add takes the mutex ...
AddBegin(c) ==
  /\ pc[c] = "add"
  /\ mu = NoOne
  /\ mu' = c
  /\ Goto(c, "adding")
  /\ UNCHANGED <<store, cache, server, name, def, used, history>>

\* ... writes the map and gives the mutex back; 201.
AddEnd(c) ==
  /\ pc[c] = "adding"
  /\ cache' = [cache EXCEPT ![name[c]] = def[c]]
  /\ mu' = NoOne
  /\ Respond(c, "201")
  /\ oks' = [oks EXCEPT ![name[c]] = @ + 1]
  /\ promised' = [promised EXCEPT ![name[c]] = IF @ = NoDef THEN def[c] ELSE @]
  /\ UNCHANGED <<store, server, name, def, used, crashes, complete, spoiled>>

-----------------------------------------------------------------------------
(* A request for a file: bc.Get in Auth and again in the handler.           *)

StartRequest(r) ==
  /\ server = "up"
  /\ pc[r] = "idle"
  /\ \E n \in Names : name' = [name EXCEPT ![r] = n]
  /\ Goto(r, "auth")
  /\ UNCHANGED <<store, memory, def, used, history>>

\* bc.Get does not lock: it sees the map before or after a write in progress.
\* (The third outcome, a fatal error of the Go runtime, is MapRace.)
Seen(n) ==
  IF mu \in Creators /\ name[mu] = n THEN {cache[n], def[mu]} ELSE {cache[n]}

\* Mutant: the error of bc.Get is dropped and the nil bucket used.
AuthLookup_ErrorDropped(r) ==
  /\ pc[r] = "auth"
  /\ \E d \in Seen(name[r]) :
       /\ def' = [def EXCEPT ![r] = d]
       /\ IF d = NoDef THEN Respond(r, "panic") ELSE Goto(r, "handler")
  /\ UNCHANGED <<store, memory, name, used, history>>

AuthLookup(r) ==
  /\ pc[r] = "auth"
  /\ \E d \in Seen(name[r]) :
       /\ def' = [def EXCEPT ![r] = d]
       /\ IF d = NoDef THEN Respond(r, "404") ELSE Goto(r, "handler")
  /\ UNCHANGED <<store, memory, name, used, history>>

HandlerLookup(r) ==
  /\ pc[r] = "handler"
  /\ \E d \in Seen(name[r]) :
       /\ used' = [used EXCEPT ![r] = d]
       /\ IF d = NoDef THEN Respond(r, "404") ELSE Respond(r, "200")
  /\ UNCHANGED <<store, memory, name, def, history>>

-----------------------------------------------------------------------------
Reset(P) ==
  LET cleared(f, v) == [p \in Procs |-> IF p \in P THEN v ELSE f[p]]
  IN /\ pc' = cleared(pc, "idle")
     /\ name' = cleared(name, NoName)
     /\ def' = cleared(def, NoDef)
     /\ used' = cleared(used, NoDef)
     /\ answer' = cleared(answer, "none")

Return(p) == pc[p] = "return" /\ Reset({p}) /\ UNCHANGED <<store, memory, history>>

\* The process ends and starts again with an empty map.
Restart ==
  /\ crashes < MaxCrashes
  /\ crashes' = crashes + 1
  /\ Reset(Procs)
  /\ cache' = [n \in Names |-> NoDef]
  /\ mu' = NoOne
  /\ server' = "boot"
  /\ complete' = FALSE
  /\ spoiled' = spoiled \union {n \in Names : Creating(n) # {}}
  /\ UNCHANGED <<store, oks, promised>>

Crash == Restart

\* The Go runtime ends the process when it catches a read of the map during a
\* write.
MapRace ==
  /\ mu # NoOne
  /\ \E r \in Readers : pc[r] \in {"auth", "handler"}
  /\ Restart

CreateStep(c) ==
  ReadDir(c) \/ MkDir(c) \/ CreateMeta(c) \/ Insert(c) \/ AddBegin(c) \/ AddEnd(c)

ReadStep(r) == AuthLookup(r) \/ HandlerLookup(r)

Next ==
  \/ \E c \in Creators : StartCreate(c) \/ CreateStep(c) \/ Return(c)
  \/ \E r \in Readers : StartRequest(r) \/ ReadStep(r) \/ Return(r)
  \/ InitBuckets \/ MapRace \/ Crash

Spec == Init /\ [][Next]_vars

-----------------------------------------------------------------------------
PCs == {"idle", "readdir", "mkdir", "meta", "insert", "add", "adding", "auth",
        "handler", "return"}

\* Types of the variables.
TypeOK ==
  /\ folder \in [Names -> {"absent", "empty", "used"}]
  /\ docs \in [Names -> SUBSET Defs]
  /\ cache \in [Names -> Defs \union {NoDef}]
  /\ mu \in Creators \union {NoOne}
  /\ server \in {"boot", "up"}
  /\ pc \in [Procs -> PCs]
  /\ name \in [Procs -> Names \union {NoName}]
  /\ def \in [Procs -> Defs \union {NoDef}]
  /\ used \in [Procs -> Defs \union {NoDef}]
  /\ answer \in [Procs -> {"none", "200", "201", "400", "404", "409", "500"}]
  /\ crashes \in 0..MaxCrashes
  /\ complete \in BOOLEAN
  /\ oks \in [Names -> Nat]
  /\ promised \in [Names -> Defs \union {NoDef}]
  /\ spoiled \subseteq Names

\* However many requests for one name pass the check of the folder at the
\* same time, one is answered 201, and the document is that request's, also
\* after restarts.
CreatedOnce ==
  \A n \in Names :
    /\ oks[n] <= 1
    /\ oks[n] = 1 => docs[n] = {promised[n]}

\* The map never holds a bucket, nor a policy for it, that the database does
\* not: nothing served under a definition is lost at the next restart.
CacheIsStored == \A n \in Names : cache[n] # NoDef => docs[n] = {cache[n]}

\* A created bucket is known to every request from its 201 on, until a
\* restart in which InitBuckets did not load all documents.
CreatedIsKnown ==
  \A n \in Names :
    server = "up" /\ oks[n] = 1 /\ (complete \/ crashes = 0) =>
      cache[n] = promised[n]

\* The handler of a request works with the definition Auth has checked,
\* though each looks it up for itself without a lock.
OnePolicyPerRequest ==
  \A r \in Readers :
    pc[r] = "return" /\ answer[r] # "404" => used[r] = def[r]

\* A folder that keeps a name from being created although there is no such
\* bucket is the trace of a creation that failed, or died, at its insert.
StuckHasCause ==
  \A n \in Names :
    folder[n] = "used" /\ docs[n] = {} => n \in spoiled \/ Creating(n) # {}

\* The collection and the map together implement the registry of
\* BucketRegistry: between two ends of the process it forgets no bucket, it
\* learns only what is stored, and what is stored is never stored anew.
Stored(n) == IF docs[n] = {} THEN NoDef ELSE CHOOSE d \in docs[n] : TRUE
Registry == INSTANCE BucketRegistry
              WITH Buckets <- Names, Definitions <- Defs, Unknown <- NoDef,
                   registered <- [n \in Names |-> Stored(n)], known <- cache,
                   serving <- server = "up"
ImplementsRegistry == Registry!Spec

=============================================================================
