----------------------------- MODULE FileStore -----------------------------
(***************************************************************************)
(* The life of a file in the CDN: the Upload, Get and Delete handlers of   *)
(* internal/cdn/cdn_handler.go, run by concurrent goroutines over the two  *)
(* stores they keep in step, the document collection in MongoDB and the    *)
(* bucket directory on disk, which share no transaction.                   *)
(*                                                                         *)
(* A step is one call that leaves the goroutine: a MongoDB command, a      *)
(* system call of os.WriteFile, os.MkdirAll, os.Stat or os.RemoveAll.      *)
(* Every such call may fail, and the process may die between two of them.  *)
(* File content is abstracted to whether all of its bytes are there.       *)
(***************************************************************************)
EXTENDS Naturals, FiniteSets

CONSTANTS
  Handlers,       \* the goroutines net/http runs the handlers in
  Files,          \* file UUIDs
  NoFile,         \* the value of "no file"
  Original,       \* file name of an original: fs.DefaultName + extension
  Variants,       \* SHA1 file names of the processed copies
  BucketsPath,    \* the -buckets-path flag
  WorkDir,        \* the working directory of the process
  Seeded,         \* UUIDs with a document stored before this process started,
                  \* carrying the is_deletable field the update query expects
  SaveRetries,    \* const saveRetries
  DeleteRetries,  \* const deleteRetries
  MaxBatch,       \* bound: files in one upload form
  MaxCrashes      \* bound: crashes of the process

ASSUME FilesAssumption == Seeded \subseteq Files /\ NoFile \notin Files
ASSUME NamesAssumption == Original \notin Variants
ASSUME DeployAssumption == WorkDir # BucketsPath
ASSUME RetriesAssumption ==
  SaveRetries \in Nat \ {0} /\ DeleteRetries \in Nat \ {0}
ASSUME BoundsAssumption == MaxBatch \in Nat \ {0} /\ MaxCrashes \in Nat

Names    == Variants \union {Original}
Dirs     == {BucketsPath, WorkDir} \X Files
Contents == {"absent", "partial", "complete"}

VARIABLES
  doc,       \* doc[u]: u's document and its is_deletable field
  dirs,      \* the file directories that exist
  content,   \* content[d][n]: the bytes under name n of directory d
  pc,        \* where each handler is
  req,       \* the request it serves: its operation, the file name a Get
             \* asks for, and whether it began after a Delete of the file
  cur,       \* the UUID it works on
  todo,      \* files of the upload form not stored yet
  ids,       \* files of the form stored so far
  tries,     \* attempts of the running retry loop
  removed,   \* a TryDelete of the handler reported no error
  bits,      \* the content read, served or about to be saved
  answer,    \* the status written to the client
  issued,    \* UUIDs generated so far
  crashes,   \* crashes so far
  acked,     \* history: files whose id a 201 returned
  deleted,   \* history: files a Delete answered 200 for
  lost,      \* history: files stored in the database by an insert that
             \* reported an error
  abandoned  \* history: uploads given up with no removal that succeeded

store   == <<doc, dirs, content>>
local   == <<req, cur, todo, ids, tries, removed, bits>>
history == <<issued, crashes, acked, deleted, lost, abandoned>>
vars    == <<store, pc, local, answer, history>>

-----------------------------------------------------------------------------
(* Documents.  SaveFileDto has no is_deletable field: an uploaded document *)
(* is stored without one ("unset").                                        *)

DocStates == {"none", "unset", "false", "true"}

\* Mutant: the nil check is missing.
Live_NoNilCheck(u) == doc[u] # "true"

\* GetFileDB returns the file: there is a document and it is not marked.
Live(u) == doc[u] \in {"unset", "false"}

\* The filter of MarkAsDeletable, {"is_deletable": false}, does not match a
\* document without the field.
MarkMatches(u) == doc[u] = "false"

(* Disk. *)

\* The directory of a file: BucketsPath/bucket/uuid.
Dir(u) == <<BucketsPath, u>>

\* Mutant: the path is joined with BucketsPath.
ToDir_InBuckets(u) == <<BucketsPath, u>>

\* cdnpath.ToDir joins the bucket and the UUID only: a path relative to the
\* working directory.
ToDir(u) == <<WorkDir, u>>

Emptied == [n \in Names |-> "absent"]

\* fs.TryDelete: os.RemoveAll removes the directory; it works on a missing
\* one.
TryDelete(d) ==
  /\ dirs' = dirs \ {d}
  /\ content' = [content EXCEPT ![d] = Emptied]

\* os.RemoveAll fails, having removed some of the entries.
TryDeleteFails(d) ==
  /\ \E left \in SUBSET Names :
       content' = [content EXCEPT ![d] =
         [n \in Names |-> IF n \in left THEN content[d][n] ELSE "absent"]]
  /\ UNCHANGED dirs

\* os.WriteFile opens with O_CREATE|O_TRUNC ...
Truncate(d, n) ==
  /\ d \in dirs
  /\ content' = [content EXCEPT ![d][n] = "partial"]

\* ... and writes; the bytes of a file unlinked in between are lost.
WriteBits(d, n, b) ==
  content' = [content EXCEPT ![d][n] = IF @ = "absent" THEN @ ELSE b]

(* Control. *)

Goto(c, l) ==
  /\ pc' = [pc EXCEPT ![c] = l]
  /\ UNCHANGED answer

Respond(c, code, l) ==
  /\ answer' = [answer EXCEPT ![c] = code]
  /\ pc' = [pc EXCEPT ![c] = l]

Uploading == {"mkdir", "create", "write", "insert", "cleanup"}

PCs == {"idle", "upload", "exists", "read_existing", "meta", "local_delete",
        "read", "resolve", "save_create", "save_write", "delete_meta", "mark",
        "return"} \union Uploading

Codes == {"none", "200", "201", "400", "404", "500"}

Requests  == [op : {"none", "upload", "get", "delete"}, name : Names,
              late : BOOLEAN]
NoRequest == [op |-> "none", name |-> Original, late |-> FALSE]

-----------------------------------------------------------------------------
Init ==
  /\ doc = [u \in Files |-> IF u \in Seeded THEN "false" ELSE "none"]
  /\ dirs = {Dir(u) : u \in Seeded}
  /\ content = [d \in Dirs |-> IF d \in {Dir(u) : u \in Seeded}
                               THEN [Emptied EXCEPT ![Original] = "complete"]
                               ELSE Emptied]
  /\ pc = [c \in Handlers |-> "idle"]
  /\ req = [c \in Handlers |-> NoRequest]
  /\ cur = [c \in Handlers |-> NoFile]
  /\ todo = [c \in Handlers |-> {}]
  /\ ids = [c \in Handlers |-> {}]
  /\ tries = [c \in Handlers |-> 0]
  /\ removed = [c \in Handlers |-> FALSE]
  /\ bits = [c \in Handlers |-> "absent"]
  /\ answer = [c \in Handlers |-> "none"]
  /\ issued = Seeded
  /\ crashes = 0
  /\ acked = {}
  /\ deleted = {}
  /\ lost = {}
  /\ abandoned = {}

-----------------------------------------------------------------------------
(* Upload.  The form's fields are ranged over in Go's random map order.    *)

\* A form with new files arrives; ParseFiles generates their UUIDs, or the
\* form does not parse: then nothing is stored.
StartUpload(c) ==
  /\ pc[c] = "idle"
  /\ \/ \E form \in SUBSET (Files \ issued) :
          /\ Cardinality(form) \in 1..MaxBatch
          /\ todo' = [todo EXCEPT ![c] = form]
          /\ issued' = issued \union form
          /\ Goto(c, "upload")
     \/ /\ \E code \in {"400", "500"} : Respond(c, code, "return")
        /\ UNCHANGED <<todo, issued>>
  /\ req' = [req EXCEPT ![c].op = "upload"]
  /\ UNCHANGED <<store, cur, ids, tries, removed, bits, crashes, acked,
                 deleted, lost, abandoned>>

\* The next round of the loop: file.Open and io.ReadAll work, or the upload
\* ends with the files before it stored and no id returned.
NextFile(c) ==
  /\ pc[c] = "upload"
  /\ \/ \E u \in todo[c] :
          /\ cur' = [cur EXCEPT ![c] = u]
          /\ todo' = [todo EXCEPT ![c] = @ \ {u}]
          /\ Goto(c, "mkdir")
     \/ /\ todo[c] # {}
        /\ Respond(c, "500", "return")
        /\ UNCHANGED <<cur, todo>>
  /\ UNCHANGED <<store, req, ids, tries, removed, bits, history>>

\* fs.WriteFileToBucket or fs.WriteFile failed: 500, with nothing removed.
GiveUp(c) ==
  /\ Respond(c, "500", "return")
  /\ abandoned' = abandoned \union {cur[c]}

\* fs.createDir for the file's directory.
MakeDir(c) ==
  /\ pc[c] = "mkdir"
  /\ \/ /\ dirs' = dirs \union {Dir(cur[c])}
        /\ Goto(c, "create")
        /\ UNCHANGED abandoned
     \/ GiveUp(c) /\ UNCHANGED dirs
  /\ UNCHANGED <<doc, content, local, issued, crashes, acked, deleted, lost>>

CreateOriginal(c) ==
  /\ pc[c] = "create"
  /\ \/ /\ Truncate(Dir(cur[c]), Original)
        /\ Goto(c, "write")
        /\ UNCHANGED abandoned
     \/ GiveUp(c) /\ UNCHANGED content
  /\ UNCHANGED <<doc, dirs, local, issued, crashes, acked, deleted, lost>>

\* Mutant: the error of the write is dropped.
WriteOriginal_ErrorDropped(c) ==
  /\ pc[c] = "write"
  /\ WriteBits(Dir(cur[c]), Original, "complete") \/ UNCHANGED content
  /\ Goto(c, "insert")
  /\ UNCHANGED <<doc, dirs, local, history>>

WriteOriginal(c) ==
  /\ pc[c] = "write"
  /\ \/ /\ WriteBits(Dir(cur[c]), Original, "complete")
        /\ Goto(c, "insert")
        /\ UNCHANGED abandoned
     \/ GiveUp(c) /\ UNCHANGED content
  /\ UNCHANGED <<doc, dirs, local, issued, crashes, acked, deleted, lost>>

\* Mutants: a failed insert is not followed by the removal, or the loop goes
\* on with the next file.
InsertDoc_NoRemoval(c) ==
  /\ pc[c] = "insert"
  /\ \/ /\ doc[cur[c]] = "none"
        /\ doc' = [doc EXCEPT ![cur[c]] = "unset"]
        /\ ids' = [ids EXCEPT ![c] = @ \union {cur[c]}]
        /\ Goto(c, "upload")
     \/ Respond(c, "500", "return") /\ UNCHANGED <<doc, ids>>
  /\ UNCHANGED <<dirs, content, req, cur, todo, tries, removed, bits, history>>

InsertDoc_GoesOn(c) ==
  /\ pc[c] = "insert"
  /\ doc' \in {doc, [doc EXCEPT ![cur[c]] = "unset"]}
  /\ ids' = [ids EXCEPT ![c] = @ \union {cur[c]}]
  /\ Goto(c, "upload")
  /\ UNCHANGED <<dirs, content, req, cur, todo, tries, removed, bits, history>>

\* SaveFileDB.  An error may be reported for an insert the database applied
\* (the request's context was cancelled, the reply was lost).  A UUID is
\* inserted once, so that none is a duplicate.
InsertDoc(c) ==
  /\ pc[c] = "insert"
  /\ \/ /\ doc[cur[c]] = "none"
        /\ doc' = [doc EXCEPT ![cur[c]] = "unset"]
        /\ ids' = [ids EXCEPT ![c] = @ \union {cur[c]}]
        /\ Goto(c, "upload")
        /\ UNCHANGED <<tries, removed, lost>>
     \/ /\ \/ UNCHANGED <<doc, lost>>
           \/ /\ doc[cur[c]] = "none"
              /\ doc' = [doc EXCEPT ![cur[c]] = "unset"]
              /\ lost' = lost \union {cur[c]}
        /\ tries' = [tries EXCEPT ![c] = 0]
        /\ removed' = [removed EXCEPT ![c] = FALSE]
        /\ Goto(c, "cleanup")
        /\ UNCHANGED ids
  /\ UNCHANGED <<dirs, content, req, cur, todo, bits, issued, crashes, acked,
                 deleted, abandoned>>

\* One attempt of the deferred DeleteAll, which makes all its attempts even
\* after one succeeded; it reports a failure, to the log, when none did.
Cleanup(c) ==
  /\ pc[c] = "cleanup"
  /\ \/ /\ TryDelete(Dir(cur[c]))
        /\ removed' = [removed EXCEPT ![c] = TRUE]
     \/ /\ TryDeleteFails(Dir(cur[c]))
        /\ UNCHANGED removed
  /\ tries' = [tries EXCEPT ![c] = @ + 1]
  /\ IF tries[c] + 1 < DeleteRetries
       THEN Goto(c, "cleanup") /\ UNCHANGED abandoned
       ELSE /\ Respond(c, "500", "return")
            /\ abandoned' = IF removed'[c] THEN abandoned
                                           ELSE abandoned \union {cur[c]}
  /\ UNCHANGED <<doc, req, cur, todo, ids, bits, issued, crashes, acked,
                 deleted, lost>>

\* Every file is stored: 201 with the ids.
FinishUpload(c) ==
  /\ pc[c] = "upload"
  /\ todo[c] = {}
  /\ Respond(c, "201", "return")
  /\ acked' = acked \union ids[c]
  /\ UNCHANGED <<store, local, issued, crashes, deleted, lost, abandoned>>

-----------------------------------------------------------------------------
(* Get.  A request for an original and one for a processed copy differ in   *)
(* the file name Parse and Raw derive from the query.                       *)

StartGet(c) ==
  /\ pc[c] = "idle"
  /\ \E u \in Files, n \in Names :
       /\ cur' = [cur EXCEPT ![c] = u]
       /\ req' = [req EXCEPT ![c] =
                    [op |-> "get", name |-> n, late |-> u \in deleted]]
       /\ Goto(c, IF n = Original THEN "meta" ELSE "exists")
  /\ UNCHANGED <<store, todo, ids, tries, removed, bits, issued, crashes,
                 acked, deleted, lost, abandoned>>

\* fs.IsExists of the processed copy; a failing os.Stat counts as missing.
CheckExists(c) ==
  /\ pc[c] = "exists"
  /\ \/ /\ content[Dir(cur[c])][req[c].name] # "absent"
        /\ Goto(c, "read_existing")
     \/ Goto(c, "meta")
  /\ UNCHANGED <<store, local, history>>

\* The name a handler reads is there and the read works.
Readable(c, n) ==
  /\ content[Dir(cur[c])][n] # "absent"
  /\ bits' = [bits EXCEPT ![c] = content[Dir(cur[c])][n]]

\* The processed copy is served as it is, without a look at the database.
ReadExisting(c) ==
  /\ pc[c] = "read_existing"
  /\ \/ Readable(c, req[c].name) /\ Respond(c, "200", "return")
     \/ Respond(c, "500", "return") /\ UNCHANGED bits
  /\ UNCHANGED <<store, req, cur, todo, ids, tries, removed, history>>

\* GetFileDB.  A file without a live document is answered first and deleted
\* from disk next.
FindMeta(c) ==
  /\ pc[c] = "meta"
  /\ \/ Live(cur[c]) /\ Goto(c, "read")
     \/ ~Live(cur[c]) /\ Respond(c, "404", "local_delete")
     \/ Respond(c, "500", "return")
  /\ UNCHANGED <<store, local, history>>

\* TryDeleteLocally, whose error is logged only.
LocalDelete(c) ==
  /\ pc[c] = "local_delete"
  /\ \/ /\ TryDelete(ToDir(cur[c]))
        /\ removed' = [removed EXCEPT ![c] = TRUE]
     \/ TryDeleteFails(ToDir(cur[c])) /\ UNCHANGED removed
  /\ Goto(c, "return")
  /\ UNCHANGED <<doc, req, cur, todo, ids, tries, bits, history>>

\* ReadFile of the original: served, or handed to the resolvers.
ReadOriginal(c) ==
  /\ pc[c] = "read"
  /\ \/ /\ Readable(c, Original)
        /\ IF req[c].name = Original THEN Respond(c, "200", "return")
                                 ELSE Goto(c, "resolve")
     \/ Respond(c, "500", "return") /\ UNCHANGED bits
  /\ UNCHANGED <<store, req, cur, todo, ids, tries, removed, history>>

\* UseResolvers; the result is written to the client before it is saved.
Resolve(c) ==
  /\ pc[c] = "resolve"
  /\ \/ /\ Respond(c, "200", "save_create")
        /\ tries' = [tries EXCEPT ![c] = 0]
     \/ Respond(c, "500", "return") /\ UNCHANGED tries
  /\ UNCHANGED <<store, req, cur, todo, ids, removed, bits, history>>

\* Mutants: one attempt too many; a loop without a counter.
SaveFailed_OneMore(c) ==
  /\ tries' = [tries EXCEPT ![c] = @ + 1]
  /\ Goto(c, IF tries[c] + 1 <= SaveRetries THEN "save_create" ELSE "return")

SaveFailed_Forever(c) == Goto(c, "save_create") /\ UNCHANGED tries

\* An attempt of MustSave failed: the next one, if one is left.
SaveFailed(c) ==
  /\ tries' = [tries EXCEPT ![c] = @ + 1]
  /\ Goto(c, IF tries[c] + 1 < SaveRetries THEN "save_create" ELSE "return")

SaveCreate(c) ==
  /\ pc[c] = "save_create"
  /\ \/ /\ Truncate(Dir(cur[c]), req[c].name)
        /\ Goto(c, "save_write")
        /\ UNCHANGED tries
     \/ SaveFailed(c) /\ UNCHANGED content
  /\ UNCHANGED <<doc, dirs, req, cur, todo, ids, removed, bits, history>>

SaveWrite(c) ==
  /\ pc[c] = "save_write"
  /\ \/ /\ WriteBits(Dir(cur[c]), req[c].name, bits[c])
        /\ Goto(c, "return")
        /\ UNCHANGED tries
     \/ SaveFailed(c) /\ UNCHANGED content
  /\ UNCHANGED <<doc, dirs, req, cur, todo, ids, removed, bits, history>>

-----------------------------------------------------------------------------
(* Delete.                                                                  *)

StartDelete(c) ==
  /\ pc[c] = "idle"
  /\ \E u \in Files :
       /\ cur' = [cur EXCEPT ![c] = u]
       /\ req' = [req EXCEPT ![c] =
                    [op |-> "delete", name |-> Original, late |-> u \in deleted]]
  /\ Goto(c, "delete_meta")
  /\ UNCHANGED <<store, todo, ids, tries, removed, bits, issued, crashes,
                 acked, deleted, lost, abandoned>>

\* GetFileDB; it never returns a marked file, so the handler's own answer
\* for one, ErrFileAlreadyDeleted, is unreachable.
FindForDelete(c) ==
  /\ pc[c] = "delete_meta"
  /\ \/ Live(cur[c]) /\ Goto(c, "mark")
     \/ ~Live(cur[c]) /\ Respond(c, "404", "return")
     \/ Respond(c, "500", "return")
  /\ UNCHANGED <<store, local, history>>

\* MarkAsDeletableDB.  UpdateOne reports no error when its filter matches no
\* document, and may report one for an update the database applied.
MarkDoc(c) ==
  /\ pc[c] = "mark"
  /\ LET marked == IF MarkMatches(cur[c])
                     THEN [doc EXCEPT ![cur[c]] = "true"] ELSE doc
     IN \/ /\ doc' = marked
           /\ Respond(c, "200", "return")
           /\ deleted' = deleted \union {cur[c]}
        \/ /\ doc' \in {doc, marked}
           /\ Respond(c, "500", "return")
           /\ UNCHANGED deleted
  /\ UNCHANGED <<dirs, content, local, issued, crashes, acked, lost,
                 abandoned>>

-----------------------------------------------------------------------------
\* The handlers of H are gone; their goroutines serve other requests.
Reset(H) ==
  LET cleared(f, v) == [c \in Handlers |-> IF c \in H THEN v ELSE f[c]]
  IN /\ pc' = cleared(pc, "idle")
     /\ req' = cleared(req, NoRequest)
     /\ cur' = cleared(cur, NoFile)
     /\ todo' = cleared(todo, {})
     /\ ids' = cleared(ids, {})
     /\ tries' = cleared(tries, 0)
     /\ removed' = cleared(removed, FALSE)
     /\ bits' = cleared(bits, "absent")
     /\ answer' = cleared(answer, "none")

Return(c) == pc[c] = "return" /\ Reset({c}) /\ UNCHANGED <<store, history>>

\* The process dies and starts again; both stores survive it.  Nothing of a
\* dead handler is redone or undone.
Crash ==
  /\ crashes < MaxCrashes
  /\ crashes' = crashes + 1
  /\ abandoned' = abandoned \union
                    {cur[c] : c \in {k \in Handlers : pc[k] \in Uploading}}
  /\ Reset(Handlers)
  /\ UNCHANGED <<store, issued, acked, deleted, lost>>

UploadStep(c) ==
  \/ NextFile(c) \/ MakeDir(c) \/ CreateOriginal(c) \/ WriteOriginal(c)
  \/ InsertDoc(c) \/ Cleanup(c) \/ FinishUpload(c)

GetStep(c) ==
  \/ CheckExists(c) \/ ReadExisting(c) \/ FindMeta(c) \/ LocalDelete(c)
  \/ ReadOriginal(c) \/ Resolve(c) \/ SaveCreate(c) \/ SaveWrite(c)

DeleteStep(c) == FindForDelete(c) \/ MarkDoc(c)

Start(c) == StartUpload(c) \/ StartGet(c) \/ StartDelete(c)

\* A step of the goroutine itself, once it serves a request.
Step(c) == UploadStep(c) \/ GetStep(c) \/ DeleteStep(c) \/ Return(c)

Next == (\E c \in Handlers : Start(c) \/ Step(c)) \/ Crash

\* A goroutine in a handler runs on, and every call it makes returns; nobody
\* has to send a request.
Fairness == \A c \in Handlers : WF_vars(Step(c))

Spec == Init /\ [][Next]_vars /\ Fairness

-----------------------------------------------------------------------------
Retries == 0..(IF SaveRetries > DeleteRetries THEN SaveRetries
                                              ELSE DeleteRetries)

\* Types of the variables; tries stays within the retry constants.
TypeOK ==
  /\ doc \in [Files -> DocStates]
  /\ dirs \subseteq Dirs
  /\ content \in [Dirs -> [Names -> Contents]]
  /\ pc \in [Handlers -> PCs]
  /\ req \in [Handlers -> Requests]
  /\ cur \in [Handlers -> Files \union {NoFile}]
  /\ todo \in [Handlers -> SUBSET Files]
  /\ ids \in [Handlers -> SUBSET Files]
  /\ tries \in [Handlers -> Retries]
  /\ removed \in [Handlers -> BOOLEAN]
  /\ bits \in [Handlers -> Contents]
  /\ answer \in [Handlers -> Codes]
  /\ issued \subseteq Files
  /\ crashes \in 0..MaxCrashes
  /\ acked \subseteq Files /\ deleted \subseteq Files /\ lost \subseteq Files
  /\ abandoned \subseteq Files

Stored(u) == doc[u] # "none" /\ content[Dir(u)][Original] = "complete"

\* A file whose id a 201 returned keeps its document and its whole original,
\* whatever other requests, failures and crashes follow.
AckedIsDurable == \A u \in acked : Stored(u)

\* A document without a whole original exists only if an insert that was
\* reported as failed had been applied.
MetaHasBits == \A u \in Files \ lost : doc[u] # "none" => Stored(u)

\* Whoever asks for an original is never sent a part of it, though the
\* upload's write and the reader's read of the file are not synchronised.
NoTornOriginal ==
  \A c \in Handlers :
    pc[c] = "return" /\ req[c].op = "get" /\ req[c].name = Original
    /\ answer[c] = "200" => bits[c] = "complete"

\* A directory that no document refers to and no running upload works on is
\* the trace of an upload cut short: by a crash, by a failed write, or by a
\* removal that failed each time it was tried.
LeftoverHasCause ==
  \A u \in Files :
    Dir(u) \in dirs /\ doc[u] = "none" =>
      \/ u \in abandoned
      \/ \E c \in Handlers : pc[c] \in Uploading /\ cur[c] = u

\* A request for the original that begins after a Delete answered 200 is not
\* served, for a document that carries the is_deletable field.
DeleteHidesOriginal ==
  \A c \in Handlers :
    pc[c] = "return" /\ req[c].op = "get" /\ req[c].name = Original /\ req[c].late
    /\ cur[c] \in Seeded => answer[c] # "200"

\* Every request is answered and its handler returns: the retry loops end.
RequestsFinish == \A c \in Handlers : pc[c] # "idle" ~> pc[c] = "idle"

\* The database and the disk together implement the store of ObjectStore.
Available == {u \in Files : Live(u) /\ Stored(u)}
Objects == INSTANCE ObjectStore
             WITH Objects <- Files, present <- Available, promised <- acked,
                  removed <- {u \in Files : doc[u] = "true"}
ImplementsObjectStore == Objects!Spec

=============================================================================
