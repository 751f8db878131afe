----------------------- MODULE FileStoreTraces_proofs -----------------------
(***************************************************************************)
(* Two more theorems about FileStore, on top of the invariant IInv: what   *)
(* uploads leave on disk, and what a Delete that worked hides.             *)
(***************************************************************************)
EXTENDS FileStore_proofs

-----------------------------------------------------------------------------
(* Directories no document refers to.                                       *)

\* A removal that succeeded stays done until the upload returns: nobody else
\* makes the directory.
Leftovers ==
  /\ LeftoverHasCause
  /\ \A c \in Handlers :
       pc[c] = "cleanup" /\ removed[c] => Dir(cur[c]) \notin dirs

LEMMA DirInjective == \A u, v \in Files : Dir(u) = Dir(v) => u = v
  BY DEF Dir

\* A step that makes no directory, changes no document, and moves no handler
\* in or out of an upload.
LEMMA LeftoversFrame ==
  ASSUME Leftovers, dirs' \subseteq dirs, UNCHANGED <<doc, abandoned>>,
         \A c \in Handlers : pc[c] \in Uploading => pc'[c] \in Uploading /\ cur'[c] = cur[c],
         \A c \in Handlers : pc'[c] = "cleanup" =>
           pc[c] = "cleanup" /\ removed'[c] = removed[c] /\ cur'[c] = cur[c]
  PROVE  Leftovers'
  BY DEF Leftovers, LeftoverHasCause

LEMMA InitLeftovers == Init => Leftovers
<1> SUFFICES ASSUME Init PROVE Leftovers
  OBVIOUS
<1>1. \A u \in Files : Dir(u) \in dirs => u \in Seeded
  BY FilesAssumption, DirInjective DEF Init
<1> QED
  BY <1>1 DEF Init, Leftovers, LeftoverHasCause

LEMMA StepLeftovers == IInv /\ IInv' /\ Leftovers /\ [Next]_vars => Leftovers'
<1> SUFFICES ASSUME IInv, IInv', Leftovers, [Next]_vars PROVE Leftovers'
  OBVIOUS
<1> USE DEF store, local, history
<1>0. /\ TInv /\ pc \in [Handlers -> PCs] /\ answer \in [Handlers -> Codes]
      /\ cur \in [Handlers -> Files \union {NoFile}] /\ doc \in [Files -> DocStates]
      /\ removed \in [Handlers -> BOOLEAN] /\ tries \in [Handlers -> Retries]
  BY DEF IInv, TInv, TypeOK
\* Two uploads work on two files.
<1>a. \A c, k \in Handlers :
        pc[c] \in Uploading /\ pc[k] \in Uploading /\ cur[c] = cur[k] => c = k
  BY <1>0, CurTypes DEF IInv, Ownership, Owns, OnFile, PCs, Uploading
<1>b. \A c \in Handlers : pc[c] \in Uploading => cur[c] \in Files
  BY <1>0, CurTypes DEF OnFile, PCs, Uploading
<1>1. ASSUME NEW c \in Handlers, MakeDir(c) PROVE Leftovers'
  <2>1. /\ pc[c] = "mkdir" /\ cur' = cur /\ removed' = removed /\ doc' = doc
        /\ \A k \in Handlers \ {c} : pc'[k] = pc[k]
        /\ cur[c] \in Files
    BY <1>0, <1>1, <1>b DEF MakeDir, GiveUp, Goto, Respond, Uploading
  <2>2. \/ /\ dirs' = dirs \union {Dir(cur[c])} /\ pc'[c] = "create"
           /\ abandoned' = abandoned
        \/ /\ dirs' = dirs /\ pc'[c] = "return"
           /\ abandoned' = abandoned \union {cur[c]}
    BY <1>0, <1>1 DEF MakeDir, GiveUp, Goto, Respond
  <2>3. \A k \in Handlers \ {c} : pc[k] = "cleanup" => cur[k] \in Files /\ cur[k] # cur[c]
    BY <1>a, <1>b, <2>1 DEF Uploading
  <2>4. LeftoverHasCause'
    <3> SUFFICES ASSUME NEW u \in Files, Dir(u) \in dirs', doc'[u] = "none",
                        u \notin abandoned'
                 PROVE  \E k \in Handlers : pc'[k] \in Uploading /\ cur'[k] = u
      BY DEF LeftoverHasCause
    <3>1. CASE u = cur[c]
      BY <2>1, <2>2, <3>1 DEF Uploading
    <3>2. CASE u # cur[c]
      <4>1. Dir(u) \in dirs /\ u \notin abandoned
        BY <2>1, <2>2, <3>2, DirInjective
      <4> QED
        BY <2>1, <3>2, <4>1 DEF Leftovers, LeftoverHasCause
    <3> QED
      BY <3>1, <3>2
  <2>5. \A k \in Handlers : pc'[k] = "cleanup" /\ removed'[k] => Dir(cur'[k]) \notin dirs'
    BY <2>1, <2>2, <2>3, DirInjective DEF Leftovers
  <2> QED
    BY <2>4, <2>5 DEF Leftovers
<1>2. ASSUME NEW c \in Handlers, CreateOriginal(c) \/ WriteOriginal(c) PROVE Leftovers'
  <2>1. /\ pc[c] \in {"create", "write"}
        /\ UNCHANGED <<cur, removed, doc, dirs>>
        /\ \A k \in Handlers \ {c} : pc'[k] = pc[k]
    BY <1>0, <1>2 DEF CreateOriginal, WriteOriginal, GiveUp, Goto, Respond
  <2>2. \/ pc'[c] \in {"write", "insert"} /\ abandoned' = abandoned
        \/ pc'[c] = "return" /\ abandoned' = abandoned \union {cur[c]}
    BY <1>0, <1>2 DEF CreateOriginal, WriteOriginal, GiveUp, Goto, Respond
  <2> QED
    BY <2>1, <2>2 DEF Leftovers, LeftoverHasCause, Uploading
<1>3. ASSUME NEW c \in Handlers, InsertDoc(c) PROVE Leftovers'
  <2>1. /\ pc[c] = "insert" /\ cur[c] \in Files
        /\ UNCHANGED <<cur, dirs, abandoned>>
        /\ \A k \in Handlers \ {c} : pc'[k] = pc[k] /\ removed'[k] = removed[k]
        /\ \A u \in Files \ {cur[c]} : doc'[u] = doc[u]
    BY <1>0, <1>3, <1>b DEF InsertDoc, Goto, Uploading
  <2>2. \/ pc'[c] = "upload" /\ doc'[cur[c]] # "none"
        \/ pc'[c] = "cleanup" /\ ~removed'[c] /\ (doc' = doc \/ doc'[cur[c]] # "none")
    BY <1>0, <1>3, <2>1 DEF InsertDoc, Goto
  <2> QED
    BY <2>1, <2>2 DEF Leftovers, LeftoverHasCause, Uploading
<1>4. ASSUME NEW c \in Handlers, Cleanup(c) PROVE Leftovers'
  <2>1. /\ pc[c] = "cleanup" /\ cur[c] \in Files
        /\ UNCHANGED <<cur, doc>>
        /\ \A k \in Handlers \ {c} : pc'[k] = pc[k] /\ removed'[k] = removed[k]
    BY <1>0, <1>4, <1>b DEF Cleanup, Goto, Respond, Uploading
  <2>2. \/ dirs' = dirs \ {Dir(cur[c])} /\ removed'[c]
        \/ dirs' = dirs /\ removed' = removed
    BY <1>0, <1>4 DEF Cleanup, TryDelete, TryDeleteFails
  <2>3. \/ pc'[c] = "cleanup" /\ abandoned' = abandoned
        \/ /\ pc'[c] = "return"
           /\ abandoned' = IF removed'[c] THEN abandoned
                                          ELSE abandoned \union {cur[c]}
    BY <1>0, <1>4 DEF Cleanup, Goto, Respond
  <2>4. removed'[c] => Dir(cur[c]) \notin dirs'
    BY <2>1, <2>2 DEF Leftovers
  <2> QED
    BY <2>1, <2>2, <2>3, <2>4, DirInjective DEF Leftovers, LeftoverHasCause, Uploading
<1>5. ASSUME NEW c \in Handlers, Return(c) PROVE Leftovers'
  <2>1. /\ pc[c] = "return" /\ UNCHANGED <<dirs, doc, abandoned>>
        /\ pc'[c] = "idle"
        /\ \A k \in Handlers \ {c} :
             pc'[k] = pc[k] /\ removed'[k] = removed[k] /\ cur'[k] = cur[k]
    BY <1>0, <1>5 DEF Return, Reset
  <2> QED
    BY <2>1, LeftoversFrame DEF Uploading
<1>6. CASE Crash
  <2>1. /\ UNCHANGED <<dirs, doc>> /\ \A c \in Handlers : pc'[c] = "idle"
        /\ \A c \in Handlers : pc[c] \in Uploading => cur[c] \in abandoned'
        /\ abandoned \subseteq abandoned'
    BY <1>0, <1>6 DEF Crash, Reset
  <2> QED
    BY <2>1 DEF Leftovers, LeftoverHasCause
<1>7. ASSUME NEW c \in Handlers, Start(c) \/ NextFile(c) PROVE Leftovers'
  <2>1. /\ pc[c] \in {"idle", "upload"} /\ UNCHANGED <<dirs, doc, abandoned, removed>>
        /\ pc'[c] # "cleanup"
        /\ \A k \in Handlers \ {c} : pc'[k] = pc[k] /\ cur'[k] = cur[k]
    BY <1>0, <1>7 DEF Start, StartUpload, StartGet, StartDelete, NextFile, Goto, Respond
  <2> QED
    BY <2>1, LeftoversFrame DEF Uploading
<1>8. ASSUME NEW c \in Handlers, FinishUpload(c) \/ GetStep(c) \/ DeleteStep(c)
      PROVE  Leftovers'
  <2>1. /\ pc[c] \notin Uploading /\ pc'[c] \notin Uploading /\ cur' = cur
        /\ abandoned' = abandoned /\ dirs' \subseteq dirs
        /\ \A k \in Handlers \ {c} : pc'[k] = pc[k] /\ removed'[k] = removed[k]
    BY <1>0, <1>8
    DEF FinishUpload, GetStep, DeleteStep, CheckExists, ReadExisting, FindMeta,
        LocalDelete, ReadOriginal, Resolve, SaveCreate, SaveWrite, SaveFailed,
        FindForDelete, MarkDoc, Goto, Respond, TryDelete, TryDeleteFails, Uploading
  <2>2. CASE doc' = doc
    BY <2>1, <2>2, LeftoversFrame DEF Uploading
  <2>3. CASE doc' # doc
    <3>1. MarkDoc(c)
      BY <1>8, <2>3
      DEF FinishUpload, GetStep, DeleteStep, CheckExists, ReadExisting, FindMeta,
          LocalDelete, ReadOriginal, Resolve, SaveCreate, SaveWrite, FindForDelete
    <3>2. /\ dirs' = dirs /\ removed' = removed
          /\ \A u \in Files : doc'[u] = "none" => doc[u] = "none"
      BY <1>0, <2>3, <3>1 DEF MarkDoc
    <3> QED
      BY <2>1, <3>2 DEF Leftovers, LeftoverHasCause, Uploading
  <2> QED
    BY <2>2, <2>3
<1>9. CASE UNCHANGED vars
  BY <1>9, LeftoversFrame DEF vars
<1> QED
  BY <1>1, <1>2, <1>3, <1>4, <1>5, <1>6, <1>7, <1>8, <1>9
  DEF Next, Step, UploadStep

\* What an upload leaves on disk without a document has a cause: it was cut
\* short, or every removal it tried failed.
THEOREM LeftoversHaveCause == Spec => []LeftoverHasCause
<1>1. Leftovers => LeftoverHasCause
  BY DEF Leftovers
<1> QED
  BY <1>1, InitLeftovers, StepLeftovers, Invariance, PTL DEF Spec

-----------------------------------------------------------------------------
(* What a Delete hides.                                                     *)

AtOriginal(c) == req[c].op = "get" /\ req[c].name = Original

\* A file a Delete answered 200 for is marked if its document carries the
\* field, so a request for its original that began later is never told of a
\* live document.
Hidden ==
  /\ \A u \in Seeded : doc[u] \in {"false", "true"}
  /\ \A u \in deleted \intersect Seeded : doc[u] = "true"
  /\ \A c \in Handlers :
       /\ pc[c] \in Uploading \union {"idle", "upload"} => ~req[c].late
       /\ req[c].late => cur[c] \in deleted
       /\ req[c].late /\ cur[c] \in Seeded /\ AtOriginal(c) =>
            /\ pc[c] # "read"
            /\ pc[c] = "return" => answer[c] # "200"

LEMMA InitHidden == Init => Hidden
  BY FilesAssumption DEF Init, Hidden, NoRequest

\* A step of one handler that leaves its request and the marks alone.
LEMMA HiddenFrame ==
  ASSUME Hidden, NEW c \in Handlers, UNCHANGED <<doc, deleted, req>>,
         \A k \in Handlers \ {c} :
           pc'[k] = pc[k] /\ answer'[k] = answer[k] /\ cur'[k] = cur[k],
         \/ /\ cur'[c] = cur[c]
            /\ pc'[c] \in Uploading \union {"idle", "upload"} =>
                 pc[c] \in Uploading \union {"idle", "upload"}
         \/ pc[c] \in Uploading \union {"idle", "upload"},
         req[c].late /\ cur[c] \in Seeded /\ AtOriginal(c) =>
           pc'[c] # "read" /\ (pc'[c] = "return" => answer'[c] # "200")
  PROVE  Hidden'
  BY DEF Hidden, AtOriginal

LEMMA StepHidden == IInv /\ Hidden /\ [Next]_vars => Hidden'
<1> SUFFICES ASSUME IInv, Hidden, [Next]_vars PROVE Hidden'
  OBVIOUS
<1> USE DEF store, local, history
<1>0. /\ TInv /\ pc \in [Handlers -> PCs] /\ answer \in [Handlers -> Codes]
      /\ cur \in [Handlers -> Files \union {NoFile}] /\ doc \in [Files -> DocStates]
      /\ req \in [Handlers -> Requests] /\ Seeded \subseteq Files
  BY FilesAssumption DEF IInv, TInv, TypeOK
<1>1. ASSUME NEW c \in Handlers, StartUpload(c) PROVE Hidden'
  <2>1. /\ pc[c] = "idle" /\ ~req[c].late /\ ~req'[c].late
        /\ UNCHANGED <<doc, deleted, cur>>
        /\ \A k \in Handlers \ {c} : req'[k] = req[k]
    BY <1>0, <1>1 DEF StartUpload, Requests, Hidden
  <2>2. \A k \in Handlers \ {c} : pc'[k] = pc[k] /\ answer'[k] = answer[k]
    BY <1>0, <1>1 DEF StartUpload, Goto, Respond
  <2> QED
    BY <2>1, <2>2 DEF Hidden, AtOriginal
<1>2. ASSUME NEW c \in Handlers, StartGet(c) \/ StartDelete(c) PROVE Hidden'
  <2>1. /\ req'[c].late => cur'[c] \in deleted
        /\ pc'[c] \in {"meta", "exists", "delete_meta"}
        /\ UNCHANGED <<doc, deleted, answer>>
        /\ \A k \in Handlers \ {c} :
             pc'[k] = pc[k] /\ req'[k] = req[k] /\ cur'[k] = cur[k]
    <3>1. PICK u \in Files, n \in Names, o \in {"get", "delete"} :
            /\ cur' = [cur EXCEPT ![c] = u]
            /\ req' = [req EXCEPT ![c] =
                         [op |-> o, name |-> n, late |-> u \in deleted]]
      BY <1>2, NameTypes DEF StartGet, StartDelete
    <3>2. req'[c].late => cur'[c] \in deleted
      BY <1>0, <3>1
    <3> QED
      BY <1>0, <1>2, <3>1, <3>2 DEF StartGet, StartDelete, Goto
  <2> QED
    BY <2>1 DEF Hidden, AtOriginal, Uploading
<1>3. ASSUME NEW c \in Handlers, NextFile(c) PROVE Hidden'
  <2>1. ~req[c].late /\ pc[c] = "upload"
    BY <1>3 DEF NextFile, Hidden
  <2>2. /\ UNCHANGED <<doc, deleted, req>>
        /\ \A k \in Handlers \ {c} :
             pc'[k] = pc[k] /\ answer'[k] = answer[k] /\ cur'[k] = cur[k]
    BY <1>0, <1>3 DEF NextFile, Goto, Respond
  <2> QED
    BY <2>1, <2>2 DEF Hidden, AtOriginal
<1>4. ASSUME NEW c \in Handlers,
             MakeDir(c) \/ CreateOriginal(c) \/ WriteOriginal(c) \/ Cleanup(c)
      PROVE  Hidden'
  <2>1. /\ pc[c] \in Uploading /\ ~req[c].late
        /\ UNCHANGED <<doc, deleted, req, cur>>
        /\ \A k \in Handlers \ {c} : pc'[k] = pc[k] /\ answer'[k] = answer[k]
    BY <1>0, <1>4
    DEF MakeDir, CreateOriginal, WriteOriginal, Cleanup, GiveUp, Goto, Respond,
        Uploading, Hidden
  <2> QED
    BY <2>1, HiddenFrame
<1>5. ASSUME NEW c \in Handlers, InsertDoc(c) PROVE Hidden'
  <2>1. /\ pc[c] \in Uploading /\ ~req[c].late /\ cur[c] \in Files \ Seeded
    BY <1>0, <1>5, CurTypes
    DEF InsertDoc, OnFile, PCs, Uploading, Hidden, IInv, Ownership, Owns
  <2>2. /\ \A u \in Seeded : doc'[u] = doc[u]
        /\ UNCHANGED <<deleted, req, cur, answer>>
        /\ \A k \in Handlers \ {c} : pc'[k] = pc[k]
    BY <1>0, <1>5, <2>1 DEF InsertDoc, Goto
  <2> QED
    BY <2>1, <2>2 DEF Hidden, AtOriginal
<1>6. ASSUME NEW c \in Handlers, FinishUpload(c) PROVE Hidden'
  <2>1. /\ pc[c] = "upload" /\ ~req[c].late
        /\ UNCHANGED <<doc, deleted, req, cur>>
        /\ \A k \in Handlers \ {c} : pc'[k] = pc[k] /\ answer'[k] = answer[k]
    BY <1>0, <1>6 DEF FinishUpload, Respond, Hidden
  <2> QED
    BY <2>1, HiddenFrame
<1>7. ASSUME NEW c \in Handlers, FindMeta(c) PROVE Hidden'
  <2>1. /\ pc[c] = "meta" /\ UNCHANGED <<doc, deleted, req, cur>>
        /\ \A k \in Handlers \ {c} : pc'[k] = pc[k] /\ answer'[k] = answer[k]
    BY <1>0, <1>7 DEF FindMeta, Goto, Respond
  <2>2. ASSUME req[c].late, cur[c] \in Seeded  PROVE ~Live(cur[c])
    BY <2>2 DEF Hidden, Live
  <2>3. \/ Live(cur[c]) /\ pc'[c] = "read"
        \/ pc'[c] = "local_delete"
        \/ pc'[c] = "return" /\ answer'[c] = "500"
    BY <1>0, <1>7 DEF FindMeta, Goto, Respond
  <2> QED
    BY <2>1, <2>2, <2>3, HiddenFrame DEF Uploading
<1>8. ASSUME NEW c \in Handlers, LocalDelete(c) PROVE Hidden'
  <2>1. /\ pc[c] = "local_delete" /\ pc'[c] = "return" /\ answer[c] = "404"
        /\ UNCHANGED <<doc, deleted, req, cur, answer>>
        /\ \A k \in Handlers \ {c} : pc'[k] = pc[k]
    BY <1>0, <1>8 DEF LocalDelete, Goto, TInv, Control
  <2> QED
    BY <2>1, HiddenFrame DEF Uploading
<1>9. ASSUME NEW c \in Handlers, ReadOriginal(c) PROVE Hidden'
  <2>1. /\ pc[c] = "read" /\ pc'[c] \in {"return", "resolve"}
        /\ UNCHANGED <<doc, deleted, req, cur>>
        /\ \A k \in Handlers \ {c} : pc'[k] = pc[k] /\ answer'[k] = answer[k]
    BY <1>0, <1>9 DEF ReadOriginal, Goto, Respond
  <2>2. ~(req[c].late /\ cur[c] \in Seeded /\ AtOriginal(c))
    BY <2>1 DEF Hidden
  <2> QED
    BY <2>1, <2>2, HiddenFrame DEF Uploading
\* Only a Get of a processed copy takes these.
<1>10. ASSUME NEW c \in Handlers, CheckExists(c) \/ ReadExisting(c) \/ Resolve(c)
                                  \/ SaveCreate(c) \/ SaveWrite(c)
       PROVE  Hidden'
  <2>1. /\ pc[c] \in {"exists", "read_existing", "resolve", "save_create", "save_write"}
        /\ pc'[c] \in {"read_existing", "meta", "return", "save_create", "save_write"}
        /\ UNCHANGED <<doc, deleted, req, cur>>
        /\ \A k \in Handlers \ {c} : pc'[k] = pc[k] /\ answer'[k] = answer[k]
    BY <1>0, <1>10
    DEF CheckExists, ReadExisting, Resolve, SaveCreate, SaveWrite, SaveFailed,
        Goto, Respond
  <2>2. ~AtOriginal(c)
    BY <1>0, <2>1 DEF AtOriginal, TInv, Control
  <2> QED
    BY <2>1, <2>2, HiddenFrame DEF Uploading
<1>11. ASSUME NEW c \in Handlers, FindForDelete(c) PROVE Hidden'
  <2>1. /\ pc[c] = "delete_meta" /\ pc'[c] \in {"mark", "return"}
        /\ UNCHANGED <<doc, deleted, req, cur>>
        /\ \A k \in Handlers \ {c} : pc'[k] = pc[k] /\ answer'[k] = answer[k]
    BY <1>0, <1>11 DEF FindForDelete, Goto, Respond
  <2>2. ~AtOriginal(c)
    BY <1>0, <2>1 DEF AtOriginal, TInv, Control
  <2> QED
    BY <2>1, <2>2, HiddenFrame DEF Uploading
<1>12. ASSUME NEW c \in Handlers, MarkDoc(c) PROVE Hidden'
  <2>1. /\ pc[c] = "mark" /\ pc'[c] = "return" /\ cur[c] \in Files
        /\ UNCHANGED <<req, cur>>
        /\ \A k \in Handlers \ {c} : pc'[k] = pc[k] /\ answer'[k] = answer[k]
    BY <1>0, <1>12, CurTypes DEF MarkDoc, Respond, OnFile, PCs, Uploading
  <2>2. /\ deleted \subseteq deleted' /\ deleted' \subseteq deleted \union {cur[c]}
        /\ \A u \in Files : doc'[u] # doc[u] => doc[u] = "false" /\ doc'[u] = "true"
    BY <1>0, <1>12, <2>1 DEF MarkDoc, Respond, MarkMatches
  <2>3. ASSUME cur[c] \in Seeded, cur[c] \in deleted', cur[c] \notin deleted
        PROVE  doc'[cur[c]] = "true"
    <3>1. doc[cur[c]] \in {"false", "true"}
      BY <2>3 DEF Hidden
    <3> QED
      BY <1>0, <1>12, <2>1, <2>3, <3>1 DEF MarkDoc, Respond, MarkMatches
  <2>4. ~AtOriginal(c)
    BY <1>0, <2>1 DEF AtOriginal, TInv, Control
  <2>5. \A u \in Seeded : /\ doc'[u] \in {"false", "true"}
                          /\ u \in deleted' => doc'[u] = "true"
    BY <1>0, <2>2, <2>3 DEF Hidden
  <2> QED
    BY <2>1, <2>2, <2>4, <2>5 DEF Hidden, AtOriginal, Uploading
<1>13. ASSUME NEW c \in Handlers, Return(c) PROVE Hidden'
  <2>1. /\ UNCHANGED <<doc, deleted>> /\ pc'[c] = "idle" /\ ~req'[c].late
        /\ \A k \in Handlers \ {c} : /\ pc'[k] = pc[k] /\ answer'[k] = answer[k]
                                     /\ cur'[k] = cur[k] /\ req'[k] = req[k]
    BY <1>0, <1>13 DEF Return, Reset, NoRequest
  <2> QED
    BY <2>1 DEF Hidden, AtOriginal
<1>14. CASE Crash
  <2>1. UNCHANGED <<doc, deleted>> /\ \A c \in Handlers : ~req'[c].late
    BY <1>14 DEF Crash, Reset, NoRequest
  <2> QED
    BY <2>1 DEF Hidden
<1>15. CASE UNCHANGED vars
  BY <1>15 DEF vars, Hidden, AtOriginal
<1> QED
  BY <1>1, <1>2, <1>3, <1>4, <1>5, <1>6, <1>7, <1>8, <1>9, <1>10, <1>11, <1>12,
     <1>13, <1>14, <1>15
  DEF Next, Start, Step, UploadStep, GetStep, DeleteStep

\* Once a Delete answered 200 for a file whose document carries the
\* is_deletable field, nobody who asks later is served its original.
THEOREM DeletedOriginalsAreHidden == Spec => []DeleteHidesOriginal
<1>1. Hidden => DeleteHidesOriginal
  BY DEF Hidden, AtOriginal, DeleteHidesOriginal
<1> QED
  BY <1>1, InitHidden, StepHidden, Invariance, PTL DEF Spec
=============================================================================
