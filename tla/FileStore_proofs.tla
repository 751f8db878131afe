-------------------------- MODULE FileStore_proofs --------------------------
(***************************************************************************)
(* Theorems about FileStore for every number of handlers, files, variants, *)
(* retries and crashes.                                                    *)
(*                                                                         *)
(* The argument.  A UUID is generated for one form of one handler, so at   *)
(* any time at most one upload owns a file, and none owns a file whose id  *)
(* was returned (Ownership).  Only the owner truncates, writes or removes  *)
(* an original or inserts its document (every other write goes to a        *)
(* variant's name or below WorkDir), so what an upload did to a file it    *)
(* owns is still there when it takes its next step (Storage).              *)
(***************************************************************************)
EXTENDS FileStore, TLAPS

-----------------------------------------------------------------------------
(* The inductive invariant.                                                 *)

\* The handler works on one file: everywhere but before the first round of
\* an upload and between requests.
OnFile == PCs \ {"idle", "upload", "return"}

\* Control: what the place of a handler says of its local variables.
Control ==
  \A c \in Handlers :
    /\ pc[c] \in OnFile => cur[c] \in Files
    /\ pc[c] = "cleanup" => tries[c] < DeleteRetries
    /\ pc[c] \in {"save_create", "save_write"} => tries[c] < SaveRetries
    /\ pc[c] \in {"exists", "read_existing", "resolve", "save_create",
                  "save_write"} => req[c].name # Original
    /\ pc[c] \in {"delete_meta", "mark"} => req[c].op = "delete"
    /\ pc[c] = "local_delete" => answer[c] = "404"

TInv == TypeOK /\ Control

\* The file u belongs to the upload c serves and is not stored yet.
Owns(c, u) ==
  \/ pc[c] \in Uploading /\ u = cur[c]
  \/ pc[c] \in Uploading \union {"upload"} /\ u \in todo[c]

Ownership ==
  /\ Seeded \subseteq issued /\ acked \subseteq issued
  /\ \A c \in Handlers : ids[c] \subseteq issued
  /\ \A c \in Handlers : pc[c] \in Uploading => cur[c] \notin todo[c]
  /\ \A c \in Handlers, u \in Files :
       Owns(c, u) => /\ u \in issued /\ u \notin acked /\ u \notin Seeded
                     /\ \A k \in Handlers : u \notin ids[k]
                     /\ \A k \in Handlers : Owns(k, u) => k = c

Orig(u) == content[Dir(u)][Original]

Storage ==
  /\ \A u \in acked : Stored(u)
  /\ \A c \in Handlers : \A u \in ids[c] : Stored(u)
  /\ \A u \in Files :
       doc[u] # "none" => /\ u \in issued
                          /\ Orig(u) = "complete" \/ u \in lost
                          /\ Orig(u) # "partial"
  /\ \A c \in Handlers, u \in Files :
       Owns(c, u) /\ doc[u] # "none" => pc[c] = "cleanup" /\ u \in lost
  /\ \A c \in Handlers :
       /\ pc[c] = "write" => Orig(cur[c]) # "absent"
       /\ pc[c] = "insert" => Orig(cur[c]) = "complete"
       /\ pc[c] = "cleanup" => Orig(cur[c]) # "partial"

\* A handler that read a document goes on with a file that has one.
Reads ==
  \A c \in Handlers :
    pc[c] \in {"read", "resolve", "save_create", "save_write", "mark"}
      => doc[cur[c]] # "none"

\* Documents with the is_deletable field are the seeded ones.
Marks ==
  /\ \A u \in Files : doc[u] \in {"false", "true"} => u \in Seeded
  /\ lost \intersect Seeded = {}
  /\ \A c \in Handlers : ids[c] \intersect Seeded = {}

IInv == TInv /\ Ownership /\ Storage /\ Reads /\ Marks /\ NoTornOriginal

-----------------------------------------------------------------------------
(* Types and control.                                                       *)

LEMMA RetriesTypes == /\ SaveRetries \in Nat \ {0} /\ DeleteRetries \in Nat \ {0}
                      /\ Retries \subseteq Nat /\ 0 \in Retries
                      /\ \A n \in Nat : n <= SaveRetries => n \in Retries
                      /\ \A n \in Nat : n <= DeleteRetries => n \in Retries
  BY RetriesAssumption DEF Retries

LEMMA NextTry ==
  ASSUME NEW n \in Retries, n < SaveRetries \/ n < DeleteRetries
  PROVE  n + 1 \in Retries
  BY RetriesAssumption DEF Retries

LEMMA InitTInv == Init => TInv
  BY FilesAssumption, BoundsAssumption, RetriesTypes
  DEF Init, TInv, TypeOK, Control, OnFile, PCs, Uploading, Names, Dirs, Dir,
      Contents, Emptied, DocStates, Codes, Requests, NoRequest

LEMMA DirTypes == \A u \in Files : Dir(u) \in Dirs /\ ToDir(u) \in Dirs
                                  /\ Dir(u) # ToDir(u)
  BY DeployAssumption DEF Dir, ToDir, Dirs

LEMMA NameTypes == /\ Original \in Names /\ Variants \subseteq Names
                   /\ {"absent", "partial", "complete"} \subseteq Contents
  BY DEF Names, Contents

\* The disk operations keep the type of the disk.
LEMMA DiskTypes ==
  ASSUME content \in [Dirs -> [Names -> Contents]],
         NEW d \in Dirs, NEW n \in Names, NEW b \in Contents,
         \/ Truncate(d, n) \/ WriteBits(d, n, b)
         \/ TryDelete(d) \/ TryDeleteFails(d)
  PROVE  content' \in [Dirs -> [Names -> Contents]]
<1> USE NameTypes
<1>1. content[d] \in [Names -> Contents]
  OBVIOUS
<1>2. CASE Truncate(d, n)
  BY <1>1, <1>2 DEF Truncate
<1>3. CASE WriteBits(d, n, b)
  BY <1>1, <1>3 DEF WriteBits
<1>4. CASE TryDelete(d)
  BY <1>4 DEF TryDelete, Emptied
<1>5. CASE TryDeleteFails(d)
  <2>1. PICK left \in SUBSET Names : content' = [content EXCEPT ![d] =
          [m \in Names |-> IF m \in left THEN content[d][m] ELSE "absent"]]
    BY <1>5 DEF TryDeleteFails
  <2>2. [m \in Names |-> IF m \in left THEN content[d][m] ELSE "absent"]
          \in [Names -> Contents]
    BY <1>1
  <2> QED
    BY <2>1, <2>2
<1> QED
  BY <1>2, <1>3, <1>4, <1>5

\* The directory a handler works in, and that content keeps its type.
LEMMA CurTypes ==
  ASSUME TInv, NEW c \in Handlers, pc[c] \in OnFile
  PROVE  /\ cur[c] \in Files /\ Dir(cur[c]) \in Dirs /\ ToDir(cur[c]) \in Dirs
         /\ \A n \in Names : content[Dir(cur[c])][n] \in Contents
<1>1. cur[c] \in Files
  BY DEF TInv, Control
<1> QED
  BY <1>1, DirTypes DEF TInv, TypeOK

LEMMA StepTypeOK == TInv /\ [Next]_vars => TypeOK'
<1> SUFFICES ASSUME TInv, [Next]_vars PROVE TypeOK'
  OBVIOUS
<1> USE DEF TypeOK, store, local, history
<1>1. ASSUME NEW c \in Handlers, StartUpload(c) PROVE TypeOK'
  <2>1. /\ todo' \in [Handlers -> SUBSET Files]
        /\ issued' \subseteq Files
        /\ pc' \in [Handlers -> PCs]
        /\ answer' \in [Handlers -> Codes]
    BY <1>1 DEF StartUpload, Goto, Respond, Codes, PCs, TInv
  <2>2. req' \in [Handlers -> Requests]
    BY <1>1 DEF StartUpload, Requests, TInv
  <2> QED
    BY <1>1, <2>1, <2>2 DEF StartUpload, TInv
<1>2. ASSUME NEW c \in Handlers, StartGet(c) PROVE TypeOK'
  BY <1>2 DEF StartGet, Goto, PCs, Requests, TInv
<1>3. ASSUME NEW c \in Handlers, StartDelete(c) PROVE TypeOK'
  BY <1>3, NameTypes
  DEF StartDelete, Goto, PCs, Requests, TInv
<1>4. ASSUME NEW c \in Handlers, NextFile(c) PROVE TypeOK'
  <2>1. pc' \in [Handlers -> PCs] /\ answer' \in [Handlers -> Codes]
    BY <1>4 DEF NextFile, Goto, Respond, PCs, Uploading, Codes, TInv
  <2>2. cur' \in [Handlers -> Files \union {NoFile}]
        /\ todo' \in [Handlers -> SUBSET Files]
    BY <1>4 DEF NextFile, TInv
  <2> QED
    BY <1>4, <2>1, <2>2 DEF NextFile, TInv
<1>5. ASSUME NEW c \in Handlers, MakeDir(c) PROVE TypeOK'
  <2>1. cur[c] \in Files /\ Dir(cur[c]) \in Dirs /\ ToDir(cur[c]) \in Dirs
        /\ \A n \in Names : content[Dir(cur[c])][n] \in Contents
    BY <1>5, CurTypes DEF MakeDir, OnFile, PCs, Uploading
  <2> QED
    BY <1>5, <2>1 DEF MakeDir, Goto, Respond, GiveUp, PCs, Uploading, Codes, TInv
<1>6. ASSUME NEW c \in Handlers, CreateOriginal(c) PROVE TypeOK'
  <2>1. cur[c] \in Files /\ Dir(cur[c]) \in Dirs /\ ToDir(cur[c]) \in Dirs
        /\ \A n \in Names : content[Dir(cur[c])][n] \in Contents
    BY <1>6, CurTypes DEF CreateOriginal, OnFile, PCs, Uploading
  <2>2. content' \in [Dirs -> [Names -> Contents]]
    BY <1>6, <2>1, DiskTypes, NameTypes DEF CreateOriginal, GiveUp, TInv
  <2> QED
    BY <1>6, <2>1, <2>2
    DEF CreateOriginal, Goto, Respond, GiveUp, PCs, Uploading, Codes, TInv
<1>7. ASSUME NEW c \in Handlers, WriteOriginal(c) PROVE TypeOK'
  <2>1. cur[c] \in Files /\ Dir(cur[c]) \in Dirs /\ ToDir(cur[c]) \in Dirs
        /\ \A n \in Names : content[Dir(cur[c])][n] \in Contents
    BY <1>7, CurTypes DEF WriteOriginal, OnFile, PCs, Uploading
  <2>2. content' \in [Dirs -> [Names -> Contents]]
    BY <1>7, <2>1, DiskTypes, NameTypes DEF WriteOriginal, GiveUp, TInv
  <2> QED
    BY <1>7, <2>1, <2>2
    DEF WriteOriginal, Goto, Respond, GiveUp, PCs, Uploading, Codes, TInv
<1>8. ASSUME NEW c \in Handlers, InsertDoc(c) PROVE TypeOK'
  <2>1. cur[c] \in Files /\ Dir(cur[c]) \in Dirs /\ ToDir(cur[c]) \in Dirs
        /\ \A n \in Names : content[Dir(cur[c])][n] \in Contents
    BY <1>8, CurTypes DEF InsertDoc, OnFile, PCs, Uploading
  <2>2. doc' \in [Files -> DocStates] /\ lost' \subseteq Files
    BY <1>8, <2>1 DEF InsertDoc, DocStates, TInv
  <2>3. ids' \in [Handlers -> SUBSET Files]
    BY <1>8, <2>1 DEF InsertDoc, TInv
  <2>4. tries' \in [Handlers -> Retries]
    BY <1>8, RetriesTypes DEF InsertDoc, TInv
  <2>5. removed' \in [Handlers -> BOOLEAN]
    BY <1>8 DEF InsertDoc, TInv
  <2> QED
    BY <1>8, <2>2, <2>3, <2>4, <2>5 DEF InsertDoc, Goto, PCs, Uploading, TInv
<1>9. ASSUME NEW c \in Handlers, Cleanup(c) PROVE TypeOK'
  <2>1. cur[c] \in Files /\ Dir(cur[c]) \in Dirs /\ ToDir(cur[c]) \in Dirs
        /\ \A n \in Names : content[Dir(cur[c])][n] \in Contents
    BY <1>9, CurTypes DEF Cleanup, OnFile, PCs, Uploading
  <2>2. content' \in [Dirs -> [Names -> Contents]]
    BY <1>9, <2>1, DiskTypes, NameTypes DEF Cleanup, TInv
  <2>3. tries[c] + 1 \in Retries
    <3>1. tries[c] < DeleteRetries /\ tries[c] \in Retries
      BY <1>9 DEF Cleanup, TInv, Control
    <3> QED
      BY <3>1, NextTry
  <2>4. dirs' \subseteq Dirs
    BY <1>9 DEF Cleanup, TryDelete, TryDeleteFails, TInv
  <2>5. tries' \in [Handlers -> Retries] /\ removed' \in [Handlers -> BOOLEAN]
    BY <1>9, <2>3 DEF Cleanup, TInv
  <2>6. pc' \in [Handlers -> PCs] /\ answer' \in [Handlers -> Codes]
    BY <1>9 DEF Cleanup, Goto, Respond, PCs, Uploading, Codes, TInv
  <2>7. abandoned' \subseteq Files
    BY <1>9, <2>1 DEF Cleanup, TInv
  <2> QED
    BY <1>9, <2>2, <2>4, <2>5, <2>6, <2>7 DEF Cleanup, TInv
<1>10. ASSUME NEW c \in Handlers, FinishUpload(c) PROVE TypeOK'
  BY <1>10 DEF FinishUpload, Respond, PCs, Codes, TInv
<1>11. ASSUME NEW c \in Handlers, CheckExists(c) PROVE TypeOK'
  BY <1>11 DEF CheckExists, Goto, PCs, TInv
<1>12. ASSUME NEW c \in Handlers, ReadExisting(c) PROVE TypeOK'
  <2>1. cur[c] \in Files /\ Dir(cur[c]) \in Dirs /\ ToDir(cur[c]) \in Dirs
        /\ \A n \in Names : content[Dir(cur[c])][n] \in Contents
    BY <1>12, CurTypes DEF ReadExisting, OnFile, PCs, Uploading
  <2> QED
    BY <1>12, <2>1 DEF ReadExisting, Respond, Readable, PCs, Codes, Requests, TInv
<1>13. ASSUME NEW c \in Handlers, FindMeta(c) PROVE TypeOK'
  BY <1>13 DEF FindMeta, Goto, Respond, PCs, Codes, TInv
<1>14. ASSUME NEW c \in Handlers, LocalDelete(c) PROVE TypeOK'
  <2>1. cur[c] \in Files /\ Dir(cur[c]) \in Dirs /\ ToDir(cur[c]) \in Dirs
        /\ \A n \in Names : content[Dir(cur[c])][n] \in Contents
    BY <1>14, CurTypes DEF LocalDelete, OnFile, PCs, Uploading
  <2>2. content' \in [Dirs -> [Names -> Contents]]
    BY <1>14, <2>1, DiskTypes, NameTypes DEF LocalDelete, TInv
  <2> QED
    BY <1>14, <2>2
    DEF LocalDelete, Goto, TryDelete, TryDeleteFails, PCs, TInv
<1>15. ASSUME NEW c \in Handlers, ReadOriginal(c) PROVE TypeOK'
  <2>1. cur[c] \in Files /\ Dir(cur[c]) \in Dirs /\ ToDir(cur[c]) \in Dirs
        /\ \A n \in Names : content[Dir(cur[c])][n] \in Contents
    BY <1>15, CurTypes DEF ReadOriginal, OnFile, PCs, Uploading
  <2> QED
    BY <1>15, <2>1, NameTypes
    DEF ReadOriginal, Goto, Respond, Readable, PCs, Codes, TInv
<1>16. ASSUME NEW c \in Handlers, Resolve(c) PROVE TypeOK'
  <2>1. pc' \in [Handlers -> PCs] /\ answer' \in [Handlers -> Codes]
    BY <1>16 DEF Resolve, Respond, PCs, Codes, TInv
  <2>2. tries' \in [Handlers -> Retries]
    BY <1>16, RetriesTypes DEF Resolve, TInv
  <2> QED
    BY <1>16, <2>1, <2>2 DEF Resolve, TInv
<1>17. ASSUME NEW c \in Handlers, SaveCreate(c) PROVE TypeOK'
  <2>1. cur[c] \in Files /\ Dir(cur[c]) \in Dirs /\ ToDir(cur[c]) \in Dirs
        /\ \A n \in Names : content[Dir(cur[c])][n] \in Contents
    BY <1>17, CurTypes DEF SaveCreate, OnFile, PCs, Uploading
  <2>2. content' \in [Dirs -> [Names -> Contents]]
    BY <1>17, <2>1, DiskTypes, NameTypes DEF SaveCreate, SaveFailed, Requests, TInv
  <2>3. tries[c] + 1 \in Retries
    <3>1. tries[c] < SaveRetries /\ tries[c] \in Retries
      BY <1>17 DEF SaveCreate, TInv, Control
    <3> QED
      BY <3>1, NextTry
  <2> QED
    BY <1>17, <2>2, <2>3 DEF SaveCreate, SaveFailed, Goto, PCs, TInv
<1>18. ASSUME NEW c \in Handlers, SaveWrite(c) PROVE TypeOK'
  <2>1. cur[c] \in Files /\ Dir(cur[c]) \in Dirs /\ ToDir(cur[c]) \in Dirs
        /\ \A n \in Names : content[Dir(cur[c])][n] \in Contents
    BY <1>18, CurTypes DEF SaveWrite, OnFile, PCs, Uploading
  <2>2. content' \in [Dirs -> [Names -> Contents]]
    BY <1>18, <2>1, DiskTypes, NameTypes DEF SaveWrite, SaveFailed, Requests, TInv
  <2>3. tries[c] + 1 \in Retries
    <3>1. tries[c] < SaveRetries /\ tries[c] \in Retries
      BY <1>18 DEF SaveWrite, TInv, Control
    <3> QED
      BY <3>1, NextTry
  <2> QED
    BY <1>18, <2>2, <2>3 DEF SaveWrite, SaveFailed, Goto, PCs, TInv
<1>19. ASSUME NEW c \in Handlers, FindForDelete(c) PROVE TypeOK'
  BY <1>19 DEF FindForDelete, Goto, Respond, PCs, Codes, TInv
<1>20. ASSUME NEW c \in Handlers, MarkDoc(c) PROVE TypeOK'
  <2>1. cur[c] \in Files /\ Dir(cur[c]) \in Dirs /\ ToDir(cur[c]) \in Dirs
        /\ \A n \in Names : content[Dir(cur[c])][n] \in Contents
    BY <1>20, CurTypes DEF MarkDoc, OnFile, PCs, Uploading
  <2> QED
    BY <1>20, <2>1 DEF MarkDoc, MarkMatches, Respond, DocStates, PCs, Codes, TInv
<1>21. ASSUME NEW c \in Handlers, Return(c) PROVE TypeOK'
  BY <1>21, NameTypes, RetriesTypes
  DEF Return, Reset, NoRequest, Requests, PCs, Contents, Codes, TInv
<1>22. CASE Crash
  <2>1. \A c \in Handlers : pc[c] \in Uploading => cur[c] \in Files
    BY DEF TInv, Control, OnFile, PCs, Uploading
  <2>2. crashes' \in 0..MaxCrashes /\ abandoned' \subseteq Files
    BY <1>22, <2>1, BoundsAssumption DEF Crash, TInv
  <2> QED
    BY <1>22, <2>2, NameTypes, RetriesTypes
    DEF Crash, Reset, NoRequest, Requests, PCs, Contents, Codes, TInv
<1>23. CASE UNCHANGED vars
  BY <1>23 DEF vars, TInv
<1> QED
  BY <1>1, <1>2, <1>3, <1>4, <1>5, <1>6, <1>7, <1>8, <1>9, <1>10, <1>11, <1>12, <1>13, <1>14, <1>15, <1>16, <1>17, <1>18, <1>19, <1>20, <1>21, <1>22, <1>23
  DEF Next, Start, Step, UploadStep, GetStep, DeleteStep

LEMMA StepControl == TInv /\ [Next]_vars => Control'
<1> SUFFICES ASSUME TInv, [Next]_vars PROVE Control'
  OBVIOUS
<1> USE RetriesTypes
<1> USE DEF TInv, TypeOK, Control, OnFile, PCs, Uploading, store, local, history
<1>1. ASSUME NEW c \in Handlers, StartUpload(c) PROVE Control'
  BY <1>1 DEF StartUpload, Goto, Respond, Requests
<1>2. ASSUME NEW c \in Handlers, StartGet(c) PROVE Control'
  BY <1>2 DEF StartGet, Goto, Requests
<1>3. ASSUME NEW c \in Handlers, StartDelete(c) PROVE Control'
  BY <1>3 DEF StartDelete, Goto, Requests
<1>4. ASSUME NEW c \in Handlers, NextFile(c) PROVE Control'
  BY <1>4 DEF NextFile, Goto, Respond
<1>5. ASSUME NEW c \in Handlers, MakeDir(c) PROVE Control'
  BY <1>5 DEF MakeDir, Goto, Respond, GiveUp
<1>6. ASSUME NEW c \in Handlers, CreateOriginal(c) PROVE Control'
  BY <1>6 DEF CreateOriginal, Goto, Respond, GiveUp
<1>7. ASSUME NEW c \in Handlers, WriteOriginal(c) PROVE Control'
  BY <1>7 DEF WriteOriginal, Goto, Respond, GiveUp
<1>8. ASSUME NEW c \in Handlers, InsertDoc(c) PROVE Control'
  BY <1>8 DEF InsertDoc, Goto
<1>9. ASSUME NEW c \in Handlers, Cleanup(c) PROVE Control'
  BY <1>9 DEF Cleanup, Goto, Respond
<1>10. ASSUME NEW c \in Handlers, FinishUpload(c) PROVE Control'
  BY <1>10 DEF FinishUpload, Respond
<1>11. ASSUME NEW c \in Handlers, CheckExists(c) PROVE Control'
  BY <1>11 DEF CheckExists, Goto
<1>12. ASSUME NEW c \in Handlers, ReadExisting(c) PROVE Control'
  BY <1>12 DEF ReadExisting, Respond, Readable
<1>13. ASSUME NEW c \in Handlers, FindMeta(c) PROVE Control'
  BY <1>13 DEF FindMeta, Goto, Respond
<1>14. ASSUME NEW c \in Handlers, LocalDelete(c) PROVE Control'
  BY <1>14 DEF LocalDelete, Goto
<1>15. ASSUME NEW c \in Handlers, ReadOriginal(c) PROVE Control'
  BY <1>15 DEF ReadOriginal, Goto, Respond, Readable
<1>16. ASSUME NEW c \in Handlers, Resolve(c) PROVE Control'
  BY <1>16 DEF Resolve, Respond
<1>17. ASSUME NEW c \in Handlers, SaveCreate(c) PROVE Control'
  BY <1>17 DEF SaveCreate, Goto, SaveFailed
<1>18. ASSUME NEW c \in Handlers, SaveWrite(c) PROVE Control'
  BY <1>18 DEF SaveWrite, Goto, SaveFailed
<1>19. ASSUME NEW c \in Handlers, FindForDelete(c) PROVE Control'
  BY <1>19 DEF FindForDelete, Goto, Respond
<1>20. ASSUME NEW c \in Handlers, MarkDoc(c) PROVE Control'
  BY <1>20 DEF MarkDoc, Respond, MarkMatches
<1>21. ASSUME NEW c \in Handlers, Return(c) PROVE Control'
  BY <1>21 DEF Return, Reset, NoRequest
<1>22. CASE Crash
  BY <1>22 DEF Crash, Reset
<1>23. CASE UNCHANGED vars
  BY <1>23 DEF vars
<1> QED
  BY <1>1, <1>2, <1>3, <1>4, <1>5, <1>6, <1>7, <1>8, <1>9, <1>10, <1>11, <1>12, <1>13, <1>14, <1>15, <1>16, <1>17, <1>18, <1>19, <1>20, <1>21, <1>22, <1>23
  DEF Next, Start, Step, UploadStep, GetStep, DeleteStep

THEOREM TypeCorrect == Spec => []TypeOK
<1>1. Init => TInv
  BY InitTInv
<1>2. TInv /\ [Next]_vars => TInv'
  BY StepTypeOK, StepControl DEF TInv
<1>3. TInv => TypeOK
  BY DEF TInv
<1> QED
  BY <1>1, <1>2, <1>3, PTL DEF Spec

-----------------------------------------------------------------------------
(* Ownership.                                                               *)

LEMMA InitOwnership == Init => Ownership
  BY FilesAssumption DEF Init, Ownership, Owns, Uploading

\* A step that starts no upload, takes no file from a form, stores none and
\* answers none keeps the ownership.
LEMMA OwnershipFrame ==
  ASSUME Ownership, UNCHANGED <<todo, ids, issued, acked>>,
         \A k \in Handlers :
           /\ pc'[k] \in Uploading => pc[k] \in Uploading /\ cur'[k] = cur[k]
           /\ pc'[k] = "upload" => pc[k] = "upload"
  PROVE  Ownership'
<1>1. \A k \in Handlers, u \in Files : Owns(k, u)' => Owns(k, u)
  BY DEF Owns
<1> QED
  BY <1>1 DEF Ownership

LEMMA StepOwnership == TInv /\ TInv' /\ Ownership /\ [Next]_vars => Ownership'
<1> SUFFICES ASSUME TInv, TInv', Ownership, [Next]_vars PROVE Ownership'
  OBVIOUS
<1> USE DEF TInv, TypeOK, local, history
<1>1. ASSUME NEW c \in Handlers, StartUpload(c) PROVE Ownership'
  <2>1. CASE UNCHANGED <<todo, issued>>
    <3>1. \A k \in Handlers :
            /\ pc'[k] \in Uploading => pc[k] \in Uploading
            /\ pc'[k] = "upload" => pc[k] = "upload" \/ k = c
      BY <1>1 DEF StartUpload, Goto, Respond, Uploading
    <3> QED
      BY <1>1, <2>1, <3>1, OwnershipFrame
      DEF StartUpload, Goto, Respond, Uploading, Ownership, Owns
  <2>2. CASE \E form \in SUBSET (Files \ issued) :
               /\ todo' = [todo EXCEPT ![c] = form]
               /\ issued' = issued \union form
               /\ Goto(c, "upload")
    BY <1>1, <2>2 DEF StartUpload, Goto, Ownership, Owns, Uploading
  <2> QED
    BY <1>1, <2>1, <2>2 DEF StartUpload
<1>2. ASSUME NEW c \in Handlers, StartGet(c) PROVE Ownership'
  BY <1>2, OwnershipFrame DEF StartGet, Goto, Uploading
<1>3. ASSUME NEW c \in Handlers, StartDelete(c) PROVE Ownership'
  BY <1>3, OwnershipFrame DEF StartDelete, Goto, Uploading
<1>4. ASSUME NEW c \in Handlers, NextFile(c) PROVE Ownership'
  BY <1>4 DEF NextFile, Goto, Respond, Ownership, Owns, Uploading
<1>5. ASSUME NEW c \in Handlers, InsertDoc(c) PROVE Ownership'
  BY <1>5 DEF InsertDoc, Goto, Ownership, Owns, Uploading
<1>6. ASSUME NEW c \in Handlers, FinishUpload(c) PROVE Ownership'
  BY <1>6 DEF FinishUpload, Respond, Ownership, Owns, Uploading
<1>7. ASSUME NEW c \in Handlers, MakeDir(c) PROVE Ownership'
  BY <1>7, OwnershipFrame DEF MakeDir, Goto, Respond, GiveUp, Uploading
<1>8. ASSUME NEW c \in Handlers, CreateOriginal(c) PROVE Ownership'
  BY <1>8, OwnershipFrame DEF CreateOriginal, Goto, Respond, GiveUp, Uploading
<1>9. ASSUME NEW c \in Handlers, WriteOriginal(c) PROVE Ownership'
  BY <1>9, OwnershipFrame DEF WriteOriginal, Goto, Respond, GiveUp, Uploading
<1>10. ASSUME NEW c \in Handlers, Cleanup(c) PROVE Ownership'
  BY <1>10, OwnershipFrame DEF Cleanup, Goto, Respond, Uploading
<1>11. ASSUME NEW c \in Handlers, CheckExists(c) PROVE Ownership'
  BY <1>11, OwnershipFrame DEF CheckExists, Goto, Uploading
<1>12. ASSUME NEW c \in Handlers, ReadExisting(c) PROVE Ownership'
  BY <1>12, OwnershipFrame DEF ReadExisting, Respond, Uploading
<1>13. ASSUME NEW c \in Handlers, FindMeta(c) PROVE Ownership'
  BY <1>13, OwnershipFrame DEF FindMeta, Goto, Respond, Uploading
<1>14. ASSUME NEW c \in Handlers, LocalDelete(c) PROVE Ownership'
  BY <1>14, OwnershipFrame DEF LocalDelete, Goto, Uploading
<1>15. ASSUME NEW c \in Handlers, ReadOriginal(c) PROVE Ownership'
  BY <1>15, OwnershipFrame DEF ReadOriginal, Goto, Respond, Uploading
<1>16. ASSUME NEW c \in Handlers, Resolve(c) PROVE Ownership'
  BY <1>16, OwnershipFrame DEF Resolve, Respond, Uploading
<1>17. ASSUME NEW c \in Handlers, SaveCreate(c) PROVE Ownership'
  BY <1>17, OwnershipFrame DEF SaveCreate, Goto, SaveFailed, Uploading
<1>18. ASSUME NEW c \in Handlers, SaveWrite(c) PROVE Ownership'
  BY <1>18, OwnershipFrame DEF SaveWrite, Goto, SaveFailed, Uploading
<1>19. ASSUME NEW c \in Handlers, FindForDelete(c) PROVE Ownership'
  BY <1>19, OwnershipFrame DEF FindForDelete, Goto, Respond, Uploading
<1>20. ASSUME NEW c \in Handlers, MarkDoc(c) PROVE Ownership'
  BY <1>20, OwnershipFrame DEF MarkDoc, Respond, Uploading
<1>21. ASSUME NEW c \in Handlers, Return(c) PROVE Ownership'
  BY <1>21 DEF Return, Reset, Ownership, Owns, Uploading
<1>22. CASE Crash
  BY <1>22 DEF Crash, Reset, Ownership, Owns, Uploading
<1>23. CASE UNCHANGED vars
  BY <1>23, OwnershipFrame DEF vars
<1> QED
  BY <1>1, <1>2, <1>3, <1>4, <1>5, <1>6, <1>7, <1>8, <1>9, <1>10, <1>11, <1>12, <1>13, <1>14, <1>15, <1>16, <1>17, <1>18, <1>19, <1>20, <1>21, <1>22, <1>23
  DEF Next, Start, Step, UploadStep, GetStep, DeleteStep

-----------------------------------------------------------------------------
(* What the disk operations do to the originals.                            *)

LEMMA OriginalWrite ==
  ASSUME content \in [Dirs -> [Names -> Contents]],
         NEW v \in Files, NEW n \in Names, NEW b, NEW u \in Files,
         content' = [content EXCEPT ![Dir(v)][n] = b]
  PROVE  Orig(u)' = IF u = v /\ n = Original THEN b ELSE Orig(u)
<1>1. Dir(u) \in Dirs /\ Dir(v) \in Dirs /\ (Dir(u) = Dir(v) <=> u = v)
  BY DirTypes DEF Dir
<1>2. Original \in Names
  BY NameTypes
<1> QED
  BY <1>1, <1>2 DEF Orig

LEMMA OriginalSaved ==
  ASSUME content \in [Dirs -> [Names -> Contents]],
         NEW v \in Files, NEW n \in Names, NEW b, n # Original,
         Truncate(Dir(v), n) \/ WriteBits(Dir(v), n, b)
  PROVE  \A u \in Files : Orig(u)' = Orig(u)
<1>1. PICK w : content' = [content EXCEPT ![Dir(v)][n] = w]
  BY DEF Truncate, WriteBits
<1> QED
  BY <1>1, OriginalWrite

LEMMA OriginalRemoval ==
  ASSUME content \in [Dirs -> [Names -> Contents]],
         NEW d \in Dirs, NEW u \in Files,
         TryDelete(d) \/ TryDeleteFails(d)
  PROVE  /\ d = Dir(u) => Orig(u)' \in {"absent", Orig(u)}
         /\ d # Dir(u) => Orig(u)' = Orig(u)
<1>1. Dir(u) \in Dirs /\ Original \in Names
  BY DirTypes, NameTypes
<1>2. CASE TryDelete(d)
  BY <1>1, <1>2 DEF TryDelete, Emptied, Orig
<1>3. CASE TryDeleteFails(d)
  BY <1>1, <1>3 DEF TryDeleteFails, Orig
<1> QED
  BY <1>2, <1>3

\* TryDeleteLocally reaches no original: its path lies in no bucket.
LEMMA LocalDeleteHarmless ==
  ASSUME content \in [Dirs -> [Names -> Contents]], NEW v \in Files,
         TryDelete(ToDir(v)) \/ TryDeleteFails(ToDir(v))
  PROVE  \A u \in Files : Orig(u)' = Orig(u)
<1>1. ToDir(v) \in Dirs /\ \A u \in Files : ToDir(v) # Dir(u)
  BY DirTypes, DeployAssumption DEF ToDir, Dir
<1> QED
  BY <1>1, OriginalRemoval

-----------------------------------------------------------------------------
(* Storage.                                                                 *)

LEMMA InitStorage == Init => Storage
  BY FilesAssumption, DirTypes, NameTypes
  DEF Init, Storage, Stored, Orig, Owns, Uploading, Emptied

\* A step that leaves the documents and the originals alone and moves no
\* upload into or out of a place Storage speaks of keeps it.
LEMMA StorageFrame ==
  ASSUME TInv, Storage, UNCHANGED <<doc, ids, acked, lost, issued>>,
         \A u \in Files : Orig(u)' = Orig(u),
         \A k \in Handlers :
           /\ pc'[k] \in {"write", "insert", "cleanup"}
                => pc'[k] = pc[k] /\ cur'[k] = cur[k]
           /\ \A u \in Files :
                Owns(k, u)' => Owns(k, u) /\ (pc[k] = "cleanup" => pc'[k] = "cleanup")
  PROVE  Storage'
<1>1. \A u \in Files : Stored(u)' = Stored(u)
  BY DEF Stored, Orig
<1>2. \A k \in Handlers : pc[k] \in {"write", "insert", "cleanup"} => cur[k] \in Files
  BY DEF TInv, Control, OnFile, PCs, Uploading
<1> QED
  BY <1>1, <1>2 DEF Storage, TInv, TypeOK

LEMMA StepStorage ==
  TInv /\ TInv' /\ Ownership /\ Ownership' /\ Storage /\ [Next]_vars => Storage'
<1> SUFFICES ASSUME TInv, TInv', Ownership, Ownership', Storage, [Next]_vars
             PROVE  Storage'
  OBVIOUS
<1> USE DEF store, local, history
<1>0. content \in [Dirs -> [Names -> Contents]] /\ pc \in [Handlers -> PCs]
      /\ cur \in [Handlers -> Files \union {NoFile}]
      /\ todo \in [Handlers -> SUBSET Files]
  BY DEF TInv, TypeOK
<1>1. ASSUME NEW c \in Handlers, StartGet(c) PROVE Storage'
  <2>1. \A u \in Files : Orig(u)' = Orig(u)
    BY <1>1 DEF StartGet, Orig
  <2> QED
    BY <1>0, <1>1, <2>1, StorageFrame DEF StartGet, Goto, Owns, Uploading
<1>2. ASSUME NEW c \in Handlers, StartDelete(c) PROVE Storage'
  <2>1. \A u \in Files : Orig(u)' = Orig(u)
    BY <1>2 DEF StartDelete, Orig
  <2> QED
    BY <1>0, <1>2, <2>1, StorageFrame DEF StartDelete, Goto, Owns, Uploading
<1>3. ASSUME NEW c \in Handlers, NextFile(c) PROVE Storage'
  <2>1. \A u \in Files : Orig(u)' = Orig(u)
    BY <1>3 DEF NextFile, Orig
  <2> QED
    BY <1>0, <1>3, <2>1, StorageFrame DEF NextFile, Goto, Respond, Owns, Uploading
<1>4. ASSUME NEW c \in Handlers, MakeDir(c) PROVE Storage'
  <2>1. \A u \in Files : Orig(u)' = Orig(u)
    BY <1>4 DEF MakeDir, Orig
  <2> QED
    BY <1>0, <1>4, <2>1, StorageFrame DEF MakeDir, Goto, Respond, GiveUp, Owns, Uploading
<1>5. ASSUME NEW c \in Handlers, CheckExists(c) PROVE Storage'
  <2>1. \A u \in Files : Orig(u)' = Orig(u)
    BY <1>5 DEF CheckExists, Orig
  <2> QED
    BY <1>0, <1>5, <2>1, StorageFrame DEF CheckExists, Goto, Owns, Uploading
<1>6. ASSUME NEW c \in Handlers, ReadExisting(c) PROVE Storage'
  <2>1. \A u \in Files : Orig(u)' = Orig(u)
    BY <1>6 DEF ReadExisting, Orig
  <2> QED
    BY <1>0, <1>6, <2>1, StorageFrame DEF ReadExisting, Respond, Owns, Uploading
<1>7. ASSUME NEW c \in Handlers, FindMeta(c) PROVE Storage'
  <2>1. \A u \in Files : Orig(u)' = Orig(u)
    BY <1>7 DEF FindMeta, Orig
  <2> QED
    BY <1>0, <1>7, <2>1, StorageFrame DEF FindMeta, Goto, Respond, Owns, Uploading
<1>8. ASSUME NEW c \in Handlers, ReadOriginal(c) PROVE Storage'
  <2>1. \A u \in Files : Orig(u)' = Orig(u)
    BY <1>8 DEF ReadOriginal, Orig
  <2> QED
    BY <1>0, <1>8, <2>1, StorageFrame DEF ReadOriginal, Goto, Respond, Owns, Uploading
<1>9. ASSUME NEW c \in Handlers, Resolve(c) PROVE Storage'
  <2>1. \A u \in Files : Orig(u)' = Orig(u)
    BY <1>9 DEF Resolve, Orig
  <2> QED
    BY <1>0, <1>9, <2>1, StorageFrame DEF Resolve, Respond, Owns, Uploading
<1>10. ASSUME NEW c \in Handlers, FindForDelete(c) PROVE Storage'
  <2>1. \A u \in Files : Orig(u)' = Orig(u)
    BY <1>10 DEF FindForDelete, Orig
  <2> QED
    BY <1>0, <1>10, <2>1, StorageFrame DEF FindForDelete, Goto, Respond, Owns, Uploading
<1>11. ASSUME NEW c \in Handlers, LocalDelete(c) PROVE Storage'
  <2>1. \A u \in Files : Orig(u)' = Orig(u)
    BY <1>0, <1>11, CurTypes, LocalDeleteHarmless DEF LocalDelete, OnFile, PCs, Uploading
  <2> QED
    BY <1>0, <1>11, <2>1, StorageFrame DEF LocalDelete, Goto, Owns, Uploading
<1>12. ASSUME NEW c \in Handlers, SaveCreate(c) PROVE Storage'
  <2>1. cur[c] \in Files /\ req[c].name \in Names /\ req[c].name # Original
    BY <1>12 DEF SaveCreate, TInv, TypeOK, Control, OnFile, PCs, Uploading, Requests
  <2>2. \A u \in Files : Orig(u)' = Orig(u)
    BY <1>0, <1>12, <2>1, OriginalSaved DEF SaveCreate, Orig
  <2> QED
    BY <1>0, <1>12, <2>2, StorageFrame DEF SaveCreate, Goto, SaveFailed, Owns, Uploading
<1>13. ASSUME NEW c \in Handlers, SaveWrite(c) PROVE Storage'
  <2>1. cur[c] \in Files /\ req[c].name \in Names /\ req[c].name # Original
    BY <1>13 DEF SaveWrite, TInv, TypeOK, Control, OnFile, PCs, Uploading, Requests
  <2>2. \A u \in Files : Orig(u)' = Orig(u)
    BY <1>0, <1>13, <2>1, OriginalSaved DEF SaveWrite, Orig
  <2> QED
    BY <1>0, <1>13, <2>2, StorageFrame DEF SaveWrite, Goto, SaveFailed, Owns, Uploading
<1>14. ASSUME NEW c \in Handlers, StartUpload(c) PROVE Storage'
  <2>1. \A k \in Handlers, u \in Files :
          Owns(k, u)' => Owns(k, u) \/ u \notin issued
    BY <1>0, <1>14 DEF StartUpload, Goto, Respond, Owns, Uploading
  <2>2. \A u \in Files : Stored(u)' = Stored(u) /\ Orig(u)' = Orig(u)
    BY <1>14 DEF StartUpload, Stored, Orig
  <2>3. \A k \in Handlers : pc'[k] \in {"write", "insert", "cleanup"}
          => pc'[k] = pc[k] /\ cur[k] \in Files
    BY <1>0, <1>14 DEF StartUpload, Goto, Respond, TInv, Control, OnFile, PCs, Uploading
  <2>4. \A k \in Handlers : pc[k] \in Uploading => pc'[k] = pc[k]
    BY <1>0, <1>14 DEF StartUpload, Goto, Respond, Uploading
  <2> QED
    BY <1>14, <2>1, <2>2, <2>3, <2>4
    DEF StartUpload, Storage, Uploading, TInv, TypeOK
<1>15. ASSUME NEW c \in Handlers, CreateOriginal(c) PROVE Storage'
  <2>1. cur[c] \in Files /\ Owns(c, cur[c])
    BY <1>15, CurTypes DEF CreateOriginal, OnFile, PCs, Uploading, Owns
  <2>2. /\ cur[c] \notin acked /\ \A k \in Handlers : cur[c] \notin ids[k]
        /\ \A k \in Handlers \ {c} : pc[k] \in Uploading => cur[k] # cur[c]
    BY <2>1 DEF Ownership, Owns
  <2>3. CASE Truncate(Dir(cur[c]), Original) /\ Goto(c, "write")
    <3>1. content' = [content EXCEPT ![Dir(cur[c])][Original] = "partial"]
      BY <2>3 DEF Truncate
    <3>2. \A u \in Files :
            Orig(u)' = IF u = cur[c] THEN "partial" ELSE Orig(u)
      BY <1>0, <2>1, <3>1, OriginalWrite, NameTypes
    <3>3. doc[cur[c]] = "none" /\ doc' = doc
      BY <1>15, <2>1 DEF CreateOriginal, Storage
    <3>4. \A u \in Files \ {cur[c]} : Stored(u)' = Stored(u)
      BY <3>2, <3>3 DEF Stored, Orig
    <3>5. \A k \in Handlers :
            k # c => pc'[k] = pc[k] /\ (pc[k] \in Uploading => cur[k] \in Files)
      BY <1>0, <2>3 DEF Goto, TInv, Control, OnFile, PCs, Uploading
    <3>6. /\ pc'[c] = "write" /\ cur' = cur /\ ids' = ids /\ acked' = acked
          /\ lost' = lost /\ issued' = issued
          /\ \A k \in Handlers, u \in Files : Owns(k, u)' = Owns(k, u)
      BY <1>0, <1>15, <2>3 DEF CreateOriginal, Goto, Owns, Uploading
    <3>7. /\ \A u \in acked' : Stored(u)'
          /\ \A k \in Handlers : \A u \in ids'[k] : Stored(u)'
      BY <2>2, <3>4, <3>6 DEF Storage, TInv, TypeOK
    <3>8. \A u \in Files :
            doc'[u] # "none" => /\ u \in issued'
                                /\ Orig(u)' = "complete" \/ u \in lost'
                                /\ Orig(u)' # "partial"
      BY <3>2, <3>3, <3>6 DEF Storage
    <3>9. \A k \in Handlers, u \in Files :
            Owns(k, u)' /\ doc'[u] # "none" => pc'[k] = "cleanup" /\ u \in lost'
      <4> SUFFICES ASSUME NEW k \in Handlers, NEW u \in Files, Owns(k, u),
                          doc[u] # "none"
                   PROVE  pc'[k] = "cleanup" /\ u \in lost
        BY <3>3, <3>6
      <4>1. pc[k] = "cleanup" /\ u \in lost
        BY DEF Storage
      <4>2. k # c
        BY <1>15, <4>1 DEF CreateOriginal
      <4> QED
        BY <3>5, <4>1, <4>2
    <3>10. \A k \in Handlers :
            /\ pc'[k] = "write" => Orig(cur[k])' # "absent"
            /\ pc'[k] = "insert" => Orig(cur[k])' = "complete"
            /\ pc'[k] = "cleanup" => Orig(cur[k])' # "partial"
      BY <2>1, <2>2, <3>2, <3>5, <3>6 DEF Storage, Uploading
    <3> QED
      BY <3>6, <3>7, <3>8, <3>9, <3>10 DEF Storage
  <2>4. CASE GiveUp(c) /\ UNCHANGED content
    BY <1>0, <1>15, <2>4, StorageFrame DEF CreateOriginal, GiveUp, Respond, Owns, Uploading, Orig
  <2> QED
    BY <1>15, <2>3, <2>4 DEF CreateOriginal
<1>16. ASSUME NEW c \in Handlers, WriteOriginal(c) PROVE Storage'
  <2>1. cur[c] \in Files /\ Owns(c, cur[c])
    BY <1>16, CurTypes DEF WriteOriginal, OnFile, PCs, Uploading, Owns
  <2>2. /\ cur[c] \notin acked /\ \A k \in Handlers : cur[c] \notin ids[k]
        /\ \A k \in Handlers \ {c} : pc[k] \in Uploading => cur[k] # cur[c]
    BY <2>1 DEF Ownership, Owns
  <2>3. CASE WriteBits(Dir(cur[c]), Original, "complete") /\ Goto(c, "insert")
    <3>1. content' = [content EXCEPT ![Dir(cur[c])][Original] = "complete"]
      <4>1. content[Dir(cur[c])][Original] # "absent"
        BY <1>16 DEF WriteOriginal, Storage, Orig
      <4> QED
        BY <2>3, <4>1 DEF WriteBits
    <3>2. \A u \in Files :
            Orig(u)' = IF u = cur[c] THEN "complete" ELSE Orig(u)
      BY <1>0, <2>1, <3>1, OriginalWrite, NameTypes
    <3>3. doc[cur[c]] = "none" /\ doc' = doc
      BY <1>16, <2>1 DEF WriteOriginal, Storage
    <3>4. \A u \in Files \ {cur[c]} : Stored(u)' = Stored(u)
      BY <3>2, <3>3 DEF Stored, Orig
    <3>5. \A k \in Handlers :
            k # c => pc'[k] = pc[k] /\ (pc[k] \in Uploading => cur[k] \in Files)
      BY <1>0, <2>3 DEF Goto, TInv, Control, OnFile, PCs, Uploading
    <3>6. /\ pc'[c] = "insert" /\ cur' = cur /\ ids' = ids /\ acked' = acked
          /\ lost' = lost /\ issued' = issued
          /\ \A k \in Handlers, u \in Files : Owns(k, u)' = Owns(k, u)
      BY <1>0, <1>16, <2>3 DEF WriteOriginal, Goto, Owns, Uploading
    <3>7. /\ \A u \in acked' : Stored(u)'
          /\ \A k \in Handlers : \A u \in ids'[k] : Stored(u)'
      BY <2>2, <3>4, <3>6 DEF Storage, TInv, TypeOK
    <3>8. \A u \in Files :
            doc'[u] # "none" => /\ u \in issued'
                                /\ Orig(u)' = "complete" \/ u \in lost'
                                /\ Orig(u)' # "partial"
      BY <3>2, <3>3, <3>6 DEF Storage
    <3>9. \A k \in Handlers, u \in Files :
            Owns(k, u)' /\ doc'[u] # "none" => pc'[k] = "cleanup" /\ u \in lost'
      <4> SUFFICES ASSUME NEW k \in Handlers, NEW u \in Files, Owns(k, u),
                          doc[u] # "none"
                   PROVE  pc'[k] = "cleanup" /\ u \in lost
        BY <3>3, <3>6
      <4>1. pc[k] = "cleanup" /\ u \in lost
        BY DEF Storage
      <4>2. k # c
        BY <1>16, <4>1 DEF WriteOriginal
      <4> QED
        BY <3>5, <4>1, <4>2
    <3>10. \A k \in Handlers :
            /\ pc'[k] = "write" => Orig(cur[k])' # "absent"
            /\ pc'[k] = "insert" => Orig(cur[k])' = "complete"
            /\ pc'[k] = "cleanup" => Orig(cur[k])' # "partial"
      BY <2>1, <2>2, <3>2, <3>5, <3>6 DEF Storage, Uploading
    <3> QED
      BY <3>6, <3>7, <3>8, <3>9, <3>10 DEF Storage
  <2>4. CASE GiveUp(c) /\ UNCHANGED content
    BY <1>0, <1>16, <2>4, StorageFrame DEF WriteOriginal, GiveUp, Respond, Owns, Uploading, Orig
  <2> QED
    BY <1>16, <2>3, <2>4 DEF WriteOriginal
<1>17. ASSUME NEW c \in Handlers, InsertDoc(c) PROVE Storage'
  <2>1. cur[c] \in Files /\ Owns(c, cur[c])
    BY <1>17, CurTypes DEF InsertDoc, OnFile, PCs, Uploading, Owns
  <2>2. /\ cur[c] \notin acked /\ \A k \in Handlers : cur[c] \notin ids[k]
        /\ \A k \in Handlers \ {c} : pc[k] \in Uploading => cur[k] # cur[c]
    BY <2>1 DEF Ownership, Owns
  <2>3. /\ \A u \in Files : Orig(u)' = Orig(u)
        /\ cur' = cur /\ todo' = todo /\ acked' = acked /\ issued' = issued
        /\ Orig(cur[c]) = "complete" /\ cur[c] \in issued
    BY <1>17, <2>1 DEF InsertDoc, Orig, Storage, Ownership
  <2>4. /\ \A u \in Files : doc'[u] = doc[u] \/ u = cur[c]
        /\ \A u \in Files : doc[u] # "none" => doc'[u] # "none"
        /\ lost \subseteq lost'
        /\ \A k \in Handlers : k # c => pc'[k] = pc[k] /\ ids'[k] = ids[k]
    BY <1>0, <1>17, <2>1 DEF InsertDoc, Goto, TInv, TypeOK
  <2>5. \/ /\ pc'[c] = "upload" /\ ids'[c] = ids[c] \union {cur[c]}
           /\ doc'[cur[c]] # "none"
        \/ /\ pc'[c] = "cleanup" /\ ids'[c] = ids[c]
           /\ doc'[cur[c]] # "none" => cur[c] \in lost'
    <3>1. doc[cur[c]] = "none"
      BY <1>17, <2>1 DEF InsertDoc, Storage
    <3> QED
      BY <1>0, <1>17, <2>1, <3>1 DEF InsertDoc, Goto, TInv, TypeOK
  <2>6. \A u \in Files : Stored(u) => Stored(u)'
    BY <2>3, <2>4 DEF Stored, Orig
  <2>7. doc'[cur[c]] # "none" => Stored(cur[c])'
    BY <2>1, <2>3 DEF Stored, Orig
  <2>8. \A k \in Handlers, u \in Files : k # c => (Owns(k, u)' <=> Owns(k, u))
    BY <2>3, <2>4 DEF Owns
  <2>9. \A u \in Files : Owns(c, u)' => Owns(c, u) /\ (u = cur[c] => pc'[c] = "cleanup")
    BY <1>17, <2>3, <2>5 DEF InsertDoc, Owns, Uploading, Ownership
  <2>10. \A u \in Files : Owns(c, u) => doc[u] = "none"
    BY <1>17 DEF InsertDoc, Storage
  <2>11. \A k \in Handlers : ids'[k] \subseteq Files /\ ids[k] \subseteq Files
    BY DEF TInv, TypeOK
  <2>12. /\ \A u \in acked' : Stored(u)'
         /\ \A k \in Handlers : \A u \in ids'[k] : Stored(u)'
    BY <2>1, <2>3, <2>4, <2>5, <2>6, <2>7, <2>11 DEF Storage, TInv, TypeOK
  <2>13. \A u \in Files :
           doc'[u] # "none" => /\ u \in issued'
                               /\ Orig(u)' = "complete" \/ u \in lost'
                               /\ Orig(u)' # "partial"
    BY <2>1, <2>3, <2>4 DEF Storage
  <2>14. \A k \in Handlers, u \in Files :
           Owns(k, u)' /\ doc'[u] # "none" => pc'[k] = "cleanup" /\ u \in lost'
    BY <2>1, <2>2, <2>4, <2>5, <2>8, <2>9, <2>10 DEF Storage, Ownership
  <2>15. \A k \in Handlers :
           /\ pc'[k] = "write" => Orig(cur[k])' # "absent"
           /\ pc'[k] = "insert" => Orig(cur[k])' = "complete"
           /\ pc'[k] = "cleanup" => Orig(cur[k])' # "partial"
    <3>1. \A k \in Handlers : pc[k] \in Uploading => cur[k] \in Files
      BY DEF TInv, Control, OnFile, PCs, Uploading
    <3> QED
      BY <2>1, <2>3, <2>4, <2>5, <3>1 DEF Storage, Uploading
  <2> QED
    BY <2>3, <2>12, <2>13, <2>14, <2>15 DEF Storage
<1>18. ASSUME NEW c \in Handlers, Cleanup(c) PROVE Storage'
  <2>1. cur[c] \in Files /\ Owns(c, cur[c])
    BY <1>18, CurTypes DEF Cleanup, OnFile, PCs, Uploading, Owns
  <2>2. /\ cur[c] \notin acked /\ \A k \in Handlers : cur[c] \notin ids[k]
        /\ \A k \in Handlers \ {c} : pc[k] \in Uploading => cur[k] # cur[c]
    BY <2>1 DEF Ownership, Owns
  <2>3. /\ Orig(cur[c])' \in {"absent", Orig(cur[c])}
        /\ \A u \in Files \ {cur[c]} : Orig(u)' = Orig(u)
    <3>1. Dir(cur[c]) \in Dirs /\ \A u \in Files : Dir(u) = Dir(cur[c]) => u = cur[c]
      BY <2>1, DirTypes DEF Dir
    <3> QED
      BY <1>0, <1>18, <2>1, <3>1, OriginalRemoval DEF Cleanup
  <2>4. doc' = doc /\ cur' = cur /\ ids' = ids /\ acked' = acked /\ lost' = lost
        /\ issued' = issued /\ todo' = todo
    BY <1>18 DEF Cleanup
  <2>5. /\ pc'[c] \in {"cleanup", "return"}
        /\ \A k \in Handlers : k # c => pc'[k] = pc[k]
    BY <1>0, <1>18 DEF Cleanup, Goto, Respond
  <2>6. \A u \in Files \ {cur[c]} : Stored(u)' = Stored(u)
    BY <2>3, <2>4 DEF Stored, Orig
  <2>7. \A k \in Handlers, u \in Files :
          Owns(k, u)' => Owns(k, u) /\ (pc[k] = "cleanup" => pc'[k] = "cleanup")
    BY <1>18, <2>4, <2>5 DEF Cleanup, Owns, Uploading
  <2>8. \A k \in Handlers : pc[k] \in Uploading => cur[k] \in Files
    BY DEF TInv, Control, OnFile, PCs, Uploading
  <2>9. doc[cur[c]] # "none" => cur[c] \in lost
    BY <2>1 DEF Storage
  <2>10. Orig(cur[c]) # "partial"
    BY <1>18 DEF Cleanup, Storage
  <2> QED
    BY <2>1, <2>2, <2>3, <2>4, <2>5, <2>6, <2>7, <2>8, <2>9, <2>10
    DEF Storage, Uploading, TInv, TypeOK
<1>19. ASSUME NEW c \in Handlers, FinishUpload(c) PROVE Storage'
  <2>1. \A u \in Files : Stored(u)' = Stored(u) /\ Orig(u)' = Orig(u)
    BY <1>19 DEF FinishUpload, Stored, Orig
  <2>2. /\ acked' = acked \union ids[c] /\ doc' = doc /\ ids' = ids /\ lost' = lost
        /\ issued' = issued /\ cur' = cur /\ todo' = todo
        /\ pc'[c] = "return" /\ \A k \in Handlers : k # c => pc'[k] = pc[k]
    BY <1>0, <1>19 DEF FinishUpload, Respond
  <2>3. \A k \in Handlers, u \in Files :
          Owns(k, u)' => Owns(k, u) /\ (pc[k] = "cleanup" => pc'[k] = "cleanup")
    BY <1>19, <2>2 DEF FinishUpload, Owns, Uploading
  <2>4. \A k \in Handlers : pc[k] \in Uploading => cur[k] \in Files
    BY DEF TInv, Control, OnFile, PCs, Uploading
  <2> QED
    BY <2>1, <2>2, <2>3, <2>4 DEF Storage, Uploading, TInv, TypeOK
<1>20. ASSUME NEW c \in Handlers, MarkDoc(c) PROVE Storage'
  <2>1. \A u \in Files : (doc'[u] = "none" <=> doc[u] = "none") /\ Orig(u)' = Orig(u)
    BY <1>20, CurTypes
    DEF MarkDoc, MarkMatches, Orig, OnFile, PCs, Uploading, TInv, TypeOK
  <2>2. \A u \in Files : Stored(u)' = Stored(u)
    BY <2>1 DEF Stored, Orig
  <2>3. /\ acked' = acked /\ ids' = ids /\ lost' = lost /\ issued' = issued
        /\ cur' = cur /\ todo' = todo
        /\ pc'[c] = "return" /\ \A k \in Handlers : k # c => pc'[k] = pc[k]
    BY <1>0, <1>20 DEF MarkDoc, Respond
  <2>4. \A k \in Handlers, u \in Files :
          Owns(k, u)' => Owns(k, u) /\ (pc[k] = "cleanup" => pc'[k] = "cleanup")
    BY <1>20, <2>3 DEF MarkDoc, Owns, Uploading
  <2>5. \A k \in Handlers : pc[k] \in Uploading => cur[k] \in Files
    BY DEF TInv, Control, OnFile, PCs, Uploading
  <2> QED
    BY <2>1, <2>2, <2>3, <2>4, <2>5 DEF Storage, Uploading, TInv, TypeOK
<1>21. ASSUME NEW c \in Handlers, Return(c) PROVE Storage'
  <2>1. \A u \in Files : Stored(u)' = Stored(u) /\ Orig(u)' = Orig(u)
    BY <1>21 DEF Return, Stored, Orig
  <2>2. /\ \A k \in Handlers : ids'[k] \subseteq ids[k]
        /\ \A k \in Handlers : pc'[k] # "idle" => pc'[k] = pc[k] /\ cur'[k] = cur[k]
        /\ \A k \in Handlers, u \in Files : Owns(k, u)' => Owns(k, u) /\ pc'[k] = pc[k]
    BY <1>0, <1>21 DEF Return, Reset, Owns, Uploading, TInv, TypeOK
  <2>3. \A k \in Handlers : pc[k] \in Uploading => cur[k] \in Files
    BY DEF TInv, Control, OnFile, PCs, Uploading
  <2> QED
    BY <1>21, <2>1, <2>2, <2>3 DEF Return, Storage, Uploading, TInv, TypeOK
<1>22. CASE Crash
  <2>1. \A u \in Files : Stored(u)' = Stored(u) /\ Orig(u)' = Orig(u)
    BY <1>22 DEF Crash, Stored, Orig
  <2>2. /\ \A k \in Handlers : ids'[k] = {} /\ pc'[k] = "idle"
        /\ \A k \in Handlers, u \in Files : ~Owns(k, u)'
    BY <1>22 DEF Crash, Reset, Owns, Uploading
  <2> QED
    BY <1>22, <2>1, <2>2 DEF Crash, Storage, TInv, TypeOK
<1>23. CASE UNCHANGED vars
  <2>1. \A u \in Files : Orig(u)' = Orig(u)
    BY <1>23 DEF vars, Orig
  <2> QED
    BY <1>23, <2>1, StorageFrame DEF vars, Owns
<1> QED
  BY <1>1, <1>2, <1>3, <1>4, <1>5, <1>6, <1>7, <1>8, <1>9, <1>10, <1>11, <1>12, <1>13, <1>14, <1>15, <1>16, <1>17, <1>18, <1>19, <1>20, <1>21, <1>22, <1>23
  DEF Next, Start, Step, UploadStep, GetStep, DeleteStep

-----------------------------------------------------------------------------
(* Documents.                                                               *)

\* No step removes a document.
LEMMA DocumentsStay ==
  ASSUME TInv, [Next]_vars, NEW u \in Files, doc[u] # "none"
  PROVE  doc'[u] # "none"
<1> USE DEF TInv, TypeOK, store
<1>1. ASSUME NEW c \in Handlers, InsertDoc(c) PROVE doc'[u] # "none"
  BY <1>1 DEF InsertDoc
<1>2. ASSUME NEW c \in Handlers, MarkDoc(c) PROVE doc'[u] # "none"
  BY <1>2 DEF MarkDoc
<1>3. ASSUME NEW c \in Handlers, ~InsertDoc(c), ~MarkDoc(c), Start(c) \/ Step(c)
      PROVE  doc' = doc
  BY <1>3
  DEF Start, Step, UploadStep, GetStep, DeleteStep, StartUpload, StartGet,
      StartDelete, NextFile, MakeDir, CreateOriginal, WriteOriginal, Cleanup,
      FinishUpload, CheckExists, ReadExisting, FindMeta, LocalDelete,
      ReadOriginal, Resolve, SaveCreate, SaveWrite, FindForDelete, Return
<1>4. CASE Crash
  BY <1>4 DEF Crash
<1> QED
  BY <1>1, <1>2, <1>3, <1>4 DEF Next, vars

LEMMA StepReads == TInv /\ TInv' /\ Reads /\ [Next]_vars => Reads'
<1> SUFFICES ASSUME TInv, TInv', Reads, [Next]_vars PROVE Reads'
  OBVIOUS
<1> USE DEF local
<1>0. /\ pc \in [Handlers -> PCs] /\ cur \in [Handlers -> Files \union {NoFile}]
      /\ \A k \in Handlers : pc'[k] \in OnFile => cur'[k] \in Files
  BY DEF TInv, TypeOK, Control
<1> HIDE DEF TInv
<1> DEFINE Readers == {"read", "resolve", "save_create", "save_write", "mark"}
           Kept == \A k \in Handlers : pc'[k] \in Readers =>
                     \/ pc[k] \in Readers /\ cur'[k] = cur[k]
                     \/ doc[cur'[k]] # "none"
<1>1. ASSUME NEW c \in Handlers, StartUpload(c) PROVE Kept
  BY <1>0, <1>1 DEF StartUpload, Goto, Respond
<1>2. ASSUME NEW c \in Handlers, StartGet(c) PROVE Kept
  BY <1>0, <1>2 DEF StartGet, Goto
<1>3. ASSUME NEW c \in Handlers, StartDelete(c) PROVE Kept
  BY <1>0, <1>3 DEF StartDelete, Goto
<1>4. ASSUME NEW c \in Handlers, NextFile(c) PROVE Kept
  BY <1>0, <1>4 DEF NextFile, Goto, Respond
<1>5. ASSUME NEW c \in Handlers, MakeDir(c) PROVE Kept
  BY <1>0, <1>5 DEF MakeDir, Goto, Respond, GiveUp
<1>6. ASSUME NEW c \in Handlers, CreateOriginal(c) PROVE Kept
  BY <1>0, <1>6 DEF CreateOriginal, Goto, Respond, GiveUp
<1>7. ASSUME NEW c \in Handlers, WriteOriginal(c) PROVE Kept
  BY <1>0, <1>7 DEF WriteOriginal, Goto, Respond, GiveUp
<1>8. ASSUME NEW c \in Handlers, InsertDoc(c) PROVE Kept
  BY <1>0, <1>8 DEF InsertDoc, Goto
<1>9. ASSUME NEW c \in Handlers, Cleanup(c) PROVE Kept
  BY <1>0, <1>9 DEF Cleanup, Goto, Respond
<1>10. ASSUME NEW c \in Handlers, FinishUpload(c) PROVE Kept
  BY <1>0, <1>10 DEF FinishUpload, Respond
<1>11. ASSUME NEW c \in Handlers, CheckExists(c) PROVE Kept
  BY <1>0, <1>11 DEF CheckExists, Goto
<1>12. ASSUME NEW c \in Handlers, ReadExisting(c) PROVE Kept
  BY <1>0, <1>12 DEF ReadExisting, Respond
<1>13. ASSUME NEW c \in Handlers, FindMeta(c) PROVE Kept
  BY <1>0, <1>13 DEF FindMeta, Goto, Respond, Live
<1>14. ASSUME NEW c \in Handlers, LocalDelete(c) PROVE Kept
  BY <1>0, <1>14 DEF LocalDelete, Goto
<1>15. ASSUME NEW c \in Handlers, ReadOriginal(c) PROVE Kept
  BY <1>0, <1>15 DEF ReadOriginal, Goto, Respond
<1>16. ASSUME NEW c \in Handlers, Resolve(c) PROVE Kept
  BY <1>0, <1>16 DEF Resolve, Respond
<1>17. ASSUME NEW c \in Handlers, SaveCreate(c) PROVE Kept
  BY <1>0, <1>17 DEF SaveCreate, Goto, SaveFailed
<1>18. ASSUME NEW c \in Handlers, SaveWrite(c) PROVE Kept
  BY <1>0, <1>18 DEF SaveWrite, Goto, SaveFailed
<1>19. ASSUME NEW c \in Handlers, FindForDelete(c) PROVE Kept
  BY <1>0, <1>19 DEF FindForDelete, Goto, Respond, Live
<1>20. ASSUME NEW c \in Handlers, MarkDoc(c) PROVE Kept
  BY <1>0, <1>20 DEF MarkDoc, Respond
<1>21. ASSUME NEW c \in Handlers, Return(c) PROVE Kept
  BY <1>0, <1>21 DEF Return, Reset
<1>22. ASSUME Crash PROVE Kept
  BY <1>0, <1>22 DEF Crash, Reset
<1>23. ASSUME UNCHANGED vars PROVE Kept
  BY <1>23 DEF vars
<1>24. Kept
  BY <1>1, <1>2, <1>3, <1>4, <1>5, <1>6, <1>7, <1>8, <1>9, <1>10, <1>11, <1>12, <1>13, <1>14, <1>15, <1>16, <1>17, <1>18, <1>19, <1>20, <1>21, <1>22, <1>23
  DEF Next, Start, Step, UploadStep, GetStep, DeleteStep
<1>25. \A k \in Handlers : pc'[k] \in Readers => cur'[k] \in Files /\ doc[cur'[k]] # "none"
  BY <1>0, <1>24 DEF Reads, OnFile, PCs
<1> QED
  BY <1>25, DocumentsStay DEF Reads

-----------------------------------------------------------------------------
(* Torn originals.                                                          *)

\* An original read for a file that has a document is whole.
LEMMA OriginalRead ==
  ASSUME TInv, Storage, Reads, NEW c \in Handlers, pc[c] = "read",
         Readable(c, Original)
  PROVE  bits' = [bits EXCEPT ![c] = "complete"]
<1>1. cur[c] \in Files
  BY CurTypes DEF OnFile, PCs
<1>2. doc[cur[c]] # "none"
  BY DEF Reads
<1>3. Orig(cur[c]) # "partial" /\ Orig(cur[c]) # "absent"
  BY <1>1, <1>2 DEF Storage, Readable, Orig
<1>4. Orig(cur[c]) \in Contents
  BY <1>1, DirTypes, NameTypes DEF TInv, TypeOK, Orig
<1> QED
  BY <1>3, <1>4 DEF Readable, Orig, Contents

LEMMA StepNoTorn ==
  TInv /\ Storage /\ Reads /\ NoTornOriginal /\ [Next]_vars => NoTornOriginal'
<1> SUFFICES ASSUME TInv, Storage, Reads, NoTornOriginal, [Next]_vars
             PROVE  NoTornOriginal'
  OBVIOUS
<1> USE DEF local
<1>0. /\ pc \in [Handlers -> PCs] /\ answer \in [Handlers -> Codes]
      /\ req \in [Handlers -> Requests] /\ bits \in [Handlers -> Contents]
      /\ \A k \in Handlers :
           /\ pc[k] \in {"exists", "read_existing", "resolve", "save_create",
                         "save_write"} => req[k].name # Original
           /\ pc[k] = "mark" => req[k].op = "delete"
           /\ pc[k] = "local_delete" => answer[k] = "404"
  BY DEF TInv, TypeOK, Control
<1>1. ASSUME NEW c \in Handlers, StartUpload(c) PROVE NoTornOriginal'
  BY <1>0, <1>1 DEF StartUpload, Goto, Respond, Requests, NoTornOriginal
<1>2. ASSUME NEW c \in Handlers, StartGet(c) PROVE NoTornOriginal'
  BY <1>0, <1>2 DEF StartGet, Goto, Requests, NoTornOriginal
<1>3. ASSUME NEW c \in Handlers, StartDelete(c) PROVE NoTornOriginal'
  BY <1>0, <1>3 DEF StartDelete, Goto, Requests, NoTornOriginal
<1>4. ASSUME NEW c \in Handlers, NextFile(c) PROVE NoTornOriginal'
  BY <1>0, <1>4 DEF NextFile, Goto, Respond, NoTornOriginal
<1>5. ASSUME NEW c \in Handlers, MakeDir(c) PROVE NoTornOriginal'
  BY <1>0, <1>5 DEF MakeDir, Goto, Respond, GiveUp, NoTornOriginal
<1>6. ASSUME NEW c \in Handlers, CreateOriginal(c) PROVE NoTornOriginal'
  BY <1>0, <1>6 DEF CreateOriginal, Goto, Respond, GiveUp, NoTornOriginal
<1>7. ASSUME NEW c \in Handlers, WriteOriginal(c) PROVE NoTornOriginal'
  BY <1>0, <1>7 DEF WriteOriginal, Goto, Respond, GiveUp, NoTornOriginal
<1>8. ASSUME NEW c \in Handlers, InsertDoc(c) PROVE NoTornOriginal'
  BY <1>0, <1>8 DEF InsertDoc, Goto, NoTornOriginal
<1>9. ASSUME NEW c \in Handlers, Cleanup(c) PROVE NoTornOriginal'
  BY <1>0, <1>9 DEF Cleanup, Goto, Respond, NoTornOriginal
<1>10. ASSUME NEW c \in Handlers, FinishUpload(c) PROVE NoTornOriginal'
  BY <1>0, <1>10 DEF FinishUpload, Respond, NoTornOriginal
<1>11. ASSUME NEW c \in Handlers, CheckExists(c) PROVE NoTornOriginal'
  BY <1>0, <1>11 DEF CheckExists, Goto, NoTornOriginal
<1>12. ASSUME NEW c \in Handlers, ReadExisting(c) PROVE NoTornOriginal'
  BY <1>0, <1>12 DEF ReadExisting, Respond, Readable, NoTornOriginal
<1>13. ASSUME NEW c \in Handlers, FindMeta(c) PROVE NoTornOriginal'
  BY <1>0, <1>13 DEF FindMeta, Goto, Respond, NoTornOriginal
<1>14. ASSUME NEW c \in Handlers, LocalDelete(c) PROVE NoTornOriginal'
  BY <1>0, <1>14 DEF LocalDelete, Goto, NoTornOriginal
<1>15. ASSUME NEW c \in Handlers, ReadOriginal(c) PROVE NoTornOriginal'
  BY <1>0, <1>15, OriginalRead DEF ReadOriginal, Goto, Respond, NoTornOriginal
<1>16. ASSUME NEW c \in Handlers, Resolve(c) PROVE NoTornOriginal'
  BY <1>0, <1>16 DEF Resolve, Respond, NoTornOriginal
<1>17. ASSUME NEW c \in Handlers, SaveCreate(c) PROVE NoTornOriginal'
  BY <1>0, <1>17 DEF SaveCreate, Goto, SaveFailed, NoTornOriginal
<1>18. ASSUME NEW c \in Handlers, SaveWrite(c) PROVE NoTornOriginal'
  BY <1>0, <1>18 DEF SaveWrite, Goto, SaveFailed, NoTornOriginal
<1>19. ASSUME NEW c \in Handlers, FindForDelete(c) PROVE NoTornOriginal'
  BY <1>0, <1>19 DEF FindForDelete, Goto, Respond, NoTornOriginal
<1>20. ASSUME NEW c \in Handlers, MarkDoc(c) PROVE NoTornOriginal'
  BY <1>0, <1>20 DEF MarkDoc, Respond, NoTornOriginal
<1>21. ASSUME NEW c \in Handlers, Return(c) PROVE NoTornOriginal'
  BY <1>0, <1>21 DEF Return, Reset, NoTornOriginal
<1>22. CASE Crash
  BY <1>0, <1>22 DEF Crash, Reset, NoTornOriginal
<1>23. CASE UNCHANGED vars
  BY <1>23 DEF vars, NoTornOriginal
<1> QED
  BY <1>1, <1>2, <1>3, <1>4, <1>5, <1>6, <1>7, <1>8, <1>9, <1>10, <1>11, <1>12, <1>13, <1>14, <1>15, <1>16, <1>17, <1>18, <1>19, <1>20, <1>21, <1>22, <1>23
  DEF Next, Start, Step, UploadStep, GetStep, DeleteStep

-----------------------------------------------------------------------------
(* Marks.                                                                   *)

LEMMA StepMarks ==
  TInv /\ Ownership /\ Marks /\ [Next]_vars => Marks'
<1> SUFFICES ASSUME TInv, Ownership, Marks, [Next]_vars PROVE Marks'
  OBVIOUS
<1> USE DEF store, local, history
<1>0. doc \in [Files -> DocStates] /\ ids \in [Handlers -> SUBSET Files]
  BY DEF TInv, TypeOK
<1>1. ASSUME NEW c \in Handlers, InsertDoc(c) PROVE Marks'
  <2>1. cur[c] \in Files /\ cur[c] \notin Seeded
    BY <1>1, CurTypes DEF InsertDoc, OnFile, PCs, Uploading, Ownership, Owns
  <2> QED
    BY <1>0, <1>1, <2>1 DEF InsertDoc, Marks
<1>2. ASSUME NEW c \in Handlers, MarkDoc(c) PROVE Marks'
  <2>1. cur[c] \in Files
    BY <1>2, CurTypes DEF MarkDoc, OnFile, PCs, Uploading
  <2> QED
    BY <1>0, <1>2, <2>1 DEF MarkDoc, MarkMatches, Marks
<1>3. ASSUME NEW c \in Handlers, Return(c) PROVE Marks'
  BY <1>0, <1>3 DEF Return, Reset, Marks
<1>4. CASE Crash
  BY <1>4 DEF Crash, Reset, Marks
<1>5. ASSUME NEW c \in Handlers, ~InsertDoc(c), ~MarkDoc(c), ~Return(c),
             Start(c) \/ Step(c)
      PROVE  UNCHANGED <<doc, ids, lost>>
  BY <1>5
  DEF Start, Step, UploadStep, GetStep, DeleteStep, StartUpload, StartGet,
      StartDelete, NextFile, MakeDir, CreateOriginal, WriteOriginal, Cleanup,
      FinishUpload, CheckExists, ReadExisting, FindMeta, LocalDelete,
      ReadOriginal, Resolve, SaveCreate, SaveWrite, FindForDelete
<1>6. CASE UNCHANGED <<doc, ids, lost>>
  BY <1>6 DEF Marks
<1> QED
  BY <1>1, <1>2, <1>3, <1>4, <1>5, <1>6 DEF Next, vars

-----------------------------------------------------------------------------
(* The theorems.                                                            *)

LEMMA InitIInv == Init => IInv
<1> SUFFICES ASSUME Init PROVE IInv
  OBVIOUS
<1>1. Reads /\ NoTornOriginal
  BY DEF Init, Reads, NoTornOriginal
<1>2. Marks
  BY FilesAssumption DEF Init, Marks
<1> QED
  BY <1>1, <1>2, InitTInv, InitOwnership, InitStorage DEF IInv

LEMMA StepIInv == IInv /\ [Next]_vars => IInv'
  BY StepTypeOK, StepControl, StepOwnership, StepStorage, StepReads, StepMarks,
     StepNoTorn DEF IInv, TInv

LEMMA Invariance == Spec => []IInv
  BY InitIInv, StepIInv, PTL DEF Spec

\* A file whose id a client was given keeps its document and its original,
\* in every interleaving with any number of requests, failures and crashes.
THEOREM AckedFilesAreDurable == Spec => []AckedIsDurable
<1>1. IInv => AckedIsDurable
  BY DEF IInv, Storage, AckedIsDurable
<1> QED
  BY <1>1, Invariance, PTL

\* The database never refers to an original that is not whole, an insert
\* reported as failed and nevertheless applied excepted.
THEOREM DocumentsHaveBits == Spec => []MetaHasBits
<1>1. IInv => MetaHasBits
  BY DEF IInv, Storage, MetaHasBits, Stored, Orig
<1> QED
  BY <1>1, Invariance, PTL

\* No reader is sent part of an original from the disk.
THEOREM OriginalsAreNotTorn == Spec => []NoTornOriginal
<1>1. IInv => NoTornOriginal
  BY DEF IInv
<1> QED
  BY <1>1, Invariance, PTL

-----------------------------------------------------------------------------
(* Refinement of ObjectStore.                                               *)

Removed == {u \in Files : doc[u] = "true"}

LEMMA InitObjects == Init => Objects!Init
  BY FilesAssumption DEF Init, Objects!Init, Available, Live, Stored

\* A step that changes no document, no original and no promise is a stutter.
LEMMA ObjectsStutter ==
  ASSUME UNCHANGED <<doc, acked>>, \A u \in Files : Orig(u)' = Orig(u)
  PROVE  UNCHANGED Objects!vars
  BY DEF Objects!vars, Available, Live, Stored, Orig

LEMMA StepObjects == IInv /\ [Next]_vars => [Objects!Next]_(Objects!vars)
<1> SUFFICES ASSUME IInv, [Next]_vars PROVE [Objects!Next]_(Objects!vars)
  OBVIOUS
<1> USE DEF IInv, store, local, history
<1>0. /\ content \in [Dirs -> [Names -> Contents]] /\ doc \in [Files -> DocStates]
      /\ ids \in [Handlers -> SUBSET Files]
  BY DEF TInv, TypeOK
<1>1. ASSUME NEW c \in Handlers, InsertDoc(c)
      PROVE  [Objects!Next]_(Objects!vars)
  <2>1. cur[c] \in Files /\ Owns(c, cur[c])
    BY <1>1, CurTypes DEF InsertDoc, OnFile, PCs, Uploading, Owns
  <2>2. /\ doc[cur[c]] = "none" /\ Orig(cur[c]) = "complete"
        /\ cur[c] \notin acked /\ acked' = acked
        /\ \A u \in Files : Orig(u)' = Orig(u)
    BY <1>1, <2>1 DEF InsertDoc, Storage, Ownership, Orig
  <2>3. CASE doc' = doc
    BY <2>2, <2>3, ObjectsStutter
  <2>4. CASE doc' = [doc EXCEPT ![cur[c]] = "unset"]
    <3>1. /\ Available' = Available \union {cur[c]} /\ cur[c] \notin Available
          /\ Removed' = Removed /\ cur[c] \notin Removed
      BY <1>0, <2>1, <2>2, <2>4 DEF Available, Removed, Live, Stored, Orig
    <3>2. Objects!Store(cur[c])
      BY <2>2, <3>1 DEF Objects!Store, Removed
    <3> QED
      BY <2>1, <3>2 DEF Objects!Next
  <2> QED
    BY <1>1, <2>3, <2>4 DEF InsertDoc
<1>2. ASSUME NEW c \in Handlers, Cleanup(c)
      PROVE  [Objects!Next]_(Objects!vars)
  <2>1. cur[c] \in Files /\ Owns(c, cur[c])
    BY <1>2, CurTypes DEF Cleanup, OnFile, PCs, Uploading, Owns
  <2>2. cur[c] \notin acked /\ acked' = acked /\ doc' = doc /\ cur' = cur
    BY <1>2, <2>1 DEF Cleanup, Ownership
  <2>3. /\ Orig(cur[c])' \in {"absent", Orig(cur[c])}
        /\ \A u \in Files \ {cur[c]} : Orig(u)' = Orig(u)
    <3>1. Dir(cur[c]) \in Dirs /\ \A u \in Files : Dir(u) = Dir(cur[c]) => u = cur[c]
      BY <2>1, DirTypes DEF Dir
    <3> QED
      BY <1>0, <1>2, <2>1, <3>1, OriginalRemoval DEF Cleanup
  <2>4. CASE Orig(cur[c])' = Orig(cur[c])
    BY <2>2, <2>3, <2>4, ObjectsStutter
  <2>5. CASE Orig(cur[c])' # Orig(cur[c]) /\ cur[c] \in Available
    <3>1. Available' = Available \ {cur[c]} /\ Removed' = Removed
      BY <2>1, <2>2, <2>3, <2>5 DEF Available, Removed, Live, Stored, Orig
    <3>2. Objects!Rollback(cur[c])
      BY <2>2, <2>5, <3>1 DEF Objects!Rollback, Removed
    <3> QED
      BY <2>1, <3>2 DEF Objects!Next
  <2>6. CASE Orig(cur[c])' # Orig(cur[c]) /\ cur[c] \notin Available
    <3>1. Available' = Available
      BY <2>1, <2>2, <2>3, <2>6 DEF Available, Live, Stored, Orig
    <3> QED
      BY <2>2, <3>1 DEF Objects!vars
  <2> QED
    BY <2>4, <2>5, <2>6
<1>3. ASSUME NEW c \in Handlers, FinishUpload(c)
      PROVE  [Objects!Next]_(Objects!vars)
  <2>1. ids[c] \subseteq Available
    BY <1>0 DEF Storage, Marks, Available, Live, Stored, DocStates
  <2>2. Objects!Promise(ids[c])
    BY <1>3, <2>1
    DEF FinishUpload, Objects!Promise, Available, Live, Stored
  <2> QED
    BY <1>0, <2>2 DEF Objects!Next
<1>4. ASSUME NEW c \in Handlers, MarkDoc(c)
      PROVE  [Objects!Next]_(Objects!vars)
  <2>1. /\ cur[c] \in Files /\ acked' = acked
        /\ \A u \in Files : Orig(u)' = Orig(u)
    BY <1>4, CurTypes DEF MarkDoc, OnFile, PCs, Uploading, Orig
  <2>2. CASE doc' = doc
    BY <2>1, <2>2, ObjectsStutter
  <2>3. CASE MarkMatches(cur[c]) /\ doc' = [doc EXCEPT ![cur[c]] = "true"]
    <3>1. cur[c] \in Available
      BY <2>1, <2>3 DEF MarkMatches, Marks, Storage, Available, Live, Stored, Orig
    <3>2. Available' = Available \ {cur[c]} /\ Removed' = Removed \union {cur[c]}
      BY <1>0, <2>1, <2>3 DEF Available, Removed, Live, Stored, Orig
    <3>3. PICK o \in Files : o = cur[c]
      BY <2>1
    <3>4. Objects!Remove(o)
      BY <2>1, <3>1, <3>2, <3>3 DEF Objects!Remove, Removed
    <3> QED
      BY <3>4 DEF Objects!Next
  <2> QED
    BY <1>4, <2>2, <2>3 DEF MarkDoc
<1>5. ASSUME NEW c \in Handlers, LocalDelete(c)
      PROVE  [Objects!Next]_(Objects!vars)
  <2>1. \A u \in Files : Orig(u)' = Orig(u)
    BY <1>0, <1>5, CurTypes, LocalDeleteHarmless
    DEF LocalDelete, OnFile, PCs, Uploading
  <2> QED
    BY <1>5, <2>1, ObjectsStutter DEF LocalDelete
<1>6. ASSUME NEW c \in Handlers, SaveCreate(c) \/ SaveWrite(c)
      PROVE  [Objects!Next]_(Objects!vars)
  <2>1. cur[c] \in Files /\ req[c].name \in Names /\ req[c].name # Original
    BY <1>6 DEF SaveCreate, SaveWrite, TInv, TypeOK, Control, OnFile, PCs,
                Uploading, Requests
  <2>2. \A u \in Files : Orig(u)' = Orig(u)
    BY <1>0, <1>6, <2>1, OriginalSaved DEF SaveCreate, SaveWrite, Orig
  <2> QED
    BY <1>6, <2>2, ObjectsStutter DEF SaveCreate, SaveWrite
<1>7. ASSUME NEW c \in Handlers, CreateOriginal(c) \/ WriteOriginal(c)
      PROVE  [Objects!Next]_(Objects!vars)
  <2>1. cur[c] \in Files /\ doc[cur[c]] = "none"
    BY <1>7, CurTypes
    DEF CreateOriginal, WriteOriginal, OnFile, PCs, Uploading, Owns, Storage
  <2>2. doc' = doc /\ acked' = acked
    BY <1>7 DEF CreateOriginal, WriteOriginal
  <2>3. \A u \in Files \ {cur[c]} : Orig(u)' = Orig(u)
    <3>1. CASE content' = content
      BY <3>1 DEF Orig
    <3>2. ASSUME NEW b, content' = [content EXCEPT ![Dir(cur[c])][Original] = b]
          PROVE  \A u \in Files \ {cur[c]} : Orig(u)' = Orig(u)
      BY <1>0, <2>1, <3>2, OriginalWrite, NameTypes
    <3> QED
      BY <1>7, <3>1, <3>2
      DEF CreateOriginal, WriteOriginal, Truncate, WriteBits
  <2>4. Available' = Available
    BY <2>1, <2>2, <2>3 DEF Available, Live, Stored, Orig
  <2> QED
    BY <2>2, <2>4 DEF Objects!vars
<1>8. ASSUME NEW c \in Handlers,
             \/ Start(c) \/ NextFile(c) \/ MakeDir(c) \/ CheckExists(c)
             \/ ReadExisting(c) \/ FindMeta(c) \/ ReadOriginal(c) \/ Resolve(c)
             \/ FindForDelete(c) \/ Return(c)
      PROVE  UNCHANGED <<doc, content, acked>>
  BY <1>8
  DEF Start, StartUpload, StartGet, StartDelete, NextFile, MakeDir, CheckExists,
      ReadExisting, FindMeta, ReadOriginal, Resolve, FindForDelete, Return
<1>9. CASE Crash
  BY <1>9, ObjectsStutter DEF Crash, Orig
<1>10. CASE UNCHANGED <<doc, content, acked>>
  BY <1>10, ObjectsStutter DEF Orig
<1> QED
  BY <1>1, <1>2, <1>3, <1>4, <1>5, <1>6, <1>7, <1>8, <1>9, <1>10
  DEF Next, Step, UploadStep, GetStep, DeleteStep, vars

\* The database and the disk together implement the store clients are
\* promised: nothing but a Delete takes away a file whose id was returned.
THEOREM FileStoreIsAnObjectStore == Spec => ImplementsObjectStore
<1>1. Spec => Objects!Init /\ [][Objects!Next]_(Objects!vars)
  BY InitObjects, StepObjects, Invariance, PTL DEF Spec
<1> QED
  BY <1>1 DEF ImplementsObjectStore, Objects!Spec

=============================================================================
