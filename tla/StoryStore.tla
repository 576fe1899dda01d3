----------------------------- MODULE StoryStore -----------------------------
(***************************************************************************)
(* The documents of one Story on a node: node-agent/src/stories/store.ts,  *)
(* the Story deletion of command-service.ts and the startup recovery of    *)
(* both.  A document is a file under the Story directory and a row of the  *)
(* SQLite index.  writeContent, updateDocument (a move), deleteDocument    *)
(* and delete (of the Story) hold the Story's lock of                      *)
(* operation-coordinator.ts and record an intent row whose phase tells the *)
(* next start how far they came; list and get take no lock.                *)
(*                                                                         *)
(* Abstractions: titles, order and revisions of documents are left out (a  *)
(* client always sends the current revision); a mutation's temporary and   *)
(* backup names are unique, so each mutation number has its own; fs calls  *)
(* of a rollback or a clean-up do not fail, and neither does recovery      *)
(* (a failing start is a crash); two calls that remove the same row at the *)
(* same time count as one.                                                 *)
(***************************************************************************)
EXTENDS Naturals

CONSTANTS Paths,       \* document paths of the Story
          Contents,    \* contents a client can upload
          NoFile,      \* the absence of a file
          Partial,     \* the bytes of an upload that is not complete
          Kinds,       \* operations the clients use
          MaxOps,      \* bound: operations that record an intent
          MaxLists,    \* bound: calls that go on without the lock
          MaxFaults,   \* bound: failing database or file system calls
          MaxCrashes   \* bound: deaths of the process

ASSUME StoryAssumption ==
  /\ MaxOps \in Nat /\ MaxLists \in Nat /\ MaxFaults \in Nat /\ MaxCrashes \in Nat
  /\ Kinds \subseteq {"write", "rename", "delete", "drop", "read", "archive"}
  /\ NoFile \notin Paths \cup Contents \cup {Partial}
  /\ Partial \notin Contents

Muts == 1..MaxOps

VARIABLES
  root,      \* the Story directory: documents, temporary and backup files
  trash,     \* the directory a Story deletion moved away
  index,     \* document rows
  story,     \* the Story row: "active", "archived" or "gone"
  intents,   \* file mutation rows
  del,       \* the deletion intent row
  mode,      \* "down", "files" and "drop" (recovery), "up", "closing"
  op,        \* the operation that holds the lock
  listing,   \* rows a call of project() has still to look at
  removals,  \* removeMissingDocument calls that found no file
  used       \* the counters of the bounds

disk == <<root, trash>>
rows == <<index, story, intents, del>>
lists == <<listing, removals>>
vars == <<root, trash, index, story, intents, del, mode, op, listing, removals, used>>

NoDir == [there |-> FALSE, file |-> [p \in Paths |-> NoFile],
          tmp |-> [m \in Muts |-> NoFile], bak |-> [m \in Muts |-> NoFile]]

NoIntent == [kind |-> "none", path |-> NoFile, next |-> NoFile, phase |-> "none"]
NoDel == [phase |-> "none", trash |-> FALSE]

Requests ==
  {r \in [kind : {"write"}, path : Paths, next : {NoFile}, content : Contents]
         \cup [kind : {"rename"}, path : Paths, next : Paths, content : {NoFile}]
         \cup [kind : {"delete"}, path : Paths, next : {NoFile}, content : {NoFile}]
         \cup [kind : {"drop"}, path : {NoFile}, next : {NoFile}, content : {NoFile}] :
     r.kind \in Kinds /\ (r.kind = "rename" => r.path # r.next)}

NoRequest == [kind |-> "none", path |-> NoFile, next |-> NoFile, content |-> NoFile]
NoOp == [pc |-> "idle", r |-> NoRequest, existing |-> FALSE, m |-> 0]

\* Between two file system calls of one synchronous stretch nothing else runs; a catch
\* clause enters the rollback at once, except that of the drop, which reads the row first.
Sync == op.pc \in {"aside", "undoing", "recovering"} \/ (op.pc = "undo" /\ op.r.kind # "drop")
Uncommitted == {"receiving", "streaming", "prepared", "aside", "moved", "staged"}
Committed == {"committed", "cleaned", "cleanup", "answer"}

\* A call that fails: every database write once storage is closing, or one of the
\* MaxFaults failures of the database and the file system.
Fault ==
  \/ mode = "closing" /\ UNCHANGED used
  \/ mode = "up" /\ used.faults < MaxFaults /\ used' = [used EXCEPT !.faults = @ + 1]

Exists(p) == root.file[p] # NoFile

\* project(): rows without a file are removed from the index.
Projected(rowsNow) == {p \in rowsNow : Exists(p)}

-----------------------------------------------------------------------------
(* Undoing and recovering: functions from the directory to the directory.  *)

\* renameSync(backup, target) after the target was removed.
Restored(r, p, m) == [r EXCEPT !.file[p] = r.bak[m], !.bak[m] = NoFile]
WithoutTmp(r, m) == [r EXCEPT !.tmp[m] = NoFile]
WithoutFile(r, p) == [r EXCEPT !.file[p] = NoFile]
Moved(r, p, q) == [r EXCEPT !.file[q] = r.file[p], !.file[p] = NoFile]

\* The part rename and delete have in common between rollback and recovery.
MovedBack(r, kind, p, q, m) ==
  IF kind = "rename" THEN IF r.file[q] # NoFile /\ r.file[p] = NoFile THEN Moved(r, q, p) ELSE r
  ELSE IF r.bak[m] # NoFile /\ r.file[p] = NoFile THEN Restored(r, p, m) ELSE r

\* Variant: the rollback of a first upload leaves the new file.
RolledBackKeepingFile(r) ==
  IF op.r.kind # "write" THEN MovedBack(r, op.r.kind, op.r.path, op.r.next, op.m)
  ELSE WithoutTmp(IF op.existing /\ r.bak[op.m] # NoFile THEN Restored(r, op.r.path, op.m) ELSE r, op.m)

\* rollbackFileMutation and the catch clauses of the other two operations.
RolledBack(r) ==
  LET p == op.r.path IN
  IF op.r.kind # "write" THEN MovedBack(r, op.r.kind, p, op.r.next, op.m)
  ELSE WithoutTmp(IF op.existing
                  THEN IF r.bak[op.m] # NoFile THEN Restored(r, p, op.m) ELSE r
                  ELSE WithoutFile(r, p), op.m)

\* Variant: recovery undoes a rename whatever its phase says.
RecoveredByFiles(r, m) ==
  IF intents[m].kind = "rename" THEN MovedBack(r, "rename", intents[m].path, intents[m].next, m) ELSE r

\* Variant: recovery leaves the temporary file of an upload.
RecoveredWithTmp(r, m) ==
  IF intents[m].kind = "write" /\ r.bak[m] # NoFile THEN Restored(r, intents[m].path, m) ELSE r

\* recoverFileMutations for the intent of mutation m.
Recovered(r, m) ==
  LET it == intents[m]
      p == it.path
      staged == it.phase = "files-staged" \/ (it.phase = "prepared" /\ r.tmp[m] = NoFile)
  IN IF it.kind = "none" THEN r
     ELSE IF it.phase \in {"database-committed", "cleanup"}
     THEN IF it.kind = "rename" THEN r
          ELSE [WithoutTmp(r, m) EXCEPT !.bak[m] = NoFile]
     ELSE IF it.kind # "write" THEN MovedBack(r, it.kind, p, it.next, m)
     ELSE WithoutTmp(IF r.bak[m] # NoFile THEN Restored(r, p, m)
                     ELSE IF p \notin index /\ staged THEN WithoutFile(r, p) ELSE r, m)

-----------------------------------------------------------------------------
Init ==
  /\ root = NoDir /\ trash = NoDir
  /\ index = {} /\ story = "active" /\ intents = [m \in Muts |-> NoIntent] /\ del = NoDel
  /\ mode = "up" /\ op = NoOp /\ listing = {} /\ removals = {}
  /\ used = [ops |-> 0, lists |-> 0, faults |-> 0, crashes |-> 0]

\* coordinator.run and the checks up to documents.get; a drop projects the Story first.
Accept(r) ==
  /\ mode = "up" /\ op = NoOp /\ used.ops < MaxOps
  /\ IF r.kind = "drop" THEN story # "gone" ELSE story = "active"
  /\ r.kind = "rename" => r.path \in index /\ r.next \notin index
  /\ r.kind = "delete" => r.path \in index
  /\ op' = [pc |-> "locked", r |-> r, existing |-> r.path \in index, m |-> used.ops + 1]
  /\ used' = [used EXCEPT !.ops = @ + 1]
  /\ index' = IF r.kind = "drop" THEN Projected(index) ELSE index
  /\ UNCHANGED <<disk, story, intents, del, mode, lists>>

\* The checks against the disk that precede the intent.
DiskAgrees ==
  CASE op.r.kind = "write"  -> op.existing = Exists(op.r.path)
    [] op.r.kind = "rename" -> Exists(op.r.path) /\ ~Exists(op.r.next)
    [] OTHER -> TRUE

\* An operation that ends before its intent: a failed check, active runs or sessions
\* that cannot be closed (drop), or a failing insert.
Refuse ==
  /\ op.pc = "locked"
  /\ \/ (~DiskAgrees \/ op.r.kind = "drop") /\ UNCHANGED used
     \/ Fault
  /\ op' = NoOp
  /\ UNCHANGED <<disk, rows, mode, lists>>

InsertIntent ==
  /\ op.pc = "locked" /\ mode = "up" /\ DiskAgrees /\ op.r.kind # "drop"
  /\ LET first == IF op.r.kind = "write" THEN "receiving" ELSE "prepared" IN
       /\ intents' = [intents EXCEPT ![op.m] =
                        [kind |-> op.r.kind, path |-> op.r.path, next |-> op.r.next, phase |-> first]]
       /\ op' = [op EXCEPT !.pc = first]
  /\ root' = [root EXCEPT !.there = @ \/ op.r.kind \in {"write", "rename"}]
  /\ UNCHANGED <<trash, index, story, del, mode, lists, used>>

\* The stream has created the temporary file.
Receive ==
  /\ op.pc = "receiving"
  /\ root' = [root EXCEPT !.tmp[op.m] = Partial]
  /\ op' = [op EXCEPT !.pc = "streaming"]
  /\ UNCHANGED <<trash, rows, mode, lists, used>>

SetPhase(phase) == intents' = [intents EXCEPT ![op.m].phase = phase]

\* Variant: the phase is recorded before the upload is complete.
PrepareEarly ==
  /\ op.pc = "streaming" /\ mode = "up"
  /\ SetPhase("prepared")
  /\ op' = [op EXCEPT !.pc = "prepared"]
  /\ UNCHANGED <<disk, index, story, del, mode, lists, used>>

\* The upload is complete and synced, and the phase says so.
Prepare ==
  /\ op.pc = "streaming" /\ mode = "up"
  /\ root' = [root EXCEPT !.tmp[op.m] = op.r.content]
  /\ SetPhase("prepared")
  /\ op' = [op EXCEPT !.pc = "prepared"]
  /\ UNCHANGED <<trash, index, story, del, mode, lists, used>>

\* An overwrite moves the old file aside first.
MoveAside ==
  /\ op.pc = "prepared" /\ op.r.kind = "write" /\ op.existing
  /\ root' = [root EXCEPT !.bak[op.m] = root.file[op.r.path], !.file[op.r.path] = NoFile]
  /\ op' = [op EXCEPT !.pc = "aside"]
  /\ UNCHANGED <<trash, rows, mode, lists, used>>

\* The one rename that makes the new state visible on disk.
MoveFile ==
  /\ \/ /\ op.r.kind = "write"
        /\ op.pc = "aside" \/ (op.pc = "prepared" /\ ~op.existing)
        /\ root' = [root EXCEPT !.file[op.r.path] = root.tmp[op.m], !.tmp[op.m] = NoFile]
     \/ /\ op.r.kind = "rename" /\ op.pc = "prepared"
        /\ root' = Moved(root, op.r.path, op.r.next)
     \/ /\ op.r.kind = "delete" /\ op.pc = "prepared" /\ Exists(op.r.path)
        /\ root' = [root EXCEPT !.bak[op.m] = root.file[op.r.path], !.file[op.r.path] = NoFile]
  /\ op' = [op EXCEPT !.pc = "moved"]
  /\ UNCHANGED <<trash, rows, mode, lists, used>>

RecordStaged ==
  /\ op.pc = "moved" /\ mode = "up" /\ op.r.kind # "drop"
  /\ SetPhase("files-staged")
  /\ op' = [op EXCEPT !.pc = "staged"]
  /\ UNCHANGED <<disk, index, story, del, mode, lists, used>>

\* Variant: a move deletes the old row only.
IndexWithoutTarget ==
  IF op.r.kind = "write" THEN index \cup {op.r.path} ELSE index \ {op.r.path}

\* The rows after the transaction: an overwrite updates its row only if it is there.
IndexAfter ==
  CASE op.r.kind = "write"  -> IF op.existing THEN index ELSE index \cup {op.r.path}
    [] op.r.kind = "rename" -> (index \ {op.r.path}) \cup {op.r.next}
    [] op.r.kind = "delete" -> index \ {op.r.path}

Commit ==
  /\ op.pc = "staged" /\ mode = "up" /\ op.r.kind # "drop"
  /\ index' = IndexAfter
  /\ SetPhase("database-committed")
  /\ op' = [op EXCEPT !.pc = "committed"]
  /\ UNCHANGED <<disk, story, del, mode, lists, used>>

RemoveBackup ==
  /\ op.pc = "committed" /\ op.r.kind # "drop"
  /\ root' = IF op.r.kind = "rename" THEN root ELSE [root EXCEPT !.bak[op.m] = NoFile]
  /\ op' = [op EXCEPT !.pc = "cleaned"]
  /\ UNCHANGED <<trash, rows, mode, lists, used>>

RecordCleanup ==
  /\ op.pc = "cleaned" /\ mode = "up" /\ op.r.kind # "drop"
  /\ SetPhase("cleanup")
  /\ op' = [op EXCEPT !.pc = "cleanup"]
  /\ UNCHANGED <<disk, index, story, del, mode, lists, used>>

DeleteIntent ==
  /\ mode = "up" /\ op.r.kind # "drop"
  /\ \/ op.pc = "cleanup" /\ op' = [op EXCEPT !.pc = "answer"]
     \/ op.pc = "undone" /\ op' = NoOp
  /\ intents' = [intents EXCEPT ![op.m] = NoIntent]
  /\ UNCHANGED <<disk, index, story, del, mode, lists, used>>

\* get(id) projects the Story for the answer, and the lock is released.
Answer ==
  /\ op.pc = "answer"
  /\ index' = IF mode = "up" THEN Projected(index) ELSE index
  /\ op' = NoOp
  /\ UNCHANGED <<disk, story, intents, del, mode, lists, used>>

-----------------------------------------------------------------------------
(* Errors of an operation that has an intent.                              *)

\* The client aborts the upload, a file is missing, a call fails: roll back.
Fail ==
  /\ op.r.kind # "drop" /\ op.pc \in Uncommitted
  /\ \/ /\ \/ op.pc \in {"receiving", "streaming"}
           \/ op.r.kind = "delete" /\ op.pc = "prepared" /\ ~Exists(op.r.path)
        /\ UNCHANGED used
     \/ Fault
  /\ op' = [op EXCEPT !.pc = "undo"]
  /\ UNCHANGED <<disk, rows, mode, lists>>

\* Restoring a backup removes the target before it renames.
RollBackPart ==
  /\ op.pc = "undo" /\ op.r.kind = "write" /\ op.existing /\ root.bak[op.m] # NoFile
  /\ root' = WithoutFile(root, op.r.path)
  /\ op' = [op EXCEPT !.pc = "undoing"]
  /\ UNCHANGED <<trash, rows, mode, lists, used>>

RollBack ==
  /\ op.pc \in {"undo", "undoing"} /\ op.r.kind # "drop"
  /\ root' = RolledBack(root)
  /\ op' = [op EXCEPT !.pc = "undone"]
  /\ UNCHANGED <<trash, rows, mode, lists, used>>

\* A failure after the commit, or of the rollback's last write, leaves the intent.
Abandon ==
  /\ op.pc \in {"cleaned", "cleanup", "undone"}
  /\ Fault
  /\ op' = NoOp
  /\ UNCHANGED <<disk, rows, mode, lists>>

-----------------------------------------------------------------------------
(* StoryCommandService.delete: deleteCoordinated.                          *)

PutDeletion(phase, hasTrash) == del' = [phase |-> phase, trash |-> hasTrash]

DropPrepare ==
  /\ op.pc = "locked" /\ op.r.kind = "drop" /\ mode = "up"
  /\ PutDeletion("prepared", FALSE)
  /\ op' = [op EXCEPT !.pc = "prepared"]
  /\ UNCHANGED <<disk, index, story, intents, mode, lists, used>>

DropMove ==
  /\ op.pc = "prepared" /\ op.r.kind = "drop"
  /\ trash' = root /\ root' = NoDir
  /\ op' = [op EXCEPT !.pc = "moved", !.existing = root.there]
  /\ UNCHANGED <<rows, mode, lists, used>>

DropStaged ==
  /\ op.pc = "moved" /\ op.r.kind = "drop" /\ mode = "up"
  /\ PutDeletion("files-staged", op.existing)
  /\ op' = [op EXCEPT !.pc = "staged"]
  /\ UNCHANGED <<disk, index, story, intents, mode, lists, used>>

\* The transaction; file mutation rows restrict the deletion of their Story.
DropCommit ==
  /\ op.pc = "staged" /\ op.r.kind = "drop" /\ mode = "up"
  /\ \A m \in Muts : intents[m] = NoIntent
  /\ story' = "gone" /\ index' = {}
  /\ PutDeletion("database-committed", op.existing)
  /\ op' = [op EXCEPT !.pc = "committed"]
  /\ UNCHANGED <<disk, intents, mode, lists, used>>

\* rmSync(trash), the phase cleanup and the end of the intent.
DropClean ==
  /\ op.r.kind = "drop"
  /\ \/ /\ op.pc = "committed" /\ op' = [op EXCEPT !.pc = "cleaned"]
        /\ trash' = NoDir /\ UNCHANGED del
     \/ /\ op.pc = "cleaned" /\ mode = "up" /\ op' = [op EXCEPT !.pc = "cleanup"]
        /\ PutDeletion("cleanup", op.existing) /\ UNCHANGED trash
     \/ /\ op.pc = "cleanup" /\ mode = "up" /\ op' = NoOp
        /\ del' = NoDel /\ UNCHANGED trash
  /\ UNCHANGED <<root, index, story, intents, mode, lists, used>>

\* Variant: a transaction that finds a file mutation is not an error.
DropFailOnFault ==
  /\ op.r.kind = "drop" /\ op.pc \in {"prepared", "moved", "staged"}
  /\ Fault
  /\ op' = [op EXCEPT !.pc = "undo"]
  /\ UNCHANGED <<disk, rows, mode, lists>>

\* The transaction finds an active run or a file mutation, or a call fails.
DropFail ==
  /\ op.r.kind = "drop" /\ op.pc \in {"prepared", "moved", "staged"}
  /\ (op.pc = "staged" /\ UNCHANGED used) \/ Fault
  /\ op' = [op EXCEPT !.pc = "undo"]
  /\ UNCHANGED <<disk, rows, mode, lists>>

DropRestore ==
  /\ op.r.kind = "drop" /\ op.pc = "undo"
  /\ IF trash.there /\ ~root.there THEN root' = trash /\ trash' = NoDir ELSE UNCHANGED disk
  /\ op' = [op EXCEPT !.pc = "undone"]
  /\ UNCHANGED <<rows, mode, lists, used>>

DropUndone ==
  /\ op.r.kind = "drop" /\ op.pc = "undone" /\ mode = "up"
  /\ del' = NoDel /\ op' = NoOp
  /\ UNCHANGED <<disk, index, story, intents, mode, lists, used>>

-----------------------------------------------------------------------------
(* Callers without the lock, and readers that keep it while they stream.   *)

\* A call that goes on without the lock.
Unlocked == used.lists < MaxLists /\ used' = [used EXCEPT !.lists = @ + 1]

\* readContent gives the lock back before it removes the row of a missing file.
Read(p) ==
  /\ mode = "up" /\ op = NoOp /\ "read" \in Kinds /\ story # "gone" /\ p \in index
  /\ IF Exists(p)
     THEN op' = [NoOp EXCEPT !.pc = "reading"] /\ UNCHANGED removals
     ELSE removals' = removals \cup {p} /\ UNCHANGED op
  /\ IF Exists(p) THEN UNCHANGED used ELSE Unlocked
  /\ UNCHANGED <<disk, rows, mode, listing>>

CloseStream ==
  /\ op.pc = "reading"
  /\ op' = NoOp
  /\ UNCHANGED <<disk, rows, mode, lists, used>>

\* project() reads the rows, then opens file after file.
List ==
  /\ mode \in {"up", "closing"} /\ ~Sync /\ story # "gone" /\ Unlocked
  /\ listing' = listing \cup index
  /\ UNCHANGED <<disk, rows, mode, op, removals>>

Look(p) ==
  /\ p \in listing /\ ~Sync
  /\ listing' = listing \ {p}
  /\ removals' = IF Exists(p) THEN removals ELSE removals \cup {p}
  /\ UNCHANGED <<disk, rows, mode, op, used>>

\* removeMissingDocument: a row that is still there goes, and get(id) projects the Story.
RemoveMissing(p) ==
  /\ p \in removals /\ ~Sync
  /\ removals' = removals \ {p}
  /\ IF mode = "up" /\ p \in index
     THEN index' = index \ {p} /\ listing' = listing \cup index'
     ELSE UNCHANGED <<index, listing>>
  /\ UNCHANGED <<disk, story, intents, del, mode, op, used>>

\* archive and restore; the answer projects the Story.
SetArchived ==
  /\ mode = "up" /\ ~Sync /\ story # "gone" /\ "archive" \in Kinds
  /\ Unlocked
  /\ story' = IF story = "active" THEN "archived" ELSE "active"
  /\ listing' = listing \cup index
  /\ UNCHANGED <<disk, index, intents, del, mode, op, removals>>

-----------------------------------------------------------------------------
(* Shutdown, death and the next start.                                     *)

\* onClose: no new operations, and every database write is refused from now on.
Close ==
  /\ mode = "up" /\ ~Sync /\ used.crashes < MaxCrashes
  /\ mode' = "closing"
  /\ UNCHANGED <<disk, rows, op, lists, used>>

\* The process dies, or ends after a shutdown that drained.
Crash ==
  /\ mode # "down" /\ used.crashes < MaxCrashes
  /\ mode' = "down" /\ op' = NoOp /\ listing' = {} /\ removals' = {}
  /\ used' = [used EXCEPT !.crashes = @ + 1]
  /\ UNCHANGED <<disk, rows>>

Start ==
  /\ mode = "down"
  /\ mode' = "files"
  /\ UNCHANGED <<disk, rows, op, lists, used>>

Oldest == CHOOSE m \in Muts : intents[m] # NoIntent /\ \A n \in 1..(m - 1) : intents[n] = NoIntent
Pending == \E m \in Muts : intents[m] # NoIntent

RecoverPart ==
  /\ mode = "files" /\ op.pc = "idle" /\ Pending
  /\ LET it == intents[Oldest] IN
       /\ it.kind = "write" /\ it.phase \notin {"database-committed", "cleanup"}
       /\ root.bak[Oldest] # NoFile
       /\ root' = WithoutFile(root, it.path)
  /\ op' = [op EXCEPT !.pc = "recovering"]
  /\ UNCHANGED <<trash, rows, mode, lists, used>>

RecoverFiles ==
  /\ mode = "files" /\ op.pc \in {"idle", "recovering"} /\ Pending
  /\ root' = Recovered(root, Oldest)
  /\ op' = [op EXCEPT !.pc = "recovered"]
  /\ UNCHANGED <<trash, rows, mode, lists, used>>

RecoverIntent ==
  /\ mode = "files" /\ op.pc = "recovered"
  /\ intents' = [intents EXCEPT ![Oldest] = NoIntent]
  /\ op' = NoOp
  /\ UNCHANGED <<disk, index, story, del, mode, lists, used>>

FilesRecovered ==
  /\ mode = "files" /\ op = NoOp /\ ~Pending
  /\ mode' = "drop"
  /\ UNCHANGED <<disk, rows, op, lists, used>>

\* StoryCommandService.init; a trash directory whose name was never recorded is not
\* found again.
RecoverDrop ==
  /\ mode = "drop" /\ del # NoDel
  /\ IF story # "gone" /\ del.trash /\ trash.there /\ ~root.there
     THEN root' = trash
     ELSE UNCHANGED root
  /\ trash' = NoDir
  /\ del' = NoDel
  /\ UNCHANGED <<index, story, intents, mode, op, lists, used>>

Ready ==
  /\ mode = "drop" /\ del = NoDel
  /\ mode' = "up"
  /\ UNCHANGED <<disk, rows, op, lists, used>>

-----------------------------------------------------------------------------
OpStep ==
  \/ Refuse \/ InsertIntent \/ Receive \/ Prepare \/ MoveAside \/ MoveFile \/ RecordStaged
  \/ Commit \/ RemoveBackup \/ RecordCleanup \/ DeleteIntent \/ Answer
  \/ Fail \/ RollBackPart \/ RollBack \/ Abandon
  \/ DropPrepare \/ DropMove \/ DropStaged \/ DropCommit \/ DropClean
  \/ DropFail \/ DropRestore \/ DropUndone \/ CloseStream

StartStep == Start \/ RecoverPart \/ RecoverFiles \/ RecoverIntent \/ FilesRecovered \/ RecoverDrop \/ Ready

Next ==
  \/ \E r \in Requests : Accept(r)
  \/ \E p \in Paths : Read(p) \/ Look(p) \/ RemoveMissing(p)
  \/ OpStep \/ List \/ SetArchived \/ Close \/ Crash \/ StartStep

Spec == Init /\ [][Next]_vars

\* Fairness: a started operation and a started recovery go on (an upload completes or is
\* aborted, a reader closes its stream), one event loop serves them.
FairSpec == Spec /\ WF_vars(OpStep) /\ WF_vars(StartStep)

-----------------------------------------------------------------------------
(* What the clients see: the directory the next recovery would leave.  An  *)
(* intent whose files are already put right does not count.                *)

Done == IF op.pc = "undone" THEN {op.m} ELSE IF op.pc = "recovered" THEN {Oldest} ELSE {}

\* The Story directory after the recovery of the first n mutations.
Replayed[n \in 0..MaxOps] ==
  IF n = 0 THEN root
  ELSE IF n \in Done THEN Replayed[n - 1] ELSE Recovered(Replayed[n - 1], n)

Directory ==
  IF story = "gone" THEN NoDir
  ELSE IF trash.there /\ ~root.there /\ (op.r.kind = "drop" \/ del.trash) THEN trash
  ELSE Replayed[MaxOps]

Docs == INSTANCE DocumentStore WITH
  docs <- Directory.file,
  req <- [request |-> op.r, done |-> op.pc \in Committed],
  orphans <- {p \in Paths : Directory.file[p] # NoFile} \ index,
  missed <- IF mode = "up" THEN removals ELSE {}

-----------------------------------------------------------------------------
Dirs == [there : BOOLEAN, file : [Paths -> Contents \cup {NoFile}],
         tmp : [Muts -> Contents \cup {NoFile, Partial}], bak : [Muts -> Contents \cup {NoFile}]]

\* The type of every variable.  No document and no backup ever holds the bytes of an
\* incomplete upload, which only the temporary file of writeContent may hold.
TypeOK ==
  /\ root \in Dirs /\ trash \in Dirs
  /\ index \subseteq Paths
  /\ story \in {"active", "archived", "gone"}
  /\ intents \in [Muts -> [kind : {"none", "write", "rename", "delete"}, path : Paths \cup {NoFile},
        next : Paths \cup {NoFile},
        phase : {"none", "receiving", "prepared", "files-staged", "database-committed", "cleanup"}]]
  /\ del \in [phase : {"none", "prepared", "files-staged", "database-committed", "cleanup"}, trash : BOOLEAN]
  /\ mode \in {"down", "files", "drop", "up", "closing"}
  /\ op.r \in Requests \cup {NoRequest} /\ op.m \in 0..MaxOps /\ op.existing \in BOOLEAN
  /\ listing \subseteq Paths /\ removals \subseteq Paths

\* The files on disk implement DocumentStore: whatever fails, dies or restarts between
\* the steps of writeContent, updateDocument, deleteDocument and deleteCoordinated, a
\* request takes effect once and as a whole or not at all, recoverFileMutations decides
\* by the phase which, and nothing else changes a document.  Except that a document whose
\* row was taken away by removeMissingDocument, called without the lock while a request
\* had the file elsewhere, may be lost from then on, and that a deletion of the Story cut
\* short by a death may have taken all of them.
Refines == Docs!Spec

\* While nobody holds the Story's lock, the files that readContent would serve are the
\* ones the next start would leave: no intent an earlier operation left behind undoes
\* the work of a later one.
Settled ==
  mode = "up" /\ op = NoOp /\ story # "gone" /\ ~trash.there => root.file = Directory.file

\* Without intents there is nothing to clean up: rollback, recovery and the normal end
\* all remove the temporary and the backup file before the row that names them.
NoLitter ==
  mode = "up" /\ op = NoOp /\ ~Pending =>
    \A m \in Muts : root.tmp[m] = NoFile /\ root.bak[m] = NoFile

\* The test "file mutation recovery converges write, rename, and delete phases without
\* losing committed content": when nothing is in progress every document has its row.
FilesIndexed ==
  mode = "up" /\ op = NoOp /\ ~Pending => \A p \in Paths : Exists(p) => p \in index

\* As long as nobody lists the Story while it changes, a document keeps its row: commit
\* and file step agree, and a missing file is noticed under the lock only.
RowsKept == used.lists = 0 => FilesIndexed

\* coordinator.run: an operation that got the Story's lock gives it back, and recovery
\* comes to its end, whichever call fails on the way.
LockReleased == op # NoOp ~> op = NoOp

\* The test "Story deletion recovery restores staged content when database deletion did
\* not commit": after a start every row of an existing Story has its file.
IndexedFilesExist ==
  mode = "up" /\ op = NoOp => \A p \in index : Exists(p)
=============================================================================
