-------------------------- MODULE StoryStoreProofs --------------------------
(***************************************************************************)
(* Proofs about StoryStore, for any paths, contents and bounds: its types, *)
(* with which no document ever holds an incomplete upload, and that no     *)
(* temporary or backup file outlives its operation.                        *)
(*                                                                         *)
(* The second needs a hypothesis, OneFailure: see there.  Each theorem has *)
(* an inductive invariant, TypeInv and CleanInv, and each of these one     *)
(* lemma per action or per group of actions that do the same to it.        *)
(***************************************************************************)
EXTENDS StoryStore, NaturalsInduction, WellFoundedInduction, TLAPS

FileKinds == {"write", "rename", "delete"}
Final == {"database-committed", "cleanup"}

\* Points of an operation at which its intent is on record and not yet committed.
Going == {"receiving", "streaming", "prepared", "aside", "moved", "staged"}
Undoing == {"undo", "undoing", "undone"}
Ending == {"committed", "cleaned", "cleanup"}
Points == {"idle", "locked", "answer", "reading", "recovering", "recovered"} \cup Going \cup Undoing \cup Ending

Active == {"locked", "answer"} \cup Going \cup Undoing \cup Ending

OpType == [pc : Points, r : Requests \cup {NoRequest}, existing : BOOLEAN, m : 0..MaxOps]
Phases == {"none", "receiving", "prepared", "files-staged"} \cup Final
IntentType == [kind : {"none"} \cup FileKinds, path : Paths \cup {NoFile}, next : Paths \cup {NoFile},
               phase : Phases]
DelType == [phase : {"none", "prepared", "files-staged"} \cup Final, trash : BOOLEAN]

UsedType == [ops : 0..MaxOps, lists : Nat, faults : Nat, crashes : Nat]

\* The type of every variable.
Types ==
  /\ root \in Dirs /\ trash \in Dirs /\ index \subseteq Paths /\ story \in {"active", "archived", "gone"}
  /\ intents \in [Muts -> IntentType] /\ del \in DelType
  /\ mode \in {"down", "files", "drop", "up", "closing"} /\ op \in OpType
  /\ listing \subseteq Paths /\ removals \subseteq Paths /\ used \in UsedType

\* An operation past its checks has a request and a mutation number, and only an upload
\* passes the points of an upload; recovery runs without an operation.
OpOK ==
  /\ op.pc \in Active => op.r \in Requests /\ op.m \in Muts
  /\ op.pc \in {"receiving", "streaming", "aside", "undoing"} => op.r.kind = "write"
  /\ op.pc \in {"recovering", "recovered"} => mode = "files"
  /\ mode \in {"down", "files", "drop"} => op.pc \in {"idle", "recovering", "recovered"} /\ op.m = 0
  /\ op.pc \in {"idle", "reading", "recovering", "recovered"} => op.m = 0
  /\ mode \in {"down", "drop"} => op = NoOp

\* The file an upload puts in place is complete.
UploadOK == op.r.kind = "write" /\ op.pc \in {"prepared", "aside"} => root.tmp[op.m] \in Contents

\* A row names the path of its document, that of a move the new path too.
NamesOK ==
  \A m \in Muts : /\ intents[m].kind # "none" => intents[m].path \in Paths
                  /\ intents[m].kind = "rename" => intents[m].next \in Paths

TypeInv == Types /\ OpOK /\ UploadOK /\ NamesOK

-----------------------------------------------------------------------------
Litter(d, m) == d.tmp[m] # NoFile \/ d.bak[m] # NoFile

\* The row says which operation is going on and whether its transaction has committed.
RowOK ==
  op.r.kind \in FileKinds /\ op.pc \in Going \cup Undoing \cup Ending =>
    /\ intents[op.m].kind = op.r.kind /\ intents[op.m].path = op.r.path
    /\ intents[op.m].phase \in Final <=> op.pc \in Ending

\* A file set aside is that of the one upload or deletion going on, or the one the process
\* died in, and its row leads to it.
AsideOK ==
  \A m \in Muts : Litter(root, m) =>
    /\ intents[m].kind \in {"write", "delete"}
    /\ \A n \in Muts : Litter(root, n) => n = m
    /\ mode \in {"up", "closing"} =>
         m = op.m /\ op.r.kind \in FileKinds /\ op.pc \in Going \cup {"undo", "undoing", "committed"}

\* A deletion has no temporary file, and what it set aside is no longer in place.
DeleteOK ==
  \A m \in Muts : intents[m].kind = "delete" =>
    /\ root.tmp[m] = NoFile
    /\ root.bak[m] # NoFile /\ intents[m].phase \notin Final => root.file[intents[m].path] = NoFile

\* An upload sets a file aside only if it replaces one, and has no temporary file once it
\* is in place.
WriteOK ==
  /\ op.r.kind = "write" /\ op.pc \in Going \cup Undoing /\ root.bak[op.m] # NoFile => op.existing
  /\ op.r.kind = "write" /\ op.pc \in {"moved", "staged", "committed"} => root.tmp[op.m] = NoFile

\* Nothing is set aside when the next start takes a move back.
MoveOpen(m) == intents[m].kind = "rename" /\ intents[m].phase \notin Final
MoveClean == \A m \in Muts : MoveOpen(m) => \A n \in Muts : ~Litter(root, n)

\* A move that is not committed leaves no row behind while the process goes on.
MoveGoing ==
  \A m \in Muts : MoveOpen(m) =>
    /\ mode = "up" => m = op.m /\ op.r.kind = "rename" /\ op.pc \in Going \cup Undoing
    /\ mode = "closing" => (m = op.m /\ op.r.kind = "rename" /\ op.pc \in Going \cup Undoing) \/ op = NoOp

\* Only a failing call makes a move turn back before the shutdown.
MoveFailed == op.r.kind = "rename" /\ op.pc \in Undoing /\ mode = "up" => used.faults > 0

\* What recovery has put right is clean before its row goes.
RecoveryOK ==
  /\ op.pc = "recovered" => Pending /\ ~Litter(root, Oldest)
  /\ op.pc = "recovering" => Pending
  /\ mode = "drop" => ~Pending

CleanInv ==
  /\ RowOK /\ AsideOK /\ DeleteOK /\ WriteOK /\ MoveClean /\ MoveGoing /\ MoveFailed /\ RecoveryOK
  /\ \A m \in Muts : ~Litter(trash, m)

\* At most one call of the database or the file system fails.  With two, a move can be
\* undone and leave its row: the next start may then bring a file back to a path whose
\* document a later deletion, cut short by a death, has set aside, and the backup stays.
OneFailure == MaxFaults <= 1

-----------------------------------------------------------------------------
(* Requests, and what the functions on directories do.                     *)

LEMMA RequestFacts ==
  ASSUME NEW r \in Requests
  PROVE  /\ r.kind \in FileKinds \cup {"drop"}
         /\ r.path \in Paths \cup {NoFile} /\ r.next \in Paths \cup {NoFile}
         /\ r.kind = "write" => r.path \in Paths /\ r.content \in Contents
         /\ r.kind = "rename" => r.path \in Paths /\ r.next \in Paths
         /\ r.kind = "delete" => r.path \in Paths
BY DEF Requests, FileKinds

LEMMA NoRequestFacts == NoRequest.kind = "none" /\ NoOp.pc = "idle" /\ NoOp.m = 0 /\ NoOp.r = NoRequest
BY DEF NoRequest, NoOp

LEMMA NoOpType == NoOp \in OpType
<1>1. 0 \in 0..MaxOps
  BY StoryAssumption
<1> QED BY <1>1 DEF NoOp, OpType, Points

\* A directory and its three parts.
LEMMA DirParts ==
  ASSUME NEW d \in Dirs
  PROVE  /\ d.there \in BOOLEAN /\ d.file \in [Paths -> Contents \cup {NoFile}]
         /\ d.tmp \in [Muts -> Contents \cup {NoFile, Partial}] /\ d.bak \in [Muts -> Contents \cup {NoFile}]
BY DEF Dirs

LEMMA NoDirFacts == NoDir \in Dirs /\ \A m \in Muts : ~Litter(NoDir, m)
BY DEF NoDir, Dirs, Litter

LEMMA WithoutTmpFacts ==
  ASSUME NEW d \in Dirs, NEW m \in Muts
  PROVE  /\ WithoutTmp(d, m) \in Dirs
         /\ WithoutTmp(d, m).file = d.file /\ WithoutTmp(d, m).bak = d.bak
         /\ WithoutTmp(d, m).tmp = [d.tmp EXCEPT ![m] = NoFile]
BY DEF WithoutTmp, Dirs

LEMMA WithoutFileFacts ==
  ASSUME NEW d \in Dirs, NEW p \in Paths
  PROVE  /\ WithoutFile(d, p) \in Dirs
         /\ WithoutFile(d, p).file = [d.file EXCEPT ![p] = NoFile]
         /\ WithoutFile(d, p).bak = d.bak /\ WithoutFile(d, p).tmp = d.tmp
BY DEF WithoutFile, Dirs

LEMMA RestoredFacts ==
  ASSUME NEW d \in Dirs, NEW p \in Paths, NEW m \in Muts
  PROVE  /\ Restored(d, p, m) \in Dirs
         /\ Restored(d, p, m).bak = [d.bak EXCEPT ![m] = NoFile] /\ Restored(d, p, m).tmp = d.tmp
BY DEF Restored, Dirs

LEMMA MovedFacts ==
  ASSUME NEW d \in Dirs, NEW p \in Paths, NEW q \in Paths
  PROVE  /\ Moved(d, p, q) \in Dirs
         /\ Moved(d, p, q).file = [d.file EXCEPT ![q] = d.file[p], ![p] = NoFile]
         /\ Moved(d, p, q).bak = d.bak /\ Moved(d, p, q).tmp = d.tmp
BY DEF Moved, Dirs

LEMMA MovedBackFacts ==
  ASSUME NEW d \in Dirs, NEW kind \in FileKinds, NEW p \in Paths, NEW q \in Paths \cup {NoFile},
         NEW m \in Muts, kind = "rename" => q \in Paths
  PROVE  /\ MovedBack(d, kind, p, q, m) \in Dirs
         /\ MovedBack(d, kind, p, q, m).tmp = d.tmp
         /\ \A n \in Muts : n # m => MovedBack(d, kind, p, q, m).bak[n] = d.bak[n]
         /\ kind = "rename" => MovedBack(d, kind, p, q, m).bak = d.bak
         /\ kind # "rename" =>
              /\ d.bak[m] = NoFile => MovedBack(d, kind, p, q, m) = d
              /\ d.bak[m] = NoFile \/ d.file[p] = NoFile => MovedBack(d, kind, p, q, m).bak[m] = NoFile
<1>0. d.bak \in [Muts -> Contents \cup {NoFile}]
  BY DirParts
<1>1. CASE kind = "rename"
  <2>1. CASE d.file[q] # NoFile /\ d.file[p] = NoFile
    <3>1. MovedBack(d, kind, p, q, m) = Moved(d, q, p)
      BY <1>1, <2>1 DEF MovedBack
    <3>2. q \in Paths
      BY <1>1
    <3>3. Moved(d, q, p) \in Dirs /\ Moved(d, q, p).tmp = d.tmp /\ Moved(d, q, p).bak = d.bak
      BY <3>2, MovedFacts
    <3> QED BY <1>1, <3>1, <3>3
  <2>2. CASE ~(d.file[q] # NoFile /\ d.file[p] = NoFile)
    BY <1>1, <2>2 DEF MovedBack
  <2> QED BY <2>1, <2>2
<1>2. CASE kind # "rename"
  <2>1. CASE d.bak[m] # NoFile /\ d.file[p] = NoFile
    <3>1. MovedBack(d, kind, p, q, m) = Restored(d, p, m)
      BY <1>2, <2>1 DEF MovedBack
    <3>2. /\ Restored(d, p, m) \in Dirs /\ Restored(d, p, m).tmp = d.tmp
          /\ Restored(d, p, m).bak = [d.bak EXCEPT ![m] = NoFile]
      BY RestoredFacts
    <3> QED BY <1>0, <1>2, <2>1, <3>1, <3>2
  <2>2. CASE ~(d.bak[m] # NoFile /\ d.file[p] = NoFile)
    BY <1>2, <2>2 DEF MovedBack
  <2> QED BY <2>1, <2>2
<1> QED BY <1>1, <1>2

Below == {ss \in Nat \X Nat : ss[1] < ss[2]}

\* A nonempty set of numbers has a least one.
LEMMA LeastNumber ==
  ASSUME NEW S, S \subseteq Nat, S # {}
  PROVE  \E x \in S : \A y \in S : x <= y
<1>1. IsWellFoundedOn(Below, Nat)
  BY NatLessThanWellFounded DEF OpToRel, Below
<1>2. PICK x \in S : \A y \in S : ~(<<y, x>> \in Below)
  BY <1>1, WFMin
<1>3. ASSUME NEW y \in S PROVE x <= y
  <2>1. x \in Nat /\ y \in Nat /\ ~(<<y, x>> \in Below)
    BY <1>2
  <2>2. ~(y < x)
    BY <2>1 DEF Below
  <2> QED BY <2>1, <2>2
<1> QED BY <1>2, <1>3

\* recoverFileMutations finds the oldest row as long as there is one.
LEMMA OldestFacts ==
  ASSUME Pending
  PROVE  Oldest \in Muts /\ intents[Oldest] # NoIntent
<1> DEFINE S == {m \in Muts : intents[m] # NoIntent}
<1>1. S \subseteq Nat /\ S # {}
  BY DEF Pending, Muts
<1> HIDE DEF S
<1>2. PICK m \in S : \A y \in S : m <= y
  BY <1>1, LeastNumber
<1>3. m \in Muts /\ intents[m] # NoIntent /\ MaxOps \in Nat
  BY StoryAssumption DEF S
<1>4. ASSUME NEW n \in 1..(m - 1) PROVE intents[n] = NoIntent
  <2>1. n \in Muts /\ ~(m <= n)
    BY <1>3 DEF Muts
  <2> QED BY <2>1, <1>2 DEF S
<1> QED BY <1>3, <1>4 DEF Oldest

\* Undoing an operation: the temporary file goes, and the backup goes back if there is one
\* and the operation replaced a file (an upload) or the place is free (a deletion).
LEMMA RolledBackFacts ==
  ASSUME Types, op.r \in Requests, op.r.kind # "drop", op.m \in Muts
  PROVE  /\ RolledBack(root) \in Dirs
         /\ \A n \in Muts : n # op.m => RolledBack(root).tmp[n] = root.tmp[n] /\ RolledBack(root).bak[n] = root.bak[n]
         /\ op.r.kind = "write" =>
              /\ RolledBack(root).tmp[op.m] = NoFile
              /\ op.existing \/ root.bak[op.m] = NoFile => RolledBack(root).bak[op.m] = NoFile
         /\ op.r.kind = "delete" =>
              /\ RolledBack(root).tmp[op.m] = root.tmp[op.m]
              /\ root.bak[op.m] = NoFile \/ root.file[op.r.path] = NoFile => RolledBack(root).bak[op.m] = NoFile
         /\ op.r.kind = "rename" => RolledBack(root).tmp = root.tmp /\ RolledBack(root).bak = root.bak
<1> DEFINE m == op.m
           p == op.r.path
           k == op.r.kind
           q == op.r.next
           b == MovedBack(root, k, p, q, m)
           w == IF op.existing THEN IF root.bak[m] # NoFile THEN Restored(root, p, m) ELSE root
                ELSE WithoutFile(root, p)
<1>1. root \in Dirs /\ root.tmp \in [Muts -> Contents \cup {NoFile, Partial}]
      /\ root.bak \in [Muts -> Contents \cup {NoFile}] /\ m \in Muts
  BY DirParts DEF Types
<1>0. p \in Paths
  BY RequestFacts DEF FileKinds
<1> HIDE DEF m, p, k, q
<1>2. CASE op.r.kind # "write"
  <2> HIDE DEF w
  <2>1. RolledBack(root) = b
    BY <1>2 DEF RolledBack, m, p, k, q
  <2>2. (k = "rename" => q \in Paths) /\ k \in FileKinds /\ q \in Paths \cup {NoFile}
    BY RequestFacts DEF k, q
  <2>3. /\ b \in Dirs /\ b.tmp = root.tmp /\ \A n \in Muts : n # m => b.bak[n] = root.bak[n]
        /\ k = "rename" => b.bak = root.bak
        /\ k # "rename" /\ (root.bak[m] = NoFile \/ root.file[p] = NoFile) => b.bak[m] = NoFile
    <3>1. root \in Dirs /\ m \in Muts
      BY <1>1
    <3>2. b \in Dirs
      BY <1>0, <2>2, <3>1, MovedBackFacts
    <3>6. b.tmp = root.tmp
      BY <1>0, <2>2, <3>1, MovedBackFacts
    <3>3. \A n \in Muts : n # m => b.bak[n] = root.bak[n]
      BY <1>0, <2>2, <3>1, MovedBackFacts
    <3>4. k = "rename" => b.bak = root.bak
      BY <1>0, <2>2, <3>1, MovedBackFacts
    <3>5. k # "rename" /\ (root.bak[m] = NoFile \/ root.file[p] = NoFile) => b.bak[m] = NoFile
      BY <1>0, <2>2, <3>1, MovedBackFacts
    <3> QED BY <3>2, <3>3, <3>4, <3>5, <3>6
  <2> HIDE DEF b
  <2> QED BY <1>2, <2>1, <2>3 DEF m, p, k
<1>3. CASE op.r.kind = "write"
  <2>1. RolledBack(root) = WithoutTmp(w, m)
    BY <1>3 DEF RolledBack, m, p
  <2>2. /\ w \in Dirs /\ w.tmp = root.tmp /\ w.bak \in {root.bak, [root.bak EXCEPT ![m] = NoFile]}
        /\ op.existing /\ root.bak[m] # NoFile => w.bak = [root.bak EXCEPT ![m] = NoFile]
    <3>1. CASE op.existing /\ root.bak[m] # NoFile
      <4>1. w = Restored(root, p, m)
        BY <3>1
      <4>2. /\ Restored(root, p, m) \in Dirs /\ Restored(root, p, m).tmp = root.tmp
            /\ Restored(root, p, m).bak = [root.bak EXCEPT ![m] = NoFile]
        BY <1>0, <1>1, RestoredFacts
      <4> QED BY <3>1, <4>1, <4>2
    <3>2. CASE op.existing /\ root.bak[m] = NoFile
      <4>1. w = root
        BY <3>2
      <4> QED BY <1>1, <3>2, <4>1
    <3>3. CASE ~op.existing
      <4>1. w = WithoutFile(root, p)
        BY <3>3
      <4>2. WithoutFile(root, p) \in Dirs
            /\ WithoutFile(root, p).tmp = root.tmp /\ WithoutFile(root, p).bak = root.bak
        BY <1>0, <1>1, WithoutFileFacts
      <4> HIDE DEF w
      <4> QED BY <3>3, <4>1, <4>2
    <3> QED BY <3>1, <3>2, <3>3
  <2> HIDE DEF w
  <2>3. /\ WithoutTmp(w, m) \in Dirs /\ WithoutTmp(w, m).bak = w.bak
        /\ WithoutTmp(w, m).tmp = [w.tmp EXCEPT ![m] = NoFile]
    BY <1>1, <2>2, WithoutTmpFacts
  <2>4. \A n \in Muts : n # m => WithoutTmp(w, m).tmp[n] = root.tmp[n] /\ WithoutTmp(w, m).bak[n] = root.bak[n]
    BY <1>1, <2>2, <2>3
  <2>5. WithoutTmp(w, m).tmp[m] = NoFile
    BY <1>1, <2>2, <2>3
  <2>6. op.existing \/ root.bak[m] = NoFile => WithoutTmp(w, m).bak[m] = NoFile
    BY <1>1, <2>2, <2>3
  <2> QED BY <1>3, <2>1, <2>3, <2>4, <2>5, <2>6 DEF m
<1> QED BY <1>2, <1>3

\* Recovery of one row: nothing of the operation stays aside, and it fills no place unless
\* it takes back a move or what the operation had set aside.
LEMMA RecoveredFacts ==
  ASSUME Types, NamesOK, NEW m \in Muts, intents[m].kind # "none"
  PROVE  /\ Recovered(root, m) \in Dirs
         /\ \A n \in Muts : n # m => Recovered(root, m).tmp[n] = root.tmp[n] /\ Recovered(root, m).bak[n] = root.bak[n]
         /\ intents[m].kind = "rename" => Recovered(root, m).tmp = root.tmp /\ Recovered(root, m).bak = root.bak
         /\ intents[m].kind = "write" => Recovered(root, m).tmp[m] = NoFile /\ Recovered(root, m).bak[m] = NoFile
         /\ intents[m].kind = "delete" =>
              /\ root.tmp[m] = NoFile => Recovered(root, m).tmp[m] = NoFile
              /\ intents[m].phase \in Final \/ root.bak[m] = NoFile \/ root.file[intents[m].path] = NoFile =>
                   Recovered(root, m).bak[m] = NoFile
         /\ intents[m].kind # "rename" /\ root.bak[m] = NoFile =>
              \A s \in Paths : root.file[s] = NoFile => Recovered(root, m).file[s] = NoFile
         /\ intents[m].kind = "rename" /\ intents[m].phase \in Final => Recovered(root, m) = root
<1> DEFINE it == intents[m]
           p == it.path
           k == it.kind
           q == it.next
           b == MovedBack(root, k, p, q, m)
           c == [WithoutTmp(root, m) EXCEPT !.bak[m] = NoFile]
           staged == it.phase = "files-staged" \/ (it.phase = "prepared" /\ root.tmp[m] = NoFile)
           w == IF root.bak[m] # NoFile THEN Restored(root, p, m)
                ELSE IF p \notin index /\ staged THEN WithoutFile(root, p) ELSE root
<1>1. root \in Dirs /\ root.tmp \in [Muts -> Contents \cup {NoFile, Partial}]
      /\ root.bak \in [Muts -> Contents \cup {NoFile}] /\ root.file \in [Paths -> Contents \cup {NoFile}]
  BY DirParts DEF Types
<1>2. p \in Paths /\ k \in FileKinds /\ q \in Paths \cup {NoFile} /\ (k = "rename" => q \in Paths)
  BY DEF Types, IntentType, NamesOK
<1>3. CASE it.phase \in Final /\ k = "rename"
  <2>1. Recovered(root, m) = root
    BY <1>3, <1>2 DEF Recovered, Final
  <2> QED BY <2>1, <1>3, <1>1
<1>4. CASE it.phase \in Final /\ k # "rename"
  <2>1. Recovered(root, m) = c
    BY <1>4, <1>2 DEF Recovered, Final
  <2>2. /\ WithoutTmp(root, m) \in Dirs /\ WithoutTmp(root, m).file = root.file
        /\ WithoutTmp(root, m).bak = root.bak /\ WithoutTmp(root, m).tmp = [root.tmp EXCEPT ![m] = NoFile]
    BY <1>1, WithoutTmpFacts
  <2>3. /\ c \in Dirs /\ c.file = root.file /\ c.tmp = [root.tmp EXCEPT ![m] = NoFile]
        /\ c.bak = [root.bak EXCEPT ![m] = NoFile]
    BY <2>2 DEF Dirs
  <2> HIDE DEF c
  <2>4. \A n \in Muts : n # m => c.tmp[n] = root.tmp[n] /\ c.bak[n] = root.bak[n]
    BY <1>1, <2>3
  <2>5. c.tmp[m] = NoFile /\ c.bak[m] = NoFile
    BY <1>1, <2>3
  <2> QED BY <1>4, <2>1, <2>3, <2>4, <2>5
<1>5. CASE it.phase \notin Final /\ k # "write"
  <2>1. Recovered(root, m) = b
    BY <1>5, <1>2 DEF Recovered, Final
  <2> HIDE DEF it, p, k, q
  <2>2. /\ b \in Dirs /\ b.tmp = root.tmp /\ \A n \in Muts : n # m => b.bak[n] = root.bak[n]
        /\ k = "rename" => b.bak = root.bak
        /\ k # "rename" => /\ root.bak[m] = NoFile => b = root
                           /\ root.bak[m] = NoFile \/ root.file[p] = NoFile => b.bak[m] = NoFile
    BY <1>1, <1>2, MovedBackFacts
  <2> HIDE DEF b
  <2>3. k # "rename" /\ root.bak[m] = NoFile => \A s \in Paths : root.file[s] = NoFile => b.file[s] = NoFile
    BY <2>2
  <2> QED BY <1>5, <2>1, <2>2, <2>3 DEF it, p, k
<1>6. CASE it.phase \notin Final /\ k = "write"
  <2>1. Recovered(root, m) = WithoutTmp(w, m)
    BY <1>6, <1>2 DEF Recovered, Final
  <2> HIDE DEF it, p, k, q, staged
  <2>2. /\ w \in Dirs /\ w.tmp = root.tmp /\ \A n \in Muts : n # m => w.bak[n] = root.bak[n]
        /\ w.bak[m] = NoFile
        /\ root.bak[m] = NoFile => \A s \in Paths : root.file[s] = NoFile => w.file[s] = NoFile
    <3>1. CASE root.bak[m] # NoFile
      <4>1. w = Restored(root, p, m)
        BY <3>1
      <4>2. w \in Dirs /\ w.tmp = root.tmp /\ w.bak = [root.bak EXCEPT ![m] = NoFile]
        BY <1>1, <1>2, <4>1, RestoredFacts
      <4> HIDE DEF w
      <4> QED BY <1>1, <3>1, <4>2
    <3>2. CASE root.bak[m] = NoFile /\ p \notin index /\ staged
      <4>1. w = WithoutFile(root, p)
        BY <3>2
      <4>2. w \in Dirs /\ w.tmp = root.tmp /\ w.bak = root.bak /\ w.file = [root.file EXCEPT ![p] = NoFile]
        BY <1>1, <1>2, <4>1, WithoutFileFacts
      <4> HIDE DEF w
      <4> QED BY <1>1, <3>2, <4>2
    <3>3. CASE root.bak[m] = NoFile /\ ~(p \notin index /\ staged)
      <4>1. w = root
        BY <3>3
      <4> HIDE DEF w
      <4> QED BY <1>1, <3>3, <4>1
    <3> QED BY <3>1, <3>2, <3>3
  <2> HIDE DEF w
  <2>3. /\ WithoutTmp(w, m) \in Dirs /\ WithoutTmp(w, m).bak = w.bak /\ WithoutTmp(w, m).file = w.file
        /\ WithoutTmp(w, m).tmp = [root.tmp EXCEPT ![m] = NoFile]
    BY <2>2, WithoutTmpFacts
  <2>4. \A n \in Muts : n # m => WithoutTmp(w, m).tmp[n] = root.tmp[n] /\ WithoutTmp(w, m).bak[n] = root.bak[n]
    BY <1>1, <2>2, <2>3
  <2>5. WithoutTmp(w, m).tmp[m] = NoFile /\ WithoutTmp(w, m).bak[m] = NoFile
    BY <1>1, <2>2, <2>3
  <2>6. root.bak[m] = NoFile => \A s \in Paths : root.file[s] = NoFile => WithoutTmp(w, m).file[s] = NoFile
    BY <2>2, <2>3
  <2> QED BY <1>6, <2>1, <2>3, <2>4, <2>5, <2>6 DEF it, k
<1> QED BY <1>3, <1>4, <1>5, <1>6

-----------------------------------------------------------------------------
(* The types.  First what every step of an operation has in common.        *)

\* An operation goes on.
LEMMA OpGoesOn ==
  ASSUME TypeInv, op.pc \in Active, mode' = mode,
         NEW x \in Active, op' = [op EXCEPT !.pc = x],
         x \in {"receiving", "streaming", "aside", "undoing"} => op.r.kind = "write"
  PROVE  /\ op' \in OpType /\ op'.pc = x /\ op'.r = op.r /\ op'.existing = op.existing /\ op'.m = op.m
         /\ OpOK' /\ mode \in {"up", "closing"} /\ op.r \in Requests /\ op.m \in Muts
<1>1. op \in OpType /\ x \in Points
  BY DEF TypeInv, Types, Points, Active
<1>2. op' \in OpType /\ op'.pc = x /\ op'.r = op.r /\ op'.existing = op.existing /\ op'.m = op.m
  BY <1>1 DEF OpType
<1>3. op.r \in Requests /\ op.m \in Muts /\ mode \in {"up", "closing"}
  BY DEF TypeInv, Types, OpOK, Active, Going, Undoing, Ending
<1>4. x \notin {"idle", "reading", "recovering", "recovered"}
  BY DEF Active, Going, Undoing, Ending
<1>5. OpOK'
  BY <1>2, <1>3, <1>4 DEF OpOK
<1> QED BY <1>2, <1>3, <1>5

\* Nobody holds the lock afterwards.
LEMMA OpEnds ==
  ASSUME op' = NoOp
  PROVE  op' \in OpType /\ OpOK' /\ UploadOK' /\ op'.pc = "idle" /\ op'.m = 0 /\ op'.r.kind = "none"
<1>1. op'.pc = "idle" /\ op'.m = 0 /\ op'.r.kind = "none" /\ op' \in OpType
  BY NoRequestFacts, NoOpType
<1>2. OpOK'
  BY <1>1 DEF OpOK, Active, Going, Undoing, Ending
<1>3. UploadOK'
  BY <1>1 DEF UploadOK
<1> QED BY <1>1, <1>2, <1>3

LEMMA FaultCounts ==
  ASSUME Types, Fault
  PROVE  /\ used' \in UsedType /\ used'.ops = used.ops
         /\ mode = "closing" \/ (mode = "up" /\ used.faults < MaxFaults /\ used'.faults = used.faults + 1)
BY DEF Types, Fault, UsedType

LEMMA PhaseIsSet ==
  ASSUME Types, NamesOK, op.m \in Muts, NEW x \in Phases, SetPhase(x)
  PROVE  /\ intents' \in [Muts -> IntentType] /\ NamesOK'
         /\ \A n \in Muts : n # op.m => intents'[n] = intents[n]
         /\ \A n \in Muts : /\ intents'[n].kind = intents[n].kind /\ intents'[n].path = intents[n].path
                            /\ intents'[n].next = intents[n].next
         /\ intents'[op.m].phase = x
<1>1. intents \in [Muts -> IntentType]
  BY DEF Types
<1>2. intents' = [intents EXCEPT ![op.m].phase = x]
  BY DEF SetPhase
<1>3. intents' \in [Muts -> IntentType]
  BY <1>1, <1>2 DEF IntentType
<1>4. \A n \in Muts : n # op.m => intents'[n] = intents[n]
  BY <1>1, <1>2
<1>5. intents'[op.m] = [intents[op.m] EXCEPT !.phase = x] /\ intents[op.m] \in IntentType
  BY <1>1, <1>2
<1>6. /\ intents'[op.m].kind = intents[op.m].kind /\ intents'[op.m].path = intents[op.m].path
      /\ intents'[op.m].next = intents[op.m].next /\ intents'[op.m].phase = x
  BY <1>5 DEF IntentType
<1>7. \A n \in Muts : /\ intents'[n].kind = intents[n].kind /\ intents'[n].path = intents[n].path
                      /\ intents'[n].next = intents[n].next
  BY <1>4, <1>6
<1>8. NamesOK'
  BY <1>7 DEF NamesOK
<1> QED BY <1>3, <1>4, <1>6, <1>7, <1>8

LEMMA RowIsRemoved ==
  ASSUME Types, NamesOK, NEW k \in Muts, intents' = [intents EXCEPT ![k] = NoIntent]
  PROVE  /\ intents' \in [Muts -> IntentType] /\ NamesOK'
         /\ \A n \in Muts : n # k => intents'[n] = intents[n]
         /\ intents'[k] = NoIntent /\ intents'[k].kind = "none"
<1>1. intents \in [Muts -> IntentType] /\ NoIntent \in IntentType /\ NoIntent.kind = "none"
  BY DEF Types, NoIntent, IntentType, Phases
<1>2. /\ intents' \in [Muts -> IntentType] /\ intents'[k] = NoIntent
      /\ \A n \in Muts : n # k => intents'[n] = intents[n]
  BY <1>1
<1>3. NamesOK'
  BY <1>1, <1>2 DEF NamesOK
<1> QED BY <1>1, <1>2, <1>3

\* The four other changes of a directory.
WithTmp(d, m, c) == [d EXCEPT !.tmp[m] = c]
Aside(d, p, m) == [d EXCEPT !.bak[m] = d.file[p], !.file[p] = NoFile]
InPlace(d, p, m) == [d EXCEPT !.file[p] = d.tmp[m], !.tmp[m] = NoFile]
WithoutBak(d, m) == [d EXCEPT !.bak[m] = NoFile]

LEMMA WithTmpFacts ==
  ASSUME NEW d \in Dirs, NEW m \in Muts, NEW c \in Contents \cup {NoFile, Partial}
  PROVE  /\ WithTmp(d, m, c) \in Dirs /\ WithTmp(d, m, c).file = d.file /\ WithTmp(d, m, c).bak = d.bak
         /\ WithTmp(d, m, c).tmp = [d.tmp EXCEPT ![m] = c]
BY DEF Dirs, WithTmp

LEMMA AsideFacts ==
  ASSUME NEW d \in Dirs, NEW p \in Paths, NEW m \in Muts
  PROVE  /\ Aside(d, p, m) \in Dirs /\ Aside(d, p, m).tmp = d.tmp
         /\ Aside(d, p, m).bak = [d.bak EXCEPT ![m] = d.file[p]]
         /\ Aside(d, p, m).file = [d.file EXCEPT ![p] = NoFile]
BY DEF Dirs, Aside

LEMMA InPlaceFacts ==
  ASSUME NEW d \in Dirs, NEW p \in Paths, NEW m \in Muts, d.tmp[m] \in Contents
  PROVE  /\ InPlace(d, p, m) \in Dirs /\ InPlace(d, p, m).bak = d.bak
         /\ InPlace(d, p, m).tmp = [d.tmp EXCEPT ![m] = NoFile]
BY DEF Dirs, InPlace

LEMMA WithoutBakFacts ==
  ASSUME NEW d \in Dirs, NEW m \in Muts
  PROVE  /\ WithoutBak(d, m) \in Dirs /\ WithoutBak(d, m).file = d.file /\ WithoutBak(d, m).tmp = d.tmp
         /\ WithoutBak(d, m).bak = [d.bak EXCEPT ![m] = NoFile]
BY DEF Dirs, WithoutBak

LEMMA Created ==
  ASSUME NEW d \in Dirs, NEW b \in BOOLEAN, NEW e, e = [d EXCEPT !.there = @ \/ b]
  PROVE  e \in Dirs /\ e.file = d.file /\ e.tmp = d.tmp /\ e.bak = d.bak
BY DEF Dirs

-----------------------------------------------------------------------------
\* coordinator.run gives the lock to a new operation.
LEMMA AcceptTypes ==
  ASSUME TypeInv, NEW r \in Requests, Accept(r)
  PROVE  TypeInv' /\ op'.pc = "locked" /\ op'.r = r /\ op'.m \in Muts
<1>1. used \in UsedType /\ MaxOps \in Nat /\ used.ops < MaxOps
  BY StoryAssumption DEF TypeInv, Types, Accept
<1>2. used.ops + 1 \in Muts /\ used.ops + 1 \in 0..MaxOps
  BY <1>1 DEF UsedType, Muts
<1>3. used' \in UsedType
  BY <1>1, <1>2 DEF Accept, UsedType
<1>4. op' = [pc |-> "locked", r |-> r, existing |-> r.path \in index, m |-> used.ops + 1]
  BY DEF Accept
<1>5. op' \in OpType /\ op'.pc = "locked" /\ op'.r = r /\ op'.m \in Muts
  BY <1>2, <1>4 DEF OpType, Points
<1>6. index' \subseteq Paths
  BY DEF Accept, TypeInv, Types, Projected
<1>7. Types'
  BY <1>3, <1>5, <1>6 DEF Accept, TypeInv, Types, disk, lists
<1>8. OpOK'
  BY <1>5 DEF Accept, OpOK
<1>9. UploadOK' /\ NamesOK'
  BY <1>5 DEF Accept, UploadOK, TypeInv, NamesOK
<1> QED BY <1>5, <1>7, <1>8, <1>9 DEF TypeInv

LEMMA RefuseTypes ==
  ASSUME TypeInv, Refuse
  PROVE  TypeInv'
<1>1. op' = NoOp
  BY DEF Refuse
<1>2. used' \in UsedType
  <2>1. CASE Fault
    BY <2>1, FaultCounts DEF TypeInv
  <2>2. CASE used' = used
    BY <2>2 DEF TypeInv, Types
  <2> QED BY <2>1, <2>2 DEF Refuse
<1>3. Types'
  BY <1>1, <1>2, OpEnds DEF Refuse, TypeInv, Types, disk, rows, lists
<1>4. OpOK' /\ UploadOK' /\ NamesOK'
  BY <1>1, OpEnds DEF Refuse, TypeInv, NamesOK, rows
<1> QED BY <1>3, <1>4 DEF TypeInv

LEMMA InsertIntentTypes ==
  ASSUME TypeInv, InsertIntent
  PROVE  TypeInv'
<1> DEFINE first == IF op.r.kind = "write" THEN "receiving" ELSE "prepared"
           new == [kind |-> op.r.kind, path |-> op.r.path, next |-> op.r.next, phase |-> first]
<1>1. op.pc \in Active /\ mode' = mode /\ op' = [op EXCEPT !.pc = first] /\ first \in Active
  BY DEF InsertIntent, Active, Going
<1>2. /\ op' \in OpType /\ op'.pc = first /\ op'.r = op.r /\ op'.m = op.m
      /\ OpOK' /\ op.r \in Requests /\ op.m \in Muts
  BY <1>1, OpGoesOn
<1>3. op.r.kind \in FileKinds /\ op.r.path \in Paths /\ op.r.next \in Paths \cup {NoFile}
      /\ (op.r.kind = "rename" => op.r.next \in Paths)
  BY <1>2, RequestFacts DEF InsertIntent, FileKinds
<1>4. new \in IntentType /\ new.kind = op.r.kind /\ new.path = op.r.path /\ new.next = op.r.next
  BY <1>3 DEF IntentType, Phases
<1>5. intents \in [Muts -> IntentType] /\ intents' = [intents EXCEPT ![op.m] = new]
  BY DEF TypeInv, Types, InsertIntent
<1> HIDE DEF new
<1>6. /\ intents' \in [Muts -> IntentType] /\ intents'[op.m] = new
      /\ \A n \in Muts : n # op.m => intents'[n] = intents[n]
  BY <1>2, <1>4, <1>5
<1>7. NamesOK'
  BY <1>3, <1>4, <1>6 DEF NamesOK, TypeInv
<1>8. root' \in Dirs
  BY Created DEF InsertIntent, TypeInv, Types
<1>9. Types'
  BY <1>2, <1>6, <1>8 DEF InsertIntent, TypeInv, Types, lists
<1>10. UploadOK'
  BY <1>2 DEF UploadOK
<1> QED BY <1>2, <1>7, <1>9, <1>10 DEF TypeInv

LEMMA ReceiveTypes ==
  ASSUME TypeInv, Receive
  PROVE  TypeInv'
<1>1. op.pc \in Active /\ mode' = mode /\ op' = [op EXCEPT !.pc = "streaming"] /\ "streaming" \in Active /\ op.r.kind = "write"
  BY DEF Receive, Active, Going, TypeInv, OpOK
<1>2. op' \in OpType /\ op'.pc = "streaming" /\ OpOK' /\ op.m \in Muts
  BY <1>1, OpGoesOn
<1>3. root' \in Dirs
  BY <1>2, WithTmpFacts DEF Receive, TypeInv, Types, WithTmp
<1>4. Types'
  BY <1>2, <1>3 DEF Receive, TypeInv, Types, rows, lists
<1>5. UploadOK' /\ NamesOK'
  BY <1>2 DEF UploadOK, NamesOK, TypeInv, Receive, rows
<1> QED BY <1>2, <1>4, <1>5 DEF TypeInv

LEMMA PrepareTypes ==
  ASSUME TypeInv, Prepare
  PROVE  TypeInv'
<1>1. op.pc \in Active /\ mode' = mode /\ op' = [op EXCEPT !.pc = "prepared"] /\ "prepared" \in Active /\ op.r.kind = "write"
  BY DEF Prepare, Active, Going, TypeInv, OpOK
<1>2. op' \in OpType /\ op'.pc = "prepared" /\ op'.m = op.m /\ OpOK' /\ op.m \in Muts /\ op.r \in Requests
  BY <1>1, OpGoesOn
<1>3. op.r.content \in Contents
  BY <1>1, <1>2, RequestFacts
<1>4. root' \in Dirs /\ root'.tmp = [root.tmp EXCEPT ![op.m] = op.r.content]
  <2>1. root \in Dirs /\ root' = WithTmp(root, op.m, op.r.content)
    BY DEF Prepare, TypeInv, Types, WithTmp
  <2> QED BY <1>2, <1>3, <2>1, WithTmpFacts
<1>5. root'.tmp[op.m] \in Contents
  BY <1>2, <1>3, <1>4, DirParts DEF TypeInv, Types
<1>6. intents' \in [Muts -> IntentType] /\ NamesOK'
  BY <1>2, PhaseIsSet DEF Prepare, TypeInv, Phases
<1>7. Types'
  BY <1>2, <1>4, <1>6 DEF Prepare, TypeInv, Types, lists
<1>8. UploadOK'
  BY <1>2, <1>5 DEF UploadOK
<1> QED BY <1>2, <1>6, <1>7, <1>8 DEF TypeInv

LEMMA MoveAsideTypes ==
  ASSUME TypeInv, MoveAside
  PROVE  TypeInv'
<1>1. op.pc \in Active /\ mode' = mode /\ op' = [op EXCEPT !.pc = "aside"] /\ "aside" \in Active /\ op.r.kind = "write"
  BY DEF MoveAside, Active, Going
<1>2. op' \in OpType /\ op'.pc = "aside" /\ op'.m = op.m /\ OpOK' /\ op.m \in Muts /\ op.r \in Requests
  BY <1>1, OpGoesOn
<1>3. op.r.path \in Paths
  BY <1>1, <1>2, RequestFacts
<1>4. root' \in Dirs /\ root'.tmp = root.tmp
  <2>1. root \in Dirs /\ root' = Aside(root, op.r.path, op.m)
    BY DEF MoveAside, TypeInv, Types, Aside
  <2> QED BY <1>2, <1>3, <2>1, AsideFacts
<1>5. root.tmp[op.m] \in Contents
  BY <1>1 DEF MoveAside, TypeInv, UploadOK
<1>6. Types'
  BY <1>2, <1>4 DEF MoveAside, TypeInv, Types, rows, lists
<1>7. UploadOK' /\ NamesOK'
  BY <1>2, <1>4, <1>5 DEF UploadOK, NamesOK, TypeInv, MoveAside, rows
<1> QED BY <1>2, <1>6, <1>7 DEF TypeInv

LEMMA MoveFileTypes ==
  ASSUME TypeInv, MoveFile
  PROVE  TypeInv'
<1>1. op.pc \in Active /\ mode' = mode /\ op' = [op EXCEPT !.pc = "moved"] /\ "moved" \in Active
  BY DEF MoveFile, Active, Going
<1>2. op' \in OpType /\ op'.pc = "moved" /\ op'.m = op.m /\ OpOK' /\ op.m \in Muts /\ op.r \in Requests
  BY <1>1, OpGoesOn
<1>3. op.r.kind \in FileKinds /\ op.r.path \in Paths /\ (op.r.kind = "rename" => op.r.next \in Paths) /\ root \in Dirs
  BY <1>2, RequestFacts DEF MoveFile, FileKinds, TypeInv, Types
<1>4. root' \in Dirs
  <2>1. CASE op.r.kind = "write"
    <3>1. root' = InPlace(root, op.r.path, op.m) /\ op.pc \in {"prepared", "aside"}
      BY <2>1 DEF MoveFile, InPlace
    <3>2. root.tmp[op.m] \in Contents
      BY <2>1, <3>1 DEF TypeInv, UploadOK
    <3> QED BY <1>2, <1>3, <3>1, <3>2, InPlaceFacts
  <2>2. CASE op.r.kind = "rename"
    <3>1. root' = Moved(root, op.r.path, op.r.next) /\ op.r.next \in Paths
      BY <1>3, <2>2 DEF MoveFile
    <3> QED BY <1>3, <3>1, MovedFacts
  <2>3. CASE op.r.kind = "delete"
    <3>1. root' = Aside(root, op.r.path, op.m)
      BY <2>3 DEF MoveFile, Aside
    <3> QED BY <1>2, <1>3, <3>1, AsideFacts
  <2> QED BY <1>3, <2>1, <2>2, <2>3 DEF FileKinds
<1>5. Types'
  BY <1>2, <1>4 DEF MoveFile, TypeInv, Types, rows, lists
<1>6. UploadOK' /\ NamesOK'
  BY <1>2 DEF UploadOK, NamesOK, TypeInv, MoveFile, rows
<1> QED BY <1>2, <1>5, <1>6 DEF TypeInv

LEMMA RecordStagedTypes ==
  ASSUME TypeInv, RecordStaged
  PROVE  TypeInv'
<1>1. op.pc \in Active /\ mode' = mode /\ op' = [op EXCEPT !.pc = "staged"] /\ "staged" \in Active
  BY DEF RecordStaged, Active, Going
<1>2. op' \in OpType /\ op'.pc = "staged" /\ OpOK' /\ op.m \in Muts
  BY <1>1, OpGoesOn
<1>3. intents' \in [Muts -> IntentType] /\ NamesOK'
  BY <1>2, PhaseIsSet DEF RecordStaged, TypeInv, Phases
<1>4. Types' /\ UploadOK'
  BY <1>2, <1>3 DEF RecordStaged, TypeInv, Types, lists, disk, UploadOK
<1> QED BY <1>2, <1>3, <1>4 DEF TypeInv

LEMMA CommitTypes ==
  ASSUME TypeInv, Commit
  PROVE  TypeInv'
<1>1. op.pc \in Active /\ mode' = mode /\ op' = [op EXCEPT !.pc = "committed"] /\ "committed" \in Active
  BY DEF Commit, Active, Going, Ending
<1>2. op' \in OpType /\ op'.pc = "committed" /\ OpOK' /\ op.m \in Muts /\ op.r \in Requests
  BY <1>1, OpGoesOn
<1>3. intents' \in [Muts -> IntentType] /\ NamesOK'
  BY <1>2, PhaseIsSet DEF Commit, TypeInv, Phases, Final
<1>4. op.r.kind \in FileKinds /\ op.r.path \in Paths /\ (op.r.kind = "rename" => op.r.next \in Paths) /\ index \subseteq Paths
  BY <1>2, RequestFacts DEF Commit, FileKinds, TypeInv, Types
<1>5. IndexAfter \subseteq Paths
  <2>1. CASE op.r.kind = "write"
    BY <1>4, <2>1 DEF IndexAfter
  <2>2. CASE op.r.kind = "rename"
    BY <1>4, <2>2 DEF IndexAfter
  <2>3. CASE op.r.kind = "delete"
    BY <1>4, <2>3 DEF IndexAfter
  <2> QED BY <1>4, <2>1, <2>2, <2>3 DEF FileKinds
<1>6. Types' /\ UploadOK'
  BY <1>2, <1>3, <1>5 DEF Commit, TypeInv, Types, lists, disk, UploadOK
<1> QED BY <1>2, <1>3, <1>6 DEF TypeInv

LEMMA RemoveBackupTypes ==
  ASSUME TypeInv, RemoveBackup
  PROVE  TypeInv'
<1>1. op.pc \in Active /\ mode' = mode /\ op' = [op EXCEPT !.pc = "cleaned"] /\ "cleaned" \in Active
  BY DEF RemoveBackup, Active, Ending
<1>2. op' \in OpType /\ op'.pc = "cleaned" /\ OpOK' /\ op.m \in Muts
  BY <1>1, OpGoesOn
<1>3. root' \in Dirs
  <2>1. CASE op.r.kind = "rename"
    BY <2>1 DEF RemoveBackup, TypeInv, Types
  <2>2. CASE op.r.kind # "rename"
    BY <1>2, <2>2, WithoutBakFacts DEF RemoveBackup, TypeInv, Types, WithoutBak
  <2> QED BY <2>1, <2>2
<1>4. Types' /\ UploadOK' /\ NamesOK'
  BY <1>2, <1>3 DEF RemoveBackup, TypeInv, Types, rows, lists, UploadOK, NamesOK
<1> QED BY <1>2, <1>4 DEF TypeInv

LEMMA RecordCleanupTypes ==
  ASSUME TypeInv, RecordCleanup
  PROVE  TypeInv'
<1>1. op.pc \in Active /\ mode' = mode /\ op' = [op EXCEPT !.pc = "cleanup"] /\ "cleanup" \in Active
  BY DEF RecordCleanup, Active, Ending
<1>2. op' \in OpType /\ op'.pc = "cleanup" /\ OpOK' /\ op.m \in Muts
  BY <1>1, OpGoesOn
<1>3. intents' \in [Muts -> IntentType] /\ NamesOK'
  BY <1>2, PhaseIsSet DEF RecordCleanup, TypeInv, Phases, Final
<1>4. Types' /\ UploadOK'
  BY <1>2, <1>3 DEF RecordCleanup, TypeInv, Types, lists, disk, UploadOK
<1> QED BY <1>2, <1>3, <1>4 DEF TypeInv

LEMMA DeleteIntentTypes ==
  ASSUME TypeInv, DeleteIntent
  PROVE  TypeInv' /\ op.m \in Muts /\ op.pc \in {"cleanup", "undone"}
<1>1. op.pc \in Active /\ op.pc \in {"cleanup", "undone"} /\ mode' = mode /\ "answer" \in Active
      /\ (op' = NoOp \/ op' = [op EXCEPT !.pc = "answer"])
  BY DEF DeleteIntent, Active, Ending, Undoing
<1>2. op.m \in Muts
  BY <1>1 DEF TypeInv, OpOK
<1>3. op' \in OpType /\ OpOK' /\ UploadOK'
  <2>1. CASE op' = NoOp
    BY <2>1, OpEnds
  <2>2. CASE op' = [op EXCEPT !.pc = "answer"]
    <3>1. op' \in OpType /\ OpOK' /\ op'.pc = "answer"
      BY <1>1, <2>2, OpGoesOn
    <3> QED BY <3>1 DEF UploadOK
  <2> QED BY <1>1, <2>1, <2>2
<1>4. intents' \in [Muts -> IntentType] /\ NamesOK'
  BY <1>2, RowIsRemoved DEF DeleteIntent, TypeInv
<1>5. Types'
  BY <1>3, <1>4 DEF DeleteIntent, TypeInv, Types, lists, disk
<1> QED BY <1>1, <1>2, <1>3, <1>4, <1>5 DEF TypeInv

LEMMA AnswerTypes ==
  ASSUME TypeInv, Answer
  PROVE  TypeInv'
<1>1. op' = NoOp
  BY DEF Answer
<1>2. index' \subseteq Paths
  BY DEF Answer, TypeInv, Types, Projected
<1>3. Types'
  BY <1>1, <1>2, OpEnds DEF Answer, TypeInv, Types, disk, lists
<1>4. OpOK' /\ UploadOK' /\ NamesOK'
  BY <1>1, OpEnds DEF Answer, TypeInv, NamesOK
<1> QED BY <1>3, <1>4 DEF TypeInv

LEMMA FailTypes ==
  ASSUME TypeInv, Fail
  PROVE  TypeInv'
<1>1. op.pc \in Active /\ mode' = mode /\ op' = [op EXCEPT !.pc = "undo"] /\ "undo" \in Active
  BY DEF Fail, Active, Going, Undoing, Uncommitted
<1>2. op' \in OpType /\ op'.pc = "undo" /\ OpOK'
  BY <1>1, OpGoesOn
<1>3. used' \in UsedType
  <2>1. CASE Fault
    BY <2>1, FaultCounts DEF TypeInv
  <2>2. CASE used' = used
    BY <2>2 DEF TypeInv, Types
  <2> QED BY <2>1, <2>2 DEF Fail
<1>4. Types' /\ UploadOK' /\ NamesOK'
  BY <1>2, <1>3 DEF Fail, TypeInv, Types, disk, rows, lists, UploadOK, NamesOK
<1> QED BY <1>2, <1>4 DEF TypeInv

LEMMA RollBackPartTypes ==
  ASSUME TypeInv, RollBackPart
  PROVE  TypeInv'
<1>1. op.pc \in Active /\ mode' = mode /\ op' = [op EXCEPT !.pc = "undoing"] /\ "undoing" \in Active /\ op.r.kind = "write"
  BY DEF RollBackPart, Active, Undoing
<1>2. op' \in OpType /\ op'.pc = "undoing" /\ OpOK' /\ op.r \in Requests
  BY <1>1, OpGoesOn
<1>3. op.r.path \in Paths
  BY <1>1, <1>2, RequestFacts
<1>4. root' \in Dirs
  BY <1>3, WithoutFileFacts DEF RollBackPart, TypeInv, Types
<1>5. Types' /\ UploadOK' /\ NamesOK'
  BY <1>2, <1>4 DEF RollBackPart, TypeInv, Types, rows, lists, UploadOK, NamesOK
<1> QED BY <1>2, <1>5 DEF TypeInv

LEMMA RollBackTypes ==
  ASSUME TypeInv, RollBack
  PROVE  TypeInv'
<1>1. op.pc \in Active /\ mode' = mode /\ op' = [op EXCEPT !.pc = "undone"] /\ "undone" \in Active /\ op.r.kind # "drop"
  BY DEF RollBack, Active, Undoing
<1>2. op' \in OpType /\ op'.pc = "undone" /\ OpOK' /\ op.r \in Requests /\ op.m \in Muts
  BY <1>1, OpGoesOn
<1>3. root' \in Dirs
  BY <1>1, <1>2, RolledBackFacts DEF RollBack, TypeInv
<1>4. Types' /\ UploadOK' /\ NamesOK'
  BY <1>2, <1>3 DEF RollBack, TypeInv, Types, rows, lists, UploadOK, NamesOK
<1> QED BY <1>2, <1>4 DEF TypeInv

LEMMA AbandonTypes ==
  ASSUME TypeInv, Abandon
  PROVE  TypeInv'
<1>1. op' = NoOp /\ used' \in UsedType
  BY FaultCounts DEF Abandon, TypeInv
<1>2. Types'
  BY <1>1, OpEnds DEF Abandon, TypeInv, Types, disk, rows, lists
<1>3. OpOK' /\ UploadOK' /\ NamesOK'
  BY <1>1, OpEnds DEF Abandon, TypeInv, NamesOK, rows
<1> QED BY <1>2, <1>3 DEF TypeInv

\* The steps of deleteCoordinated.
LEMMA DropTypes ==
  ASSUME TypeInv,
         DropPrepare \/ DropStaged \/ DropCommit \/ DropFail \/ DropRestore \/ DropUndone \/ DropClean \/ DropMove
  PROVE  TypeInv'
<1>1. ASSUME NEW x \in {"prepared", "moved", "staged", "committed", "cleaned", "cleanup", "undo", "undone"},
             op.pc \in Active, mode' = mode, op' = [op EXCEPT !.pc = x], op.r.kind = "drop"
      PROVE  op' \in OpType /\ OpOK' /\ UploadOK'
  <2>1. x \in Active /\ x \notin {"receiving", "streaming", "aside", "undoing"}
    BY <1>1 DEF Active, Going, Undoing, Ending
  <2>2. op' \in OpType /\ OpOK' /\ op'.r = op.r
    BY <1>1, <2>1, OpGoesOn
  <2>3. UploadOK'
    BY <1>1, <2>2 DEF UploadOK
  <2> QED BY <2>2, <2>3
<1>2. NoDel \in DelType /\ NoDir \in Dirs
  BY NoDirFacts DEF NoDel, DelType
<1>3. ASSUME NEW y, NEW t \in BOOLEAN, y \in {"prepared", "files-staged"} \cup Final, PutDeletion(y, t)
      PROVE  del' \in DelType
  BY <1>3 DEF PutDeletion, DelType
<1>4. op \in OpType /\ op.existing \in BOOLEAN /\ root \in Dirs /\ root.there \in BOOLEAN
  BY DirParts DEF TypeInv, Types, OpType
<1>5. CASE DropPrepare
  <2>1. op' \in OpType /\ OpOK' /\ UploadOK'
    BY <1>1, <1>5 DEF DropPrepare, Active
  <2>2. del' \in DelType
    BY <1>3, <1>5 DEF DropPrepare
  <2> QED BY <1>5, <2>1, <2>2 DEF DropPrepare, TypeInv, Types, NamesOK, disk, lists
<1>6. CASE DropStaged
  <2>1. op' \in OpType /\ OpOK' /\ UploadOK'
    BY <1>1, <1>6 DEF DropStaged, Active, Going
  <2>2. del' \in DelType
    BY <1>3, <1>4, <1>6 DEF DropStaged
  <2> QED BY <1>6, <2>1, <2>2 DEF DropStaged, TypeInv, Types, NamesOK, disk, lists
<1>7. CASE DropCommit
  <2>1. op' \in OpType /\ OpOK' /\ UploadOK'
    BY <1>1, <1>7 DEF DropCommit, Active, Going
  <2>2. del' \in DelType
    BY <1>3, <1>4, <1>7 DEF DropCommit, Final
  <2> QED BY <1>7, <2>1, <2>2 DEF DropCommit, TypeInv, Types, NamesOK, disk, lists
<1>8. CASE DropFail
  <2>1. op' \in OpType /\ OpOK' /\ UploadOK'
    BY <1>1, <1>8 DEF DropFail, Active, Going
  <2>2. used' \in UsedType
    <3>1. CASE Fault
      BY <3>1, FaultCounts DEF TypeInv
    <3>2. CASE used' = used
      BY <3>2 DEF TypeInv, Types
    <3> QED BY <1>8, <3>1, <3>2 DEF DropFail
  <2> QED BY <1>8, <2>1, <2>2 DEF DropFail, TypeInv, Types, NamesOK, disk, rows, lists
<1>9. CASE DropRestore
  <2>1. op' \in OpType /\ OpOK' /\ UploadOK'
    BY <1>1, <1>9 DEF DropRestore, Active, Undoing
  <2>2. root' \in Dirs /\ trash' \in Dirs
    BY <1>2, <1>9 DEF DropRestore, TypeInv, Types, disk
  <2> QED BY <1>9, <2>1, <2>2 DEF DropRestore, TypeInv, Types, NamesOK, rows, lists
<1>10. CASE DropUndone
  <2>1. op' \in OpType /\ OpOK' /\ UploadOK' /\ del' \in DelType
    BY <1>2, <1>10, OpEnds DEF DropUndone
  <2> QED BY <1>10, <2>1 DEF DropUndone, TypeInv, Types, NamesOK, disk, lists
<1>11. CASE DropClean
  <2>1. op' \in OpType /\ OpOK' /\ UploadOK'
    <3>1. CASE op' = NoOp
      BY <3>1, OpEnds
    <3>2. CASE op.pc = "committed" /\ op' = [op EXCEPT !.pc = "cleaned"]
      BY <1>1, <1>11, <3>2 DEF DropClean, Active, Ending
    <3>3. CASE op.pc = "cleaned" /\ op' = [op EXCEPT !.pc = "cleanup"]
      BY <1>1, <1>11, <3>3 DEF DropClean, Active, Ending
    <3> QED BY <1>11, <3>1, <3>2, <3>3 DEF DropClean
  <2>2. trash' \in Dirs
    BY <1>2, <1>11 DEF DropClean, TypeInv, Types
  <2>3. del' \in DelType
    <3>1. CASE UNCHANGED del \/ del' = NoDel
      BY <1>2, <3>1 DEF TypeInv, Types
    <3>2. CASE PutDeletion("cleanup", op.existing)
      BY <1>3, <1>4, <3>2 DEF Final
    <3> QED BY <1>11, <3>1, <3>2 DEF DropClean
  <2> QED BY <1>11, <2>1, <2>2, <2>3 DEF DropClean, TypeInv, Types, NamesOK, lists
<1>12. CASE DropMove
  <2>1. op' = [op EXCEPT !.pc = "moved", !.existing = root.there] /\ op.pc = "prepared" /\ mode' = mode /\ op.r.kind = "drop"
    BY <1>12 DEF DropMove
  <2>2. op' \in OpType /\ op'.pc = "moved" /\ op'.r = op.r /\ op'.m = op.m
    BY <1>4, <2>1 DEF OpType, Points, Going
  <2>3. OpOK' /\ UploadOK'
    BY <2>1, <2>2 DEF TypeInv, OpOK, UploadOK, Active, Going
  <2>4. root' \in Dirs /\ trash' \in Dirs
    BY <1>2, <1>4, <1>12 DEF DropMove
  <2> QED BY <1>12, <2>2, <2>3, <2>4 DEF DropMove, TypeInv, Types, NamesOK, rows, lists
<1> QED BY <1>5, <1>6, <1>7, <1>8, <1>9, <1>10, <1>11, <1>12

\* Readers and listings.
LEMMA ReaderTypes ==
  ASSUME TypeInv,
         (\E p \in Paths : Read(p) \/ Look(p) \/ RemoveMissing(p)) \/ CloseStream \/ List \/ SetArchived
  PROVE  TypeInv'
<1>0. Unlocked => used' \in UsedType /\ used'.faults = used.faults
  BY DEF Unlocked, TypeInv, Types, UsedType
<1>1. ASSUME NEW p \in Paths, Read(p)
      PROVE  TypeInv'
  <2>0. used' \in UsedType
    BY <1>0, <1>1 DEF Read, TypeInv, Types
  <2>1. CASE op' = [NoOp EXCEPT !.pc = "reading"] /\ removals' = removals
    <3>1. NoOp \in OpType /\ NoOp.m = 0 /\ NoOp.r = NoRequest /\ NoRequest.kind = "none"
      BY NoOpType, NoRequestFacts
    <3>2. op' \in OpType /\ op'.pc = "reading" /\ op'.m = 0
      BY <2>1, <3>1 DEF OpType, Points
    <3>3. OpOK' /\ UploadOK'
      BY <1>1, <3>2 DEF Read, OpOK, UploadOK, Active, Going, Undoing, Ending
    <3> QED BY <1>1, <2>0, <2>1, <3>2, <3>3 DEF Read, TypeInv, Types, NamesOK, disk, rows
  <2>2. CASE op' = op /\ removals' = removals \cup {p}
    BY <1>1, <2>0, <2>2 DEF Read, TypeInv, Types, OpOK, UploadOK, NamesOK, disk, rows
  <2> QED BY <1>1, <2>1, <2>2 DEF Read
<1>2. ASSUME NEW p \in Paths, Look(p)
      PROVE  TypeInv'
  BY <1>2 DEF Look, TypeInv, Types, OpOK, UploadOK, NamesOK, disk, rows
<1>3. ASSUME NEW p \in Paths, RemoveMissing(p)
      PROVE  TypeInv'
  <2>1. index' \subseteq Paths /\ listing' \subseteq Paths /\ removals' \subseteq Paths
    BY <1>3 DEF RemoveMissing, TypeInv, Types
  <2> QED BY <1>3, <2>1 DEF RemoveMissing, TypeInv, Types, OpOK, UploadOK, NamesOK, disk
<1>4. CASE CloseStream
  <2>1. op' \in OpType /\ OpOK' /\ UploadOK'
    BY <1>4, OpEnds DEF CloseStream
  <2> QED BY <1>4, <2>1 DEF CloseStream, TypeInv, Types, NamesOK, disk, rows, lists
<1>5. CASE List
  <2>1. used' \in UsedType
    BY <1>0, <1>5 DEF List
  <2> QED BY <1>5, <2>1 DEF List, TypeInv, Types, OpOK, UploadOK, NamesOK, disk, rows
<1>6. CASE SetArchived
  <2>1. used' \in UsedType
    BY <1>0, <1>6 DEF SetArchived
  <2> QED BY <1>6, <2>1 DEF SetArchived, TypeInv, Types, OpOK, UploadOK, NamesOK, disk
<1> QED BY <1>1, <1>2, <1>3, <1>4, <1>5, <1>6

\* The process ends and starts again.
LEMMA RestartTypes ==
  ASSUME TypeInv, Close \/ Crash \/ Start \/ FilesRecovered \/ RecoverDrop \/ Ready
  PROVE  TypeInv'
<1>1. CASE Close
  BY <1>1 DEF Close, TypeInv, Types, OpOK, UploadOK, NamesOK, disk, rows, lists
<1>2. CASE Crash
  <2>1. op' \in OpType /\ OpOK' /\ UploadOK'
    BY <1>2, OpEnds DEF Crash
  <2>2. used' \in UsedType
    BY <1>2 DEF Crash, TypeInv, Types, UsedType
  <2> QED BY <1>2, <2>1, <2>2 DEF Crash, TypeInv, Types, NamesOK, disk, rows
<1>3. CASE Start \/ FilesRecovered \/ Ready
  <2>1. op = NoOp /\ op' = NoOp
    BY <1>3 DEF Start, FilesRecovered, Ready, TypeInv, OpOK
  <2>2. op' \in OpType /\ OpOK' /\ UploadOK'
    BY <2>1, OpEnds
  <2> QED BY <1>3, <2>2 DEF Start, FilesRecovered, Ready, TypeInv, Types, NamesOK, disk, rows, lists
<1>4. CASE RecoverDrop
  <2>1. NoDel \in DelType /\ NoDir \in Dirs
    BY NoDirFacts DEF NoDel, DelType
  <2>2. root' \in Dirs /\ trash' \in Dirs /\ del' \in DelType
    BY <1>4, <2>1 DEF RecoverDrop, TypeInv, Types
  <2>3. op = NoOp /\ op' = NoOp
    BY <1>4 DEF RecoverDrop, TypeInv, OpOK
  <2>4. op' \in OpType /\ OpOK' /\ UploadOK'
    BY <2>3, OpEnds
  <2> QED BY <1>4, <2>2, <2>4 DEF RecoverDrop, TypeInv, Types, NamesOK, lists
<1> QED BY <1>1, <1>2, <1>3, <1>4

\* A step of the recovery of one row.
LEMMA RecoverOp ==
  ASSUME TypeInv, mode = "files", mode' = mode, NEW x \in {"recovering", "recovered"}, op' = [op EXCEPT !.pc = x]
  PROVE  op' \in OpType /\ OpOK' /\ UploadOK' /\ op'.pc = x
<1>1. op \in OpType /\ op.m = 0
  BY DEF TypeInv, Types, OpOK
<1>2. op' \in OpType /\ op'.pc = x /\ op'.m = 0
  BY <1>1 DEF OpType, Points
<1>3. OpOK' /\ UploadOK'
  BY <1>2 DEF OpOK, UploadOK, Active, Going, Undoing, Ending
<1> QED BY <1>2, <1>3

LEMMA RecoverTypes ==
  ASSUME TypeInv, RecoverPart \/ RecoverFiles \/ RecoverIntent
  PROVE  TypeInv'
<1>1. CASE RecoverPart
  <2>1. op' \in OpType /\ OpOK' /\ UploadOK'
    BY <1>1, RecoverOp DEF RecoverPart
  <2>2. Oldest \in Muts
    BY <1>1, OldestFacts DEF RecoverPart
  <2>3. intents[Oldest].path \in Paths /\ root' = WithoutFile(root, intents[Oldest].path)
    BY <1>1, <2>2 DEF RecoverPart, TypeInv, NamesOK
  <2>4. root' \in Dirs
    BY <2>3, WithoutFileFacts DEF TypeInv, Types
  <2> QED BY <1>1, <2>1, <2>4 DEF RecoverPart, TypeInv, Types, NamesOK, rows, lists
<1>2. CASE RecoverFiles
  <2>1. op' \in OpType /\ OpOK' /\ UploadOK'
    BY <1>2, RecoverOp DEF RecoverFiles
  <2>2. Oldest \in Muts /\ root' = Recovered(root, Oldest)
    BY <1>2, OldestFacts DEF RecoverFiles
  <2>3. root' \in Dirs
    <3>1. CASE intents[Oldest].kind = "none"
      BY <2>2, <3>1 DEF Recovered, TypeInv, Types
    <3>2. CASE intents[Oldest].kind # "none"
      BY <2>2, <3>2, RecoveredFacts DEF TypeInv
    <3> QED BY <3>1, <3>2
  <2> QED BY <1>2, <2>1, <2>3 DEF RecoverFiles, TypeInv, Types, NamesOK, rows, lists
<1>3. CASE RecoverIntent
  <2>1. op' \in OpType /\ OpOK' /\ UploadOK'
    BY <1>3, OpEnds DEF RecoverIntent
  <2>2. intents \in [Muts -> IntentType] /\ NoIntent \in IntentType /\ NoIntent.kind = "none"
    BY DEF TypeInv, Types, NoIntent, IntentType, Phases
  <2>3. intents' \in [Muts -> IntentType] /\ \A n \in Muts : intents'[n] \in {intents[n], NoIntent}
    BY <1>3, <2>2 DEF RecoverIntent
  <2>4. NamesOK'
    BY <2>2, <2>3 DEF NamesOK, TypeInv
  <2> QED BY <1>3, <2>1, <2>3, <2>4 DEF RecoverIntent, TypeInv, Types, disk, lists
<1> QED BY <1>1, <1>2, <1>3

LEMMA TypeInvInit ==
  ASSUME Init
  PROVE  TypeInv
<1>1. MaxOps \in Nat /\ NoDir \in Dirs /\ NoOp \in OpType /\ NoOp.pc = "idle" /\ NoOp.m = 0
  BY StoryAssumption, NoDirFacts, NoOpType, NoRequestFacts
<1>2. NoIntent \in IntentType /\ NoIntent.kind = "none" /\ NoDel \in DelType
  BY DEF NoIntent, IntentType, Phases, NoDel, DelType
<1>3. used \in UsedType
  BY <1>1 DEF Init, UsedType
<1>4. Types /\ NamesOK
  BY <1>1, <1>2, <1>3 DEF Init, Types, NamesOK
<1>5. OpOK /\ UploadOK
  BY <1>1 DEF Init, OpOK, UploadOK, Active, Going, Undoing, Ending
<1> QED BY <1>4, <1>5 DEF TypeInv

LEMMA TypeInvStep ==
  ASSUME TypeInv, [Next]_vars
  PROVE  TypeInv'
<1>1. CASE \E r \in Requests : Accept(r)
  BY <1>1, AcceptTypes
<1>2. CASE (\E p \in Paths : Read(p) \/ Look(p) \/ RemoveMissing(p)) \/ CloseStream \/ List \/ SetArchived
  BY <1>2, ReaderTypes
<1>3. CASE Refuse \/ InsertIntent \/ Receive \/ Prepare \/ MoveAside \/ MoveFile
  BY <1>3, RefuseTypes, InsertIntentTypes, ReceiveTypes, PrepareTypes, MoveAsideTypes, MoveFileTypes
<1>4. CASE RecordStaged \/ Commit \/ RemoveBackup \/ RecordCleanup \/ DeleteIntent \/ Answer
  BY <1>4, RecordStagedTypes, CommitTypes, RemoveBackupTypes, RecordCleanupTypes, DeleteIntentTypes, AnswerTypes
<1>5. CASE Fail \/ RollBackPart \/ RollBack \/ Abandon
  BY <1>5, FailTypes, RollBackPartTypes, RollBackTypes, AbandonTypes
<1>6. CASE DropPrepare \/ DropStaged \/ DropCommit \/ DropFail \/ DropRestore \/ DropUndone \/ DropClean \/ DropMove
  BY <1>6, DropTypes
<1>7. CASE Close \/ Crash \/ Start \/ FilesRecovered \/ RecoverDrop \/ Ready
  BY <1>7, RestartTypes
<1>8. CASE RecoverPart \/ RecoverFiles \/ RecoverIntent
  BY <1>8, RecoverTypes
<1>9. CASE UNCHANGED vars
  BY <1>9 DEF vars, TypeInv, Types, OpOK, UploadOK, NamesOK
<1> QED BY <1>1, <1>2, <1>3, <1>4, <1>5, <1>6, <1>7, <1>8, <1>9 DEF Next, OpStep, StartStep

\* For every number of paths, contents and operations and whatever fails or dies: no
\* document and no backup ever holds an incomplete upload, no row names what is not
\* there to be named, and an operation is always at a point its kind passes.
THEOREM TypeCorrect == Spec => []TypeOK
<1>1. TypeInv => TypeOK
  BY DEF TypeInv, Types, TypeOK, OpType, IntentType, DelType, Phases, Final, FileKinds
<1>2. Init => TypeInv
  BY TypeInvInit
<1>3. TypeInv /\ [Next]_vars => TypeInv'
  BY TypeInvStep
<1> QED BY <1>1, <1>2, <1>3, PTL DEF Spec

-----------------------------------------------------------------------------
(* What is set aside.                                                      *)

Holding == Going \cup {"undo", "undoing", "committed"}

\* In a running process nothing is set aside but by the operation that goes on.
LEMMA OnlyTheOperation ==
  ASSUME TypeInv, CleanInv, mode \in {"up", "closing"}
  PROVE  /\ \A n \in Muts : n # op.m => ~Litter(root, n)
         /\ op.pc \notin Holding \/ op.r.kind \notin {"write", "delete"} => \A n \in Muts : ~Litter(root, n)
<1>1. \A n \in Muts : n # op.m => ~Litter(root, n)
  BY DEF CleanInv, AsideOK
<1>2. op.pc \notin Holding => \A n \in Muts : ~Litter(root, n)
  BY DEF CleanInv, AsideOK, Holding
<1>3. op.r.kind \notin {"write", "delete"} => \A n \in Muts : ~Litter(root, n)
  <2>1. SUFFICES ASSUME op.r.kind \notin {"write", "delete"}, NEW n \in Muts, Litter(root, n) PROVE FALSE
    OBVIOUS
  <2>2. n = op.m /\ op.r.kind \in FileKinds /\ op.pc \in Holding /\ intents[n].kind \in {"write", "delete"}
    BY <2>1 DEF CleanInv, AsideOK, Holding
  <2>3. intents[op.m].kind = op.r.kind
    BY <2>2 DEF CleanInv, RowOK, Holding, Undoing, Ending
  <2> QED BY <2>1, <2>2, <2>3
<1> QED BY <1>1, <1>2, <1>3

\* A step after which nothing is set aside.
LEMMA NothingAside ==
  ASSUME TypeInv', \A n \in Muts : ~Litter(root', n), \A n \in Muts : ~Litter(trash', n)
  PROVE  AsideOK' /\ DeleteOK' /\ WriteOK' /\ MoveClean' /\ \A n \in Muts : ~Litter(trash, n)'
<1>1. AsideOK' /\ MoveClean'
  BY DEF AsideOK, MoveClean
<1>2. \A n \in Muts : root'.tmp[n] = NoFile /\ root'.bak[n] = NoFile
  BY DEF Litter
<1>3. DeleteOK'
  BY <1>2 DEF DeleteOK
<1>4. op'.pc \in Going \cup Undoing \cup {"committed"} => op'.m \in Muts
  BY DEF TypeInv, OpOK, Active, Ending
<1>5. WriteOK'
  BY <1>2, <1>4 DEF WriteOK, Going
<1> QED BY <1>1, <1>3, <1>5

\* No move is open while an operation of another kind, or none, holds the lock.
LEMMA NoOpenMove ==
  ASSUME TypeInv, CleanInv, mode \in {"up", "closing"}, mode = "up" \/ op # NoOp
  PROVE  /\ \A n \in Muts : n # op.m => ~MoveOpen(n)
         /\ op.pc \notin Going \cup Undoing => \A n \in Muts : ~MoveOpen(n)
         /\ op.r.kind # "rename" => \A n \in Muts : ~MoveOpen(n)
BY DEF CleanInv, MoveGoing

\* An operation on a document goes on: its row, and whose files are set aside.
LEMMA OperationGoesOn ==
  ASSUME TypeInv, CleanInv, TypeInv', mode' = mode,
         op.pc \in Going \cup {"undo"}, op.r.kind \in FileKinds,
         NEW x \in Holding, op' = [op EXCEPT !.pc = x],
         \A n \in Muts : intents'[n].kind = intents[n].kind /\ intents'[n].path = intents[n].path,
         \A n \in Muts : n # op.m => intents'[n] = intents[n],
         intents'[op.m].phase \in Final <=> x = "committed",
         \A n \in Muts : n # op.m => root'.tmp[n] = root.tmp[n] /\ root'.bak[n] = root.bak[n],
         op.r.kind = "rename" => root'.tmp = root.tmp /\ root'.bak = root.bak
  PROVE  /\ op'.pc = x /\ op'.r = op.r /\ op'.existing = op.existing /\ op'.m = op.m /\ op.m \in Muts
         /\ RowOK' /\ AsideOK' /\ MoveClean' /\ MoveGoing' /\ RecoveryOK'
<1>1. op'.pc = x /\ op'.r = op.r /\ op'.existing = op.existing /\ op'.m = op.m
  BY DEF TypeInv, Types, OpType
<1>2. op.m \in Muts /\ mode \in {"up", "closing"} /\ op # NoOp
  BY NoRequestFacts DEF TypeInv, Types, OpOK, Active, Going, Undoing
<1>3. intents[op.m].kind = op.r.kind /\ intents[op.m].path = op.r.path
  BY DEF CleanInv, RowOK, Undoing
<1>4. x \in Ending <=> x = "committed"
  BY DEF Holding, Ending, Going
<1>5. RowOK'
  BY <1>1, <1>2, <1>3, <1>4 DEF RowOK
<1>6. \A n \in Muts : n # op.m => ~Litter(root', n)
  BY <1>2, OnlyTheOperation DEF Litter
<1>7. op.r.kind = "rename" => \A n \in Muts : ~Litter(root', n)
  <2>1. op.r.kind = "rename" => \A n \in Muts : ~Litter(root, n)
    BY <1>2, OnlyTheOperation
  <2> QED BY <2>1 DEF Litter
<1>8. AsideOK'
  <2>1. ASSUME NEW n \in Muts, Litter(root', n)
        PROVE  n = op.m /\ intents'[n].kind \in {"write", "delete"}
    BY <1>2, <1>3, <1>6, <1>7, <2>1 DEF FileKinds
  <2> QED BY <1>1, <2>1 DEF AsideOK, Holding
<1>9. \A n \in Muts : MoveOpen(n)' => MoveOpen(n) /\ n = op.m /\ op.r.kind = "rename" /\ x # "committed"
  <2>1. ASSUME NEW n \in Muts, MoveOpen(n)' PROVE n = op.m
    <3>1. SUFFICES ASSUME n # op.m PROVE FALSE
      OBVIOUS
    <3>2. MoveOpen(n)
      BY <2>1, <3>1 DEF MoveOpen
    <3> QED BY <1>2, <3>1, <3>2, NoOpenMove
  <2>2. intents[op.m].phase \notin Final
    BY DEF CleanInv, RowOK, Undoing, Going, Ending
  <2> QED BY <1>2, <1>3, <2>1, <2>2 DEF MoveOpen
<1>10. MoveClean'
  BY <1>7, <1>9 DEF MoveClean
<1>11. x = "committed" \/ x \in Going \cup Undoing
  BY DEF Holding, Undoing
<1>12. MoveGoing'
  BY <1>1, <1>9, <1>11 DEF MoveGoing
<1>13. RecoveryOK'
  BY <1>1, <1>2, <1>4 DEF RecoveryOK, Holding, Going
<1> QED BY <1>1, <1>2, <1>5, <1>8, <1>10, <1>12, <1>13

\* The document of a deletion that goes on is the one its row names, and no other deletion
\* has set anything aside.
LEMMA DeletionsKept ==
  ASSUME TypeInv, CleanInv, mode \in {"up", "closing"}, op.m \in Muts,
         op.pc \in Going \cup {"undo"}, op.r.kind \in FileKinds,
         \A n \in Muts : intents'[n].kind = intents[n].kind /\ intents'[n].path = intents[n].path,
         \A n \in Muts : n # op.m => root'.tmp[n] = root.tmp[n] /\ root'.bak[n] = root.bak[n],
         op.r.kind = "delete" => root'.tmp[op.m] = NoFile /\ (root'.bak[op.m] # NoFile => root'.file[op.r.path] = NoFile)
  PROVE  DeleteOK'
<1>1. intents[op.m].kind = op.r.kind /\ intents[op.m].path = op.r.path
  BY DEF CleanInv, RowOK, Undoing
<1>2. \A n \in Muts : n # op.m => root.tmp[n] = NoFile /\ root.bak[n] = NoFile
  BY OnlyTheOperation DEF Litter
<1>3. ASSUME NEW n \in Muts, intents'[n].kind = "delete"
      PROVE  /\ root'.tmp[n] = NoFile
             /\ root'.bak[n] # NoFile => root'.file[intents'[n].path] = NoFile
  <2>1. CASE n # op.m
    BY <1>2, <2>1
  <2>2. CASE n = op.m
    BY <1>1, <1>3, <2>2
  <2> QED BY <2>1, <2>2
<1> QED BY <1>3 DEF DeleteOK

LEMMA ReceiveClean ==
  ASSUME TypeInv, CleanInv, Receive
  PROVE  CleanInv'
<1>1. TypeInv'
  BY ReceiveTypes
<1>2. op.pc = "receiving" /\ op' = [op EXCEPT !.pc = "streaming"] /\ mode' = mode /\ intents' = intents /\ trash' = trash
      /\ "streaming" \in Holding /\ op.pc \in Going \cup {"undo"} /\ used' = used
  BY DEF Receive, rows, Holding, Going
<1>3. op.r.kind = "write" /\ op.m \in Muts /\ mode \in {"up", "closing"} /\ root \in Dirs
  BY <1>2 DEF TypeInv, Types, OpOK, Active, Going
<1>4. root' = WithTmp(root, op.m, Partial)
  BY DEF Receive, WithTmp
<1>5. root'.bak = root.bak /\ root'.tmp = [root.tmp EXCEPT ![op.m] = Partial]
  <2>1. WithTmp(root, op.m, Partial).bak = root.bak
    BY <1>3, <1>4 DEF WithTmp, Dirs
  <2>2. WithTmp(root, op.m, Partial).tmp = [root.tmp EXCEPT ![op.m] = Partial]
    BY <1>3, <1>4 DEF WithTmp, Dirs
  <2> QED BY <1>4, <2>1, <2>2
<1>6. \A n \in Muts : n # op.m => root'.tmp[n] = root.tmp[n] /\ root'.bak[n] = root.bak[n]
  BY <1>3, <1>5, DirParts
<1>7. intents[op.m].phase \notin Final /\ op.r.kind \in FileKinds
  BY <1>2, <1>3 DEF CleanInv, RowOK, Going, Ending, FileKinds
<1>8. /\ op'.pc = "streaming" /\ op'.r = op.r /\ op'.existing = op.existing /\ op'.m = op.m
      /\ RowOK' /\ AsideOK' /\ MoveClean' /\ MoveGoing' /\ RecoveryOK'
  BY <1>1, <1>2, <1>3, <1>6, <1>7, OperationGoesOn
<1>9. DeleteOK'
  BY <1>2, <1>3, <1>6, <1>7, DeletionsKept
<1>10. WriteOK' /\ MoveFailed'
  BY <1>2, <1>3, <1>5, <1>8 DEF WriteOK, MoveFailed, CleanInv
<1> QED BY <1>2, <1>8, <1>9, <1>10 DEF CleanInv

LEMMA PrepareClean ==
  ASSUME TypeInv, CleanInv, Prepare
  PROVE  CleanInv'
<1>1. TypeInv'
  BY PrepareTypes
<1>2. op.pc = "streaming" /\ op' = [op EXCEPT !.pc = "prepared"] /\ mode' = mode /\ trash' = trash
      /\ "prepared" \in Holding /\ op.pc \in Going \cup {"undo"} /\ used' = used
  BY DEF Prepare, Holding, Going
<1>3. op.r.kind = "write" /\ op.r \in Requests /\ op.m \in Muts /\ mode \in {"up", "closing"} /\ root \in Dirs
      /\ op.r.kind \in FileKinds
  BY <1>2 DEF TypeInv, Types, OpOK, Active, Going, FileKinds
<1>4. root' = WithTmp(root, op.m, op.r.content) /\ op.r.content \in Contents
  BY <1>3, RequestFacts DEF Prepare, WithTmp
<1>5. root'.bak = root.bak /\ root'.tmp = [root.tmp EXCEPT ![op.m] = op.r.content]
  <2>1. WithTmp(root, op.m, op.r.content).bak = root.bak
    BY <1>3, <1>4 DEF WithTmp, Dirs
  <2>2. WithTmp(root, op.m, op.r.content).tmp = [root.tmp EXCEPT ![op.m] = op.r.content]
    BY <1>3, <1>4 DEF WithTmp, Dirs
  <2> QED BY <1>4, <2>1, <2>2
<1>6. \A n \in Muts : n # op.m => root'.tmp[n] = root.tmp[n] /\ root'.bak[n] = root.bak[n]
  BY <1>3, <1>5, DirParts
<1>7. /\ \A n \in Muts : intents'[n].kind = intents[n].kind /\ intents'[n].path = intents[n].path
      /\ \A n \in Muts : n # op.m => intents'[n] = intents[n]
      /\ intents'[op.m].phase = "prepared" /\ "prepared" \notin Final
  BY <1>3, PhaseIsSet DEF Prepare, TypeInv, Phases, Final
<1>8. /\ op'.pc = "prepared" /\ op'.r = op.r /\ op'.existing = op.existing /\ op'.m = op.m
      /\ RowOK' /\ AsideOK' /\ MoveClean' /\ MoveGoing' /\ RecoveryOK'
  BY <1>1, <1>2, <1>3, <1>6, <1>7, OperationGoesOn
<1>9. DeleteOK'
  BY <1>2, <1>3, <1>6, <1>7, DeletionsKept
<1>10. WriteOK' /\ MoveFailed'
  BY <1>2, <1>3, <1>5, <1>8 DEF WriteOK, MoveFailed, CleanInv
<1> QED BY <1>2, <1>8, <1>9, <1>10 DEF CleanInv

LEMMA MoveAsideClean ==
  ASSUME TypeInv, CleanInv, MoveAside
  PROVE  CleanInv'
<1>1. TypeInv'
  BY MoveAsideTypes
<1>2. op.pc = "prepared" /\ op' = [op EXCEPT !.pc = "aside"] /\ mode' = mode /\ trash' = trash /\ intents' = intents
      /\ "aside" \in Holding /\ op.pc \in Going \cup {"undo"} /\ used' = used /\ op.existing /\ op.r.kind = "write"
  BY DEF MoveAside, Holding, Going, rows
<1>3. op.r \in Requests /\ op.m \in Muts /\ mode \in {"up", "closing"} /\ root \in Dirs /\ op.r.kind \in FileKinds
  BY <1>2 DEF TypeInv, Types, OpOK, Active, Going, FileKinds
<1>4. op.r.path \in Paths
  BY <1>2, <1>3, RequestFacts
<1>5. root'.tmp = root.tmp /\ root'.bak = [root.bak EXCEPT ![op.m] = root.file[op.r.path]]
  <2> DEFINE p == op.r.path
             m == op.m
  <2>1. p \in Paths /\ m \in Muts /\ root \in Dirs
    BY <1>3, <1>4
  <2>2. root' = Aside(root, p, m)
    BY DEF MoveAside, Aside
  <2> HIDE DEF p, m
  <2>3. Aside(root, p, m).tmp = root.tmp
    BY <2>1 DEF Aside, Dirs
  <2>4. Aside(root, p, m).bak = [root.bak EXCEPT ![m] = root.file[p]]
    BY <2>1 DEF Aside, Dirs
  <2> QED BY <2>2, <2>3, <2>4 DEF p, m
<1>6. \A n \in Muts : n # op.m => root'.tmp[n] = root.tmp[n] /\ root'.bak[n] = root.bak[n]
  BY <1>3, <1>5, DirParts
<1>7. intents[op.m].phase \notin Final
  BY <1>2, <1>3 DEF CleanInv, RowOK, Going, Ending
<1>8. /\ op'.pc = "aside" /\ op'.r = op.r /\ op'.existing = op.existing /\ op'.m = op.m
      /\ RowOK' /\ AsideOK' /\ MoveClean' /\ MoveGoing' /\ RecoveryOK'
  BY <1>1, <1>2, <1>3, <1>6, <1>7, OperationGoesOn
<1>9. DeleteOK'
  BY <1>2, <1>3, <1>6, <1>7, DeletionsKept
<1>10. WriteOK' /\ MoveFailed'
  BY <1>2, <1>8 DEF WriteOK, MoveFailed
<1> QED BY <1>2, <1>8, <1>9, <1>10 DEF CleanInv

LEMMA MoveFileClean ==
  ASSUME TypeInv, CleanInv, MoveFile
  PROVE  CleanInv'
<1>1. TypeInv'
  BY MoveFileTypes
<1>2. op.pc \in {"prepared", "aside"} /\ op' = [op EXCEPT !.pc = "moved"] /\ mode' = mode /\ trash' = trash /\ intents' = intents
      /\ "moved" \in Holding /\ op.pc \in Going \cup {"undo"} /\ used' = used
  BY DEF MoveFile, Holding, Going, rows
<1>3. op.r \in Requests /\ op.m \in Muts /\ mode \in {"up", "closing"} /\ root \in Dirs
  BY <1>2 DEF TypeInv, Types, OpOK, Active, Going
<1>4. op.r.kind \in FileKinds /\ op.r.path \in Paths /\ (op.r.kind = "rename" => op.r.next \in Paths)
  BY <1>3, RequestFacts DEF MoveFile, FileKinds
<1>5. intents[op.m].phase \notin Final /\ intents[op.m].kind = op.r.kind
  BY <1>2, <1>4 DEF CleanInv, RowOK, Going, Ending
<1>6. /\ \A n \in Muts : n # op.m => root'.tmp[n] = root.tmp[n] /\ root'.bak[n] = root.bak[n]
      /\ op.r.kind = "rename" => root'.tmp = root.tmp /\ root'.bak = root.bak
      /\ op.r.kind = "write" => root'.tmp[op.m] = NoFile /\ root'.bak = root.bak
      /\ op.r.kind = "delete" => root'.tmp[op.m] = NoFile /\ root'.file[op.r.path] = NoFile
  <2>1. CASE op.r.kind = "write"
    <3>1. root' = InPlace(root, op.r.path, op.m)
      BY <2>1 DEF MoveFile, InPlace
    <3>2. root.tmp[op.m] \in Contents
      BY <1>2, <2>1 DEF TypeInv, UploadOK
    <3>3. root'.bak = root.bak /\ root'.tmp = [root.tmp EXCEPT ![op.m] = NoFile]
      BY <1>3, <1>4, <3>1, <3>2, InPlaceFacts
    <3> QED BY <1>3, <2>1, <3>3, DirParts
  <2>2. CASE op.r.kind = "rename"
    <3>1. root' = Moved(root, op.r.path, op.r.next)
      BY <2>2 DEF MoveFile
    <3>2. root'.tmp = root.tmp /\ root'.bak = root.bak
      BY <1>3, <1>4, <2>2, <3>1, MovedFacts
    <3> QED BY <2>2, <3>2
  <2>3. CASE op.r.kind = "delete"
    <3>1. root' = Aside(root, op.r.path, op.m)
      BY <2>3 DEF MoveFile, Aside
    <3>2. /\ root'.tmp = root.tmp /\ root'.bak = [root.bak EXCEPT ![op.m] = root.file[op.r.path]]
          /\ root'.file = [root.file EXCEPT ![op.r.path] = NoFile]
      <4> DEFINE p == op.r.path
                 m == op.m
      <4>1. p \in Paths /\ m \in Muts /\ root \in Dirs /\ root' = Aside(root, p, m)
        BY <1>3, <1>4, <3>1
      <4> HIDE DEF p, m
      <4>2. Aside(root, p, m).tmp = root.tmp
        BY <4>1 DEF Aside, Dirs
      <4>3. Aside(root, p, m).bak = [root.bak EXCEPT ![m] = root.file[p]]
        BY <4>1 DEF Aside, Dirs
      <4>4. Aside(root, p, m).file = [root.file EXCEPT ![p] = NoFile]
        BY <4>1 DEF Aside, Dirs
      <4> QED BY <4>1, <4>2, <4>3, <4>4 DEF p, m
    <3>3. root.tmp[op.m] = NoFile
      BY <1>3, <1>5, <2>3 DEF CleanInv, DeleteOK
    <3>4. root.bak \in [Muts -> Contents \cup {NoFile}] /\ root.file \in [Paths -> Contents \cup {NoFile}]
      BY <1>3, DirParts
    <3> QED BY <1>3, <1>4, <2>3, <3>2, <3>3, <3>4
  <2> QED BY <1>4, <2>1, <2>2, <2>3 DEF FileKinds
<1>7. /\ op'.pc = "moved" /\ op'.r = op.r /\ op'.existing = op.existing /\ op'.m = op.m
      /\ RowOK' /\ AsideOK' /\ MoveClean' /\ MoveGoing' /\ RecoveryOK'
  BY <1>1, <1>2, <1>4, <1>5, <1>6, OperationGoesOn
<1>8. DeleteOK'
  BY <1>2, <1>3, <1>4, <1>6, DeletionsKept
<1>9. WriteOK' /\ MoveFailed'
  BY <1>2, <1>6, <1>7 DEF WriteOK, MoveFailed, CleanInv, Going, Undoing
<1> QED BY <1>2, <1>7, <1>8, <1>9 DEF CleanInv

\* The steps that only record how far the operation came, and the one that turns it back.
LEMMA RecordClean ==
  ASSUME TypeInv, CleanInv, RecordStaged \/ Commit \/ Fail
  PROVE  CleanInv'
<1>1. TypeInv'
  BY RecordStagedTypes, CommitTypes, FailTypes
<1>2. PICK y \in {"staged", "committed", "undo"} :
        /\ op' = [op EXCEPT !.pc = y]
        /\ y \in {"staged", "committed"} => op.pc \in {"moved", "staged"} /\ used' = used /\
             SetPhase(IF y = "staged" THEN "files-staged" ELSE "database-committed")
        /\ y = "undo" => intents' = intents /\ op.pc \in Uncommitted /\ Fail
  BY DEF RecordStaged, Commit, Fail, rows
<1>3. op.pc \in Going /\ op.r.kind # "drop" /\ mode' = mode /\ root' = root /\ trash' = trash
  BY DEF RecordStaged, Commit, Fail, Uncommitted, Going, disk
<1>4. op.r \in Requests /\ op.m \in Muts /\ mode \in {"up", "closing"}
  BY <1>3 DEF TypeInv, Types, OpOK, Active, Going
<1>5. op.r.kind \in FileKinds
  BY <1>3, <1>4, RequestFacts DEF FileKinds
<1>6. intents[op.m].phase \notin Final
  BY <1>3, <1>5 DEF CleanInv, RowOK, Going, Ending
<1>7. /\ \A n \in Muts : intents'[n].kind = intents[n].kind /\ intents'[n].path = intents[n].path
      /\ \A n \in Muts : n # op.m => intents'[n] = intents[n]
      /\ intents'[op.m].phase \in Final <=> y = "committed"
  <2>1. CASE y = "staged"
    BY <1>2, <1>4, <2>1, PhaseIsSet DEF TypeInv, Phases, Final
  <2>2. CASE y = "committed"
    BY <1>2, <1>4, <2>2, PhaseIsSet DEF TypeInv, Phases, Final
  <2>3. CASE y = "undo"
    BY <1>2, <1>6, <2>3
  <2> QED BY <1>2, <2>1, <2>2, <2>3
<1>8. y \in Holding
  BY DEF Holding, Going
<1>9. /\ op'.pc = y /\ op'.r = op.r /\ op'.existing = op.existing /\ op'.m = op.m
      /\ RowOK' /\ AsideOK' /\ MoveClean' /\ MoveGoing' /\ RecoveryOK'
  BY <1>1, <1>2, <1>3, <1>5, <1>7, <1>8, OperationGoesOn
<1>10. DeleteOK'
  <2>1. op.r.kind = "delete" => root.tmp[op.m] = NoFile /\ (root.bak[op.m] # NoFile => root.file[op.r.path] = NoFile)
    BY <1>3, <1>4, <1>5, <1>6 DEF CleanInv, DeleteOK, RowOK
  <2> QED BY <1>3, <1>4, <1>5, <1>7, <2>1, DeletionsKept
<1>11. WriteOK'
  BY <1>2, <1>3, <1>9 DEF WriteOK, CleanInv, Going, Undoing
<1>12. MoveFailed'
  <2>1. SUFFICES ASSUME op.r.kind = "rename", y = "undo", mode = "up" PROVE used'.faults > 0
    BY <1>2, <1>3, <1>9 DEF MoveFailed, Undoing
  <2>2. Fail /\ op.pc \notin {"receiving", "streaming"}
    BY <1>2, <2>1 DEF TypeInv, OpOK
  <2>3. Fault
    BY <2>1, <2>2 DEF Fail
  <2>4. used'.faults = used.faults + 1 /\ used.faults \in Nat
    BY <2>1, <2>3, FaultCounts DEF TypeInv, Types, UsedType
  <2> QED BY <2>4
<1> QED BY <1>3, <1>9, <1>10, <1>11, <1>12 DEF CleanInv

LEMMA RollBackPartClean ==
  ASSUME TypeInv, CleanInv, RollBackPart
  PROVE  CleanInv'
<1>1. TypeInv'
  BY RollBackPartTypes
<1>2. op.pc = "undo" /\ op' = [op EXCEPT !.pc = "undoing"] /\ mode' = mode /\ trash' = trash /\ intents' = intents
      /\ "undoing" \in Holding /\ op.pc \in Going \cup {"undo"} /\ used' = used /\ op.existing /\ op.r.kind = "write"
  BY DEF RollBackPart, Holding, rows
<1>3. op.r \in Requests /\ op.m \in Muts /\ mode \in {"up", "closing"} /\ root \in Dirs /\ op.r.kind \in FileKinds
  BY <1>2 DEF TypeInv, Types, OpOK, Active, Undoing, FileKinds
<1>4. op.r.path \in Paths
  BY <1>2, <1>3, RequestFacts
<1>5. root'.tmp = root.tmp /\ root'.bak = root.bak
  <2>1. WithoutFile(root, op.r.path).tmp = root.tmp /\ WithoutFile(root, op.r.path).bak = root.bak
    BY <1>3, <1>4, WithoutFileFacts
  <2> QED BY <2>1 DEF RollBackPart
<1>6. \A n \in Muts : n # op.m => root'.tmp[n] = root.tmp[n] /\ root'.bak[n] = root.bak[n]
  BY <1>5
<1>7. intents[op.m].phase \notin Final
  BY <1>2, <1>3 DEF CleanInv, RowOK, Undoing, Ending
<1>8. /\ op'.pc = "undoing" /\ op'.r = op.r /\ op'.existing = op.existing /\ op'.m = op.m
      /\ RowOK' /\ AsideOK' /\ MoveClean' /\ MoveGoing' /\ RecoveryOK'
  BY <1>1, <1>2, <1>3, <1>6, <1>7, OperationGoesOn
<1>9. DeleteOK'
  BY <1>2, <1>3, <1>6, <1>7, DeletionsKept
<1>10. WriteOK' /\ MoveFailed'
  BY <1>2, <1>8 DEF WriteOK, MoveFailed
<1> QED BY <1>2, <1>8, <1>9, <1>10 DEF CleanInv

\* An operation comes to a point at which nothing is set aside: the rows that stay are
\* committed or its own.
LEMMA OperationAtRest ==
  ASSUME TypeInv, CleanInv, TypeInv', mode' = mode, mode \in {"up", "closing"}, mode = "up" \/ op # NoOp,
         \A n \in Muts : ~Litter(root', n), \A n \in Muts : ~Litter(trash', n),
         \A n \in Muts : MoveOpen(n)' => MoveOpen(n) /\ (op' = NoOp => mode = "closing")
                                         /\ (op' # NoOp => op'.m = op.m /\ op'.r = op.r /\ op'.pc \in Undoing),
         op'.pc \notin {"recovering", "recovered"}, RowOK', MoveFailed'
  PROVE  CleanInv'
<1>1. AsideOK' /\ DeleteOK' /\ WriteOK' /\ MoveClean' /\ \A n \in Muts : ~Litter(trash, n)'
  BY NothingAside
<1>2. MoveGoing'
  BY NoOpenMove DEF MoveGoing
<1>3. RecoveryOK'
  BY DEF RecoveryOK
<1> QED BY <1>1, <1>2, <1>3 DEF CleanInv

LEMMA RollBackClean ==
  ASSUME TypeInv, CleanInv, RollBack
  PROVE  CleanInv'
<1>1. TypeInv'
  BY RollBackTypes
<1>2. op.pc \in {"undo", "undoing"} /\ op.r.kind # "drop" /\ root' = RolledBack(root) /\ op' = [op EXCEPT !.pc = "undone"]
      /\ mode' = mode /\ trash' = trash /\ intents' = intents /\ used' = used
  BY DEF RollBack, rows
<1>3. op.r \in Requests /\ op.m \in Muts /\ mode \in {"up", "closing"} /\ op \in OpType /\ op # NoOp
  BY <1>2, NoRequestFacts DEF TypeInv, Types, OpOK, Active, Undoing
<1>4. op.r.kind \in FileKinds
  BY <1>2, <1>3, RequestFacts DEF FileKinds
<1>5. op'.pc = "undone" /\ op'.r = op.r /\ op'.m = op.m
  BY <1>2, <1>3 DEF OpType
<1>6. intents[op.m].kind = op.r.kind /\ intents[op.m].path = op.r.path /\ intents[op.m].phase \notin Final
  BY <1>2, <1>4 DEF CleanInv, RowOK, Undoing, Ending
<1>7. \A n \in Muts : n # op.m => root.tmp[n] = NoFile /\ root.bak[n] = NoFile
  BY <1>3, OnlyTheOperation DEF Litter
<1>8. \A n \in Muts : n # op.m => root'.tmp[n] = NoFile /\ root'.bak[n] = NoFile
  BY <1>2, <1>3, <1>7, RolledBackFacts DEF TypeInv
<1>9. root'.tmp[op.m] = NoFile /\ root'.bak[op.m] = NoFile
  <2>1. CASE op.r.kind = "write"
    <3>1. op.existing \/ root.bak[op.m] = NoFile
      BY <1>2, <2>1 DEF CleanInv, WriteOK, Undoing
    <3> QED BY <1>2, <1>3, <2>1, <3>1, RolledBackFacts DEF TypeInv
  <2>2. CASE op.r.kind = "delete"
    <3>1. root.tmp[op.m] = NoFile /\ (root.bak[op.m] = NoFile \/ root.file[op.r.path] = NoFile)
      BY <1>3, <1>6, <2>2 DEF CleanInv, DeleteOK
    <3> QED BY <1>2, <1>3, <2>2, <3>1, RolledBackFacts DEF TypeInv
  <2>3. CASE op.r.kind = "rename"
    <3>1. root.tmp[op.m] = NoFile /\ root.bak[op.m] = NoFile
      BY <1>3, <2>3, OnlyTheOperation DEF Litter
    <3> QED BY <1>2, <1>3, <2>3, <3>1, RolledBackFacts DEF TypeInv
  <2> QED BY <1>4, <2>1, <2>2, <2>3 DEF FileKinds
<1>10. \A n \in Muts : ~Litter(root', n)
  BY <1>8, <1>9 DEF Litter
<1>11. \A n \in Muts : ~Litter(trash', n)
  BY <1>2 DEF CleanInv
<1>12. RowOK' /\ MoveFailed'
  BY <1>2, <1>4, <1>5, <1>6 DEF RowOK, MoveFailed, CleanInv, Undoing, Ending
<1>13. \A n \in Muts : MoveOpen(n)' => MoveOpen(n)
  BY <1>2 DEF MoveOpen
<1>14. op' # NoOp
  BY <1>5, NoRequestFacts
<1> QED BY <1>1, <1>2, <1>3, <1>5, <1>10, <1>11, <1>12, <1>13, <1>14, OperationAtRest DEF Undoing

LEMMA RemoveBackupClean ==
  ASSUME TypeInv, CleanInv, RemoveBackup
  PROVE  CleanInv'
<1>1. TypeInv'
  BY RemoveBackupTypes
<1>2. op.pc = "committed" /\ op.r.kind # "drop" /\ op' = [op EXCEPT !.pc = "cleaned"]
      /\ mode' = mode /\ trash' = trash /\ intents' = intents /\ used' = used
  BY DEF RemoveBackup, rows
<1>3. op.r \in Requests /\ op.m \in Muts /\ mode \in {"up", "closing"} /\ op \in OpType /\ op # NoOp /\ root \in Dirs
  BY <1>2, NoRequestFacts DEF TypeInv, Types, OpOK, Active, Ending
<1>4. op.r.kind \in FileKinds
  BY <1>2, <1>3, RequestFacts DEF FileKinds
<1>5. op'.pc = "cleaned" /\ op'.r = op.r /\ op'.m = op.m
  BY <1>2, <1>3 DEF OpType
<1>6. intents[op.m].kind = op.r.kind /\ intents[op.m].path = op.r.path /\ intents[op.m].phase \in Final
  BY <1>2, <1>4 DEF CleanInv, RowOK, Ending
<1>7. \A n \in Muts : n # op.m => ~Litter(root, n)
  BY <1>3, OnlyTheOperation
<1>8. \A n \in Muts : ~Litter(root', n)
  <2>1. CASE op.r.kind = "rename"
    <3>1. root' = root
      BY <2>1 DEF RemoveBackup
    <3> QED BY <1>3, <2>1, <3>1, OnlyTheOperation
  <2>2. CASE op.r.kind # "rename"
    <3>1. root' = WithoutBak(root, op.m)
      BY <2>2 DEF RemoveBackup, WithoutBak
    <3>2. root'.tmp = root.tmp /\ root'.bak = [root.bak EXCEPT ![op.m] = NoFile]
      BY <1>3, <3>1, WithoutBakFacts
    <3>3. root.tmp[op.m] = NoFile
      <4>1. CASE op.r.kind = "write"
        BY <1>2, <4>1 DEF CleanInv, WriteOK
      <4>2. CASE op.r.kind = "delete"
        BY <1>3, <1>6, <4>2 DEF CleanInv, DeleteOK
      <4> QED BY <1>4, <2>2, <4>1, <4>2 DEF FileKinds
    <3>4. root.bak \in [Muts -> Contents \cup {NoFile}]
      BY <1>3, DirParts
    <3> QED BY <1>3, <1>7, <3>2, <3>3, <3>4 DEF Litter
  <2> QED BY <2>1, <2>2
<1>9. \A n \in Muts : ~Litter(trash', n)
  BY <1>2 DEF CleanInv
<1>10. RowOK' /\ MoveFailed'
  BY <1>2, <1>4, <1>5, <1>6 DEF RowOK, MoveFailed, Undoing, Ending
<1>11. \A n \in Muts : ~MoveOpen(n)
  BY <1>2, <1>3, NoOpenMove DEF Going, Undoing
<1>12. \A n \in Muts : ~MoveOpen(n)'
  BY <1>2, <1>11 DEF MoveOpen
<1> QED BY <1>1, <1>2, <1>3, <1>5, <1>8, <1>9, <1>10, <1>12, OperationAtRest

LEMMA RecordCleanupClean ==
  ASSUME TypeInv, CleanInv, RecordCleanup
  PROVE  CleanInv'
<1>1. TypeInv'
  BY RecordCleanupTypes
<1>2. op.pc = "cleaned" /\ op.r.kind # "drop" /\ op' = [op EXCEPT !.pc = "cleanup"] /\ SetPhase("cleanup")
      /\ mode' = mode /\ trash' = trash /\ root' = root /\ used' = used
  BY DEF RecordCleanup, disk
<1>3. op.r \in Requests /\ op.m \in Muts /\ mode \in {"up", "closing"} /\ op \in OpType /\ op # NoOp
  BY <1>2, NoRequestFacts DEF TypeInv, Types, OpOK, Active, Ending
<1>4. op.r.kind \in FileKinds
  BY <1>2, <1>3, RequestFacts DEF FileKinds
<1>5. op'.pc = "cleanup" /\ op'.r = op.r /\ op'.m = op.m
  BY <1>2, <1>3 DEF OpType
<1>6. intents[op.m].kind = op.r.kind /\ intents[op.m].path = op.r.path
  BY <1>2, <1>4 DEF CleanInv, RowOK, Ending
<1>7. /\ \A n \in Muts : intents'[n].kind = intents[n].kind /\ intents'[n].path = intents[n].path
      /\ \A n \in Muts : n # op.m => intents'[n] = intents[n]
      /\ intents'[op.m].phase = "cleanup" /\ "cleanup" \in Final
  BY <1>2, <1>3, PhaseIsSet DEF TypeInv, Phases, Final
<1>8. \A n \in Muts : ~Litter(root', n) /\ ~Litter(trash', n)
  BY <1>2, <1>3, OnlyTheOperation DEF CleanInv, Holding, Going
<1>9. RowOK' /\ MoveFailed'
  BY <1>3, <1>4, <1>5, <1>6, <1>7 DEF RowOK, MoveFailed, Undoing, Ending
<1>10. \A n \in Muts : ~MoveOpen(n)
  BY <1>2, <1>3, NoOpenMove DEF Going, Undoing
<1>11. \A n \in Muts : ~MoveOpen(n)'
  BY <1>7, <1>10 DEF MoveOpen
<1> QED BY <1>1, <1>2, <1>3, <1>5, <1>8, <1>9, <1>11, OperationAtRest

\* The lock is given back at a point where nothing is set aside.
LEMMA LockGivenBack ==
  ASSUME TypeInv, CleanInv, TypeInv', op' = NoOp, op # NoOp, mode' = mode, mode \in {"up", "closing"},
         op.pc \notin Holding \/ op.r.kind = "drop", root' = root, trash' = trash,
         \A n \in Muts : intents'[n] \in {intents[n], NoIntent},
         \A n \in Muts : MoveOpen(n) /\ intents'[n] = intents[n] => mode = "closing"
  PROVE  CleanInv'
<1>1. op'.pc = "idle" /\ op'.r.kind = "none"
  BY OpEnds
<1>2. RowOK' /\ MoveFailed'
  BY <1>1 DEF RowOK, MoveFailed, Going, Undoing, Ending
<1>3. \A n \in Muts : ~Litter(root', n) /\ ~Litter(trash', n)
  BY OnlyTheOperation DEF CleanInv
<1>4. NoIntent.kind = "none"
  BY DEF NoIntent
<1>5. \A n \in Muts : MoveOpen(n)' => MoveOpen(n) /\ mode = "closing"
  BY <1>4 DEF MoveOpen
<1> QED BY <1>1, <1>2, <1>3, <1>5, OperationAtRest

LEMMA EndClean ==
  ASSUME TypeInv, CleanInv, OneFailure, Refuse \/ Answer \/ Abandon \/ CloseStream \/ DropUndone
  PROVE  CleanInv'
<1>1. TypeInv'
  BY RefuseTypes, AnswerTypes, AbandonTypes, ReaderTypes, DropTypes
<1>2. op' = NoOp /\ root' = root /\ trash' = trash /\ intents' = intents /\ mode' = mode
      /\ op.pc \in {"locked", "answer", "cleaned", "cleanup", "undone", "reading"}
  BY DEF Refuse, Answer, Abandon, CloseStream, DropUndone, disk, rows
<1>3. op # NoOp /\ mode \in {"up", "closing"} /\ op.pc \notin Holding
  BY <1>2, NoRequestFacts DEF TypeInv, Types, OpOK, Holding, Going
<1>4. ASSUME NEW n \in Muts, MoveOpen(n), mode # "closing"
      PROVE  FALSE
  <2>1. n = op.m /\ op.r.kind = "rename" /\ op.pc = "undone" /\ mode = "up"
    BY <1>2, <1>3, <1>4, NoOpenMove DEF Going, Undoing
  <2>2. Abandon
    BY <2>1 DEF Refuse, Answer, CloseStream, DropUndone
  <2>3. used.faults < MaxFaults
    BY <2>1, <2>2, FaultCounts DEF Abandon, TypeInv
  <2>4. used.faults > 0 /\ used.faults \in Nat
    BY <2>1 DEF CleanInv, MoveFailed, Undoing, TypeInv, Types, UsedType
  <2> QED BY <2>3, <2>4, StoryAssumption DEF OneFailure
<1> QED BY <1>1, <1>2, <1>3, <1>4, LockGivenBack

LEMMA DeleteIntentClean ==
  ASSUME TypeInv, CleanInv, DeleteIntent
  PROVE  CleanInv'
<1>1. TypeInv' /\ op.m \in Muts /\ op.pc \in {"cleanup", "undone"}
  BY DeleteIntentTypes
<1>2. root' = root /\ trash' = trash /\ mode' = mode /\ mode = "up" /\ intents' = [intents EXCEPT ![op.m] = NoIntent]
  BY DEF DeleteIntent, disk
<1>3. intents'[op.m] = NoIntent /\ intents'[op.m].kind = "none" /\ \A n \in Muts : n # op.m => intents'[n] = intents[n]
  BY <1>1, <1>2, RowIsRemoved DEF TypeInv
<1>4. op # NoOp /\ op.pc \notin Holding /\ op \in OpType
  BY <1>1, NoRequestFacts DEF Holding, Going, TypeInv, Types
<1>5. CASE op' = NoOp
  <2>1. ASSUME NEW n \in Muts, MoveOpen(n), intents'[n] = intents[n]
        PROVE  FALSE
    <3>1. n = op.m
      BY <1>2, <2>1, NoOpenMove
    <3> QED BY <1>3, <2>1, <3>1 DEF MoveOpen
  <2> QED BY <1>1, <1>2, <1>3, <1>4, <1>5, <2>1, LockGivenBack
<1>6. CASE op.pc = "cleanup" /\ op' = [op EXCEPT !.pc = "answer"]
  <2>1. op'.pc = "answer"
    BY <1>4, <1>6 DEF OpType
  <2>2. RowOK' /\ MoveFailed'
    BY <2>1 DEF RowOK, MoveFailed, Going, Undoing, Ending
  <2>3. \A n \in Muts : ~Litter(root', n) /\ ~Litter(trash', n)
    BY <1>2, <1>4, OnlyTheOperation DEF CleanInv
  <2>4. \A n \in Muts : ~MoveOpen(n)
    BY <1>2, <1>6, NoOpenMove DEF Going, Undoing
  <2>5. \A n \in Muts : ~MoveOpen(n)'
    BY <1>3, <2>4 DEF MoveOpen
  <2> QED BY <1>1, <1>2, <2>1, <2>2, <2>3, <2>5, OperationAtRest
<1> QED BY <1>5, <1>6 DEF DeleteIntent

\* A new operation, and a reader.
LEMMA AcceptClean ==
  ASSUME TypeInv, CleanInv, (\E r \in Requests : Accept(r)) \/ (\E p \in Paths : Read(p) /\ op' # op)
  PROVE  CleanInv'
<1>1. TypeInv'
  BY AcceptTypes, ReaderTypes
<1>2. mode = "up" /\ mode' = mode /\ op = NoOp /\ root' = root /\ trash' = trash /\ intents' = intents
  BY DEF Accept, Read, disk, rows
<1>3. op'.pc \in {"locked", "reading"}
  <2>1. CASE \E r \in Requests : Accept(r)
    BY <2>1, AcceptTypes
  <2>2. CASE \E p \in Paths : Read(p) /\ op' # op
    <3>1. op' = [NoOp EXCEPT !.pc = "reading"]
      BY <2>2 DEF Read
    <3> QED BY <3>1 DEF NoOp
  <2> QED BY <2>1, <2>2
<1>4. op.pc = "idle" /\ op.pc \notin Holding
  BY <1>2, NoRequestFacts DEF Holding, Going
<1>5. \A n \in Muts : ~Litter(root', n) /\ ~Litter(trash', n)
  BY <1>2, <1>4, OnlyTheOperation DEF CleanInv
<1>6. \A n \in Muts : ~MoveOpen(n)
  BY <1>2, <1>4, NoOpenMove DEF Going, Undoing
<1>7. \A n \in Muts : ~MoveOpen(n)'
  BY <1>2, <1>6 DEF MoveOpen
<1>8. RowOK' /\ MoveFailed'
  BY <1>3 DEF RowOK, MoveFailed, Going, Undoing, Ending
<1> QED BY <1>1, <1>2, <1>3, <1>5, <1>7, <1>8, OperationAtRest

LEMMA InsertIntentClean ==
  ASSUME TypeInv, CleanInv, InsertIntent
  PROVE  CleanInv'
<1> DEFINE first == IF op.r.kind = "write" THEN "receiving" ELSE "prepared"
           new == [kind |-> op.r.kind, path |-> op.r.path, next |-> op.r.next, phase |-> first]
<1>1. TypeInv'
  BY InsertIntentTypes
<1>2. op.pc = "locked" /\ op.r.kind # "drop" /\ op' = [op EXCEPT !.pc = first] /\ mode = "up" /\ mode' = mode
      /\ trash' = trash /\ intents' = [intents EXCEPT ![op.m] = new]
  BY DEF InsertIntent
<1>3. op.m \in Muts /\ op \in OpType /\ intents \in [Muts -> IntentType] /\ root \in Dirs /\ op # NoOp
  BY <1>2, NoRequestFacts DEF TypeInv, Types, OpOK, Active
<1>4. op'.pc = first /\ op'.r = op.r /\ op'.m = op.m
  BY <1>2, <1>3 DEF OpType
<1>5. new.kind = op.r.kind /\ new.path = op.r.path /\ new.phase \notin Final
  BY DEF Final
<1>6. first \in Going /\ first \notin Undoing /\ first \notin Ending /\ first \notin {"recovering", "recovered"}
  BY DEF Going, Undoing, Ending
<1> HIDE DEF first, new
<1>7. intents'[op.m] = new /\ \A n \in Muts : n # op.m => intents'[n] = intents[n]
  BY <1>2, <1>3
<1>8. \A n \in Muts : ~Litter(root, n) /\ ~MoveOpen(n)
  BY <1>2, <1>3, OnlyTheOperation, NoOpenMove DEF Holding, Going, Undoing
<1>9. root'.tmp = root.tmp /\ root'.bak = root.bak
  <2>1. root' = [root EXCEPT !.there = @ \/ op.r.kind \in {"write", "rename"}]
    BY DEF InsertIntent
  <2> QED BY <1>3, <2>1 DEF Dirs
<1>10. \A n \in Muts : ~Litter(root', n) /\ ~Litter(trash', n)
  BY <1>2, <1>8, <1>9 DEF Litter, CleanInv
<1>11. AsideOK' /\ DeleteOK' /\ WriteOK' /\ MoveClean' /\ \A n \in Muts : ~Litter(trash, n)'
  BY <1>1, <1>10, NothingAside
<1>12. RowOK'
  BY <1>4, <1>5, <1>6, <1>7 DEF RowOK
<1>13. MoveGoing'
  <2>1. ASSUME NEW n \in Muts, MoveOpen(n)'
        PROVE  n = op.m /\ op.r.kind = "rename"
    <3>1. n = op.m
      BY <1>7, <1>8, <2>1 DEF MoveOpen
    <3> QED BY <1>5, <1>7, <2>1, <3>1 DEF MoveOpen
  <2> QED BY <1>2, <1>4, <1>6, <2>1 DEF MoveGoing
<1>14. MoveFailed' /\ RecoveryOK'
  BY <1>2, <1>4, <1>6 DEF MoveFailed, RecoveryOK
<1> QED BY <1>11, <1>12, <1>13, <1>14 DEF CleanInv

\* The deletion of the Story: nothing of a document operation is set aside while it holds
\* the lock, so what it moves away and may bring back is clean.
LEMMA DropStepsClean ==
  ASSUME TypeInv, CleanInv,
         DropPrepare \/ DropMove \/ DropStaged \/ DropCommit \/ DropClean \/ DropFail \/ DropRestore
  PROVE  CleanInv'
<1>1. TypeInv'
  BY DropTypes
<1>2. op.r.kind = "drop" /\ mode' = mode /\ intents' = intents
      /\ op.pc \in {"locked", "prepared", "moved", "staged", "committed", "cleaned", "cleanup", "undo"}
  BY DEF DropPrepare, DropMove, DropStaged, DropCommit, DropClean, DropFail, DropRestore, rows
<1>3. mode \in {"up", "closing"} /\ op # NoOp /\ op \in OpType
  BY <1>2, NoRequestFacts DEF TypeInv, Types, OpOK
<1>4. \A n \in Muts : ~Litter(root, n) /\ ~MoveOpen(n) /\ ~Litter(trash, n) /\ ~Litter(NoDir, n)
  BY <1>2, <1>3, OnlyTheOperation, NoOpenMove, NoDirFacts DEF CleanInv
<1>5. root' \in {root, trash, NoDir} /\ trash' \in {root, trash, NoDir}
  BY DEF DropPrepare, DropMove, DropStaged, DropCommit, DropClean, DropFail, DropRestore, disk
<1>6. \A n \in Muts : ~Litter(root', n) /\ ~Litter(trash', n)
  BY <1>4, <1>5
<1>7. \A n \in Muts : ~MoveOpen(n)'
  BY <1>2, <1>4 DEF MoveOpen
<1>8. op'.r.kind \notin FileKinds /\ op'.pc \notin {"recovering", "recovered"}
  <2>1. CASE op' = NoOp
    BY <2>1, NoRequestFacts DEF FileKinds
  <2>2. CASE op' # NoOp
    <3>1. op' = [op EXCEPT !.pc = "moved", !.existing = root.there] \/
          \E x \in {"prepared", "staged", "committed", "cleaned", "cleanup", "undo", "undone"} : op' = [op EXCEPT !.pc = x]
      BY <2>2 DEF DropPrepare, DropMove, DropStaged, DropCommit, DropClean, DropFail, DropRestore
    <3>2. op'.r = op.r /\ op'.pc \notin {"recovering", "recovered"}
      BY <1>3, <3>1 DEF OpType
    <3> QED BY <1>2, <3>2 DEF FileKinds
  <2> QED BY <2>1, <2>2
<1>9. RowOK' /\ MoveFailed'
  BY <1>8 DEF RowOK, MoveFailed, FileKinds
<1> QED BY <1>1, <1>2, <1>3, <1>6, <1>7, <1>8, <1>9, OperationAtRest

\* Steps that touch neither the files nor the intents nor the operation.
LEMMA QuietClean ==
  ASSUME TypeInv, CleanInv,
         (\E p \in Paths : (Read(p) /\ op' = op) \/ Look(p) \/ RemoveMissing(p)) \/ List \/ SetArchived \/ UNCHANGED vars
  PROVE  CleanInv'
<1>1. root' = root /\ trash' = trash /\ intents' = intents /\ op' = op /\ mode' = mode
  BY DEF Read, Look, RemoveMissing, List, SetArchived, vars, disk, rows
<1>2. used'.faults = used.faults
  <2>1. Unlocked => used'.faults = used.faults
    BY DEF Unlocked, TypeInv, Types, UsedType
  <2> QED BY <2>1 DEF Read, Look, RemoveMissing, List, SetArchived, vars
<1>3. RowOK' /\ AsideOK' /\ DeleteOK' /\ WriteOK'
  BY <1>1 DEF CleanInv, RowOK, AsideOK, DeleteOK, WriteOK
<1>4. MoveClean' /\ MoveGoing' /\ MoveFailed'
  BY <1>1, <1>2 DEF CleanInv, MoveClean, MoveGoing, MoveFailed, MoveOpen
<1>5. RecoveryOK' /\ \A n \in Muts : ~Litter(trash, n)'
  BY <1>1 DEF CleanInv, RecoveryOK, Pending, Oldest
<1> QED BY <1>3, <1>4, <1>5 DEF CleanInv

\* Shutdown, death and start leave the files and the intents as they are.
LEMMA RestartClean ==
  ASSUME TypeInv, CleanInv, Close \/ Crash \/ Start \/ FilesRecovered
  PROVE  CleanInv'
<1>1. root' = root /\ trash' = trash /\ intents' = intents
  BY DEF Close, Crash, Start, FilesRecovered, disk, rows
<1>2. (\A n \in Muts : ~Litter(trash, n)') /\ DeleteOK' /\ MoveClean'
  BY <1>1 DEF CleanInv, DeleteOK, MoveClean, MoveOpen
<1>3. CASE Close
  <2>1. mode = "up" /\ mode' = "closing" /\ op' = op /\ op.pc \notin {"recovering", "recovered"}
    BY <1>3 DEF Close, TypeInv, OpOK
  <2>2. RowOK' /\ AsideOK' /\ WriteOK'
    BY <1>1, <2>1 DEF CleanInv, RowOK, AsideOK, WriteOK
  <2>3. MoveGoing' /\ MoveFailed'
    BY <1>1, <2>1 DEF CleanInv, MoveGoing, MoveFailed, MoveOpen
  <2>4. RecoveryOK'
    BY <2>1 DEF RecoveryOK
  <2> QED BY <1>2, <2>2, <2>3, <2>4 DEF CleanInv
<1>4. CASE Crash \/ Start \/ FilesRecovered
  <2>1. op' = NoOp /\ mode' \in {"down", "files", "drop"}
    BY <1>4 DEF Crash, Start, FilesRecovered, TypeInv, OpOK
  <2>2. op'.pc = "idle"
    BY <2>1, NoRequestFacts
  <2>3. RowOK' /\ WriteOK' /\ MoveGoing' /\ MoveFailed'
    BY <2>1, <2>2 DEF RowOK, WriteOK, MoveGoing, MoveFailed, Going, Undoing, Ending
  <2>4. AsideOK'
    BY <1>1, <2>1 DEF CleanInv, AsideOK
  <2>5. RecoveryOK'
    BY <1>1, <1>4, <2>2 DEF RecoveryOK, Pending, Crash, Start, FilesRecovered
  <2> QED BY <1>2, <2>3, <2>4, <2>5 DEF CleanInv
<1> QED BY <1>3, <1>4

\* After the recovery of the document operations no row is left, and nothing set aside.
LEMMA ReadyClean ==
  ASSUME TypeInv, CleanInv, RecoverDrop \/ Ready
  PROVE  CleanInv'
<1>1. TypeInv' /\ mode = "drop" /\ mode' \in {"drop", "up"} /\ op = NoOp /\ op' = NoOp /\ intents' = intents
  BY RestartTypes DEF RecoverDrop, Ready, TypeInv, OpOK, rows
<1>2. \A n \in Muts : intents[n] = NoIntent
  BY <1>1 DEF CleanInv, RecoveryOK, Pending
<1>3. NoIntent.kind = "none"
  BY DEF NoIntent
<1>4. \A n \in Muts : ~Litter(root, n) /\ ~Litter(trash, n) /\ ~Litter(NoDir, n)
  BY <1>2, <1>3, NoDirFacts DEF CleanInv, AsideOK
<1>5. root' \in {root, trash} /\ trash' \in {trash, NoDir}
  BY DEF RecoverDrop, Ready, disk
<1>6. \A n \in Muts : ~Litter(root', n) /\ ~Litter(trash', n)
  BY <1>4, <1>5
<1>7. AsideOK' /\ DeleteOK' /\ WriteOK' /\ MoveClean' /\ \A n \in Muts : ~Litter(trash, n)'
  BY <1>1, <1>6, NothingAside
<1>8. op'.pc = "idle"
  BY <1>1, NoRequestFacts
<1>9. RowOK' /\ MoveFailed' /\ RecoveryOK'
  BY <1>1, <1>2, <1>8 DEF RowOK, MoveFailed, RecoveryOK, Pending, Going, Undoing, Ending
<1>10. MoveGoing'
  BY <1>1, <1>2, <1>3 DEF MoveGoing, MoveOpen
<1> QED BY <1>7, <1>9, <1>10 DEF CleanInv

\* During the recovery of the document operations no operation goes on.
LEMMA NoOperation ==
  ASSUME TypeInv', mode' = "files"
  PROVE  RowOK' /\ WriteOK' /\ MoveGoing' /\ MoveFailed'
<1>1. op'.pc \in {"idle", "recovering", "recovered"}
  BY DEF TypeInv, OpOK
<1> QED BY <1>1 DEF RowOK, WriteOK, MoveGoing, MoveFailed, Going, Undoing, Ending

LEMMA RecoverPartClean ==
  ASSUME TypeInv, CleanInv, RecoverPart
  PROVE  CleanInv'
<1>1. TypeInv' /\ mode = "files" /\ mode' = "files" /\ intents' = intents /\ trash' = trash /\ Pending
      /\ root' = WithoutFile(root, intents[Oldest].path)
  BY RecoverTypes DEF RecoverPart, rows
<1>2. Oldest \in Muts /\ intents[Oldest].kind = "write"
  BY <1>1, OldestFacts DEF RecoverPart
<1>3. intents[Oldest].path \in Paths /\ root \in Dirs
  BY <1>2 DEF TypeInv, Types, NamesOK
<1>4. root'.tmp = root.tmp /\ root'.bak = root.bak /\ root'.file = [root.file EXCEPT ![intents[Oldest].path] = NoFile]
  <2> DEFINE p == intents[Oldest].path
  <2> HIDE DEF p
  <2>1. p \in Paths /\ root' = WithoutFile(root, p)
    BY <1>1, <1>3 DEF p
  <2>2. /\ WithoutFile(root, p).tmp = root.tmp /\ WithoutFile(root, p).bak = root.bak
        /\ WithoutFile(root, p).file = [root.file EXCEPT ![p] = NoFile]
    BY <1>3, <2>1, WithoutFileFacts
  <2> QED BY <2>1, <2>2 DEF p
<1>5. \A s \in Paths : root.file[s] = NoFile => root'.file[s] = NoFile
  BY <1>3, <1>4, DirParts
<1>6. \A n \in Muts : Litter(root', n) <=> Litter(root, n)
  BY <1>4 DEF Litter
<1>7. AsideOK'
  BY <1>1, <1>6 DEF CleanInv, AsideOK
<1>8. DeleteOK'
  <2>1. \A n \in Muts : intents[n].kind = "delete" => intents[n].path \in Paths
    BY DEF TypeInv, NamesOK
  <2> QED BY <1>1, <1>4, <1>5, <2>1 DEF CleanInv, DeleteOK
<1>9. MoveClean'
  BY <1>1, <1>6 DEF CleanInv, MoveClean, MoveOpen
<1>10. RecoveryOK'
  <2>1. op \in OpType /\ op' = [op EXCEPT !.pc = "recovering"]
    BY DEF TypeInv, Types, RecoverPart
  <2>2. op'.pc = "recovering"
    BY <2>1 DEF OpType
  <2> QED BY <1>1, <2>2 DEF RecoveryOK, Pending
<1>11. \A n \in Muts : ~Litter(trash, n)'
  BY <1>1 DEF CleanInv
<1> QED BY <1>1, <1>7, <1>8, <1>9, <1>10, <1>11, NoOperation DEF CleanInv

LEMMA RecoverFilesClean ==
  ASSUME TypeInv, CleanInv, RecoverFiles
  PROVE  CleanInv'
<1> DEFINE k == Oldest
<1>1. TypeInv' /\ mode = "files" /\ mode' = "files" /\ intents' = intents /\ trash' = trash /\ Pending
      /\ root' = Recovered(root, k)
  BY RecoverTypes DEF RecoverFiles, rows
<1>2. k \in Muts /\ intents[k].kind \in {"none", "write", "rename", "delete"}
  BY <1>1, OldestFacts DEF TypeInv, Types, IntentType, FileKinds
<1>3. root \in Dirs
  BY DEF TypeInv, Types
<1> HIDE DEF k
<1>4. \A n \in Muts : n # k => root'.tmp[n] = root.tmp[n] /\ root'.bak[n] = root.bak[n]
  <2>1. CASE intents[k].kind = "none"
    BY <1>1, <2>1 DEF Recovered
  <2>2. CASE intents[k].kind # "none"
    BY <1>1, <1>2, <2>2, RecoveredFacts DEF TypeInv
  <2> QED BY <2>1, <2>2
<1>5. root'.tmp[k] = NoFile /\ root'.bak[k] = NoFile
  <2>1. CASE intents[k].kind = "none"
    <3>1. root' = root
      BY <1>1, <2>1 DEF Recovered
    <3>2. ~Litter(root, k)
      BY <1>2, <2>1 DEF CleanInv, AsideOK
    <3> QED BY <3>1, <3>2 DEF Litter
  <2>2. CASE intents[k].kind = "write"
    BY <1>1, <1>2, <2>2, RecoveredFacts DEF TypeInv
  <2>3. CASE intents[k].kind = "rename"
    <3>1. ~Litter(root, k)
      BY <1>2, <2>3 DEF CleanInv, AsideOK
    <3>2. root'.tmp = root.tmp /\ root'.bak = root.bak
      BY <1>1, <1>2, <2>3, RecoveredFacts DEF TypeInv
    <3> QED BY <3>1, <3>2 DEF Litter
  <2>4. CASE intents[k].kind = "delete"
    <3>1. /\ root.tmp[k] = NoFile
          /\ intents[k].phase \in Final \/ root.bak[k] = NoFile \/ root.file[intents[k].path] = NoFile
      BY <1>2, <2>4 DEF CleanInv, DeleteOK
    <3> QED BY <1>1, <1>2, <2>4, <3>1, RecoveredFacts DEF TypeInv
  <2> QED BY <1>2, <2>1, <2>2, <2>3, <2>4
<1>6. \A n \in Muts : Litter(root', n) => n # k /\ Litter(root, n)
  BY <1>4, <1>5 DEF Litter
<1>7. AsideOK'
  BY <1>1, <1>6 DEF CleanInv, AsideOK
<1>8. MoveClean'
  BY <1>1, <1>6 DEF CleanInv, MoveClean, MoveOpen
<1>9. DeleteOK'
  <2>1. ASSUME NEW n \in Muts, intents[n].kind = "delete"
        PROVE  /\ root'.tmp[n] = NoFile
               /\ root'.bak[n] # NoFile /\ intents[n].phase \notin Final => root'.file[intents[n].path] = NoFile
    <3>1. CASE n = k
      BY <1>5, <3>1
    <3>2. CASE n # k
      <4>1. root'.tmp[n] = NoFile /\ root'.bak[n] = root.bak[n]
        BY <1>4, <2>1, <3>2 DEF CleanInv, DeleteOK
      <4>2. SUFFICES ASSUME root.bak[n] # NoFile, intents[n].phase \notin Final
                     PROVE  root'.file[intents[n].path] = NoFile
        BY <4>1
      <4>3. root.file[intents[n].path] = NoFile /\ intents[n].path \in Paths
        BY <2>1, <4>2 DEF CleanInv, DeleteOK, TypeInv, NamesOK
      <4>4. Litter(root, n) /\ ~Litter(root, k)
        BY <1>2, <3>2, <4>2 DEF CleanInv, AsideOK, Litter
      <4>5. root.bak[k] = NoFile
        BY <4>4 DEF Litter
      <4>6. CASE intents[k].kind = "none"
        BY <1>1, <4>3, <4>6 DEF Recovered
      <4>7. CASE intents[k].kind = "rename"
        <5>1. intents[k].phase \in Final
          BY <1>2, <4>4, <4>7 DEF CleanInv, MoveClean, MoveOpen
        <5>2. root' = root
          BY <1>1, <1>2, <4>7, <5>1, RecoveredFacts DEF TypeInv
        <5> QED BY <4>3, <5>2
      <4>8. CASE intents[k].kind \in {"write", "delete"}
        <5>1. \A s \in Paths : root.file[s] = NoFile => root'.file[s] = NoFile
          BY <1>1, <1>2, <4>5, <4>8, RecoveredFacts DEF TypeInv
        <5> QED BY <4>3, <5>1
      <4> QED BY <1>2, <4>6, <4>7, <4>8
    <3> QED BY <3>1, <3>2
  <2> QED BY <1>1, <2>1 DEF DeleteOK
<1>10. RecoveryOK'
  <2>1. op \in OpType /\ op' = [op EXCEPT !.pc = "recovered"]
    BY DEF TypeInv, Types, RecoverFiles
  <2>2. op'.pc = "recovered" /\ ~Litter(root', k)
    BY <1>5, <2>1 DEF OpType, Litter
  <2>3. Oldest' = k
    BY <1>1 DEF Oldest, k
  <2> QED BY <1>1, <2>2, <2>3 DEF RecoveryOK, Pending
<1>11. \A n \in Muts : ~Litter(trash, n)'
  BY <1>1 DEF CleanInv
<1> QED BY <1>1, <1>7, <1>8, <1>9, <1>10, <1>11, NoOperation DEF CleanInv

LEMMA RecoverIntentClean ==
  ASSUME TypeInv, CleanInv, RecoverIntent
  PROVE  CleanInv'
<1>1. TypeInv' /\ mode = "files" /\ mode' = "files" /\ root' = root /\ trash' = trash /\ op' = NoOp
      /\ intents' = [intents EXCEPT ![Oldest] = NoIntent]
  BY RecoverTypes DEF RecoverIntent, disk
<1>2. Pending /\ ~Litter(root, Oldest)
  BY DEF RecoverIntent, CleanInv, RecoveryOK
<1>3. Oldest \in Muts
  BY <1>2, OldestFacts
<1>4. /\ intents'[Oldest].kind = "none"
      /\ \A n \in Muts : n # Oldest => intents'[n] = intents[n]
  BY <1>1, <1>3, RowIsRemoved DEF TypeInv
<1>5. AsideOK'
  <2>1. ASSUME NEW n \in Muts, Litter(root, n)
        PROVE  intents'[n].kind \in {"write", "delete"} /\ \A q \in Muts : Litter(root, q) => q = n
    <3>1. intents'[n] = intents[n]
      BY <1>2, <1>4, <2>1
    <3> QED BY <2>1, <3>1 DEF CleanInv, AsideOK
  <2> QED BY <1>1, <2>1 DEF AsideOK
<1>6. \A n \in Muts : intents'[n].kind # "none" => intents'[n] = intents[n]
  BY <1>4
<1>7. DeleteOK'
  BY <1>1, <1>6 DEF CleanInv, DeleteOK
<1>8. MoveClean'
  BY <1>1, <1>6 DEF CleanInv, MoveClean, MoveOpen
<1>9. RecoveryOK' /\ \A n \in Muts : ~Litter(trash, n)'
  BY <1>1, NoRequestFacts DEF CleanInv, RecoveryOK
<1> QED BY <1>1, <1>5, <1>7, <1>8, <1>9, NoOperation DEF CleanInv

LEMMA CleanInvInit ==
  ASSUME Init
  PROVE  CleanInv
<1>1. /\ root = NoDir /\ trash = NoDir /\ intents = [m \in Muts |-> NoIntent] /\ mode = "up" /\ op = NoOp
      /\ NoIntent.kind = "none" /\ NoOp.pc = "idle"
  BY NoRequestFacts DEF Init, NoIntent
<1>2. \A n \in Muts : ~Litter(root, n) /\ ~Litter(trash, n) /\ intents[n].kind = "none"
  BY <1>1, NoDirFacts
<1>3. RowOK /\ WriteOK /\ MoveFailed /\ RecoveryOK
  BY <1>1 DEF RowOK, WriteOK, MoveFailed, RecoveryOK, Going, Undoing, Ending
<1>4. AsideOK /\ DeleteOK /\ MoveClean /\ MoveGoing
  BY <1>2 DEF AsideOK, DeleteOK, MoveClean, MoveGoing, MoveOpen
<1> QED BY <1>2, <1>3, <1>4 DEF CleanInv

LEMMA CleanInvStep ==
  ASSUME TypeInv, CleanInv, OneFailure, [Next]_vars
  PROVE  CleanInv'
<1>1. CASE \E r \in Requests : Accept(r)
  BY <1>1, AcceptClean
<1>2. ASSUME NEW p \in Paths, Read(p) \/ Look(p) \/ RemoveMissing(p)
      PROVE  CleanInv'
  BY <1>2, AcceptClean, QuietClean
<1>3. CASE Refuse \/ InsertIntent \/ Receive \/ Prepare \/ MoveAside \/ MoveFile
  BY <1>3, EndClean, InsertIntentClean, ReceiveClean, PrepareClean, MoveAsideClean, MoveFileClean
<1>4. CASE RecordStaged \/ Commit \/ RemoveBackup \/ RecordCleanup \/ DeleteIntent \/ Answer
  BY <1>4, RecordClean, RemoveBackupClean, RecordCleanupClean, DeleteIntentClean, EndClean
<1>5. CASE Fail \/ RollBackPart \/ RollBack \/ Abandon
  BY <1>5, RecordClean, RollBackPartClean, RollBackClean, EndClean
<1>6. CASE DropPrepare \/ DropStaged \/ DropCommit \/ DropFail \/ DropRestore \/ DropClean \/ DropMove
  BY <1>6, DropStepsClean
<1>7. CASE DropUndone \/ CloseStream
  BY <1>7, EndClean
<1>8. CASE List \/ SetArchived \/ UNCHANGED vars
  BY <1>8, QuietClean
<1>9. CASE Close \/ Crash \/ Start \/ FilesRecovered
  BY <1>9, RestartClean
<1>10. CASE RecoverDrop \/ Ready
  BY <1>10, ReadyClean
<1>11. CASE RecoverPart \/ RecoverFiles \/ RecoverIntent
  BY <1>11, RecoverPartClean, RecoverFilesClean, RecoverIntentClean
<1> QED BY <1>1, <1>2, <1>3, <1>4, <1>5, <1>6, <1>7, <1>8, <1>9, <1>10, <1>11 DEF Next, OpStep, StartStep

\* Unless two calls fail, no temporary and no backup file is left once nobody holds the
\* lock: rollback, recovery and the normal end all remove them before the row that names
\* them, for every number of paths, contents, operations and deaths of the process.
THEOREM NothingLeftAside ==
  ASSUME OneFailure
  PROVE  Spec => []NoLitter
<1>1. TypeInv /\ CleanInv => NoLitter
  <2>1. SUFFICES ASSUME TypeInv, CleanInv, mode = "up", op = NoOp
                 PROVE  \A m \in Muts : root.tmp[m] = NoFile /\ root.bak[m] = NoFile
    BY DEF NoLitter
  <2>2. op.pc \notin Holding
    BY <2>1, NoRequestFacts DEF Holding, Going
  <2> QED BY <2>1, <2>2, OnlyTheOperation DEF Litter
<1>2. Init => TypeInv /\ CleanInv
  BY TypeInvInit, CleanInvInit
<1>3. TypeInv /\ CleanInv /\ [Next]_vars => (TypeInv /\ CleanInv)'
  BY TypeInvStep, CleanInvStep
<1> QED BY <1>1, <1>2, <1>3, PTL DEF Spec
=============================================================================
