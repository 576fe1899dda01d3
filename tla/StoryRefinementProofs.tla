----------------------- MODULE StoryRefinementProofs -----------------------
(***************************************************************************)
(* Proof that StoryStore implements DocumentStore, for any paths, contents *)
(* and bounds with at most one failing call (OneFailure): whatever fails,  *)
(* dies or restarts, a request takes effect once and as a whole or not at  *)
(* all, and the only documents otherwise lost are those whose row a call   *)
(* without the lock took away and those of a Story deletion cut short.     *)
(* Two invariants follow.                                                  *)
(*                                                                         *)
(* The documents are those of Directory, which replays every row.  The     *)
(* inductive invariant RefInv says that at most one row still matters,     *)
(* that of the operation going on or of the one the process died in, and   *)
(* what its files look like at each point; so Directory is the recovery of *)
(* one row, and each action has one lemma on what it does to that.         *)
(***************************************************************************)
EXTENDS StoryStoreProofs

\* Recovery finds nothing to do for a row without files whose operation has committed,
\* has not begun to move files or is a deletion.
Inert(m) ==
  \/ intents[m].kind = "none"
  \/ /\ ~Litter(root, m)
     /\ \/ intents[m].phase \in Final \/ intents[m].kind = "delete"
        \/ intents[m].kind = "write" /\ intents[m].phase = "receiving"

\* Recovery takes an upload for staged: its file is in place.
StagedRow(m) == intents[m].phase = "files-staged" \/ (intents[m].phase = "prepared" /\ root.tmp[m] = NoFile)

\* At most one row matters, and in a running process it is that of the operation that
\* holds the lock, or the operation has given up during the shutdown.
HotOK ==
  /\ \A m, n \in Muts : ~Inert(m) /\ ~Inert(n) => m = n
  /\ \A m \in Muts : ~Inert(m) /\ mode \in {"up", "closing"} =>
       \/ m = op.m /\ op.r.kind \in FileKinds /\ op.pc \in Holding \cup {"undone"}
       \/ mode = "closing" /\ op = NoOp

\* Only an operation has a request.
IdleOK == op.pc \in {"idle", "reading", "recovering", "recovered"} => op = [NoOp EXCEPT !.pc = op.pc]

\* The row of a move names the new path, which differs from the old one.
NextOK ==
  /\ \A m \in Muts : intents[m].kind = "rename" => intents[m].path # intents[m].next
  /\ op.r.kind = "rename" /\ op.pc \in Going \cup Undoing => intents[op.m].next = op.r.next

\* The phase an upload has recorded.
PhaseOK ==
  op.r.kind = "write" =>
    /\ op.pc \in {"receiving", "streaming"} => intents[op.m].phase = "receiving"
    /\ op.pc \in {"prepared", "aside", "moved"} => intents[op.m].phase = "prepared"
    /\ op.pc = "staged" => intents[op.m].phase = "files-staged"

\* Only a failing call makes a complete upload turn back before the shutdown.
WriteFailed ==
  op.r.kind = "write" /\ op.pc \in Undoing /\ mode = "up" /\ intents[op.m].phase # "receiving" =>
    used.faults > 0

\* The files of an upload: a first upload has no row and no file until it is in place; one
\* that replaces a file has it in place or aside.
WriteNew ==
  op.r.kind = "write" /\ ~op.existing =>
    /\ op.pc \in {"locked"} \cup Going \cup Undoing => op.r.path \notin index
    /\ op.pc \in Going \cup Undoing /\ ~StagedRow(op.m) => root.file[op.r.path] = NoFile

WriteOver ==
  op.r.kind = "write" /\ op.existing =>
    /\ op.pc \in Going \cup {"undo", "undoing"} /\ root.bak[op.m] = NoFile =>
         root.file[op.r.path] # NoFile /\ ~StagedRow(op.m)
    /\ op.pc \in {"aside", "moved", "staged", "undoing"} => root.bak[op.m] # NoFile

WriteFile ==
  op.r.kind = "write" =>
    /\ op.pc \in Going \cup Undoing => root.there
    /\ op.pc \in {"receiving", "streaming", "prepared"} => root.bak[op.m] = NoFile
    /\ op.pc \in {"prepared", "aside"} => root.tmp[op.m] = op.r.content
    /\ op.pc \in {"moved", "staged"} => root.file[op.r.path] = op.r.content

\* The file of a move is at one of the two paths.
MoveOK ==
  op.r.kind = "rename" =>
    /\ op.pc = "prepared" => root.file[op.r.path] # NoFile /\ root.file[op.r.next] = NoFile
    /\ op.pc \in {"moved", "staged"} => root.file[op.r.path] = NoFile /\ root.file[op.r.next] # NoFile
    /\ op.pc = "undo" => root.file[op.r.path] # NoFile \/ root.file[op.r.next] # NoFile
    /\ op.pc = "undone" => root.file[op.r.path] # NoFile

RemovedOK ==
  op.r.kind = "delete" =>
    /\ op.pc = "prepared" => root.bak[op.m] = NoFile
    /\ op.pc \in {"moved", "staged"} => root.file[op.r.path] = NoFile

\* A Story without a directory has no files.
ThereOK == ~root.there => (\A p \in Paths : root.file[p] = NoFile) /\ \A m \in Muts : ~Litter(root, m)

\* A directory set aside is that of the drop going on, or a deletion row leads to it.
TrashOK ==
  /\ trash.there /\ story # "gone" =>
       /\ ~root.there
       /\ mode \in {"up", "closing"} => op.r.kind = "drop" /\ op.pc \in {"moved", "staged", "undo"}
       /\ mode \in {"down", "files", "drop"} => del # NoDel
  /\ op.r.kind = "drop" /\ op.pc \in {"prepared", "moved", "staged", "undo"} => del # NoDel
  /\ op.r.kind = "drop" /\ op.pc \in {"moved", "staged"} => ~root.there

GoneOK ==
  /\ op.r.kind = "drop" /\ op.pc \in Ending => story = "gone"
  /\ story = "gone" => ~root.there /\ (op.r.kind = "none" \/ (op.r.kind = "drop" /\ op.pc \in Ending))

OpFilesOK == WriteNew /\ WriteOver /\ WriteFile /\ MoveOK /\ RemovedOK
OpRowOK == NextOK /\ PhaseOK /\ WriteFailed
DirsOK == ThereOK /\ TrashOK /\ GoneOK

RefInv == HotOK /\ IdleOK /\ OpRowOK /\ OpFilesOK /\ DirsOK

-----------------------------------------------------------------------------
(* Directory is the recovery of the one row that matters.                  *)

\* A directory in which a row has no temporary and no backup file is left as it is by an
\* inert row.
LEMMA InertRow ==
  ASSUME NEW m \in Muts, Inert(m), NEW d \in Dirs, ~Litter(d, m)
  PROVE  Recovered(d, m) = d
<1>1. d.tmp[m] = NoFile /\ d.bak[m] = NoFile
  BY DEF Litter
<1>2. WithoutTmp(d, m) = d
  BY <1>1 DEF WithoutTmp, Dirs
<1>3. [d EXCEPT !.bak[m] = NoFile] = d
  BY <1>1 DEF Dirs
<1>4. CASE intents[m].kind = "none"
  BY <1>4 DEF Recovered
<1>5. CASE intents[m].kind # "none" /\ intents[m].phase \in Final
  BY <1>2, <1>3, <1>5 DEF Recovered, Final
<1>6. CASE intents[m].kind = "delete" /\ intents[m].phase \notin Final
  BY <1>1, <1>6 DEF Recovered, Final, MovedBack
<1>7. CASE intents[m].kind = "write" /\ intents[m].phase = "receiving"
  BY <1>1, <1>2, <1>7 DEF Recovered, Final
<1> QED BY <1>4, <1>5, <1>6, <1>7 DEF Inert

\* A function that satisfies the recursion is the one Replayed stands for.
LEMMA ReplayedIs ==
  ASSUME NEW f, f = [n \in 0..MaxOps |->
                       IF n = 0 THEN root
                       ELSE IF n \in Done THEN f[n - 1] ELSE Recovered(f[n - 1], n)]
  PROVE  Replayed[MaxOps] = f[MaxOps]
<1>0. MaxOps \in Nat
  BY StoryAssumption
<1>1. Replayed = [n \in 0..MaxOps |->
                    IF n = 0 THEN root
                    ELSE IF n \in Done THEN Replayed[n - 1] ELSE Recovered(Replayed[n - 1], n)]
  BY DEF Replayed
<1> HIDE DEF Replayed
<1> DEFINE S == {n \in 0..MaxOps : Replayed[n] # f[n]}
<1>2. S = {}
  <2>1. SUFFICES ASSUME S # {} PROVE FALSE
    OBVIOUS
  <2>2. S \subseteq Nat
    BY <1>0
  <2> HIDE DEF S
  <2>3. PICK k \in S : \A y \in S : k <= y
    BY <2>1, <2>2, LeastNumber
  <2>4. k \in 0..MaxOps /\ Replayed[k] # f[k]
    BY DEF S
  <2>5. CASE k = 0
    BY <1>1, <2>4, <2>5
  <2>6. CASE k # 0
    <3>1. k - 1 \in 0..MaxOps /\ ~(k <= k - 1)
      BY <1>0, <2>4, <2>6
    <3>2. Replayed[k - 1] = f[k - 1]
      BY <2>3, <3>1 DEF S
    <3>3. Replayed[k] = IF k \in Done THEN Replayed[k - 1] ELSE Recovered(Replayed[k - 1], k)
      BY <1>1, <2>4, <2>6
    <3>4. f[k] = IF k \in Done THEN f[k - 1] ELSE Recovered(f[k - 1], k)
      BY <2>4, <2>6
    <3> QED BY <2>4, <3>2, <3>3, <3>4
  <2> QED BY <2>5, <2>6
<1>3. MaxOps \in 0..MaxOps
  BY <1>0
<1> QED BY <1>2, <1>3

Quiet(n) == Inert(n) \/ n \in Done

\* The Story is there and its directory is not the one a deletion has set aside.
InPlaceNow == story # "gone" /\ ~(trash.there /\ ~root.there /\ (op.r.kind = "drop" \/ del.trash))

\* Nothing matters: the documents are the files.
LEMMA DirectoryIsRoot ==
  TypeInv /\ InPlaceNow /\ (\A n \in Muts : Quiet(n)) /\ (\A n \in Muts : n \notin Done => ~Litter(root, n))
    => Directory = root
<1> SUFFICES ASSUME TypeInv, InPlaceNow, \A n \in Muts : Quiet(n), \A n \in Muts : n \notin Done => ~Litter(root, n)
             PROVE  Directory = root
  OBVIOUS
<1>0. MaxOps \in Nat /\ root \in Dirs
  BY StoryAssumption DEF TypeInv, Types
<1> DEFINE f == [n \in 0..MaxOps |-> root]
<1>1. ASSUME NEW n \in 0..MaxOps
      PROVE  f[n] = IF n = 0 THEN root ELSE IF n \in Done THEN f[n - 1] ELSE Recovered(f[n - 1], n)
  <2>1. CASE n = 0
    BY <2>1
  <2>2. CASE n # 0
    <3>1. n \in Muts /\ n - 1 \in 0..MaxOps
      BY <1>0, <2>2 DEF Muts
    <3>2. n \notin Done => Recovered(root, n) = root
      BY <1>0, <3>1, InertRow DEF Quiet
    <3> QED BY <2>2, <3>1, <3>2
  <2> QED BY <2>1, <2>2
<1>2. f = [n \in 0..MaxOps |-> IF n = 0 THEN root ELSE IF n \in Done THEN f[n - 1] ELSE Recovered(f[n - 1], n)]
  BY <1>1
<1>3. Replayed[MaxOps] = f[MaxOps]
  <2> HIDE DEF f
  <2> QED BY <1>2, ReplayedIs
<1>4. f[MaxOps] = root
  BY <1>0
<1> QED BY <1>3, <1>4 DEF Directory, InPlaceNow

\* One row matters: the documents are those its recovery leaves.
LEMMA DirectoryIsRecovered ==
  TypeInv /\ InPlaceNow =>
    \A h \in Muts : h \notin Done /\ (\A n \in Muts \ {h} : Quiet(n) /\ (n \notin Done => ~Litter(root, n)))
      => Directory = Recovered(root, h)
<1> SUFFICES ASSUME TypeInv, InPlaceNow, NEW h \in Muts, h \notin Done,
                    \A n \in Muts \ {h} : Quiet(n) /\ (n \notin Done => ~Litter(root, n))
             PROVE  Directory = Recovered(root, h)
  OBVIOUS
<1>0. MaxOps \in Nat /\ root \in Dirs /\ h \in 1..MaxOps
  BY StoryAssumption DEF TypeInv, Types, Muts
<1> DEFINE d == Recovered(root, h)
           f == [n \in 0..MaxOps |-> IF n < h THEN root ELSE d]
<1>5. d \in Dirs /\ \A n \in Muts \ {h} : d.tmp[n] = root.tmp[n] /\ d.bak[n] = root.bak[n]
  <2>1. CASE intents[h].kind = "none"
    BY <1>0, <2>1 DEF Recovered
  <2>2. CASE intents[h].kind # "none"
    BY <2>2, RecoveredFacts DEF TypeInv
  <2> QED BY <2>1, <2>2
<1>6. \A n \in Muts \ {h} : n \notin Done => Recovered(d, n) = d /\ Recovered(root, n) = root
  <2> HIDE DEF d
  <2>1. ASSUME NEW n \in Muts \ {h}, n \notin Done
        PROVE  ~Litter(d, n) /\ ~Litter(root, n) /\ Inert(n)
    BY <1>5, <2>1 DEF Litter, Quiet
  <2> QED BY <1>0, <1>5, <2>1, InertRow
<1> HIDE DEF d
<1>1. ASSUME NEW n \in 0..MaxOps
      PROVE  f[n] = IF n = 0 THEN root ELSE IF n \in Done THEN f[n - 1] ELSE Recovered(f[n - 1], n)
  <2>1. CASE n = 0
    BY <1>0, <2>1
  <2>2. CASE n # 0
    <3>1. n \in Muts /\ n - 1 \in 0..MaxOps
      BY <1>0, <2>2 DEF Muts
    <3>2. CASE n = h
      <4>1. f[n] = d /\ f[n - 1] = root
        BY <1>0, <3>1, <3>2
      <4> QED BY <2>2, <3>2, <4>1 DEF d
    <3>3. CASE n # h
      <4>1. f[n] = f[n - 1] /\ f[n] \in {root, d}
        BY <1>0, <3>1, <3>3
      <4> HIDE DEF f
      <4> QED BY <1>6, <2>2, <3>1, <3>3, <4>1
    <3> QED BY <3>2, <3>3
  <2> QED BY <2>1, <2>2
<1>2. f = [n \in 0..MaxOps |-> IF n = 0 THEN root ELSE IF n \in Done THEN f[n - 1] ELSE Recovered(f[n - 1], n)]
  BY <1>1
<1>3. Replayed[MaxOps] = f[MaxOps]
  <2> HIDE DEF f
  <2> QED BY <1>2, ReplayedIs
<1>4. f[MaxOps] = d
  BY <1>0
<1> QED BY <1>3, <1>4 DEF Directory, InPlaceNow, d

-----------------------------------------------------------------------------
(* RefInv is inductive: what most steps have in common.                    *)

LEMMA IdleIsNoOp == NoOp = [NoOp EXCEPT !.pc = NoOp.pc] /\ NoOp.r.kind = "none" /\ NoOp.pc = "idle"
BY DEF NoOp, NoRequest

\* While an operation holds the lock no other row matters.
LEMMA OthersInert ==
  ASSUME TypeInv, HotOK, mode \in {"up", "closing"}, mode = "up" \/ op # NoOp
  PROVE  /\ \A n \in Muts : n # op.m => Inert(n)
         /\ op.pc \notin Holding \cup {"undone"} \/ op.r.kind \notin FileKinds => \A n \in Muts : Inert(n)
BY DEF HotOK

LEMMA ActiveOp ==
  ASSUME TypeInv, op.pc \in Active
  PROVE  /\ op \in OpType /\ op # NoOp /\ op.r \in Requests /\ op.m \in Muts /\ mode \in {"up", "closing"}
         /\ op.r.kind \in FileKinds \cup {"drop"} /\ root \in Dirs /\ trash \in Dirs
         /\ op.r.kind \in FileKinds => op.r.path \in Paths
         /\ op.r.kind = "rename" => op.r.next \in Paths /\ op.r.path # op.r.next
         /\ op.r.kind = "write" => op.r.content \in Contents /\ op.r.content # NoFile
<1>1. op \in OpType /\ op.r \in Requests /\ op.m \in Muts /\ root \in Dirs /\ trash \in Dirs
  BY DEF TypeInv, Types, OpOK
<1>2. op # NoOp /\ mode \in {"up", "closing"}
  BY NoRequestFacts DEF TypeInv, Types, OpOK, Active, Going, Undoing, Ending
<1>3. /\ op.r.kind \in FileKinds \cup {"drop"}
      /\ op.r.kind \in FileKinds => op.r.path \in Paths
      /\ op.r.kind = "rename" => op.r.next \in Paths
      /\ op.r.kind = "write" => op.r.content \in Contents
  BY <1>1, RequestFacts DEF FileKinds
<1>4. op.r.kind = "rename" => op.r.path # op.r.next
  BY <1>1 DEF Requests
<1>5. op.r.kind = "write" => op.r.content # NoFile
  BY <1>3, StoryAssumption
<1> QED BY <1>1, <1>2, <1>3, <1>4, <1>5

\* An operation on a document goes on.
LEMMA FileOpGoesOn ==
  ASSUME TypeInv, RefInv, op.pc \in Active, op.r.kind \in FileKinds,
         mode' = mode, trash' = trash, story' = story, del' = del,
         NEW x \in Active, x # "locked", op' = [op EXCEPT !.pc = x],
         \A n \in Muts : n # op.m => intents'[n] = intents[n],
         \A n \in Muts : n # op.m => root'.tmp[n] = root.tmp[n] /\ root'.bak[n] = root.bak[n],
         x \in {"cleaned", "cleanup", "answer"} => Inert(op.m)'
  PROVE  /\ op'.pc = x /\ op'.r = op.r /\ op'.existing = op.existing /\ op'.m = op.m
         /\ HotOK' /\ IdleOK' /\ TrashOK' /\ GoneOK'
<1>1. op'.pc = x /\ op'.r = op.r /\ op'.existing = op.existing /\ op'.m = op.m
  BY ActiveOp DEF OpType
<1>2. op # NoOp /\ op.m \in Muts /\ mode \in {"up", "closing"}
  BY ActiveOp
<1>3. \A n \in Muts : n # op.m => Inert(n)
  BY <1>2, OthersInert DEF RefInv
<1>4. \A n \in Muts : n # op.m => Inert(n)'
  BY <1>3 DEF Inert, Litter
<1>5. x \in Holding \cup {"undone"} \/ x \in {"cleaned", "cleanup", "answer"}
  BY DEF Active, Holding, Going, Undoing, Ending
<1>6. HotOK'
  BY <1>1, <1>2, <1>4, <1>5 DEF HotOK
<1>7. IdleOK'
  BY <1>1 DEF IdleOK, Active, Going, Undoing, Ending
<1>8. story # "gone" /\ ~trash.there /\ op.r.kind # "drop" /\ op.r.kind # "none"
  BY <1>2 DEF RefInv, DirsOK, TrashOK, GoneOK, FileKinds
<1>9. TrashOK' /\ GoneOK'
  BY <1>1, <1>8 DEF TrashOK, GoneOK
<1> QED BY <1>1, <1>6, <1>7, <1>9

\* No operation on a document, or one that has committed.
LEMMA OpFilesAtRest ==
  ASSUME op'.r.kind \notin FileKinds \/ op'.pc \in Ending \cup {"answer"}
  PROVE  OpFilesOK' /\ PhaseOK' /\ WriteFailed'
<1>1. CASE op'.r.kind \notin FileKinds
  BY <1>1 DEF OpFilesOK, WriteNew, WriteOver, WriteFile, MoveOK, RemovedOK, PhaseOK, WriteFailed, FileKinds
<1>2. CASE op'.pc \in Ending \cup {"answer"}
  BY <1>2 DEF OpFilesOK, WriteNew, WriteOver, WriteFile, MoveOK, RemovedOK, PhaseOK, WriteFailed, Going, Undoing, Ending
<1> QED BY <1>1, <1>2

\* Rows keep their names.
LEMMA NamesKept ==
  ASSUME RefInv, \A n \in Muts : intents'[n].kind = "none" \/
            (intents'[n].kind = intents[n].kind /\ intents'[n].path = intents[n].path /\ intents'[n].next = intents[n].next),
         \/ op'.r = op.r /\ op'.m = op.m /\ op.pc \in Going \cup Undoing /\ intents'[op.m].next = intents[op.m].next
         \/ op'.r.kind # "rename" \/ op'.pc \notin Going \cup Undoing
  PROVE  NextOK'
BY DEF RefInv, OpRowOK, NextOK

LEMMA RefInvParts ==
  ASSUME HotOK', IdleOK', NextOK', PhaseOK', WriteFailed', OpFilesOK', ThereOK', TrashOK', GoneOK'
  PROVE  RefInv'
BY DEF RefInv, OpRowOK, DirsOK

-----------------------------------------------------------------------------
(* RefInv is inductive: an operation on a document.                        *)

LEMMA ThereIs ==
  /\ \A d \in Dirs, b \in BOOLEAN : [d EXCEPT !.there = @ \/ b].there = (d.there \/ b)
  /\ \A d \in Dirs, m \in Muts, c \in Contents \cup {NoFile, Partial} : WithTmp(d, m, c).there = d.there
  /\ \A d \in Dirs, m \in Muts : WithoutBak(d, m).there = d.there /\ WithoutTmp(d, m).there = d.there
  /\ \A d \in Dirs, m \in Muts, p \in Paths :
       /\ Aside(d, p, m).there = d.there /\ InPlace(d, p, m).there = d.there
       /\ Restored(d, p, m).there = d.there
  /\ \A d \in Dirs, p \in Paths : WithoutFile(d, p).there = d.there
  /\ \A d \in Dirs, p \in Paths, q \in Paths : Moved(d, p, q).there = d.there
<1>1. \A d \in Dirs, b \in BOOLEAN : [d EXCEPT !.there = @ \/ b].there = (d.there \/ b)
  BY DEF Dirs
<1>2. \A d \in Dirs, m \in Muts, c \in Contents \cup {NoFile, Partial} : WithTmp(d, m, c).there = d.there
  BY DEF Dirs, WithTmp
<1>3. \A d \in Dirs, m \in Muts : WithoutBak(d, m).there = d.there /\ WithoutTmp(d, m).there = d.there
  BY DEF Dirs, WithoutBak, WithoutTmp
<1>4. \A d \in Dirs, m \in Muts, p \in Paths : Aside(d, p, m).there = d.there
  BY DEF Dirs, Aside
<1>5. \A d \in Dirs, m \in Muts, p \in Paths : InPlace(d, p, m).there = d.there
  BY DEF Dirs, InPlace
<1>6. \A d \in Dirs, m \in Muts, p \in Paths : Restored(d, p, m).there = d.there
  BY DEF Dirs, Restored
<1>7. \A d \in Dirs, p \in Paths : WithoutFile(d, p).there = d.there
  BY DEF Dirs, WithoutFile
<1>8. \A d \in Dirs, p \in Paths, q \in Paths : Moved(d, p, q).there = d.there
  BY DEF Dirs, Moved
<1> QED BY <1>1, <1>2, <1>3, <1>4, <1>5, <1>6, <1>7, <1>8

LEMMA InsertIntentRef ==
  ASSUME TypeInv, CleanInv, RefInv, InsertIntent
  PROVE  RefInv'
<1> DEFINE first == IF op.r.kind = "write" THEN "receiving" ELSE "prepared"
           new == [kind |-> op.r.kind, path |-> op.r.path, next |-> op.r.next, phase |-> first]
<1>1. /\ op.pc = "locked" /\ op.pc \in Active /\ op' = [op EXCEPT !.pc = first] /\ first \in Active /\ first # "locked"
      /\ op.r.kind # "drop" /\ first \notin {"cleaned", "cleanup", "answer"}
  BY DEF InsertIntent, Active, Going
<1>2. op.m \in Muts /\ op.r.kind \in FileKinds /\ op.r.path \in Paths /\ mode \in {"up", "closing"} /\ root \in Dirs
      /\ (op.r.kind = "rename" => op.r.path # op.r.next)
  BY <1>1, ActiveOp
<1>3. intents' = [intents EXCEPT ![op.m] = new] /\ intents \in [Muts -> IntentType]
  BY DEF InsertIntent, TypeInv, Types
<1>4. intents'[op.m] = new /\ \A n \in Muts : n # op.m => intents'[n] = intents[n]
  BY <1>2, <1>3
<1>5. /\ intents'[op.m].kind = op.r.kind /\ intents'[op.m].path = op.r.path
      /\ intents'[op.m].next = op.r.next /\ intents'[op.m].phase = first
  BY <1>4
<1>6. root'.file = root.file /\ root'.tmp = root.tmp /\ root'.bak = root.bak
  BY <1>2, Created DEF InsertIntent
<1>7. root'.there = (root.there \/ op.r.kind \in {"write", "rename"})
  <2>1. root' = [root EXCEPT !.there = @ \/ op.r.kind \in {"write", "rename"}]
    BY DEF InsertIntent
  <2> QED BY <1>2, <2>1, ThereIs
<1>8. mode' = mode /\ trash' = trash /\ story' = story /\ del' = del /\ index' = index
  BY DEF InsertIntent
<1>9. /\ op'.pc = first /\ op'.r = op.r /\ op'.existing = op.existing /\ op'.m = op.m
      /\ HotOK' /\ IdleOK' /\ TrashOK' /\ GoneOK'
  <2> HIDE DEF first, new
  <2> QED BY <1>1, <1>2, <1>4, <1>6, <1>8, FileOpGoesOn
<1>10. NextOK'
  BY <1>2, <1>4, <1>5, <1>9 DEF RefInv, OpRowOK, NextOK, Going
<1>11. PhaseOK' /\ WriteFailed'
  BY <1>2, <1>5, <1>9 DEF PhaseOK, WriteFailed, Undoing
<1>12. root.bak[op.m] = NoFile /\ root.tmp[op.m] = NoFile
  BY <1>1, <1>2, OnlyTheOperation DEF Litter, Holding, Going
<1>13. /\ op.r.kind = "write" => op.existing = (root.file[op.r.path] # NoFile)
       /\ op.r.kind = "rename" => root.file[op.r.path] # NoFile /\ root.file[op.r.next] = NoFile
  BY DEF InsertIntent, DiskAgrees, Exists
<1>14. WriteNew' /\ WriteOver'
  <2>1. op.r.kind = "write" /\ ~op.existing => op.r.path \notin index
    BY <1>1 DEF RefInv, OpFilesOK, WriteNew
  <2>2. WriteNew'
    BY <1>6, <1>8, <1>9, <1>13, <2>1 DEF WriteNew
  <2>3. op.r.kind = "write" => ~StagedRow(op.m)'
    BY <1>5, <1>9 DEF StagedRow
  <2>4. WriteOver'
    BY <1>6, <1>9, <1>13, <2>3 DEF WriteOver
  <2> QED BY <2>2, <2>4
<1>15. WriteFile' /\ MoveOK' /\ RemovedOK'
  BY <1>6, <1>7, <1>9, <1>12, <1>13 DEF WriteFile, MoveOK, RemovedOK
<1>16. ThereOK'
  BY <1>6, <1>7 DEF RefInv, DirsOK, ThereOK, Litter
<1> QED BY <1>9, <1>10, <1>11, <1>14, <1>15, <1>16, RefInvParts DEF OpFilesOK

LEMMA ReceiveRef ==
  ASSUME TypeInv, CleanInv, RefInv, Receive
  PROVE  RefInv'
<1>1. op.pc = "receiving" /\ op.pc \in Active /\ op.r.kind = "write" /\ "streaming" \in Active
      /\ op' = [op EXCEPT !.pc = "streaming"]
  BY DEF Receive, TypeInv, OpOK, Active, Going
<1>2. op.m \in Muts /\ op.r.path \in Paths /\ mode \in {"up", "closing"} /\ root \in Dirs
  BY <1>1, ActiveOp DEF FileKinds
<1>3. /\ root'.file = root.file /\ root'.tmp = [root.tmp EXCEPT ![op.m] = Partial] /\ root'.bak = root.bak
      /\ root'.there = root.there
  <2>1. root' = WithTmp(root, op.m, Partial)
    BY DEF Receive, WithTmp
  <2>2. /\ WithTmp(root, op.m, Partial).file = root.file /\ WithTmp(root, op.m, Partial).bak = root.bak
        /\ WithTmp(root, op.m, Partial).tmp = [root.tmp EXCEPT ![op.m] = Partial]
    BY <1>2, WithTmpFacts
  <2>3. WithTmp(root, op.m, Partial).there = root.there
    BY <1>2, ThereIs
  <2> QED BY <2>1, <2>2, <2>3
<1>4. mode' = mode /\ trash' = trash /\ story' = story /\ del' = del /\ index' = index /\ intents' = intents
  BY DEF Receive, rows
<1>5. \A n \in Muts : n # op.m => root'.tmp[n] = root.tmp[n] /\ root'.bak[n] = root.bak[n]
  BY <1>2, <1>3, DirParts
<1>6. /\ op'.pc = "streaming" /\ op'.r = op.r /\ op'.existing = op.existing /\ op'.m = op.m
      /\ HotOK' /\ IdleOK' /\ TrashOK' /\ GoneOK'
  BY <1>1, <1>4, <1>5, FileOpGoesOn DEF FileKinds
<1>7. NextOK' /\ WriteFailed' /\ PhaseOK' /\ intents[op.m].phase = "receiving"
  BY <1>1, <1>4, <1>6 DEF RefInv, OpRowOK, NextOK, WriteFailed, PhaseOK, Undoing
<1>8. root.there /\ root.bak[op.m] = NoFile /\ ~StagedRow(op.m) /\ ~StagedRow(op.m)'
  BY <1>1, <1>4, <1>6, <1>7 DEF RefInv, OpFilesOK, WriteFile, StagedRow, Going
<1>9. WriteNew'
  BY <1>1, <1>3, <1>4, <1>6, <1>8 DEF RefInv, OpFilesOK, WriteNew, Going
<1>10. WriteOver'
  BY <1>1, <1>3, <1>6, <1>8 DEF RefInv, OpFilesOK, WriteOver, Going
<1>11. WriteFile' /\ MoveOK' /\ RemovedOK' /\ ThereOK'
  BY <1>1, <1>3, <1>6, <1>8 DEF WriteFile, MoveOK, RemovedOK, ThereOK
<1> QED BY <1>6, <1>7, <1>9, <1>10, <1>11, RefInvParts DEF OpFilesOK

LEMMA PrepareRef ==
  ASSUME TypeInv, CleanInv, RefInv, Prepare
  PROVE  RefInv'
<1>1. op.pc = "streaming" /\ op.pc \in Active /\ op.r.kind = "write" /\ "prepared" \in Active
      /\ op' = [op EXCEPT !.pc = "prepared"]
  BY DEF Prepare, TypeInv, OpOK, Active, Going
<1>2. op.m \in Muts /\ op.r.path \in Paths /\ mode \in {"up", "closing"} /\ root \in Dirs
      /\ op.r.content \in Contents /\ op.r.content # NoFile
  BY <1>1, ActiveOp DEF FileKinds
<1>3. /\ root'.file = root.file /\ root'.tmp = [root.tmp EXCEPT ![op.m] = op.r.content] /\ root'.bak = root.bak
      /\ root'.there = root.there
  <2>1. root' = WithTmp(root, op.m, op.r.content)
    BY DEF Prepare, WithTmp
  <2> QED BY <1>2, <2>1, WithTmpFacts, ThereIs
<1>4. mode' = mode /\ trash' = trash /\ story' = story /\ del' = del /\ index' = index
  BY DEF Prepare
<1>5. root'.tmp[op.m] = op.r.content
      /\ \A n \in Muts : n # op.m => root'.tmp[n] = root.tmp[n] /\ root'.bak[n] = root.bak[n]
  BY <1>2, <1>3, DirParts
<1>6. /\ \A n \in Muts : n # op.m => intents'[n] = intents[n]
      /\ \A n \in Muts : /\ intents'[n].kind = intents[n].kind /\ intents'[n].path = intents[n].path
                         /\ intents'[n].next = intents[n].next
      /\ intents'[op.m].phase = "prepared"
  BY <1>2, PhaseIsSet DEF Prepare, TypeInv, Phases
<1>7. /\ op'.pc = "prepared" /\ op'.r = op.r /\ op'.existing = op.existing /\ op'.m = op.m
      /\ HotOK' /\ IdleOK' /\ TrashOK' /\ GoneOK'
  BY <1>1, <1>4, <1>5, <1>6, FileOpGoesOn DEF FileKinds
<1>8. NextOK' /\ WriteFailed' /\ PhaseOK' /\ intents[op.m].phase = "receiving"
  BY <1>1, <1>6, <1>7 DEF RefInv, OpRowOK, NextOK, WriteFailed, PhaseOK, Undoing
<1>9. root.there /\ root.bak[op.m] = NoFile /\ ~StagedRow(op.m) /\ ~StagedRow(op.m)'
  BY <1>1, <1>2, <1>5, <1>6, <1>7, <1>8 DEF RefInv, OpFilesOK, WriteFile, StagedRow, Going
<1>10. WriteNew'
  BY <1>1, <1>3, <1>4, <1>7, <1>9 DEF RefInv, OpFilesOK, WriteNew, Going
<1>11. WriteOver'
  BY <1>1, <1>3, <1>7, <1>9 DEF RefInv, OpFilesOK, WriteOver, Going
<1>12. WriteFile' /\ MoveOK' /\ RemovedOK' /\ ThereOK'
  BY <1>1, <1>3, <1>5, <1>7, <1>9 DEF WriteFile, MoveOK, RemovedOK, ThereOK
<1> QED BY <1>7, <1>8, <1>10, <1>11, <1>12, RefInvParts DEF OpFilesOK

LEMMA MoveAsideRef ==
  ASSUME TypeInv, CleanInv, RefInv, MoveAside
  PROVE  RefInv'
<1>1. op.pc = "prepared" /\ op.pc \in Active /\ op.r.kind = "write" /\ "aside" \in Active /\ op.existing
      /\ op' = [op EXCEPT !.pc = "aside"]
  BY DEF MoveAside, Active, Going
<1>2. op.m \in Muts /\ op.r.path \in Paths /\ mode \in {"up", "closing"} /\ root \in Dirs /\ op.r.content # NoFile
  BY <1>1, ActiveOp DEF FileKinds
<1>3. /\ root'.file = [root.file EXCEPT ![op.r.path] = NoFile] /\ root'.tmp = root.tmp
      /\ root'.bak = [root.bak EXCEPT ![op.m] = root.file[op.r.path]] /\ root'.there = root.there
  <2>1. root' = Aside(root, op.r.path, op.m)
    BY DEF MoveAside, Aside
  <2>2. /\ Aside(root, op.r.path, op.m).file = [root.file EXCEPT ![op.r.path] = NoFile]
        /\ Aside(root, op.r.path, op.m).tmp = root.tmp
        /\ Aside(root, op.r.path, op.m).bak = [root.bak EXCEPT ![op.m] = root.file[op.r.path]]
    <3>1. PICK d \in Dirs, p \in Paths, m \in Muts : d = root /\ p = op.r.path /\ m = op.m
      BY <1>2
    <3>2. /\ Aside(d, p, m).file = [d.file EXCEPT ![p] = NoFile] /\ Aside(d, p, m).tmp = d.tmp
          /\ Aside(d, p, m).bak = [d.bak EXCEPT ![m] = d.file[p]]
      BY AsideFacts
    <3> QED BY <3>1, <3>2
  <2>3. Aside(root, op.r.path, op.m).there = root.there
    BY <1>2, ThereIs
  <2> QED BY <2>1, <2>2, <2>3
<1>4. mode' = mode /\ trash' = trash /\ story' = story /\ del' = del /\ index' = index /\ intents' = intents
  BY DEF MoveAside, rows
<1>5. root'.bak[op.m] = root.file[op.r.path]
      /\ \A n \in Muts : n # op.m => root'.tmp[n] = root.tmp[n] /\ root'.bak[n] = root.bak[n]
  BY <1>2, <1>3, DirParts
<1>6. /\ op'.pc = "aside" /\ op'.r = op.r /\ op'.existing = op.existing /\ op'.m = op.m
      /\ HotOK' /\ IdleOK' /\ TrashOK' /\ GoneOK'
  BY <1>1, <1>4, <1>5, FileOpGoesOn DEF FileKinds
<1>7. NextOK' /\ WriteFailed' /\ PhaseOK'
  BY <1>1, <1>4, <1>6 DEF RefInv, OpRowOK, NextOK, WriteFailed, PhaseOK, Undoing
<1>8. root.there /\ root.bak[op.m] = NoFile /\ root.tmp[op.m] = op.r.content
  BY <1>1 DEF RefInv, OpFilesOK, WriteFile, Going
<1>9. root.file[op.r.path] # NoFile
  BY <1>1, <1>8 DEF RefInv, OpFilesOK, WriteOver, Going
<1>10. WriteNew' /\ WriteOver'
  BY <1>1, <1>5, <1>6, <1>9 DEF WriteNew, WriteOver
<1>11. WriteFile' /\ MoveOK' /\ RemovedOK' /\ ThereOK'
  BY <1>1, <1>3, <1>6, <1>8 DEF WriteFile, MoveOK, RemovedOK, ThereOK
<1> QED BY <1>6, <1>7, <1>10, <1>11, RefInvParts DEF OpFilesOK


LEMMA InPlaceFile ==
  ASSUME NEW d \in Dirs, NEW p \in Paths, NEW m \in Muts
  PROVE  InPlace(d, p, m).file = [d.file EXCEPT ![p] = d.tmp[m]]
BY DEF Dirs, InPlace

\* Putting the upload in place.
LEMMA MoveUploadRef ==
  ASSUME TypeInv, CleanInv, RefInv, MoveFile, op.r.kind = "write"
  PROVE  RefInv'
<1>1. op.pc \in {"prepared", "aside"} /\ op.pc \in Active /\ "moved" \in Active
      /\ op' = [op EXCEPT !.pc = "moved"] /\ (op.pc = "aside" \/ ~op.existing)
  BY DEF MoveFile, Active, Going
<1>2. op.m \in Muts /\ op.r.path \in Paths /\ mode \in {"up", "closing"} /\ root \in Dirs /\ op.r.content \in Contents
  BY <1>1, ActiveOp DEF FileKinds
<1>0. root.there /\ root.tmp[op.m] = op.r.content
  BY <1>1 DEF RefInv, OpFilesOK, WriteFile, Going
<1>3. /\ root'.file = [root.file EXCEPT ![op.r.path] = op.r.content] /\ root'.tmp = [root.tmp EXCEPT ![op.m] = NoFile]
      /\ root'.bak = root.bak /\ root'.there = root.there
  <2>1. root' = InPlace(root, op.r.path, op.m)
    BY DEF MoveFile, InPlace
  <2>2. InPlace(root, op.r.path, op.m).bak = root.bak /\ InPlace(root, op.r.path, op.m).there = root.there
        /\ InPlace(root, op.r.path, op.m).tmp = [root.tmp EXCEPT ![op.m] = NoFile]
    BY Zenon, <1>0, <1>2, InPlaceFacts, ThereIs
  <2>3. InPlace(root, op.r.path, op.m).file = [root.file EXCEPT ![op.r.path] = root.tmp[op.m]]
    BY <1>2, InPlaceFile
  <2> QED BY <1>0, <2>1, <2>2, <2>3
<1>4. mode' = mode /\ trash' = trash /\ story' = story /\ del' = del /\ index' = index /\ intents' = intents
  BY DEF MoveFile, rows
<1>5. /\ root'.tmp[op.m] = NoFile /\ root'.file[op.r.path] = op.r.content
      /\ \A n \in Muts : n # op.m => root'.tmp[n] = root.tmp[n] /\ root'.bak[n] = root.bak[n]
  BY <1>2, <1>3, DirParts
<1>6. /\ op'.pc = "moved" /\ op'.r = op.r /\ op'.existing = op.existing /\ op'.m = op.m
      /\ HotOK' /\ IdleOK' /\ TrashOK' /\ GoneOK'
  BY <1>1, <1>4, <1>5, FileOpGoesOn DEF FileKinds
<1>7. NextOK' /\ WriteFailed' /\ PhaseOK' /\ intents[op.m].phase = "prepared"
  BY <1>1, <1>4, <1>6 DEF RefInv, OpRowOK, NextOK, WriteFailed, PhaseOK, Undoing
<1>8. StagedRow(op.m)'
  BY <1>4, <1>5, <1>6, <1>7 DEF StagedRow
<1>9. WriteNew'
  BY <1>1, <1>4, <1>6, <1>8 DEF RefInv, OpFilesOK, WriteNew, Going
<1>10. WriteOver'
  BY <1>1, <1>3, <1>6 DEF RefInv, OpFilesOK, WriteOver
<1>11. WriteFile' /\ MoveOK' /\ RemovedOK' /\ ThereOK'
  BY <1>0, <1>3, <1>5, <1>6 DEF WriteFile, MoveOK, RemovedOK, ThereOK
<1> QED BY <1>6, <1>7, <1>9, <1>10, <1>11, RefInvParts DEF OpFilesOK

\* Moving the file, or setting that of a deletion aside.
LEMMA MoveOtherRef ==
  ASSUME TypeInv, CleanInv, RefInv, MoveFile, op.r.kind # "write"
  PROVE  RefInv'
<1>1. op.pc = "prepared" /\ op.pc \in Active /\ "moved" \in Active
      /\ op' = [op EXCEPT !.pc = "moved"] /\ op.r.kind \in {"rename", "delete"}
  BY DEF MoveFile, Active, Going
<1>2. op.m \in Muts /\ op.r.path \in Paths /\ mode \in {"up", "closing"} /\ root \in Dirs
      /\ (op.r.kind = "rename" => op.r.next \in Paths /\ op.r.path # op.r.next)
  BY <1>1, ActiveOp DEF FileKinds
<1>4. mode' = mode /\ trash' = trash /\ story' = story /\ del' = del /\ index' = index /\ intents' = intents
  BY DEF MoveFile, rows
<1>0. root.file[op.r.path] # NoFile
  BY <1>1 DEF MoveFile, RefInv, OpFilesOK, MoveOK, Exists
<1>3. root'.there = root.there /\ root.there /\ root'.tmp = root.tmp
      /\ (\A n \in Muts : n # op.m => root'.bak[n] = root.bak[n]) /\ root'.file[op.r.path] = NoFile
      /\ (op.r.kind = "rename" => root'.file[op.r.next] # NoFile)
  <2>0. root.there
    BY <1>0, <1>2 DEF RefInv, DirsOK, ThereOK
  <2>1. CASE op.r.kind = "rename"
    <3>1. root' = Moved(root, op.r.path, op.r.next) /\ op.r.next \in Paths
      BY <1>2, <2>1 DEF MoveFile
    <3>2. /\ root'.file = [root.file EXCEPT ![op.r.next] = root.file[op.r.path], ![op.r.path] = NoFile]
          /\ root'.bak = root.bak /\ root'.tmp = root.tmp /\ root'.there = root.there
      <4> DEFINE d == Moved(root, op.r.path, op.r.next)
      <4>1. /\ d.file = [root.file EXCEPT ![op.r.next] = root.file[op.r.path], ![op.r.path] = NoFile]
            /\ d.bak = root.bak /\ d.tmp = root.tmp
        BY Zenon, <1>2, <3>1, MovedFacts
      <4>2. d.there = root.there
        BY <1>2, <3>1, ThereIs
      <4> HIDE DEF d
      <4> QED BY <3>1, <4>1, <4>2 DEF d
    <3>3. root'.file[op.r.path] = NoFile /\ root'.file[op.r.next] # NoFile
      BY <1>0, <1>2, <2>1, <3>2, DirParts
    <3> QED BY <2>0, <3>2, <3>3
  <2>2. CASE op.r.kind = "delete"
    <3>1. root' = Aside(root, op.r.path, op.m)
      BY <2>2 DEF MoveFile, Aside
    <3>4. root'.there = root.there
      BY <1>2, <3>1, ThereIs
    <3>5. /\ root'.file = [root.file EXCEPT ![op.r.path] = NoFile]
          /\ root'.bak = [root.bak EXCEPT ![op.m] = root.file[op.r.path]] /\ root'.tmp = root.tmp
      <4> DEFINE d == Aside(root, op.r.path, op.m)
      <4>1. /\ d.file = [root.file EXCEPT ![op.r.path] = NoFile] /\ d.tmp = root.tmp
            /\ d.bak = [root.bak EXCEPT ![op.m] = root.file[op.r.path]]
        <5>1. PICK e \in Dirs, p \in Paths, m \in Muts : e = root /\ p = op.r.path /\ m = op.m
          BY <1>2
        <5>2. /\ Aside(e, p, m).file = [e.file EXCEPT ![p] = NoFile] /\ Aside(e, p, m).tmp = e.tmp
              /\ Aside(e, p, m).bak = [e.bak EXCEPT ![m] = e.file[p]]
          BY AsideFacts
        <5> QED BY <5>1, <5>2
      <4> HIDE DEF d
      <4> QED BY <3>1, <4>1 DEF d
    <3>2. /\ root'.file = [root.file EXCEPT ![op.r.path] = NoFile] /\ root'.there = root.there
          /\ root'.bak = [root.bak EXCEPT ![op.m] = root.file[op.r.path]] /\ root'.tmp = root.tmp
      BY <3>4, <3>5
    <3>3. root'.file[op.r.path] = NoFile /\ \A n \in Muts : n # op.m => root'.bak[n] = root.bak[n]
      BY <1>2, <3>2, DirParts
    <3> QED BY <2>0, <2>2, <3>2, <3>3
  <2> QED BY <1>1, <2>1, <2>2
<1>6. /\ op'.pc = "moved" /\ op'.r = op.r /\ op'.existing = op.existing /\ op'.m = op.m
      /\ HotOK' /\ IdleOK' /\ TrashOK' /\ GoneOK'
  BY <1>1, <1>3, <1>4, FileOpGoesOn DEF FileKinds
<1>7. NextOK' /\ WriteFailed' /\ PhaseOK'
  BY <1>1, <1>4, <1>6 DEF RefInv, OpRowOK, NextOK, WriteFailed, PhaseOK, Undoing, Going
<1>9. WriteNew' /\ WriteOver' /\ WriteFile'
  BY <1>1, <1>6 DEF WriteNew, WriteOver, WriteFile
<1>11. MoveOK' /\ RemovedOK' /\ ThereOK'
  BY <1>3, <1>6 DEF MoveOK, RemovedOK, ThereOK
<1> QED BY <1>6, <1>7, <1>9, <1>11, RefInvParts DEF OpFilesOK

\* The phase files-staged.
LEMMA RecordStagedRef ==
  ASSUME TypeInv, CleanInv, RefInv, RecordStaged
  PROVE  RefInv'
<1>1. op.pc = "moved" /\ op.pc \in Active /\ "staged" \in Active /\ op' = [op EXCEPT !.pc = "staged"] /\ op.r.kind # "drop"
  BY DEF RecordStaged, Active, Going
<1>2. op.m \in Muts /\ op.r.kind \in FileKinds
  BY <1>1, ActiveOp
<1>3. mode' = mode /\ trash' = trash /\ story' = story /\ del' = del /\ index' = index /\ root' = root
  BY DEF RecordStaged, disk
<1>4. /\ \A n \in Muts : n # op.m => intents'[n] = intents[n]
      /\ \A n \in Muts : /\ intents'[n].kind = intents[n].kind /\ intents'[n].path = intents[n].path
                         /\ intents'[n].next = intents[n].next
      /\ intents'[op.m].phase = "files-staged"
  BY <1>2, PhaseIsSet DEF RecordStaged, TypeInv, Phases
<1>5. /\ op'.pc = "staged" /\ op'.r = op.r /\ op'.existing = op.existing /\ op'.m = op.m
      /\ HotOK' /\ IdleOK' /\ TrashOK' /\ GoneOK'
  BY <1>1, <1>2, <1>3, <1>4, FileOpGoesOn
<1>6. NextOK' /\ WriteFailed' /\ PhaseOK'
  BY <1>1, <1>2, <1>4, <1>5 DEF RefInv, OpRowOK, NextOK, WriteFailed, PhaseOK, Undoing, Going
<1>7. StagedRow(op.m)'
  BY <1>4, <1>5 DEF StagedRow
<1>8. WriteNew'
  BY <1>1, <1>3, <1>5, <1>7 DEF RefInv, OpFilesOK, WriteNew, Going
<1>9. WriteOver'
  BY <1>1, <1>3, <1>5 DEF RefInv, OpFilesOK, WriteOver
<1>10. WriteFile' /\ MoveOK' /\ RemovedOK' /\ ThereOK'
  BY <1>1, <1>3, <1>5 DEF RefInv, OpFilesOK, WriteFile, MoveOK, RemovedOK, DirsOK, ThereOK, Going
<1> QED BY <1>5, <1>6, <1>8, <1>9, <1>10, RefInvParts DEF OpFilesOK

\* After the transaction the operation only cleans up.
LEMMA PastCommit ==
  ASSUME TypeInv, RefInv, CleanInv', op.pc \in Active, op.r.kind \in FileKinds,
         mode' = mode, trash' = trash, story' = story, del' = del,
         NEW x \in Ending \cup {"answer"}, op' = [op EXCEPT !.pc = x],
         \A n \in Muts : n # op.m => intents'[n] = intents[n],
         intents'[op.m].kind = "none" \/
           (/\ intents'[op.m].kind = intents[op.m].kind /\ intents'[op.m].path = intents[op.m].path
            /\ intents'[op.m].next = intents[op.m].next /\ intents'[op.m].phase \in Final),
         root'.there = root.there, root'.file = root.file, root'.tmp = root.tmp,
         \A n \in Muts : root'.bak[n] = root.bak[n] \/ (n = op.m /\ root'.bak[n] = NoFile)
  PROVE  RefInv'
<1>1. x \in Active /\ x # "locked" /\ op.m \in Muts
  BY ActiveOp DEF Active, Ending
<1>2. op'.pc = x
  BY ActiveOp DEF OpType
<1>3. x \in {"cleaned", "cleanup", "answer"} => Inert(op.m)'
  <2>1. SUFFICES ASSUME x \in {"cleaned", "cleanup", "answer"} PROVE Inert(op.m)'
    OBVIOUS
  <2>2. op'.m = op.m /\ mode \in {"up", "closing"}
    BY ActiveOp DEF OpType
  <2>3. ~Litter(root', op.m)
    BY <1>1, <1>2, <2>1, <2>2 DEF CleanInv, AsideOK, Going
  <2> QED BY <2>2, <2>3 DEF Inert
<1>4. /\ op'.pc = x /\ op'.r = op.r /\ op'.existing = op.existing /\ op'.m = op.m
      /\ HotOK' /\ IdleOK' /\ TrashOK' /\ GoneOK'
  BY <1>1, <1>3, FileOpGoesOn
<1>5. OpFilesOK' /\ PhaseOK' /\ WriteFailed'
  BY <1>2, OpFilesAtRest DEF Ending
<1>6. NextOK'
  BY <1>2, NamesKept DEF Ending, Going, Undoing
<1>7. ThereOK'
  BY <1>1 DEF RefInv, DirsOK, ThereOK, Litter
<1> QED BY <1>4, <1>5, <1>6, <1>7, RefInvParts

LEMMA CommitRef ==
  ASSUME TypeInv, CleanInv, CleanInv', RefInv, Commit \/ RemoveBackup \/ RecordCleanup
  PROVE  RefInv'
<1>1. op.pc \in {"staged", "committed", "cleaned"} /\ op.pc \in Active /\ op.r.kind # "drop"
  BY DEF Commit, RemoveBackup, RecordCleanup, Active, Going, Ending
<1>2. op.m \in Muts /\ op.r.kind \in FileKinds /\ root \in Dirs
  BY <1>1, ActiveOp
<1>3. mode' = mode /\ trash' = trash /\ story' = story /\ del' = del
  BY DEF Commit, RemoveBackup, RecordCleanup, disk, rows
<1>4. CASE Commit \/ RecordCleanup
  <2>1. PICK y \in Final : SetPhase(y)
    BY <1>4 DEF Commit, RecordCleanup, Final
  <2>2. PICK x \in Ending : op' = [op EXCEPT !.pc = x]
    BY <1>4 DEF Commit, RecordCleanup, Ending
  <2>3. root' = root
    BY <1>4 DEF Commit, RecordCleanup, disk
  <2>4. /\ \A n \in Muts : n # op.m => intents'[n] = intents[n]
        /\ \A n \in Muts : /\ intents'[n].kind = intents[n].kind /\ intents'[n].path = intents[n].path
                           /\ intents'[n].next = intents[n].next
        /\ intents'[op.m].phase = y
    BY <1>2, <2>1, PhaseIsSet DEF TypeInv, Phases
  <2> QED BY <1>1, <1>2, <1>3, <2>2, <2>3, <2>4, PastCommit
<1>5. CASE RemoveBackup
  <2>1. op.pc = "committed" /\ op' = [op EXCEPT !.pc = "cleaned"] /\ intents' = intents /\ "cleaned" \in Ending
    BY <1>5 DEF RemoveBackup, rows, Ending
  <2>2. intents[op.m].phase \in Final
    BY <1>2, <2>1 DEF CleanInv, RowOK, Ending
  <2>3. root' = root \/ root' = WithoutBak(root, op.m)
    BY <1>5 DEF RemoveBackup, WithoutBak
  <2>4. WithoutBak(root, op.m).there = root.there
    BY <1>2, ThereIs
  <2>5. /\ WithoutBak(root, op.m).file = root.file /\ WithoutBak(root, op.m).tmp = root.tmp
        /\ WithoutBak(root, op.m).bak = [root.bak EXCEPT ![op.m] = NoFile]
    BY <1>2, WithoutBakFacts
  <2>6. \A n \in Muts : root'.bak[n] = root.bak[n] \/ (n = op.m /\ root'.bak[n] = NoFile)
    BY <1>2, <2>3, <2>5, DirParts
  <2>7. root'.there = root.there /\ root'.file = root.file /\ root'.tmp = root.tmp
    BY <2>3, <2>4, <2>5
  <2> QED BY <1>1, <1>2, <1>3, <2>1, <2>2, <2>6, <2>7, PastCommit
<1> QED BY <1>4, <1>5

-----------------------------------------------------------------------------
(* The documents without the operation that goes on.                       *)

Before ==
  IF op.r.kind = "rename"
  THEN IF root.file[op.r.next] # NoFile /\ root.file[op.r.path] = NoFile
       THEN [root.file EXCEPT ![op.r.path] = root.file[op.r.next], ![op.r.next] = NoFile] ELSE root.file
  ELSE [root.file EXCEPT ![op.r.path] = IF root.bak[op.m] # NoFile THEN root.bak[op.m]
                                        ELSE IF op.r.kind = "write" /\ ~op.existing THEN NoFile ELSE @]

LEMMA RestoredFile ==
  ASSUME NEW d \in Dirs, NEW p \in Paths, NEW m \in Muts
  PROVE  /\ Restored(d, p, m).file = [d.file EXCEPT ![p] = d.bak[m]]
         /\ Restored(d, p, m) \in Dirs /\ Restored(d, p, m).there = d.there
<1>1. Restored(d, p, m).file = [d.file EXCEPT ![p] = d.bak[m]]
  BY DEF Restored, Dirs
<1>2. Restored(d, p, m) \in Dirs /\ Restored(d, p, m).there = d.there
  BY RestoredFacts, ThereIs
<1> QED BY <1>1, <1>2

\* Taking a move or a deletion back.
LEMMA MovedBackIsBefore ==
  ASSUME TypeInv, CleanInv, op.pc \in Going \cup {"undo", "undoing"}, op.r.kind \in {"rename", "delete"}
  PROVE  /\ MovedBack(root, op.r.kind, op.r.path, op.r.next, op.m).file = Before
         /\ MovedBack(root, op.r.kind, op.r.path, op.r.next, op.m).there = root.there
<1> DEFINE p == op.r.path
           q == op.r.next
           m == op.m
<1>1. op.m \in Muts /\ root \in Dirs /\ op.r.path \in Paths /\ (op.r.kind = "rename" => op.r.next \in Paths)
  BY ActiveOp DEF Active, Undoing, FileKinds
<1>2. CASE op.r.kind = "rename"
  <2>1. CASE root.file[q] # NoFile /\ root.file[p] = NoFile
    <3>1. MovedBack(root, op.r.kind, p, q, m) = Moved(root, q, p)
      BY <1>2, <2>1 DEF MovedBack
    <3> HIDE DEF p, q, m
    <3>2. p \in Paths /\ q \in Paths
      BY <1>1, <1>2 DEF p, q
    <3>3. Moved(root, q, p).file = [root.file EXCEPT ![p] = root.file[q], ![q] = NoFile] /\ Moved(root, q, p).there = root.there
      <4>1. Moved(root, q, p).file = [root.file EXCEPT ![p] = root.file[q], ![q] = NoFile]
        BY <1>1, <3>2, MovedFacts
      <4>2. Moved(root, q, p).there = root.there
        BY <1>1, <3>2, ThereIs
      <4> QED BY <4>1, <4>2
    <3>4. Before = [root.file EXCEPT ![p] = root.file[q], ![q] = NoFile]
      BY <1>2, <2>1 DEF Before, p, q
    <3> QED BY <3>1, <3>3, <3>4 DEF p, q, m
  <2>2. CASE ~(root.file[q] # NoFile /\ root.file[p] = NoFile)
    BY <1>2, <2>2 DEF MovedBack, Before
  <2> QED BY <2>1, <2>2
<1>3. CASE op.r.kind = "delete"
  <2>1. CASE root.bak[m] # NoFile
    <3>1. intents[op.m].kind = "delete" /\ intents[op.m].path = op.r.path /\ intents[op.m].phase \notin Final
      BY <1>3 DEF CleanInv, RowOK, Undoing, FileKinds, Going, Ending
    <3>2. root.file[p] = NoFile
      BY <1>1, <2>1, <3>1 DEF CleanInv, DeleteOK
    <3>3. MovedBack(root, op.r.kind, p, q, m) = Restored(root, p, m)
      BY <1>3, <2>1, <3>2 DEF MovedBack
    <3> HIDE DEF p, q, m
    <3>4. Restored(root, p, m).file = [root.file EXCEPT ![p] = root.bak[m]] /\ Restored(root, p, m).there = root.there
      BY <1>1, RestoredFile, ThereIs DEF p, m
    <3>5. Before = [root.file EXCEPT ![p] = root.bak[m]]
      BY <1>3, <2>1 DEF Before, p, m
    <3> QED BY <3>3, <3>4, <3>5 DEF p, q, m
  <2>2. CASE root.bak[m] = NoFile
    <3>1. MovedBack(root, op.r.kind, p, q, m) = root
      BY <1>3, <2>2 DEF MovedBack
    <3>2. Before = [root.file EXCEPT ![p] = @]
      BY <1>3, <2>2 DEF Before
    <3>3. Before = root.file
      BY <1>1, <3>2, DirParts
    <3> QED BY <3>1, <3>3
  <2> QED BY <2>1, <2>2
<1> QED BY <1>2, <1>3

\* What the rollback leaves.
LEMMA RolledBackIsBefore ==
  ASSUME TypeInv, CleanInv, RefInv, op.pc \in {"undo", "undoing"}, op.r.kind \in FileKinds
  PROVE  RolledBack(root).file = Before /\ RolledBack(root).there = root.there
<1> DEFINE p == op.r.path
           m == op.m
           w == IF op.existing THEN IF root.bak[m] # NoFile THEN Restored(root, p, m) ELSE root
                ELSE WithoutFile(root, p)
<1>1. op.m \in Muts /\ root \in Dirs /\ op.r.path \in Paths
  BY ActiveOp DEF Active, Undoing
<1>2. CASE op.r.kind # "write"
  <2>1. op.r.kind \in {"rename", "delete"} /\ op.pc \in Going \cup {"undo", "undoing"}
    BY <1>2 DEF FileKinds
  <2>2. RolledBack(root) = MovedBack(root, op.r.kind, op.r.path, op.r.next, op.m)
    BY <1>2 DEF RolledBack
  <2> QED BY <2>1, <2>2, MovedBackIsBefore
<1>3. CASE op.r.kind = "write"
  <2>1. RolledBack(root) = WithoutTmp(w, m)
    BY <1>3 DEF RolledBack
  <2>2. w \in Dirs /\ w.file = Before /\ w.there = root.there
    <3>1. CASE op.existing /\ root.bak[m] # NoFile
      <4>1. w = Restored(root, p, m)
        BY <3>1
      <4>2. Before = [root.file EXCEPT ![p] = root.bak[m]]
        BY <1>3, <3>1 DEF Before
      <4> HIDE DEF w, p, m
      <4>3. Restored(root, p, m) \in Dirs /\ Restored(root, p, m).file = [root.file EXCEPT ![p] = root.bak[m]]
            /\ Restored(root, p, m).there = root.there
        BY <1>1, RestoredFile DEF p, m
      <4> QED BY <4>1, <4>2, <4>3
    <3>2. CASE op.existing /\ root.bak[m] = NoFile
      <4>1. w = root
        BY <3>2
      <4>2. Before = [root.file EXCEPT ![p] = @]
        BY <1>3, <3>2 DEF Before
      <4> HIDE DEF w
      <4> QED BY <1>1, <4>1, <4>2, DirParts
    <3>3. CASE ~op.existing
      <4>1. w = WithoutFile(root, p)
        BY <3>3
      <4>2. root.bak[m] = NoFile
        BY <1>3, <3>3 DEF CleanInv, WriteOK, Undoing
      <4>3. Before = [root.file EXCEPT ![p] = NoFile]
        BY <1>3, <3>3, <4>2 DEF Before
      <4> HIDE DEF w, p
      <4>4. WithoutFile(root, p) \in Dirs /\ WithoutFile(root, p).file = [root.file EXCEPT ![p] = NoFile]
            /\ WithoutFile(root, p).there = root.there
        BY <1>1, WithoutFileFacts, ThereIs DEF p
      <4> QED BY <4>1, <4>3, <4>4
    <3> QED BY <3>1, <3>2, <3>3
  <2> HIDE DEF w
  <2>3. WithoutTmp(w, m).file = w.file /\ WithoutTmp(w, m).there = w.there
    BY <1>1, <2>2, WithoutTmpFacts, ThereIs
  <2> QED BY <2>1, <2>2, <2>3
<1> QED BY <1>2, <1>3

\* What recovery leaves if the process dies now.
LEMMA RecoveredIsBefore ==
  ASSUME TypeInv, CleanInv, RefInv, op.pc \in Going \cup {"undo", "undoing"}, op.r.kind \in FileKinds
  PROVE  Recovered(root, op.m).file = Before
<1> DEFINE p == op.r.path
           m == op.m
           w == IF root.bak[m] # NoFile THEN Restored(root, p, m)
                ELSE IF p \notin index /\ StagedRow(m) THEN WithoutFile(root, p) ELSE root
<1>1. op.m \in Muts /\ root \in Dirs /\ op.r.path \in Paths
  BY ActiveOp DEF Active, Undoing
<1>0. /\ intents[op.m].kind = op.r.kind /\ intents[op.m].path = op.r.path /\ intents[op.m].phase \notin Final
      /\ intents[op.m].kind # "none"
  BY DEF CleanInv, RowOK, Undoing, FileKinds, Going, Ending
<1>2. CASE op.r.kind # "write"
  <2>1. op.r.kind \in {"rename", "delete"}
    BY <1>2 DEF FileKinds
  <2>2. Recovered(root, op.m) = MovedBack(root, op.r.kind, op.r.path, intents[op.m].next, op.m)
    BY <1>0, <1>2 DEF Recovered, Final
  <2>3. op.r.kind = "rename" => intents[op.m].next = op.r.next
    BY DEF RefInv, OpRowOK, NextOK, Undoing
  <2>4. op.r.kind = "delete" => MovedBack(root, op.r.kind, op.r.path, intents[op.m].next, op.m)
                                  = MovedBack(root, op.r.kind, op.r.path, op.r.next, op.m)
    BY DEF MovedBack
  <2> QED BY <2>1, <2>2, <2>3, <2>4, MovedBackIsBefore
<1>3. CASE op.r.kind = "write"
  <2>1. Recovered(root, op.m) = WithoutTmp(w, m)
    BY <1>0, <1>3 DEF Recovered, Final, StagedRow
  <2>2. w \in Dirs /\ w.file = Before
    <3>1. CASE root.bak[m] # NoFile
      <4>1. w = Restored(root, p, m)
        BY <3>1
      <4>2. Before = [root.file EXCEPT ![p] = root.bak[m]]
        BY <1>3, <3>1 DEF Before
      <4> HIDE DEF w, p, m
      <4>3. Restored(root, p, m) \in Dirs /\ Restored(root, p, m).file = [root.file EXCEPT ![p] = root.bak[m]]
        BY <1>1, RestoredFile DEF p, m
      <4> QED BY <4>1, <4>2, <4>3
    <3>2. CASE root.bak[m] = NoFile /\ op.existing
      <4>1. ~StagedRow(m)
        BY <1>3, <3>2 DEF RefInv, OpFilesOK, WriteOver
      <4>2. w = root
        BY <3>2, <4>1
      <4>3. Before = [root.file EXCEPT ![p] = @]
        BY <1>3, <3>2 DEF Before
      <4> HIDE DEF w
      <4> QED BY <1>1, <4>2, <4>3, DirParts
    <3>3. CASE root.bak[m] = NoFile /\ ~op.existing
      <4>1. p \notin index /\ (~StagedRow(m) => root.file[p] = NoFile)
        BY <1>3, <3>3 DEF RefInv, OpFilesOK, WriteNew, Undoing
      <4>2. Before = [root.file EXCEPT ![p] = NoFile]
        BY <1>3, <3>3 DEF Before
      <4>3. CASE StagedRow(m)
        <5>1. w = WithoutFile(root, p)
          BY <3>3, <4>1, <4>3
        <5> HIDE DEF w, p
        <5>2. WithoutFile(root, p) \in Dirs /\ WithoutFile(root, p).file = [root.file EXCEPT ![p] = NoFile]
          BY <1>1, WithoutFileFacts DEF p
        <5> QED BY <4>2, <5>1, <5>2
      <4>4. CASE ~StagedRow(m)
        <5>1. w = root /\ root.file[p] = NoFile
          BY <3>3, <4>1, <4>4
        <5> HIDE DEF w
        <5> QED BY <1>1, <4>2, <5>1, DirParts
      <4> QED BY <4>3, <4>4
    <3> QED BY <3>1, <3>2, <3>3
  <2> HIDE DEF w
  <2>3. WithoutTmp(w, m).file = w.file
    BY <1>1, <2>2, WithoutTmpFacts
  <2> QED BY <2>1, <2>2, <2>3
<1> QED BY <1>2, <1>3

-----------------------------------------------------------------------------
(* RefInv is inductive: an operation that turns back or ends.              *)

LEMMA FailRef ==
  ASSUME TypeInv, CleanInv, RefInv, Fail
  PROVE  RefInv'
<1>1. op.pc \in Going /\ op.pc \in Active /\ "undo" \in Active /\ op' = [op EXCEPT !.pc = "undo"] /\ op.r.kind # "drop"
  BY DEF Fail, Uncommitted, Active, Going, Undoing
<1>2. op.m \in Muts /\ op.r.kind \in FileKinds
  BY <1>1, ActiveOp
<1>3. /\ mode' = mode /\ trash' = trash /\ story' = story /\ del' = del /\ index' = index /\ root' = root
      /\ intents' = intents
  BY DEF Fail, disk, rows
<1>4. /\ op'.pc = "undo" /\ op'.r = op.r /\ op'.existing = op.existing /\ op'.m = op.m
      /\ HotOK' /\ IdleOK' /\ TrashOK' /\ GoneOK'
  BY <1>1, <1>2, <1>3, FileOpGoesOn
<1>5. NextOK' /\ PhaseOK'
  BY <1>1, <1>3, <1>4 DEF RefInv, OpRowOK, NextOK, PhaseOK
<1>6. WriteFailed'
  <2>1. SUFFICES ASSUME op.r.kind = "write", mode = "up", intents[op.m].phase # "receiving" PROVE used'.faults > 0
    BY <1>3, <1>4 DEF WriteFailed
  <2>2. op.pc \notin {"receiving", "streaming"}
    BY <2>1 DEF RefInv, OpRowOK, PhaseOK
  <2>3. Fault
    BY <2>1, <2>2 DEF Fail
  <2>4. used'.faults = used.faults + 1 /\ used.faults \in Nat
    BY <2>1, <2>3, FaultCounts DEF TypeInv, Types, UsedType
  <2> QED BY <2>4
<1>7. WriteNew'
  <2>1. StagedRow(op.m)' <=> StagedRow(op.m)
    BY <1>3, <1>4 DEF StagedRow
  <2> QED BY <1>1, <1>3, <1>4, <2>1 DEF RefInv, OpFilesOK, WriteNew
<1>8. WriteOver'
  <2>1. StagedRow(op.m)' <=> StagedRow(op.m)
    BY <1>3, <1>4 DEF StagedRow
  <2> QED BY <1>1, <1>3, <1>4, <2>1 DEF RefInv, OpFilesOK, WriteOver
<1>9. WriteFile' /\ RemovedOK' /\ ThereOK'
  BY <1>1, <1>3, <1>4 DEF RefInv, OpFilesOK, WriteFile, RemovedOK, DirsOK, ThereOK
<1>10. MoveOK'
  <2>1. op.r.kind = "rename" => op.pc \in {"prepared", "moved", "staged"}
    BY <1>1 DEF TypeInv, OpOK, Going
  <2> QED BY <1>3, <1>4, <2>1 DEF RefInv, OpFilesOK, MoveOK
<1> QED BY <1>4, <1>5, <1>6, <1>7, <1>8, <1>9, <1>10, RefInvParts DEF OpFilesOK

LEMMA RollBackPartRef ==
  ASSUME TypeInv, CleanInv, RefInv, RollBackPart
  PROVE  RefInv'
<1>1. op.pc = "undo" /\ op.pc \in Active /\ "undoing" \in Active /\ op' = [op EXCEPT !.pc = "undoing"]
      /\ op.r.kind = "write" /\ op.existing /\ root.bak[op.m] # NoFile
  BY DEF RollBackPart, Active, Undoing
<1>2. op.m \in Muts /\ op.r.path \in Paths /\ root \in Dirs
  BY <1>1, ActiveOp DEF FileKinds
<1>3. mode' = mode /\ trash' = trash /\ story' = story /\ del' = del /\ index' = index /\ intents' = intents /\ used' = used
  BY DEF RollBackPart, rows
<1>4. root'.tmp = root.tmp /\ root'.bak = root.bak /\ root'.there = root.there
  <2>1. WithoutFile(root, op.r.path).tmp = root.tmp /\ WithoutFile(root, op.r.path).bak = root.bak
    BY <1>2, WithoutFileFacts
  <2>2. WithoutFile(root, op.r.path).there = root.there
    BY <1>2, ThereIs
  <2> QED BY <2>1, <2>2 DEF RollBackPart
<1>5. /\ op'.pc = "undoing" /\ op'.r = op.r /\ op'.existing = op.existing /\ op'.m = op.m
      /\ HotOK' /\ IdleOK' /\ TrashOK' /\ GoneOK'
  BY <1>1, <1>2, <1>3, <1>4, FileOpGoesOn DEF FileKinds
<1>6. NextOK' /\ PhaseOK' /\ WriteFailed'
  BY <1>1, <1>3, <1>5 DEF RefInv, OpRowOK, NextOK, PhaseOK, WriteFailed, Undoing
<1>7. root.there
  BY <1>1 DEF RefInv, OpFilesOK, WriteFile, Undoing
<1>8. WriteNew' /\ WriteOver' /\ WriteFile' /\ MoveOK' /\ RemovedOK' /\ ThereOK'
  BY <1>1, <1>4, <1>5, <1>7 DEF WriteNew, WriteOver, WriteFile, MoveOK, RemovedOK, ThereOK
<1> QED BY <1>5, <1>6, <1>8, RefInvParts DEF OpFilesOK

LEMMA RollBackRef ==
  ASSUME TypeInv, CleanInv, CleanInv', RefInv, RollBack
  PROVE  RefInv' /\ root'.file = Before
<1>1. op.pc \in {"undo", "undoing"} /\ op.pc \in Active /\ "undone" \in Active /\ op' = [op EXCEPT !.pc = "undone"]
      /\ op.r.kind # "drop" /\ root' = RolledBack(root)
  BY DEF RollBack, Active, Undoing
<1>2. op.m \in Muts /\ op.r.kind \in FileKinds /\ op.r.path \in Paths /\ root \in Dirs /\ mode \in {"up", "closing"}
      /\ op.r \in Requests /\ (op.r.kind = "rename" => op.r.next \in Paths /\ op.r.path # op.r.next)
  BY <1>1, ActiveOp
<1>3. mode' = mode /\ trash' = trash /\ story' = story /\ del' = del /\ index' = index /\ intents' = intents /\ used' = used
  BY DEF RollBack, rows
<1>4. root'.file = Before /\ root'.there = root.there
  BY <1>1, <1>2, RolledBackIsBefore
<1>5. \A n \in Muts : n # op.m => root'.tmp[n] = root.tmp[n] /\ root'.bak[n] = root.bak[n]
  BY <1>1, <1>2, RolledBackFacts DEF TypeInv
<1>6. /\ op'.pc = "undone" /\ op'.r = op.r /\ op'.existing = op.existing /\ op'.m = op.m
      /\ HotOK' /\ IdleOK' /\ TrashOK' /\ GoneOK'
  BY <1>1, <1>2, <1>3, <1>5, FileOpGoesOn
<1>7. NextOK' /\ PhaseOK' /\ WriteFailed'
  BY <1>1, <1>3, <1>6 DEF RefInv, OpRowOK, NextOK, PhaseOK, WriteFailed, Undoing
<1>8. WriteNew'
  <2>1. SUFFICES ASSUME op.r.kind = "write", ~op.existing
                 PROVE  op.r.path \notin index /\ root'.file[op.r.path] = NoFile
    BY <1>3, <1>6 DEF WriteNew
  <2>2. root.bak[op.m] = NoFile
    BY <1>1, <2>1 DEF CleanInv, WriteOK, Undoing
  <2>3. root'.file = [root.file EXCEPT ![op.r.path] = NoFile]
    BY <1>4, <2>1, <2>2 DEF Before
  <2>4. root'.file[op.r.path] = NoFile
    BY <1>2, <2>3, DirParts
  <2> QED BY <1>1, <2>1, <2>4 DEF RefInv, OpFilesOK, WriteNew, Undoing
<1>9. WriteOver' /\ RemovedOK'
  BY <1>6 DEF WriteOver, RemovedOK, Going
<1>10. WriteFile' /\ (op.r.kind = "write" => root.there)
  BY <1>1, <1>4, <1>6 DEF RefInv, OpFilesOK, WriteFile, Undoing
<1>11. MoveOK' /\ (op.r.kind = "rename" => root.there)
  <2>1. SUFFICES ASSUME op.r.kind = "rename" PROVE root'.file[op.r.path] # NoFile /\ root.there
    BY <1>6 DEF MoveOK
  <2>2. op.pc = "undo"
    BY <1>1, <2>1 DEF TypeInv, OpOK
  <2>3. root.file[op.r.path] # NoFile \/ root.file[op.r.next] # NoFile
    BY <2>1, <2>2 DEF RefInv, OpFilesOK, MoveOK
  <2>4. root.there
    BY <1>2, <2>1, <2>3 DEF RefInv, DirsOK, ThereOK
  <2>5. root'.file[op.r.path] # NoFile
    <3>1. CASE root.file[op.r.path] # NoFile
      BY <1>4, <2>1, <3>1 DEF Before
    <3>2. CASE root.file[op.r.path] = NoFile
      <4>1. root'.file = [root.file EXCEPT ![op.r.path] = root.file[op.r.next], ![op.r.next] = NoFile]
        BY <1>4, <2>1, <2>3, <3>2 DEF Before
      <4> QED BY <1>2, <2>1, <2>3, <3>2, <4>1, DirParts
    <3> QED BY <3>1, <3>2
  <2> QED BY <2>4, <2>5
<1>12. ThereOK'
  <2>1. SUFFICES ASSUME ~root.there
                 PROVE  (\A p \in Paths : root'.file[p] = NoFile) /\ \A n \in Muts : ~Litter(root', n)
    BY <1>4 DEF ThereOK
  <2>2. op.r.kind = "delete"
    BY <1>2, <1>10, <1>11, <2>1 DEF FileKinds
  <2>3. root.bak[op.m] = NoFile /\ \A p \in Paths : root.file[p] = NoFile
    BY <1>2, <2>1 DEF RefInv, DirsOK, ThereOK, Litter
  <2>4. root'.file = [root.file EXCEPT ![op.r.path] = @]
    BY <1>4, <2>2, <2>3 DEF Before
  <2>5. \A n \in Muts : ~Litter(root', n)
    BY <1>2, <1>3, <1>6 DEF CleanInv, AsideOK, Going
  <2> QED BY <1>2, <2>3, <2>4, <2>5, DirParts
<1> QED BY <1>4, <1>6, <1>7, <1>8, <1>9, <1>10, <1>11, <1>12, RefInvParts DEF OpFilesOK

\* The lock is given back: no row matters, or the process is shutting down.
LEMMA EndRef ==
  ASSUME TypeInv, RefInv, op # NoOp, op' = NoOp, mode \in {"up", "closing"}, mode' = mode,
         root' = root, trash' = trash, story' = story, ~trash.there \/ story = "gone",
         \A n \in Muts : intents'[n] = intents[n] \/ intents'[n].kind = "none",
         mode = "closing" \/ \A n \in Muts : Inert(n)'
  PROVE  RefInv'
<1>1. \A n \in Muts : n # op.m => Inert(n)
  BY OthersInert DEF RefInv
<1>2. \A n \in Muts : n # op.m => Inert(n)'
  BY <1>1 DEF Inert
<1>3. HotOK'
  BY <1>2 DEF HotOK
<1>4. op'.pc = "idle" /\ op'.r.kind = "none" /\ IdleOK'
  BY IdleIsNoOp DEF IdleOK
<1>5. OpFilesOK' /\ PhaseOK' /\ WriteFailed'
  BY <1>4, OpFilesAtRest DEF FileKinds
<1>6. NextOK'
  BY <1>4, NamesKept
<1>7. ThereOK' /\ TrashOK' /\ GoneOK'
  BY <1>4 DEF RefInv, DirsOK, ThereOK, TrashOK, GoneOK
<1> QED BY <1>3, <1>4, <1>5, <1>6, <1>7, RefInvParts

\* An operation that gives up keeps a row that matters only during the shutdown: before it,
\* an upload or a move turns back at the one failure.
LEMMA NothingMatters ==
  ASSUME TypeInv, CleanInv, RefInv, OneFailure, Abandon, mode = "up"
  PROVE  \A n \in Muts : Inert(n)
<1>1. op.pc \in {"cleaned", "cleanup", "undone"} /\ op.pc \in Active /\ Fault
  BY DEF Abandon, Active, Undoing, Ending
<1>2. op.m \in Muts /\ op.r.kind \in FileKinds \cup {"drop"}
  BY <1>1, ActiveOp
<1>3. CASE op.pc # "undone" \/ op.r.kind \notin FileKinds
  BY <1>1, <1>3, OthersInert DEF RefInv, Holding, Going
<1>4. CASE op.pc = "undone" /\ op.r.kind \in FileKinds
  <2>1. used.faults \in Nat /\ used.faults < MaxFaults /\ MaxFaults \in Nat
    BY <1>1, StoryAssumption, FaultCounts DEF TypeInv, Types, UsedType
  <2>2. used.faults = 0
    BY <2>1 DEF OneFailure
  <2>3. op.r.kind # "rename" /\ (op.r.kind = "write" => intents[op.m].phase = "receiving")
    BY <1>4, <2>2 DEF RefInv, OpRowOK, WriteFailed, CleanInv, MoveFailed, Undoing
  <2>4. intents[op.m].kind = op.r.kind /\ ~Litter(root, op.m)
    BY <1>2, <1>4 DEF CleanInv, RowOK, AsideOK, Undoing, Going
  <2>5. Inert(op.m)
    BY <1>4, <2>3, <2>4 DEF Inert, FileKinds
  <2> QED BY <2>5, OthersInert DEF RefInv
<1> QED BY <1>3, <1>4

LEMMA OpEndsRef ==
  ASSUME TypeInv, CleanInv, RefInv, OneFailure,
         Refuse \/ Answer \/ Abandon \/ DropUndone \/ CloseStream
  PROVE  RefInv'
<1>1. /\ op' = NoOp /\ mode' = mode /\ root' = root /\ trash' = trash /\ story' = story /\ intents' = intents
      /\ op.pc \in {"locked", "answer", "cleaned", "cleanup", "undone", "reading"}
  BY DEF Refuse, Answer, Abandon, DropUndone, CloseStream, disk, rows
<1>2. op # NoOp /\ mode \in {"up", "closing"}
  BY <1>1, NoRequestFacts DEF TypeInv, Types, OpOK
<1>3. ~trash.there \/ story = "gone"
  BY <1>1, <1>2 DEF RefInv, DirsOK, TrashOK
<1>4. mode = "closing" \/ \A n \in Muts : Inert(n)
  <2>1. CASE Abandon
    BY <1>2, <2>1, NothingMatters
  <2>2. CASE ~Abandon
    <3>1. op.pc # "undone" \/ op.r.kind \notin FileKinds
      BY <2>2 DEF Refuse, Answer, DropUndone, CloseStream, FileKinds
    <3> QED BY <1>1, <1>2, <3>1, OthersInert DEF RefInv, Holding, Going
  <2> QED BY <2>1, <2>2
<1>5. \A n \in Muts : Inert(n)' <=> Inert(n)
  BY <1>1 DEF Inert
<1> QED BY <1>1, <1>2, <1>3, <1>4, <1>5, EndRef

LEMMA DeleteIntentRef ==
  ASSUME TypeInv, CleanInv, CleanInv', RefInv, DeleteIntent
  PROVE  RefInv'
<1>1. op.pc \in {"cleanup", "undone"} /\ op.pc \in Active /\ op.r.kind # "drop"
      /\ intents' = [intents EXCEPT ![op.m] = NoIntent]
  BY DEF DeleteIntent, Active, Undoing, Ending
<1>2. op.m \in Muts /\ op.r.kind \in FileKinds /\ op # NoOp /\ mode \in {"up", "closing"}
  BY <1>1, ActiveOp
<1>3. mode' = mode /\ trash' = trash /\ story' = story /\ del' = del /\ root' = root
  BY DEF DeleteIntent, disk
<1>4. intents'[op.m].kind = "none" /\ \A n \in Muts : n # op.m => intents'[n] = intents[n]
  BY <1>1, <1>2, RowIsRemoved DEF TypeInv
<1>5. CASE op.pc = "cleanup"
  <2>1. op' = [op EXCEPT !.pc = "answer"]
    BY <1>5 DEF DeleteIntent
  <2> QED BY <1>1, <1>2, <1>3, <1>4, <2>1, PastCommit
<1>6. CASE op.pc = "undone"
  <2>1. op' = NoOp
    BY <1>6 DEF DeleteIntent
  <2>2. \A n \in Muts : Inert(n)'
    <3>1. \A n \in Muts : n # op.m => Inert(n)
      BY <1>2, OthersInert DEF RefInv
    <3> QED BY <1>3, <1>4, <3>1 DEF Inert
  <2>3. ~trash.there \/ story = "gone"
    BY <1>2, <1>6 DEF RefInv, DirsOK, TrashOK
  <2> QED BY <1>2, <1>3, <1>4, <2>1, <2>2, <2>3, EndRef
<1> QED BY <1>1, <1>5, <1>6

-----------------------------------------------------------------------------
(* RefInv is inductive: the deletion of the Story.                         *)

LEMMA DropOp ==
  ASSUME TypeInv, RefInv, op.pc \in Active, op.r.kind = "drop", op.pc \notin Ending
  PROVE  /\ story # "gone" /\ mode \in {"up", "closing"} /\ root \in Dirs /\ trash \in Dirs
         /\ \A n \in Muts : Inert(n)
         /\ op.pc \notin {"moved", "staged", "undo"} => ~trash.there
<1>1. op # NoOp /\ mode \in {"up", "closing"} /\ root \in Dirs /\ trash \in Dirs
  BY ActiveOp
<1>2. story # "gone"
  BY DEF RefInv, DirsOK, GoneOK
<1>3. op.pc \notin {"moved", "staged", "undo"} => ~trash.there
  BY <1>1, <1>2 DEF RefInv, DirsOK, TrashOK
<1> QED BY <1>1, <1>2, <1>3, OthersInert DEF RefInv, FileKinds

\* The deletion goes on: no row of a document matters.
LEMMA DropGoesOn ==
  ASSUME TypeInv, RefInv, CleanInv', op.pc \in Active, op.r.kind = "drop",
         mode' = mode, intents' = intents, op'.r = op.r, op'.pc \in Active, op'.pc # "locked",
         ThereOK', TrashOK', GoneOK'
  PROVE  RefInv'
<1>1. mode \in {"up", "closing"} /\ op # NoOp
  BY ActiveOp
<1>2. \A n \in Muts : Inert(n)
  BY <1>1, OthersInert DEF RefInv, FileKinds
<1>3. \A n \in Muts : ~Litter(root', n)
  BY <1>1 DEF CleanInv, AsideOK, FileKinds
<1>4. \A n \in Muts : Inert(n)'
  BY <1>2, <1>3 DEF Inert
<1>5. HotOK'
  BY <1>4 DEF HotOK
<1>6. IdleOK'
  BY DEF IdleOK, Active, Going, Undoing, Ending
<1>7. OpFilesOK' /\ PhaseOK' /\ WriteFailed'
  BY OpFilesAtRest DEF FileKinds
<1>8. NextOK'
  BY NamesKept
<1> QED BY <1>5, <1>6, <1>7, <1>8, RefInvParts

LEMMA DropStepsRef ==
  ASSUME TypeInv, CleanInv, CleanInv', RefInv,
         DropPrepare \/ DropStaged \/ DropCommit \/ DropFail
  PROVE  RefInv'
<1>1. op.pc \in {"locked", "prepared", "moved", "staged"} /\ op.r.kind = "drop" /\ op.pc \in Active
      /\ mode' = mode /\ intents' = intents /\ root' = root /\ trash' = trash
  BY DEF DropPrepare, DropStaged, DropCommit, DropFail, Active, Going, disk, rows
<1>2. op \in OpType /\ \E x \in {"prepared", "staged", "committed", "undo"} : op' = [op EXCEPT !.pc = x]
  BY <1>1, ActiveOp DEF DropPrepare, DropStaged, DropCommit, DropFail
<1>3. op'.r = op.r /\ op'.pc \in {"prepared", "staged", "committed", "undo"} /\ op'.pc # "locked"
  BY <1>2 DEF OpType
<1>4. op'.pc \in Active
  BY <1>3 DEF Active, Going, Undoing, Ending
<1>5. story # "gone" /\ mode \in {"up", "closing"} /\ (op.pc \notin {"moved", "staged", "undo"} => ~trash.there)
  BY <1>1, DropOp DEF Ending
<1>6. ThereOK'
  BY <1>1 DEF RefInv, DirsOK, ThereOK
<1>7. CASE DropPrepare \/ DropStaged
  <2>1. del' # NoDel /\ story' = story /\ op'.pc \in {"prepared", "staged"}
        /\ (op.pc = "locked" <=> op'.pc = "prepared") /\ op.pc \in {"locked", "moved"}
    BY <1>2, <1>7 DEF DropPrepare, DropStaged, PutDeletion, NoDel, OpType
  <2>2. TrashOK'
    BY <1>1, <1>3, <1>5, <2>1 DEF RefInv, DirsOK, TrashOK
  <2>3. GoneOK'
    BY <1>5, <2>1 DEF GoneOK, Ending
  <2> QED BY <1>1, <1>3, <1>4, <1>6, <2>2, <2>3, DropGoesOn
<1>8. CASE DropCommit
  <2>1. story' = "gone" /\ op'.pc = "committed" /\ op.pc = "staged"
    BY <1>2, <1>8 DEF DropCommit, OpType
  <2>2. ~root.there
    BY <1>1, <2>1 DEF RefInv, DirsOK, TrashOK
  <2>3. TrashOK' /\ GoneOK'
    BY <1>1, <1>3, <2>1, <2>2 DEF TrashOK, GoneOK, Ending
  <2> QED BY <1>1, <1>3, <1>4, <1>6, <2>3, DropGoesOn
<1>9. CASE DropFail
  <2>1. story' = story /\ del' = del /\ op'.pc = "undo" /\ op.pc \in {"prepared", "moved", "staged"}
    BY <1>2, <1>9 DEF DropFail, OpType, rows
  <2>2. TrashOK'
    BY <1>1, <1>3, <1>5, <2>1 DEF RefInv, DirsOK, TrashOK
  <2>3. GoneOK'
    BY <1>5, <2>1 DEF GoneOK, Ending
  <2> QED BY <1>1, <1>3, <1>4, <1>6, <2>2, <2>3, DropGoesOn
<1> QED BY <1>7, <1>8, <1>9

LEMMA DropMoveRef ==
  ASSUME TypeInv, CleanInv, CleanInv', RefInv, DropMove
  PROVE  RefInv'
<1>1. op.pc = "prepared" /\ op.r.kind = "drop" /\ op.pc \in Active /\ trash' = root /\ root' = NoDir
      /\ mode' = mode /\ intents' = intents /\ story' = story /\ del' = del
      /\ op' = [op EXCEPT !.pc = "moved", !.existing = root.there]
  BY DEF DropMove, Active, Going, rows
<1>2. op \in OpType
  BY <1>1, ActiveOp
<1>3. op'.r = op.r /\ op'.pc = "moved"
  BY <1>1, <1>2 DEF OpType
<1>4. op'.pc \in Active /\ op'.pc # "locked"
  BY <1>3 DEF Active, Going
<1>5. story # "gone" /\ mode \in {"up", "closing"}
  BY <1>1, DropOp DEF Ending
<1>6. ~root'.there /\ (\A p \in Paths : root'.file[p] = NoFile) /\ \A n \in Muts : ~Litter(root', n)
  BY <1>1, NoDirFacts DEF NoDir
<1>7. ThereOK' /\ GoneOK'
  BY <1>1, <1>3, <1>5, <1>6 DEF ThereOK, GoneOK, Ending
<1>8. TrashOK'
  BY <1>1, <1>3, <1>5, <1>6 DEF RefInv, DirsOK, TrashOK
<1> QED BY <1>1, <1>3, <1>4, <1>7, <1>8, DropGoesOn

LEMMA DropRestoreRef ==
  ASSUME TypeInv, CleanInv, CleanInv', RefInv, DropRestore
  PROVE  RefInv' /\ ~trash'.there
<1>1. op.pc = "undo" /\ op.r.kind = "drop" /\ op.pc \in Active /\ mode' = mode /\ intents' = intents
      /\ story' = story /\ del' = del /\ op' = [op EXCEPT !.pc = "undone"]
  BY DEF DropRestore, Active, Undoing, rows
<1>2. op \in OpType
  BY <1>1, ActiveOp
<1>3. op'.r = op.r /\ op'.pc = "undone"
  BY <1>1, <1>2 DEF OpType
<1>4. op'.pc \in Active /\ op'.pc # "locked"
  BY <1>3 DEF Active, Undoing
<1>5. story # "gone" /\ mode \in {"up", "closing"}
  BY <1>1, DropOp DEF Ending
<1>6. ~trash'.there /\ (root' = root \/ (root' = trash /\ trash.there))
  <2>1. CASE trash.there /\ ~root.there
    BY <2>1 DEF DropRestore, NoDir
  <2>2. CASE ~(trash.there /\ ~root.there)
    <3>1. ~trash.there
      BY <1>5, <2>2 DEF RefInv, DirsOK, TrashOK
    <3> QED BY <2>2, <3>1 DEF DropRestore, disk
  <2> QED BY <2>1, <2>2
<1>7. ThereOK'
  BY <1>6 DEF RefInv, DirsOK, ThereOK
<1>8. TrashOK' /\ GoneOK'
  BY <1>1, <1>3, <1>5, <1>6 DEF TrashOK, GoneOK, Ending
<1> QED BY <1>1, <1>3, <1>4, <1>6, <1>7, <1>8, DropGoesOn

LEMMA DropCleanRef ==
  ASSUME TypeInv, CleanInv, CleanInv', RefInv, DropClean
  PROVE  RefInv'
<1>1. op.pc \in Ending /\ op.r.kind = "drop" /\ op.pc \in Active /\ root' = root
      /\ mode' = mode /\ intents' = intents /\ story' = story
  BY DEF DropClean, Active, Ending
<1>2. op \in OpType /\ op # NoOp /\ mode \in {"up", "closing"}
  BY <1>1, ActiveOp
<1>3. story = "gone" /\ ~root.there /\ ThereOK'
  BY <1>1 DEF RefInv, DirsOK, GoneOK, ThereOK
<1>4. CASE op' = NoOp
  <2>1. trash' = trash
    <3>1. op.pc \notin {"committed", "cleaned"}
      <4>1. NoOp.pc = "idle"
        BY NoRequestFacts
      <4> QED BY <1>2, <1>4, <4>1 DEF DropClean, OpType
    <3> QED BY <3>1 DEF DropClean
  <2>2. \A n \in Muts : Inert(n)
    BY <1>1, <1>2, OthersInert DEF RefInv, FileKinds
  <2>3. \A n \in Muts : Inert(n)'
    BY <1>1, <2>2 DEF Inert
  <2> QED BY <1>1, <1>2, <1>3, <1>4, <2>1, <2>3, EndRef
<1>5. CASE op' # NoOp
  <2>1. \E x \in {"cleaned", "cleanup"} : op' = [op EXCEPT !.pc = x]
    BY <1>5 DEF DropClean
  <2>2. op'.r = op.r /\ op'.pc \in {"cleaned", "cleanup"}
    BY <1>2, <2>1 DEF OpType
  <2>3. op'.pc \in Active /\ op'.pc # "locked"
    BY <2>2 DEF Active, Ending
  <2>4. TrashOK' /\ GoneOK'
    BY <1>1, <1>3, <2>2 DEF TrashOK, GoneOK, Ending
  <2> QED BY <1>1, <1>3, <2>2, <2>3, <2>4, DropGoesOn
<1> QED BY <1>4, <1>5

-----------------------------------------------------------------------------
(* RefInv is inductive: clients, readers, shutdown and start.              *)

LEMMA AcceptRef ==
  ASSUME TypeInv, RefInv, NEW r \in Requests, Accept(r)
  PROVE  RefInv'
<1>1. /\ mode = "up" /\ op = NoOp /\ story # "gone" /\ root' = root /\ trash' = trash /\ story' = story
      /\ intents' = intents /\ del' = del /\ mode' = mode
      /\ op' = [pc |-> "locked", r |-> r, existing |-> r.path \in index, m |-> used.ops + 1]
  BY DEF Accept, disk
<1>2. op'.pc = "locked" /\ op'.r = r /\ (op'.existing <=> r.path \in index)
  BY <1>1
<1>3. op.r.kind = "none" /\ op.pc = "idle"
  BY <1>1, IdleIsNoOp
<1>4. \A n \in Muts : Inert(n)
  BY <1>1, <1>3, OthersInert DEF RefInv, FileKinds
<1>5. HotOK'
  BY <1>1, <1>4 DEF HotOK, Inert
<1>6. IdleOK' /\ NextOK' /\ PhaseOK' /\ WriteFailed'
  BY <1>1, <1>2 DEF IdleOK, NextOK, PhaseOK, WriteFailed, RefInv, OpRowOK, Going, Undoing
<1>7. WriteNew'
  <2>1. r.kind = "write" => index' = index
    BY DEF Accept
  <2> QED BY <1>2, <2>1 DEF WriteNew, Going, Undoing
<1>8. WriteOver' /\ WriteFile' /\ MoveOK' /\ RemovedOK'
  BY <1>2 DEF WriteOver, WriteFile, MoveOK, RemovedOK, Going, Undoing
<1>9. ~trash.there
  BY <1>1, <1>3 DEF RefInv, DirsOK, TrashOK
<1>10. ThereOK' /\ TrashOK' /\ GoneOK'
  BY <1>1, <1>2, <1>9 DEF RefInv, DirsOK, ThereOK, TrashOK, GoneOK, Ending
<1> QED BY <1>5, <1>6, <1>7, <1>8, <1>10, RefInvParts DEF OpFilesOK

\* Steps that change neither files nor rows of operations.
LEMMA QuietRef ==
  ASSUME TypeInv, RefInv, root' = root, trash' = trash, intents' = intents, del' = del, mode' = mode, op' = op,
         index' \subseteq index, story' = "gone" <=> story = "gone", used'.faults = used.faults
  PROVE  RefInv'
<1>1. HotOK' /\ IdleOK'
  BY DEF RefInv, HotOK, Inert, IdleOK
<1>2. OpRowOK'
  BY DEF RefInv, OpRowOK, NextOK, PhaseOK, WriteFailed
<1>3. WriteNew'
  BY DEF RefInv, OpFilesOK, WriteNew, StagedRow
<1>4. WriteOver'
  BY DEF RefInv, OpFilesOK, WriteOver, StagedRow
<1>5. WriteFile' /\ MoveOK' /\ RemovedOK'
  BY DEF RefInv, OpFilesOK, WriteFile, MoveOK, RemovedOK
<1>6. DirsOK'
  BY DEF RefInv, DirsOK, ThereOK, TrashOK, GoneOK
<1> QED BY <1>1, <1>2, <1>3, <1>4, <1>5, <1>6 DEF RefInv, OpFilesOK

LEMMA ReadersRef ==
  ASSUME TypeInv, RefInv,
         (\E p \in Paths : Read(p) \/ Look(p) \/ RemoveMissing(p)) \/ List \/ SetArchived \/ UNCHANGED vars
  PROVE  RefInv'
<1>0. Unlocked => used'.faults = used.faults
  BY DEF Unlocked, TypeInv, Types, UsedType
<1>1. CASE \E p \in Paths : Read(p) /\ op' # op
  <2>1. /\ mode = "up" /\ op = NoOp /\ op' = [NoOp EXCEPT !.pc = "reading"] /\ root' = root /\ trash' = trash
        /\ intents' = intents /\ del' = del /\ mode' = mode /\ story' = story
    BY <1>1 DEF Read, disk, rows
  <2>2. op'.pc = "reading" /\ op'.r.kind = "none" /\ op.r.kind = "none" /\ op' = [NoOp EXCEPT !.pc = op'.pc] /\ op.pc = "idle"
    BY <2>1 DEF NoOp, NoRequest
  <2>3. \A n \in Muts : Inert(n)
    BY <2>1, <2>2, OthersInert DEF RefInv, FileKinds
  <2>4. HotOK' /\ IdleOK'
    BY <2>1, <2>2, <2>3 DEF HotOK, Inert, IdleOK
  <2>5. OpFilesOK' /\ PhaseOK' /\ WriteFailed'
    BY <2>2, OpFilesAtRest DEF FileKinds
  <2>6. NextOK'
    BY <2>1, <2>2, NamesKept
  <2>7. ThereOK' /\ TrashOK' /\ GoneOK'
    BY <2>1, <2>2 DEF RefInv, DirsOK, ThereOK, TrashOK, GoneOK
  <2> QED BY <2>4, <2>5, <2>6, <2>7, RefInvParts
<1>2. CASE (\E p \in Paths : (Read(p) /\ op' = op) \/ Look(p) \/ RemoveMissing(p)) \/ List \/ SetArchived \/ UNCHANGED vars
  <2>1. root' = root /\ trash' = trash /\ intents' = intents /\ del' = del /\ mode' = mode /\ op' = op /\ index' \subseteq index
    BY <1>2 DEF Read, Look, RemoveMissing, List, SetArchived, vars, disk, rows
  <2>2. story' = "gone" <=> story = "gone"
    BY <1>2 DEF Read, Look, RemoveMissing, List, SetArchived, vars, rows
  <2>3. used'.faults = used.faults
    BY <1>0, <1>2 DEF Read, Look, RemoveMissing, List, SetArchived, vars
  <2> QED BY <2>1, <2>2, <2>3, QuietRef
<1> QED BY <1>1, <1>2


\* No operation holds the lock afterwards.
LEMMA NoOpRef ==
  ASSUME RefInv, op' = [NoOp EXCEPT !.pc = op'.pc],
         \A n \in Muts : intents'[n] = intents[n] \/ intents'[n].kind = "none"
  PROVE  /\ op'.r.kind = "none"
         /\ IdleOK' /\ OpFilesOK' /\ PhaseOK' /\ WriteFailed' /\ NextOK'
<1>1. op'.r.kind = "none"
  BY DEF NoOp, NoRequest
<1>2. OpFilesOK' /\ PhaseOK' /\ WriteFailed'
  BY <1>1, OpFilesAtRest DEF FileKinds
<1>3. NextOK'
  BY <1>1, NamesKept
<1> QED BY <1>1, <1>2, <1>3 DEF IdleOK

LEMMA CloseRef ==
  ASSUME TypeInv, RefInv, Close
  PROVE  RefInv'
<1>1. /\ mode = "up" /\ mode' = "closing" /\ root' = root /\ trash' = trash /\ intents' = intents /\ del' = del
      /\ op' = op /\ index' = index /\ story' = story
  BY DEF Close, disk, rows
<1>2. HotOK' /\ IdleOK'
  BY <1>1 DEF RefInv, HotOK, Inert, IdleOK
<1>3. OpRowOK'
  BY <1>1 DEF RefInv, OpRowOK, NextOK, PhaseOK, WriteFailed
<1>4. WriteNew' /\ WriteOver'
  BY <1>1 DEF RefInv, OpFilesOK, WriteNew, WriteOver, StagedRow
<1>5. WriteFile' /\ MoveOK' /\ RemovedOK'
  BY <1>1 DEF RefInv, OpFilesOK, WriteFile, MoveOK, RemovedOK
<1>6. DirsOK'
  BY <1>1 DEF RefInv, DirsOK, ThereOK, TrashOK, GoneOK
<1> QED BY <1>2, <1>3, <1>4, <1>5, <1>6 DEF RefInv, OpFilesOK

LEMMA RestartRef ==
  ASSUME TypeInv, CleanInv, RefInv, Crash \/ Start \/ FilesRecovered \/ Ready
  PROVE  RefInv'
<1>1. root' = root /\ trash' = trash /\ intents' = intents /\ del' = del /\ story' = story /\ op' = NoOp
  BY DEF Crash, Start, FilesRecovered, Ready, disk, rows, TypeInv, OpOK
<1>2. op' = [NoOp EXCEPT !.pc = op'.pc] /\ op'.pc = "idle"
  BY <1>1, IdleIsNoOp
<1>3. op'.r.kind = "none" /\ IdleOK' /\ OpFilesOK' /\ PhaseOK' /\ WriteFailed' /\ NextOK'
  BY <1>1, <1>2, NoOpRef
<1>4. ThereOK' /\ GoneOK'
  BY <1>1, <1>3 DEF RefInv, DirsOK, ThereOK, GoneOK
<1>5. CASE Crash \/ Start \/ FilesRecovered
  <2>1. mode' \in {"down", "files", "drop"}
    BY <1>5 DEF Crash, Start, FilesRecovered
  <2>2. HotOK'
    BY <1>1, <2>1 DEF RefInv, HotOK, Inert
  <2>3. trash.there /\ story # "gone" => ~root.there /\ del # NoDel
    BY DEF RefInv, DirsOK, TrashOK, TypeInv, Types
  <2>4. TrashOK'
    BY <1>1, <1>3, <2>1, <2>3 DEF TrashOK
  <2> QED BY <1>3, <1>4, <2>2, <2>4, RefInvParts
<1>6. CASE Ready
  <2>1. mode = "drop" /\ mode' = "up" /\ del = NoDel
    BY <1>6 DEF Ready
  <2>2. \A n \in Muts : Inert(n)'
    BY <1>1, <2>1 DEF CleanInv, RecoveryOK, Pending, Inert, NoIntent
  <2>3. HotOK'
    BY <2>2 DEF HotOK
  <2>4. TrashOK'
    BY <1>1, <1>3, <2>1 DEF RefInv, DirsOK, TrashOK
  <2> QED BY <1>3, <1>4, <2>3, <2>4, RefInvParts
<1> QED BY <1>5, <1>6

LEMMA RecoverDropRef ==
  ASSUME TypeInv, CleanInv, RefInv, RecoverDrop
  PROVE  RefInv'
<1>1. mode = "drop" /\ mode' = "drop" /\ intents' = intents /\ story' = story /\ op' = NoOp /\ trash' = NoDir
  BY DEF RecoverDrop, TypeInv, OpOK
<1>2. op' = [NoOp EXCEPT !.pc = op'.pc] /\ op'.pc = "idle"
  BY <1>1, IdleIsNoOp
<1>3. op'.r.kind = "none" /\ IdleOK' /\ OpFilesOK' /\ PhaseOK' /\ WriteFailed' /\ NextOK'
  BY <1>1, <1>2, NoOpRef
<1>4. \A n \in Muts : Inert(n)'
  BY <1>1 DEF CleanInv, RecoveryOK, Pending, Inert, NoIntent
<1>5. HotOK'
  BY <1>4 DEF HotOK
<1>6. root' = root \/ (root' = trash /\ trash.there /\ story # "gone")
  BY DEF RecoverDrop
<1>7. ThereOK' /\ GoneOK'
  BY <1>1, <1>3, <1>6 DEF RefInv, DirsOK, ThereOK, GoneOK
<1>8. TrashOK'
  BY <1>1, <1>3 DEF TrashOK, NoDir
<1> QED BY <1>3, <1>5, <1>7, <1>8, RefInvParts

\* In the recovery of the documents nobody has a request.
LEMMA RecoveringOp ==
  ASSUME TypeInv, RefInv, mode = "files"
  PROVE  op = [NoOp EXCEPT !.pc = op.pc] /\ op.r.kind = "none" /\ op.r = NoRequest
<1>1. op = [NoOp EXCEPT !.pc = op.pc]
  BY DEF TypeInv, OpOK, RefInv, IdleOK
<1>2. [NoOp EXCEPT !.pc = op.pc].r = NoRequest
  BY DEF NoOp
<1>3. op.r = NoRequest
  BY <1>1, <1>2
<1> QED BY <1>1, <1>3, NoRequestFacts

LEMMA RecoverPartRef ==
  ASSUME TypeInv, CleanInv, RefInv, RecoverPart
  PROVE  RefInv'
<1>1. /\ mode = "files" /\ mode' = "files" /\ intents' = intents /\ trash' = trash /\ story' = story /\ del' = del
      /\ op' = [op EXCEPT !.pc = "recovering"] /\ Pending /\ root.bak[Oldest] # NoFile
      /\ root' = WithoutFile(root, intents[Oldest].path) /\ intents[Oldest].kind = "write"
  BY DEF RecoverPart, rows
<1>2. Oldest \in Muts /\ root \in Dirs
  BY <1>1, OldestFacts DEF TypeInv, Types
<1>3. intents[Oldest].path \in Paths
  BY <1>1, <1>2 DEF TypeInv, NamesOK
<1>4. root'.tmp = root.tmp /\ root'.bak = root.bak /\ root'.there = root.there
  BY <1>1, <1>2, <1>3, WithoutFileFacts, ThereIs
<1>5. op' = [NoOp EXCEPT !.pc = op'.pc]
  <2>1. op = [NoOp EXCEPT !.pc = op.pc]
    BY <1>1, RecoveringOp
  <2> QED BY <1>1, <2>1 DEF NoOp
<1>6. op'.r.kind = "none" /\ IdleOK' /\ OpFilesOK' /\ PhaseOK' /\ WriteFailed' /\ NextOK'
  BY <1>1, <1>5, NoOpRef
<1>7. HotOK'
  BY <1>1, <1>4 DEF RefInv, HotOK, Inert, Litter
<1>8. root.there
  BY <1>1, <1>2 DEF RefInv, DirsOK, ThereOK, Litter
<1>9. ThereOK' /\ TrashOK' /\ GoneOK'
  BY <1>1, <1>4, <1>6, <1>8 DEF RefInv, DirsOK, ThereOK, TrashOK, GoneOK
<1> QED BY <1>6, <1>7, <1>9, RefInvParts

\* Recovery creates no directory, and finds nothing where there is none.
LEMMA RecoveredThere ==
  ASSUME TypeInv, NEW m \in Muts
  PROVE  Recovered(root, m).there = root.there
<1> DEFINE it == intents[m]
           p == it.path
           w == IF root.bak[m] # NoFile THEN Restored(root, p, m)
                ELSE IF p \notin index /\ StagedRow(m) THEN WithoutFile(root, p) ELSE root
<1>1. root \in Dirs /\ (it.kind # "none" => p \in Paths) /\ (it.kind = "rename" => it.next \in Paths)
      /\ it.kind \in {"none"} \cup FileKinds
  BY DEF TypeInv, Types, NamesOK, IntentType
<1>2. CASE it.kind = "none"
  BY <1>2 DEF Recovered
<1>3. CASE it.kind # "none" /\ it.phase \in Final
  <2>1. Recovered(root, m) = root \/ Recovered(root, m) = WithoutBak(WithoutTmp(root, m), m)
    BY <1>3 DEF Recovered, Final, WithoutBak
  <2>2. WithoutTmp(root, m) \in Dirs /\ WithoutTmp(root, m).there = root.there
    BY <1>1, WithoutTmpFacts, ThereIs
  <2>3. WithoutBak(WithoutTmp(root, m), m).there = root.there
    BY <2>2, ThereIs
  <2> QED BY <2>1, <2>3
<1>4. CASE it.kind = "rename" /\ it.phase \notin Final
  <2>1. Recovered(root, m) = root \/ Recovered(root, m) = Moved(root, it.next, p)
    BY <1>4 DEF Recovered, Final, MovedBack
  <2> QED BY <1>1, <1>4, <2>1, ThereIs
<1>5. CASE it.kind = "delete" /\ it.phase \notin Final
  <2>1. Recovered(root, m) = root \/ Recovered(root, m) = Restored(root, p, m)
    BY <1>5 DEF Recovered, Final, MovedBack
  <2> QED BY <1>1, <1>5, <2>1, ThereIs
<1>6. CASE it.kind = "write" /\ it.phase \notin Final
  <2>1. Recovered(root, m) = WithoutTmp(w, m)
    BY <1>6 DEF Recovered, Final, StagedRow
  <2>0. p \in Paths
    BY <1>1, <1>6
  <2>2. w \in {Restored(root, p, m), WithoutFile(root, p), root}
    OBVIOUS
  <2> HIDE DEF w, p
  <2>3. Restored(root, p, m) \in Dirs /\ Restored(root, p, m).there = root.there
    BY <1>1, <2>0, RestoredFile
  <2>4. WithoutFile(root, p) \in Dirs /\ WithoutFile(root, p).there = root.there
    BY <1>1, <2>0, WithoutFileFacts, ThereIs
  <2>5. w \in Dirs /\ w.there = root.there
    BY <1>1, <2>2, <2>3, <2>4
  <2>6. WithoutTmp(w, m).there = w.there
    BY <2>5, ThereIs
  <2> QED BY <2>1, <2>5, <2>6
<1> QED BY <1>1, <1>2, <1>3, <1>4, <1>5, <1>6 DEF FileKinds

LEMMA RecoverFilesRef ==
  ASSUME TypeInv, CleanInv, CleanInv', RefInv, RecoverFiles
  PROVE  RefInv'
<1> DEFINE k == Oldest
<1>1. /\ mode = "files" /\ mode' = "files" /\ intents' = intents /\ trash' = trash /\ story' = story /\ del' = del
      /\ op' = [op EXCEPT !.pc = "recovered"] /\ Pending /\ root' = Recovered(root, k)
  BY DEF RecoverFiles, rows
<1>2. k \in Muts /\ root \in Dirs
  BY <1>1, OldestFacts DEF TypeInv, Types
<1>3. Oldest' = k
  BY <1>1 DEF Oldest
<1>4. op' = [NoOp EXCEPT !.pc = op'.pc] /\ op'.pc = "recovered"
  <2>1. op = [NoOp EXCEPT !.pc = op.pc]
    BY <1>1, RecoveringOp
  <2> QED BY <1>1, <2>1 DEF NoOp
<1>5. op'.r.kind = "none" /\ IdleOK' /\ OpFilesOK' /\ PhaseOK' /\ WriteFailed' /\ NextOK'
  BY <1>1, <1>4, NoOpRef
<1>6. ~Litter(root', k)
  BY <1>3, <1>4 DEF CleanInv, RecoveryOK
<1> HIDE DEF k
<1>7. root'.there = root.there
  BY <1>1, <1>2, RecoveredThere
<1>8. CASE intents[k].kind = "none"
  <2>1. root' = root
    BY <1>1, <1>8 DEF Recovered
  <2>2. HotOK'
    BY <1>1, <2>1 DEF RefInv, HotOK, Inert
  <2>3. ThereOK' /\ TrashOK' /\ GoneOK'
    BY <1>1, <1>5, <2>1 DEF RefInv, DirsOK, ThereOK, TrashOK, GoneOK
  <2> QED BY <1>5, <2>2, <2>3, RefInvParts
<1>9. CASE intents[k].kind # "none"
  <2>1. \A n \in Muts : n # k => root'.tmp[n] = root.tmp[n] /\ root'.bak[n] = root.bak[n]
    BY <1>1, <1>2, <1>9, RecoveredFacts DEF TypeInv
  <2>2. ASSUME NEW n \in Muts, Inert(n) PROVE Inert(n)'
    <3>1. CASE n # k
      <4>1. intents' = intents /\ (Litter(root', n) <=> Litter(root, n))
        BY <1>1, <2>1, <3>1 DEF Litter
      <4> QED BY <2>2, <4>1 DEF Inert
    <3>2. CASE n = k
      <4>1. intents' = intents /\ ~Litter(root', n)
        BY <1>1, <1>6, <3>2
      <4> QED BY <2>2, <4>1 DEF Inert
    <3> QED BY <3>1, <3>2
  <2>4. HotOK'
    BY <1>1, <2>2 DEF RefInv, HotOK
  <2>5. ThereOK'
    <3>1. SUFFICES ASSUME ~root.there
                   PROVE  (\A p \in Paths : root'.file[p] = NoFile) /\ \A n \in Muts : ~Litter(root', n)
      BY <1>7 DEF ThereOK
    <3>2. (\A p \in Paths : root.file[p] = NoFile) /\ \A n \in Muts : root.tmp[n] = NoFile /\ root.bak[n] = NoFile
      BY <3>1 DEF RefInv, DirsOK, ThereOK, Litter
    <3>3. \A n \in Muts : ~Litter(root', n)
      BY <1>6, <2>1, <3>2 DEF Litter
    <3>4. CASE intents[k].kind = "rename"
      <4>1. intents[k].next \in Paths
        BY <1>2, <3>4 DEF TypeInv, NamesOK
      <4>2. root' = root
        BY <1>1, <3>2, <3>4, <4>1 DEF Recovered, MovedBack
      <4> QED BY <3>2, <3>3, <4>2
    <3>5. CASE intents[k].kind # "rename"
      <4>1. \A s \in Paths : root.file[s] = NoFile => root'.file[s] = NoFile
        BY <1>1, <1>2, <1>9, <3>2, <3>5, RecoveredFacts DEF TypeInv
      <4> QED BY <3>2, <3>3, <4>1
    <3> QED BY <3>4, <3>5
  <2>6. TrashOK' /\ GoneOK'
    BY <1>1, <1>5, <1>7 DEF RefInv, DirsOK, TrashOK, GoneOK
  <2> QED BY <1>5, <2>4, <2>5, <2>6, RefInvParts
<1> QED BY <1>8, <1>9

LEMMA RecoverIntentRef ==
  ASSUME TypeInv, CleanInv, RefInv, RecoverIntent
  PROVE  RefInv'
<1>1. /\ mode = "files" /\ mode' = "files" /\ root' = root /\ trash' = trash /\ story' = story /\ del' = del
      /\ op' = NoOp /\ op.pc = "recovered" /\ intents' = [intents EXCEPT ![Oldest] = NoIntent]
  BY DEF RecoverIntent, disk
<1>2. Oldest \in Muts
  BY <1>1, OldestFacts DEF CleanInv, RecoveryOK
<1>3. intents'[Oldest].kind = "none" /\ \A n \in Muts : n # Oldest => intents'[n] = intents[n]
  BY <1>1, <1>2, RowIsRemoved DEF TypeInv
<1>4. op' = [NoOp EXCEPT !.pc = op'.pc]
  BY <1>1, IdleIsNoOp
<1>5. op'.r.kind = "none" /\ IdleOK' /\ OpFilesOK' /\ PhaseOK' /\ WriteFailed' /\ NextOK'
  BY <1>3, <1>4, NoOpRef
<1>6. \A n \in Muts : Inert(n) => Inert(n)'
  BY <1>1, <1>3 DEF Inert
<1>7. HotOK'
  BY <1>1, <1>6 DEF RefInv, HotOK
<1>8. ThereOK' /\ TrashOK' /\ GoneOK'
  BY <1>1, <1>5 DEF RefInv, DirsOK, ThereOK, TrashOK, GoneOK
<1> QED BY <1>5, <1>7, <1>8, RefInvParts

LEMMA RefInvInit ==
  ASSUME Init
  PROVE  RefInv
<1>1. /\ root = NoDir /\ trash = NoDir /\ story = "active" /\ intents = [m \in Muts |-> NoIntent] /\ op = NoOp
      /\ NoIntent.kind = "none" /\ op.pc = "idle" /\ op.r.kind = "none" /\ op = [NoOp EXCEPT !.pc = op.pc]
  BY IdleIsNoOp DEF Init, NoIntent
<1>2. HotOK /\ IdleOK /\ OpRowOK
  BY <1>1 DEF HotOK, Inert, IdleOK, OpRowOK, NextOK, PhaseOK, WriteFailed
<1>3. OpFilesOK
  BY <1>1 DEF OpFilesOK, WriteNew, WriteOver, WriteFile, MoveOK, RemovedOK
<1>4. (\A p \in Paths : NoDir.file[p] = NoFile) /\ ~NoDir.there /\ \A m \in Muts : ~Litter(NoDir, m)
  BY NoDirFacts DEF NoDir
<1>5. DirsOK
  BY <1>1, <1>4 DEF DirsOK, ThereOK, TrashOK, GoneOK
<1> QED BY <1>2, <1>3, <1>5 DEF RefInv

LEMMA RefInvStep ==
  ASSUME TypeInv, CleanInv, RefInv, OneFailure, [Next]_vars
  PROVE  RefInv'
<1>0. CleanInv'
  BY CleanInvStep
<1>1. CASE \E r \in Requests : Accept(r)
  BY <1>1, AcceptRef
<1>2. CASE (\E p \in Paths : Read(p) \/ Look(p) \/ RemoveMissing(p)) \/ List \/ SetArchived \/ UNCHANGED vars
  BY <1>2, ReadersRef
<1>3. CASE InsertIntent \/ Receive \/ Prepare \/ MoveAside
  BY <1>3, InsertIntentRef, ReceiveRef, PrepareRef, MoveAsideRef
<1>4. CASE MoveFile \/ RecordStaged
  BY <1>4, MoveUploadRef, MoveOtherRef, RecordStagedRef
<1>5. CASE Commit \/ RemoveBackup \/ RecordCleanup \/ DeleteIntent
  BY <1>0, <1>5, CommitRef, DeleteIntentRef
<1>6. CASE Fail \/ RollBackPart \/ RollBack
  BY <1>0, <1>6, FailRef, RollBackPartRef, RollBackRef
<1>7. CASE Refuse \/ Answer \/ Abandon \/ DropUndone \/ CloseStream
  BY <1>7, OpEndsRef
<1>8. CASE DropPrepare \/ DropStaged \/ DropCommit \/ DropFail \/ DropMove \/ DropRestore \/ DropClean
  BY <1>0, <1>8, DropStepsRef, DropMoveRef, DropRestoreRef, DropCleanRef
<1>9. CASE Close \/ Crash \/ Start \/ FilesRecovered \/ Ready
  BY <1>9, CloseRef, RestartRef
<1>10. CASE RecoverDrop \/ RecoverPart \/ RecoverFiles \/ RecoverIntent
  BY <1>0, <1>10, RecoverDropRef, RecoverPartRef, RecoverFilesRef, RecoverIntentRef
<1> QED BY <1>1, <1>2, <1>3, <1>4, <1>5, <1>6, <1>7, <1>8, <1>9, <1>10 DEF Next, OpStep, StartStep

-----------------------------------------------------------------------------
(* A move that recovery has taken back stays so if recovery starts again.  *)

TakenBack(m) == ~(root.file[intents[m].next] # NoFile /\ root.file[intents[m].path] = NoFile)
BackOK == op.pc = "recovered" /\ MoveOpen(Oldest) => TakenBack(Oldest)

LEMMA RecoverFilesBack ==
  ASSUME TypeInv, RecoverFiles
  PROVE  BackOK'
<1> DEFINE k == Oldest
           p == intents[k].path
           q == intents[k].next
<1>1. intents' = intents /\ Pending /\ root' = Recovered(root, k)
  BY DEF RecoverFiles, rows
<1>2. k \in Muts /\ root \in Dirs /\ Oldest' = Oldest
  BY <1>1, OldestFacts DEF TypeInv, Types, Oldest
<1>3. SUFFICES ASSUME intents[k].kind = "rename", intents[k].phase \notin Final
               PROVE  ~(root'.file[q] # NoFile /\ root'.file[p] = NoFile)
  BY <1>1, <1>2 DEF BackOK, MoveOpen, TakenBack
<1>4. p \in Paths /\ q \in Paths
  BY <1>2, <1>3 DEF TypeInv, NamesOK
<1>5. root' = MovedBack(root, "rename", p, q, k)
  BY <1>1, <1>3 DEF Recovered, Final
<1> HIDE DEF k, p, q
<1>6. CASE root.file[q] # NoFile /\ root.file[p] = NoFile
  <2>1. root' = Moved(root, q, p)
    BY <1>5, <1>6 DEF MovedBack
  <2>2. root'.file = [root.file EXCEPT ![p] = root.file[q], ![q] = NoFile]
    BY <1>2, <1>4, <2>1, MovedFacts
  <2>3. root.file \in [Paths -> Contents \cup {NoFile}] /\ p # q
    BY <1>2, <1>6, DirParts
  <2> QED BY <1>4, <1>6, <2>2, <2>3
<1>7. CASE ~(root.file[q] # NoFile /\ root.file[p] = NoFile)
  BY <1>5, <1>7 DEF MovedBack
<1> QED BY <1>6, <1>7

LEMMA BackStep ==
  ASSUME TypeInv, BackOK, [Next]_vars
  PROVE  BackOK'
<1>0. op \in OpType /\ NoOp.pc = "idle"
  BY NoRequestFacts DEF TypeInv, Types
<1>1. CASE RecoverFiles
  BY <1>1, RecoverFilesBack
<1>2. CASE op'.pc # "recovered"
  BY <1>2 DEF BackOK
<1>3. CASE op' = op /\ root' = root /\ intents' = intents
  BY <1>3 DEF BackOK, MoveOpen, TakenBack, Oldest
<1>4. ASSUME NEW p \in Paths, Read(p) PROVE BackOK'
  <2>1. CASE Exists(p)
    BY <1>2, <1>4, <2>1 DEF Read, NoOp
  <2>2. CASE ~Exists(p)
    BY <1>3, <1>4, <2>2 DEF Read, disk, rows
  <2> QED BY <2>1, <2>2
<1>5. CASE (\E r \in Requests : Accept(r)) \/ Refuse \/ Answer \/ Abandon \/ DropUndone \/ CloseStream \/ Crash \/ RecoverIntent
  BY <1>0, <1>2, <1>5 DEF Accept, Refuse, Answer, Abandon, DropUndone, CloseStream, Crash, RecoverIntent
<1>6. CASE (\E p \in Paths : Look(p) \/ RemoveMissing(p)) \/ List \/ SetArchived \/ Close \/ Start \/ FilesRecovered
           \/ Ready \/ UNCHANGED vars
  BY <1>3, <1>6 DEF Look, RemoveMissing, List, SetArchived, Close, Start, FilesRecovered, Ready, vars, disk, rows
<1>7. CASE InsertIntent
  BY <1>0, <1>2, <1>7 DEF InsertIntent, OpType
<1>8. CASE Receive \/ Prepare \/ MoveAside \/ MoveFile \/ RecordStaged \/ Commit \/ RemoveBackup \/ RecordCleanup
  BY <1>0, <1>2, <1>8 DEF Receive, Prepare, MoveAside, MoveFile, RecordStaged, Commit, RemoveBackup, RecordCleanup, OpType
<1>9. CASE DeleteIntent \/ DropClean
  BY <1>0, <1>2, <1>9 DEF DeleteIntent, DropClean, OpType
<1>10. CASE Fail \/ RollBackPart \/ RollBack \/ DropPrepare \/ DropMove \/ DropStaged \/ DropCommit \/ DropFail \/ DropRestore
  BY <1>0, <1>2, <1>10
     DEF Fail, RollBackPart, RollBack, DropPrepare, DropMove, DropStaged, DropCommit, DropFail, DropRestore, OpType
<1>11. CASE RecoverPart
  BY <1>0, <1>2, <1>11 DEF RecoverPart, OpType
<1>12. CASE RecoverDrop
  <2>1. op' = op /\ op.pc = "idle"
    BY <1>0, <1>12 DEF RecoverDrop, TypeInv, OpOK
  <2> QED BY <1>2, <2>1
<1> QED BY <1>1, <1>4, <1>5, <1>6, <1>7, <1>8, <1>9, <1>10, <1>11, <1>12 DEF Next, OpStep, StartStep

-----------------------------------------------------------------------------
(* What the documents are, at each point.                                  *)

Inv == TypeInv /\ CleanInv /\ RefInv /\ BackOK

LEMMA InvInit ==
  ASSUME Init
  PROVE  Inv
BY TypeInvInit, CleanInvInit, RefInvInit, NoRequestFacts DEF Inv, BackOK, Init

LEMMA InvStep ==
  ASSUME OneFailure, Inv, [Next]_vars
  PROVE  Inv'
BY TypeInvStep, CleanInvStep, RefInvStep, BackStep DEF Inv

Doc == Directory.file
Files == [Paths -> Contents \cup {NoFile}]
NoFiles == [p \in Paths |-> NoFile]
Orphaned == {p \in Paths : Directory.file[p] # NoFile} \ index

\* The points at which the operation would be undone.
Open == op.r.kind \in FileKinds /\ op.pc \in Going \cup {"undo", "undoing"}

ViewGone == story = "gone" => Doc = NoFiles
ViewTrash == story # "gone" /\ ~InPlaceNow => Doc = trash.file
ViewQuiet == InPlaceNow /\ (\A n \in Muts : Quiet(n)) => Doc = root.file
ViewHot == InPlaceNow => \A h \in Muts : h \notin Done /\ ~Inert(h) => Doc = Recovered(root, h).file
ViewOpen == Open => InPlaceNow /\ Doc = Before
ViewRest ==
  mode \in {"up", "closing"} /\ (mode = "up" \/ op # NoOp) /\ InPlaceNow /\ ~Open => Doc = root.file
Views == ViewGone /\ ViewTrash /\ ViewQuiet /\ ViewHot /\ ViewOpen /\ ViewRest /\ Doc \in Files

LEMMA InertClean ==
  ASSUME CleanInv, NEW n \in Muts, Inert(n)
  PROVE  ~Litter(root, n)
BY DEF CleanInv, AsideOK, Inert

LEMMA HotViews == Inv => ViewGone /\ ViewTrash /\ ViewQuiet /\ ViewHot
<1> SUFFICES ASSUME Inv PROVE ViewGone /\ ViewTrash /\ ViewQuiet /\ ViewHot
  OBVIOUS
<1>0. TypeInv /\ CleanInv /\ RefInv
  BY DEF Inv
<1>1. ViewGone
  BY DEF ViewGone, Doc, Directory, NoDir, NoFiles
<1>2. ViewTrash
  BY DEF ViewTrash, Doc, Directory, InPlaceNow
<1>3. ViewQuiet
  <2>1. SUFFICES ASSUME InPlaceNow, \A n \in Muts : Quiet(n) PROVE Directory = root
    BY DEF ViewQuiet, Doc
  <2>2. \A n \in Muts : n \notin Done => ~Litter(root, n)
    BY <1>0, <2>1, InertClean DEF Quiet
  <2> QED BY <1>0, <2>1, <2>2, DirectoryIsRoot
<1>4. ViewHot
  <2>1. SUFFICES ASSUME InPlaceNow, NEW h \in Muts, h \notin Done, ~Inert(h) PROVE Directory = Recovered(root, h)
    BY DEF ViewHot, Doc
  <2>2. \A n \in Muts \ {h} : Inert(n)
    BY <1>0, <2>1 DEF RefInv, HotOK
  <2>3. \A n \in Muts \ {h} : Quiet(n) /\ (n \notin Done => ~Litter(root, n))
    BY <1>0, <2>2, InertClean DEF Quiet
  <2> QED BY <1>0, <2>1, <2>3, DirectoryIsRecovered
<1> QED BY <1>1, <1>2, <1>3, <1>4

LEMMA OpenRow ==
  ASSUME TypeInv, CleanInv, RefInv, Open
  PROVE  InPlaceNow /\ op.m \in Muts /\ op.m \notin Done /\ mode \in {"up", "closing"} /\ op.pc \in Active /\ Done = {}
<1>1. op.pc \in Active /\ op.pc \in Going \cup {"undo", "undoing"} /\ op.r.kind \in FileKinds
  BY DEF Open, Active, Undoing
<1>2. op.m \in Muts /\ mode \in {"up", "closing"}
  BY <1>1, ActiveOp
<1>3. story # "gone" /\ ~trash.there
  BY <1>1, <1>2 DEF RefInv, DirsOK, GoneOK, TrashOK, FileKinds
<1>4. Done = {}
  BY <1>1 DEF Done, Going
<1> QED BY <1>1, <1>2, <1>3, <1>4 DEF InPlaceNow

LEMMA OpenView == Inv => ViewOpen
<1> SUFFICES ASSUME Inv, Open PROVE InPlaceNow /\ Doc = Before
  BY DEF ViewOpen
<1>0. TypeInv /\ CleanInv /\ RefInv /\ ViewQuiet /\ ViewHot
  BY HotViews DEF Inv
<1>1. InPlaceNow /\ op.m \in Muts /\ op.m \notin Done /\ mode \in {"up", "closing"} /\ op.pc \in Active
  BY <1>0, OpenRow
<1>2. Recovered(root, op.m).file = Before
  BY <1>0, RecoveredIsBefore DEF Open
<1>3. CASE ~Inert(op.m)
  BY <1>0, <1>1, <1>2, <1>3 DEF ViewHot
<1>4. CASE Inert(op.m)
  <2>1. op # NoOp /\ root \in Dirs
    BY <1>0, <1>1, ActiveOp
  <2>2. \A n \in Muts : Quiet(n)
    BY <1>0, <1>1, <1>4, <2>1, OthersInert DEF RefInv, Quiet
  <2>3. Recovered(root, op.m) = root
    BY <1>0, <1>1, <1>4, <2>1, InertRow, InertClean
  <2> QED BY <1>0, <1>1, <1>2, <2>2, <2>3 DEF ViewQuiet
<1> QED BY <1>1, <1>3, <1>4

LEMMA RestView == Inv => ViewRest
<1> SUFFICES ASSUME Inv, mode \in {"up", "closing"}, mode = "up" \/ op # NoOp, InPlaceNow, ~Open
             PROVE  Doc = root.file
  BY DEF ViewRest
<1>0. TypeInv /\ CleanInv /\ RefInv /\ ViewQuiet /\ ViewHot /\ root \in Dirs
  BY HotViews DEF Inv, TypeInv, Types
<1>1. \A n \in Muts : n # op.m => Inert(n)
  BY <1>0, OthersInert DEF RefInv
<1>2. CASE \A n \in Muts : Quiet(n)
  BY <1>0, <1>2 DEF ViewQuiet
<1>3. CASE ~(\A n \in Muts : Quiet(n))
  <2>1. op.m \in Muts /\ op.m \notin Done /\ ~Inert(op.m)
    BY <1>1, <1>3 DEF Quiet
  <2>2. op.r.kind \in FileKinds /\ op.pc \in Holding \cup {"undone"}
    BY <2>1 DEF Inv, RefInv, HotOK
  <2>3. op.pc = "committed"
    BY <2>1, <2>2 DEF Open, Done, Holding
  <2>4. intents[op.m].phase \in Final /\ intents[op.m].kind # "none"
    BY <1>0, <2>2, <2>3 DEF CleanInv, RowOK, Ending, FileKinds
  <2>5. Recovered(root, op.m) = root \/ Recovered(root, op.m) = WithoutBak(WithoutTmp(root, op.m), op.m)
    BY <2>4 DEF Recovered, Final, WithoutBak
  <2>6. WithoutTmp(root, op.m) \in Dirs /\ WithoutTmp(root, op.m).file = root.file
    BY <1>0, <2>1, WithoutTmpFacts
  <2>7. WithoutBak(WithoutTmp(root, op.m), op.m).file = root.file
    BY <2>1, <2>6, WithoutBakFacts
  <2>8. Recovered(root, op.m).file = root.file
    BY <2>5, <2>7
  <2> QED BY <1>0, <2>1, <2>8 DEF ViewHot
<1> QED BY <1>2, <1>3

LEMMA ViewsHold == Inv => Views
<1> SUFFICES ASSUME Inv PROVE Doc \in Files
  BY HotViews, OpenView, RestView DEF Views
<1>0. TypeInv /\ ViewGone /\ ViewTrash /\ ViewQuiet /\ ViewHot /\ root \in Dirs /\ trash \in Dirs
  BY HotViews DEF Inv, TypeInv, Types
<1>1. root.file \in Files /\ trash.file \in Files /\ NoFiles \in Files
  BY <1>0, DirParts DEF Files, NoFiles
<1>2. CASE ~InPlaceNow
  BY <1>0, <1>1, <1>2 DEF ViewGone, ViewTrash
<1>3. CASE InPlaceNow /\ \A n \in Muts : Quiet(n)
  BY <1>0, <1>1, <1>3 DEF ViewQuiet
<1>4. CASE InPlaceNow /\ ~(\A n \in Muts : Quiet(n))
  <2>1. PICK h \in Muts : h \notin Done /\ ~Inert(h)
    BY <1>4 DEF Quiet
  <2>2. intents[h].kind # "none"
    BY <2>1 DEF Inert
  <2>3. Recovered(root, h) \in Dirs
    BY <1>0, <2>1, <2>2, RecoveredFacts DEF TypeInv
  <2>4. Recovered(root, h).file \in Files
    BY <2>3, DirParts DEF Files
  <2> QED BY <1>0, <1>4, <2>1, <2>4 DEF ViewHot
<1> QED BY <1>2, <1>3, <1>4

LEMMA ViewsHoldNext == Inv' => Views'
BY ViewsHold, PTL

-----------------------------------------------------------------------------
(* Steps of DocumentStore.                                                 *)

Committing == op.pc \in Committed
ReqIdle == op.r = NoRequest /\ ~Committing
Req == [request |-> op.r, done |-> Committing]

\* What calls without the lock did not find.
Missed == IF mode = "up" THEN removals ELSE {}

\* A step of DocumentStore, or one its clients do not see.
StepOK == [Docs!Next]_(Docs!vars)

\* At most some documents without a row are lost.
OrphansLost ==
  \E lost \in SUBSET Orphaned : /\ Doc' = [p \in Paths |-> IF p \in lost THEN NoFile ELSE Doc[p]]
                                /\ Orphaned' = Orphaned \ lost

\* What a step of DocumentStore may do to the documents and the request.
Same == Doc' = Doc /\ Req' = Req /\ Orphaned' = Orphaned
Starts ==
  /\ \E r \in Docs!Requests : Req = Docs!Idle /\ Req' = [request |-> r, done |-> FALSE]
  /\ Doc' = Doc /\ Orphaned' = Orphaned
TakesEffect ==
  /\ Req # Docs!Idle /\ ~Req.done /\ Doc' = Docs!After(Req.request)
  /\ Req' = [Req EXCEPT !.done = TRUE] /\ Orphaned' \subseteq Orphaned
Finishes ==
  /\ Req # Docs!Idle /\ Req' = Docs!Idle
  /\ OrphansLost \/ (Req.request.kind = "drop" /\ Doc' = Docs!NoDocs /\ Orphaned' = {})

\* One of them, in which no document loses its row.
Fine ==
  /\ Same \/ Starts \/ TakesEffect \/ Finishes \/ (OrphansLost /\ Req' = Req)
  /\ Orphaned' \subseteq Orphaned

\* The actions of DocumentStore under the substitution of Docs.
LEMMA DocumentVars ==
  Docs!vars = <<Doc, Req, Orphaned, Missed>> /\ Docs!vars' = <<Doc', Req', Orphaned', Missed'>>
BY DEF Docs!vars, Doc, Req, Orphaned, Committing, Missed

LEMMA DocumentBegin ==
  \A r : Docs!Begin(r) <=>
    /\ Req = Docs!Idle /\ Req' = [request |-> r, done |-> FALSE] /\ Doc' = Doc /\ Orphaned' = Orphaned
    /\ Missed' = Missed
BY DEF Docs!Begin, Doc, Req, Orphaned, Committing, Missed

LEMMA DocumentEffect == Docs!Effect <=> TakesEffect /\ Missed' = Missed
BY Zenon DEF Docs!Effect, TakesEffect, Doc, Req, Orphaned, Committing, Missed

LEMMA DocumentEnd == Docs!End <=> Finishes /\ (Missed' = Missed \/ Missed' = {})
BY Zenon DEF Docs!End, Docs!LoseOrphans, Docs!CallersGoOnOrDie, Finishes, Doc, Req, Orphaned, Committing, OrphansLost, Missed

LEMMA DocumentPass == Docs!Pass <=> OrphansLost /\ Req' = Req /\ (Missed' = Missed \/ Missed' = {})
BY Zenon DEF Docs!Pass, Docs!LoseOrphans, Docs!CallersGoOnOrDie, Doc, Req, Orphaned, Committing, OrphansLost, Missed

LEMMA DocumentMiss ==
  \A p : Docs!Miss(p) <=> Same /\ (Req # Docs!Idle \/ Doc[p] = NoFile) /\ Missed' = Missed \cup {p}
BY DEF Docs!Miss, Same, Doc, Req, Orphaned, Committing, Missed

LEMMA DocumentForget ==
  \A p : Docs!Forget(p) <=>
    /\ p \in Missed /\ Missed' = Missed \ {p}
    /\ Orphaned' = Orphaned \/ (Doc[p] # NoFile /\ Orphaned' = Orphaned \cup {p})
    /\ Doc' = Doc /\ Req' = Req
BY DEF Docs!Forget, Doc, Req, Orphaned, Committing, Missed

LEMMA IdleReq == (ReqIdle <=> Req = Docs!Idle) /\ (ReqIdle' <=> Req' = Docs!Idle)
<1>1. Docs!Idle = [request |-> NoRequest, done |-> FALSE]
  BY DEF Docs!Idle, Docs!NoRequest, NoRequest
<1>2. \A r : \A b \in BOOLEAN : [request |-> r, done |-> b] = [request |-> NoRequest, done |-> FALSE] <=> r = NoRequest /\ b = FALSE
  OBVIOUS
<1>3. Committing \in BOOLEAN /\ Committing' \in BOOLEAN
  BY DEF Committing
<1> QED BY Zenon, <1>1, <1>2, <1>3 DEF Req, ReqIdle

LEMMA Truth == \A a, b \in BOOLEAN : ((a <=> b) => a = b) /\ (a => a = TRUE) /\ (~a => a = FALSE)
OBVIOUS

LEMMA IsTruth == Committing \in BOOLEAN /\ Committing' \in BOOLEAN
BY DEF Committing

LEMMA SameReq ==
  ASSUME op'.r = op.r, Committing' <=> Committing
  PROVE  Req' = Req
<1>1. Committing' = Committing
  BY Zenon, Truth, IsTruth
<1> QED BY <1>1 DEF Req

\* A step the clients do not see.
LEMMA Unseen ==
  ASSUME Doc' = Doc, index' = index, op'.r = op.r, Committing' <=> Committing
  PROVE  Same /\ Fine
<1>1. Orphaned' = Orphaned
  BY DEF Doc, Orphaned
<1>2. Req' = Req
  BY SameReq
<1> QED BY <1>1, <1>2 DEF Fine, Same

LEMMA Begins ==
  ASSUME NEW r \in Requests, Doc' = Doc, Orphaned' = Orphaned, ReqIdle, op'.r = r, op'.pc = "locked"
  PROVE  Fine
<1>1. r \in Docs!Requests
  BY DEF Requests, Docs!Requests
<1>2. ~Committing'
  BY DEF Committing, Committed
<1>3. Committing' = FALSE
  BY Zenon, <1>2, Truth, IsTruth
<1>4. Req = Docs!Idle /\ Req' = [request |-> r, done |-> FALSE]
  BY <1>3, IdleReq DEF Req
<1> QED BY <1>1, <1>4 DEF Fine, Starts

\* Nothing is lost.
LEMMA KeptAll ==
  ASSUME Doc \in Files, Doc' = Doc, Orphaned' = Orphaned
  PROVE  OrphansLost
<1>1. {} \in SUBSET Orphaned /\ Orphaned' = Orphaned \ {}
  OBVIOUS
<1>2. Doc' = [p \in Paths |-> IF p \in {} THEN NoFile ELSE Doc[p]]
  BY DEF Files
<1> QED BY <1>1, <1>2 DEF OrphansLost

\* At most the document of a path without a row is lost.
LEMMA LostOne ==
  ASSUME Doc \in Files, NEW p \in Paths, p \notin index, index' = index, Doc' = [Doc EXCEPT ![p] = NoFile]
  PROVE  OrphansLost
<1> DEFINE lost == {p} \cap Orphaned
<1>1. Orphaned = {s \in Paths : Doc[s] # NoFile /\ s \notin index}
  BY DEF Orphaned, Doc
<1>2. Orphaned' = {s \in Paths : Doc'[s] # NoFile /\ s \notin index}
  BY DEF Orphaned, Doc
<1>3. \A s \in Paths : Doc'[s] = IF s = p THEN NoFile ELSE Doc[s]
  BY DEF Files
<1>4. Orphaned' = Orphaned \ lost
  BY <1>1, <1>2, <1>3
<1>5. \A s \in Paths : Doc'[s] = IF s \in lost THEN NoFile ELSE Doc[s]
  BY <1>1, <1>3
<1>6. Doc' = [s \in Paths |-> IF s \in lost THEN NoFile ELSE Doc[s]]
  BY <1>5 DEF Files
<1> QED BY <1>4, <1>6 DEF OrphansLost

LEMMA Ends ==
  ASSUME op.r \in Requests, op' = NoOp, OrphansLost \/ (op.r.kind = "drop" /\ Doc' = NoFiles)
  PROVE  Fine
<1>1. ~ReqIdle
  BY NoRequestFacts, RequestFacts DEF ReqIdle, FileKinds
<1>2. ReqIdle'
  BY NoRequestFacts DEF ReqIdle, Committing, Committed
<1>3. Doc' = NoFiles => Orphaned' = {} /\ Doc' = Docs!NoDocs
  BY DEF Orphaned, Doc, NoFiles, Docs!NoDocs
<1>4. Req.request = op.r
  BY DEF Req
<1>5. Finishes
  BY <1>1, <1>2, <1>3, <1>4, IdleReq DEF Finishes
<1>6. Orphaned' \subseteq Orphaned
  BY <1>3 DEF OrphansLost
<1> QED BY <1>5, <1>6 DEF Fine

LEMMA Loses ==
  ASSUME op'.r = op.r, Committing' <=> Committing, OrphansLost
  PROVE  Fine
<1>1. Req' = Req
  BY SameReq
<1>2. Orphaned' \subseteq Orphaned
  BY DEF OrphansLost
<1> QED BY <1>1, <1>2 DEF Fine

LEMMA TookEffect ==
  ASSUME NEW r, NEW b \in BOOLEAN, NEW c \in BOOLEAN
  PROVE  [[request |-> r, done |-> b] EXCEPT !.done = c] = [request |-> r, done |-> c]
OBVIOUS

LEMMA Effects ==
  ASSUME op.r \in Requests, op.pc \notin Committed, op'.r = op.r, op'.pc \in Committed,
         Doc' = CASE op.r.kind = "write"  -> [Doc EXCEPT ![op.r.path] = op.r.content]
                  [] op.r.kind = "rename" -> [Doc EXCEPT ![op.r.next] = Doc[op.r.path], ![op.r.path] = NoFile]
                  [] op.r.kind = "delete" -> [Doc EXCEPT ![op.r.path] = NoFile]
                  [] op.r.kind = "drop"   -> NoFiles,
         Orphaned' \subseteq Orphaned
  PROVE  Fine
<1>1. ~ReqIdle
  BY NoRequestFacts, RequestFacts DEF ReqIdle, FileKinds
<1>2. ~Committing /\ Committing'
  BY DEF Committing
<1>3. Committing = FALSE /\ Committing' = TRUE
  BY Zenon, <1>2, Truth, IsTruth
<1>4. Req = [request |-> op.r, done |-> FALSE] /\ Req' = [request |-> op.r, done |-> TRUE]
  BY <1>3 DEF Req
<1>5. Req.request = op.r /\ ~Req.done /\ Req' = [Req EXCEPT !.done = TRUE]
  <2>1. Req.request = op.r
    BY <1>4
  <2>2. Req.done = FALSE
    BY <1>4
  <2>3. [[request |-> op.r, done |-> FALSE] EXCEPT !.done = TRUE] = [request |-> op.r, done |-> TRUE]
    BY TookEffect
  <2> QED BY Zenon, <1>4, <2>1, <2>2, <2>3
<1>6. Doc' = Docs!After(op.r)
  BY DEF Docs!After, Docs!NoDocs, NoFiles, Doc
<1>7. TakesEffect
  BY <1>1, <1>5, <1>6, IdleReq DEF TakesEffect
<1> QED BY <1>7 DEF Fine

-----------------------------------------------------------------------------
(* Steps that change neither the files nor a row that matters.             *)

LEMMA RecoveredNext ==
  ASSUME NEW h \in Muts, root' = root, index' = index, intents'[h] = intents[h]
  PROVE  Recovered(root, h)' = Recovered(root, h)
BY DEF Recovered, MovedBack, Moved, Restored, WithoutTmp, WithoutFile

LEMMA SameRows ==
  ASSUME Inv, Inv', root' = root, trash' = trash, index' = index, InPlaceNow' <=> InPlaceNow,
         story' = "gone" <=> story = "gone",
         \A n \in Muts : (Quiet(n)' <=> Quiet(n)) /\ (~Quiet(n) => intents'[n] = intents[n])
  PROVE  Doc' = Doc
<1>1. Views /\ Views'
  BY ViewsHold, ViewsHoldNext
<1>2. CASE story = "gone"
  BY <1>1, <1>2 DEF Views, ViewGone
<1>3. CASE story # "gone" /\ ~InPlaceNow
  BY <1>1, <1>3 DEF Views, ViewTrash
<1>4. CASE InPlaceNow /\ \A n \in Muts : Quiet(n)
  BY <1>1, <1>4 DEF Views, ViewQuiet
<1>5. CASE InPlaceNow /\ ~(\A n \in Muts : Quiet(n))
  <2>1. PICK h \in Muts : ~Quiet(h)
    BY <1>5
  <2>2. h \notin Done /\ ~Inert(h) /\ h \notin Done' /\ ~Inert(h)'
    BY <2>1 DEF Quiet
  <2>3. Recovered(root, h)' = Recovered(root, h)
    BY <2>1, RecoveredNext
  <2>4. Doc = Recovered(root, h).file
    BY <1>1, <1>5, <2>2 DEF Views, ViewHot
  <2>5. Doc' = Recovered(root, h).file'
    BY <1>1, <1>5, <2>2 DEF Views, ViewHot
  <2> QED BY <2>3, <2>4, <2>5
<1> QED BY <1>2, <1>3, <1>4, <1>5

\* Neither the disk, the rows nor the point matters.
LEMMA SameState ==
  ASSUME Inv, Inv', root' = root, trash' = trash, index' = index, intents' = intents, del' = del,
         story' = "gone" <=> story = "gone", op'.r = op.r, Done' = Done, Committing' <=> Committing
  PROVE  Same /\ Fine
<1>1. InPlaceNow' <=> InPlaceNow
  BY DEF InPlaceNow
<1>2. \A n \in Muts : (Quiet(n)' <=> Quiet(n)) /\ (~Quiet(n) => intents'[n] = intents[n])
  BY DEF Quiet, Inert, Litter
<1>3. Doc' = Doc
  BY <1>1, <1>2, SameRows
<1> QED BY <1>3, Unseen

LEMMA ReadersSeen ==
  ASSUME Inv, Inv', List \/ SetArchived \/ Close \/ Start \/ FilesRecovered \/ Ready \/ UNCHANGED vars
  PROVE  Fine
<1>1. /\ root' = root /\ trash' = trash /\ index' = index /\ intents' = intents /\ del' = del /\ op' = op
      /\ story' = "gone" <=> story = "gone"
  BY DEF List, SetArchived, Close, Start, FilesRecovered, Ready, vars, disk, rows
<1>2. Done' = Done /\ (Committing' <=> Committing)
  BY <1>1 DEF Done, Oldest, Committing
<1> QED BY <1>1, <1>2, SameState

LEMMA LooksSeen ==
  ASSUME Inv, Inv', NEW p \in Paths, Read(p) \/ Look(p)
  PROVE  Same /\ Fine
<1>1. /\ root' = root /\ trash' = trash /\ index' = index /\ intents' = intents /\ del' = del /\ story' = story
      /\ op' = op \/ (op = NoOp /\ op' = [NoOp EXCEPT !.pc = "reading"])
  BY DEF Read, Look, disk, rows
<1>2. CASE op' = op
  <2>1. Done' = Done /\ (Committing' <=> Committing)
    BY <1>1, <1>2 DEF Done, Oldest, Committing
  <2> QED BY <1>1, <1>2, <2>1, SameState
<1>3. CASE op = NoOp /\ op' = [NoOp EXCEPT !.pc = "reading"]
  <2>1. op.pc = "idle" /\ op'.pc = "reading" /\ op'.r = op.r
    BY <1>3 DEF NoOp
  <2>2. Done' = Done /\ (Committing' <=> Committing)
    BY <2>1 DEF Done, Committing, Committed
  <2> QED BY <1>1, <2>1, <2>2, SameState
<1> QED BY <1>1, <1>2, <1>3

\* removeMissingDocument: the document may lose its row.
LEMMA RemovalSeen ==
  ASSUME Inv, Inv', NEW p \in Paths, RemoveMissing(p)
  PROVE  StepOK
<1>1. /\ root' = root /\ trash' = trash /\ intents' = intents /\ del' = del /\ story' = story
      /\ op' = op /\ mode' = mode
  BY DEF RemoveMissing, disk
<1>2. Done' = Done /\ (Committing' <=> Committing)
  BY <1>1 DEF Done, Oldest, Committing
<1>3. CASE mode = "up" /\ p \in index
  <2>1. index' = index \ {p}
    BY <1>3 DEF RemoveMissing
  <2>2. Views /\ Views' /\ (InPlaceNow' <=> InPlaceNow) /\ (Open' <=> Open)
    BY <1>1, ViewsHold, ViewsHoldNext DEF InPlaceNow, Open
  <2>3. Doc' = Doc
    <3>1. CASE story = "gone"
      BY <1>1, <2>2, <3>1 DEF Views, ViewGone
    <3>2. CASE story # "gone" /\ ~InPlaceNow
      BY <1>1, <2>2, <3>2 DEF Views, ViewTrash
    <3>3. CASE Open
      <4>1. Before' = Before
        BY <1>1 DEF Before
      <4> QED BY <2>2, <3>3, <4>1 DEF Views, ViewOpen
    <3>4. CASE InPlaceNow /\ ~Open
      BY <1>1, <1>3, <2>2, <3>4 DEF Views, ViewRest
    <3> QED BY <3>1, <3>2, <3>3, <3>4
  <2>4. Orphaned' = Orphaned \/ (Doc[p] # NoFile /\ Orphaned' = Orphaned \cup {p})
    BY <2>1, <2>3 DEF Orphaned, Doc
  <2>5. p \in Missed /\ Missed' = Missed \ {p}
    BY <1>1, <1>3 DEF RemoveMissing, Missed
  <2>6. Req' = Req
    BY <1>1, <1>2, SameReq
  <2>7. Docs!Forget(p)
    BY <2>3, <2>4, <2>5, <2>6, DocumentForget
  <2> QED BY <2>7 DEF StepOK, Docs!Next
<1>4. CASE ~(mode = "up" /\ p \in index)
  <2>1. index' = index
    BY <1>4 DEF RemoveMissing
  <2>2. Same
    BY <1>1, <1>2, <2>1, SameState
  <2>3. CASE mode = "up"
    <3>1. p \in Missed /\ Missed' = Missed \ {p}
      BY <1>1, <2>3 DEF RemoveMissing, Missed
    <3>2. Docs!Forget(p)
      BY <2>2, <3>1, DocumentForget DEF Same
    <3> QED BY <3>2 DEF StepOK, Docs!Next
  <2>4. CASE mode # "up"
    <3>1. Missed' = Missed
      BY <1>1, <2>4 DEF Missed
    <3> QED BY <2>2, <3>1, DocumentVars DEF StepOK, Same
  <2> QED BY <2>3, <2>4
<1> QED BY <1>3, <1>4

-----------------------------------------------------------------------------
(* An operation on a document that goes on or turns back: the documents    *)
(* are those before it.                                                    *)

LEMMA OpenGoesOn ==
  ASSUME Inv, Inv', Open, NEW x \in Going \cup {"undo", "undoing"}, op' = [op EXCEPT !.pc = x], index' = index,
         op'.existing = op.existing /\ op'.m = op.m /\ op'.r = op.r => Before' = Before
  PROVE  Fine
<1>1. op \in OpType
  BY DEF Inv, TypeInv, Types
<1>2. op'.pc = x /\ op'.r = op.r /\ op'.existing = op.existing /\ op'.m = op.m
  BY <1>1 DEF OpType
<1>3. Open' /\ ~Committing /\ ~Committing'
  BY <1>2 DEF Open, Committing, Committed, Going
<1>4. Views /\ Views'
  BY ViewsHold, ViewsHoldNext
<1>5. Doc' = Doc
  BY <1>2, <1>3, <1>4 DEF Views, ViewOpen
<1> QED BY <1>2, <1>3, <1>5, Unseen

\* A step that touches neither document nor backup.
LEMMA QuietSteps ==
  ASSUME Inv, Inv', Receive \/ Prepare \/ RecordStaged \/ Fail
  PROVE  Fine
<1>0. TypeInv /\ root \in Dirs
  BY DEF Inv, TypeInv, Types
<1>1. op.pc \in Going /\ op.pc \in Active /\ op.r.kind # "drop" /\ index' = index
  BY <1>0 DEF Receive, Prepare, RecordStaged, Fail, Uncommitted, Active, Going, TypeInv, OpOK, rows
<1>2. op.m \in Muts /\ op.r.kind \in FileKinds
  BY <1>0, <1>1, ActiveOp
<1>3. Open
  BY <1>1, <1>2 DEF Open
<1>4. \E x \in Going \cup {"undo", "undoing"} : op' = [op EXCEPT !.pc = x]
  BY DEF Receive, Prepare, RecordStaged, Fail, Going
<1>5. root'.file = root.file /\ root'.bak = root.bak
  <2>1. CASE Receive
    <3>1. root' = WithTmp(root, op.m, Partial)
      BY <2>1 DEF Receive, WithTmp
    <3>2. WithTmp(root, op.m, Partial).file = root.file /\ WithTmp(root, op.m, Partial).bak = root.bak
      <4>1. Partial \in Contents \cup {NoFile, Partial}
        OBVIOUS
      <4> QED BY <1>0, <1>2, <4>1, WithTmpFacts
    <3> QED BY <3>1, <3>2
  <2>2. CASE Prepare
    <3>1. root' = WithTmp(root, op.m, op.r.content) /\ op.pc = "streaming"
      BY <2>2 DEF Prepare, WithTmp
    <3>2. op.r.content \in Contents
      BY <1>0, <1>1, <3>1, ActiveOp DEF TypeInv, OpOK
    <3>3. WithTmp(root, op.m, op.r.content).file = root.file /\ WithTmp(root, op.m, op.r.content).bak = root.bak
      <4>1. op.r.content \in Contents \cup {NoFile, Partial}
        BY <3>2
      <4> QED BY <1>0, <1>2, <4>1, WithTmpFacts
    <3> QED BY <3>1, <3>3
  <2>3. CASE RecordStaged \/ Fail
    BY <2>3 DEF RecordStaged, Fail, disk
  <2> QED BY <2>1, <2>2, <2>3
<1>6. op'.existing = op.existing /\ op'.m = op.m /\ op'.r = op.r => Before' = Before
  BY <1>5 DEF Before
<1> QED BY <1>1, <1>3, <1>4, <1>6, OpenGoesOn

\* The old file goes aside, or comes off the target again.
LEMMA AsideSteps ==
  ASSUME Inv, Inv', MoveAside \/ RollBackPart
  PROVE  Fine
<1> DEFINE p == op.r.path
           m == op.m
<1>0. TypeInv /\ root \in Dirs
  BY DEF Inv, TypeInv, Types
<1>1. op.pc \in {"prepared", "undo"} /\ op.pc \in Active /\ op.r.kind = "write" /\ index' = index /\ op.existing
  BY DEF MoveAside, RollBackPart, Active, Going, Undoing, rows
<1>2. op.m \in Muts /\ op.r.path \in Paths
  BY <1>0, <1>1, ActiveOp DEF FileKinds
<1>3. Open
  BY <1>1 DEF Open, Going, FileKinds
<1>4. \E x \in Going \cup {"undo", "undoing"} : op' = [op EXCEPT !.pc = x]
  BY DEF MoveAside, RollBackPart, Going
<1>5. root.file \in [Paths -> Contents \cup {NoFile}] /\ root.bak \in [Muts -> Contents \cup {NoFile}]
  BY <1>0, DirParts
<1>6. ASSUME op'.existing = op.existing, op'.m = op.m, op'.r = op.r PROVE Before' = Before
  <2>1. CASE MoveAside
    <3>1. root' = Aside(root, p, m) /\ op.pc = "prepared"
      BY <2>1 DEF MoveAside, Aside
    <3>2. root.bak[m] = NoFile /\ root.file[p] # NoFile
      BY <1>1, <3>1 DEF Inv, RefInv, OpFilesOK, WriteFile, WriteOver, Going
    <3>3. root'.file = [root.file EXCEPT ![p] = NoFile] /\ root'.bak = [root.bak EXCEPT ![m] = root.file[p]]
      <4>1. /\ Aside(root, p, m).file = [root.file EXCEPT ![p] = NoFile]
            /\ Aside(root, p, m).bak = [root.bak EXCEPT ![m] = root.file[p]]
        BY <1>0, <1>2, AsideFacts
      <4> QED BY <3>1, <4>1
    <3>4. root'.bak[m] = root.file[p]
      BY <1>2, <1>5, <3>3
    <3>5. Before = root.file
      BY <1>1, <1>2, <1>5, <3>2 DEF Before
    <3>6. Before' = [root'.file EXCEPT ![p] = root.file[p]]
      BY <1>1, <1>6, <3>2, <3>4 DEF Before
    <3> QED BY <1>2, <1>5, <3>3, <3>5, <3>6
  <2>2. CASE RollBackPart
    <3>1. root' = WithoutFile(root, p) /\ root.bak[m] # NoFile
      BY <2>2 DEF RollBackPart
    <3>2. root'.file = [root.file EXCEPT ![p] = NoFile] /\ root'.bak = root.bak
      BY <1>0, <1>2, <3>1, WithoutFileFacts
    <3>3. Before = [root.file EXCEPT ![p] = root.bak[m]]
      BY <1>1, <3>1 DEF Before
    <3>4. Before' = [root'.file EXCEPT ![p] = root.bak[m]]
      BY <1>1, <1>6, <3>1, <3>2 DEF Before
    <3> QED BY <1>2, <1>5, <3>2, <3>3, <3>4
  <2> QED BY <2>1, <2>2
<1> QED BY <1>1, <1>3, <1>4, <1>6, OpenGoesOn

\* The one rename on disk.
LEMMA MoveFileSeen ==
  ASSUME Inv, Inv', MoveFile
  PROVE  Fine
<1> DEFINE p == op.r.path
           q == op.r.next
           m == op.m
<1>0. TypeInv /\ root \in Dirs
  BY DEF Inv, TypeInv, Types
<1>1. /\ op.pc \in {"prepared", "aside"} /\ op.pc \in Active /\ op.r.kind \in FileKinds /\ index' = index
      /\ op' = [op EXCEPT !.pc = "moved"]
  BY DEF MoveFile, Active, Going, FileKinds, rows
<1>2. op.m \in Muts /\ op.r.path \in Paths /\ (op.r.kind = "rename" => op.r.next \in Paths /\ op.r.path # op.r.next)
  BY <1>0, <1>1, ActiveOp
<1>3. Open /\ "moved" \in Going \cup {"undo", "undoing"}
  BY <1>1 DEF Open, Going
<1>4. root.file \in [Paths -> Contents \cup {NoFile}] /\ root.bak \in [Muts -> Contents \cup {NoFile}]
  BY <1>0, DirParts
<1>5. ASSUME op'.existing = op.existing, op'.m = op.m, op'.r = op.r PROVE Before' = Before
  <2>1. CASE op.r.kind = "write"
    <3>1. root' = InPlace(root, p, m)
      BY <2>1 DEF MoveFile, InPlace
    <3>2. root.tmp[m] \in Contents /\ (root.bak[m] # NoFile \/ ~op.existing)
      BY <1>1, <2>1 DEF MoveFile, Inv, TypeInv, UploadOK, RefInv, OpFilesOK, WriteOver
    <3>3. root'.file = [root.file EXCEPT ![p] = root.tmp[m]] /\ root'.bak = root.bak
      <4>1. root.tmp[m] \in Contents
        BY <1>0, <1>1, <2>1 DEF TypeInv, UploadOK
      <4>2. InPlace(root, p, m).file = [root.file EXCEPT ![p] = root.tmp[m]]
        BY <1>0, <1>2, InPlaceFile
      <4>3. InPlace(root, p, m).bak = root.bak
        BY <1>0, <1>2, <4>1, InPlaceFacts
      <4> QED BY <3>1, <4>2, <4>3
    <3> DEFINE c == IF root.bak[m] # NoFile THEN root.bak[m] ELSE NoFile
    <3>4. Before = [root.file EXCEPT ![p] = c]
      BY <2>1, <3>2 DEF Before
    <3>5. Before' = [root'.file EXCEPT ![p] = c]
      BY <1>5, <2>1, <3>2, <3>3 DEF Before
    <3> HIDE DEF c
    <3> QED BY <1>2, <1>4, <3>3, <3>4, <3>5
  <2>2. CASE op.r.kind = "rename"
    <3>1. root' = Moved(root, p, q) /\ op.pc = "prepared"
      BY <2>2 DEF MoveFile
    <3>2. root.file[p] # NoFile /\ root.file[q] = NoFile
      BY <2>2, <3>1 DEF Inv, RefInv, OpFilesOK, MoveOK
    <3>3. root'.file = [root.file EXCEPT ![q] = root.file[p], ![p] = NoFile]
      BY <1>0, <1>2, <2>2, <3>1, MovedFacts
    <3>4. root'.file[q] # NoFile /\ root'.file[p] = NoFile /\ root'.file[q] = root.file[p]
      BY <1>2, <1>4, <2>2, <3>2, <3>3
    <3>5. Before = root.file
      BY <2>2, <3>2 DEF Before
    <3>6. Before' = [root'.file EXCEPT ![p] = root.file[p], ![q] = NoFile]
      BY <1>5, <2>2, <3>4 DEF Before
    <3> QED BY <1>2, <1>4, <2>2, <3>2, <3>3, <3>5, <3>6
  <2>3. CASE op.r.kind = "delete"
    <3>1. root' = Aside(root, p, m) /\ op.pc = "prepared" /\ root.file[p] # NoFile
      BY <2>3 DEF MoveFile, Aside, Exists
    <3>2. root.bak[m] = NoFile
      BY <2>3, <3>1 DEF Inv, RefInv, OpFilesOK, RemovedOK
    <3>3. root'.file = [root.file EXCEPT ![p] = NoFile] /\ root'.bak = [root.bak EXCEPT ![m] = root.file[p]]
      BY <1>0, <1>2, <3>1, AsideFacts
    <3>4. root'.bak[m] = root.file[p]
      BY <1>2, <1>4, <3>3
    <3>5. Before = root.file
      BY <1>2, <1>4, <2>3, <3>2 DEF Before
    <3>6. Before' = [root'.file EXCEPT ![p] = root.file[p]]
      BY <1>5, <2>3, <3>1, <3>4 DEF Before
    <3> QED BY <1>2, <1>4, <3>3, <3>5, <3>6
  <2> QED BY <1>1, <2>1, <2>2, <2>3 DEF FileKinds
<1> QED BY <1>1, <1>3, <1>5, OpenGoesOn

-----------------------------------------------------------------------------
(* An operation on a document that begins, commits, turned back or ends.   *)

\* The files of the Story are the documents: nobody is in the middle of changing them.
AtRest == Doc = root.file /\ InPlaceNow /\ story # "gone" /\ ~trash.there
Resting == /\ mode \in {"up", "closing"} /\ story # "gone" /\ ~trash.there
           /\ mode = "up" \/ op # NoOp
           /\ ~Open

LEMMA RestFiles == Inv /\ Resting => AtRest
BY ViewsHold DEF Resting, AtRest, Views, ViewRest, InPlaceNow

LEMMA RestFilesNext == Inv' /\ Resting' => AtRest'
BY RestFiles, PTL

LEMMA FileOpInPlace ==
  ASSUME Inv, op.pc \in Active, op.r.kind \in FileKinds
  PROVE  story # "gone" /\ ~trash.there /\ op # NoOp /\ mode \in {"up", "closing"}
<1>1. op # NoOp /\ mode \in {"up", "closing"}
  BY ActiveOp DEF Inv
<1> QED BY <1>1 DEF Inv, RefInv, DirsOK, GoneOK, TrashOK, FileKinds

LEMMA InsertIntentSeen ==
  ASSUME Inv, Inv', InsertIntent
  PROVE  Fine
<1> DEFINE first == IF op.r.kind = "write" THEN "receiving" ELSE "prepared"
<1>0. TypeInv /\ root \in Dirs /\ op \in OpType
  BY DEF Inv, TypeInv, Types
<1>1. /\ op.pc = "locked" /\ op.pc \in Active /\ op.r.kind # "drop" /\ index' = index
      /\ op' = [op EXCEPT !.pc = first] /\ root' = [root EXCEPT !.there = @ \/ op.r.kind \in {"write", "rename"}]
      /\ intents' = [intents EXCEPT ![op.m] =
                       [kind |-> op.r.kind, path |-> op.r.path, next |-> op.r.next, phase |-> first]]
  BY DEF InsertIntent, Active
<1>2. op.m \in Muts /\ op.r.kind \in FileKinds /\ op.r.path \in Paths
  BY <1>0, <1>1, ActiveOp
<1>3. op'.pc = first /\ op'.r = op.r /\ op'.existing = op.existing /\ op'.m = op.m
  BY <1>0, <1>1 DEF OpType
<1>4. root'.file = root.file
  <2>1. (op.r.kind \in {"write", "rename"}) \in BOOLEAN
    OBVIOUS
  <2> QED BY <1>0, <1>1, <2>1, Created
<1>5. intents'[op.m].phase = first
  BY <1>0, <1>1, <1>2 DEF TypeInv, Types
<1>6. ~Open /\ Open' /\ ~Committing /\ ~Committing'
  BY <1>1, <1>2, <1>3 DEF Open, Committing, Committed, Going
<1>7. Doc = root.file
  BY <1>1, <1>2, <1>6, RestFiles, FileOpInPlace DEF Resting, AtRest
<1>8. Doc' = Before'
  BY <1>6, ViewsHoldNext DEF Views, ViewOpen
<1>9. root.file \in [Paths -> Contents \cup {NoFile}]
  BY <1>0, DirParts
<1> HIDE DEF first
<1>10. Before' = root.file
  <2>1. CASE op.r.kind = "write"
    <3>1. op'.pc = "receiving" /\ intents'[op.m].phase = "receiving"
      BY <1>3, <1>5, <2>1 DEF first
    <3>2. root'.bak[op.m] = NoFile
      BY <1>3, <2>1, <3>1 DEF Inv, RefInv, OpFilesOK, WriteFile
    <3>3. ~op.existing => root'.file[op.r.path] = NoFile
      BY <1>3, <2>1, <3>1 DEF Inv, RefInv, OpFilesOK, WriteNew, StagedRow, Going
    <3>4. Before' = [root.file EXCEPT ![op.r.path] = IF ~op.existing THEN NoFile ELSE @]
      BY <1>3, <1>4, <2>1, <3>2 DEF Before
    <3> QED BY <1>2, <1>4, <1>9, <3>3, <3>4
  <2>2. CASE op.r.kind = "rename"
    <3>1. op'.pc = "prepared"
      BY <1>3, <2>2 DEF first
    <3>2. root'.file[op.r.path] # NoFile
      BY <1>3, <2>2, <3>1 DEF Inv, RefInv, OpFilesOK, MoveOK
    <3> QED BY <1>3, <1>4, <2>2, <3>2 DEF Before
  <2>3. CASE op.r.kind = "delete"
    <3>1. op'.pc = "prepared"
      BY <1>3, <2>3 DEF first
    <3>2. root'.bak[op.m] = NoFile
      BY <1>3, <2>3, <3>1 DEF Inv, RefInv, OpFilesOK, RemovedOK
    <3>3. Before' = [root.file EXCEPT ![op.r.path] = @]
      BY <1>3, <1>4, <2>3, <3>2 DEF Before
    <3> QED BY <1>2, <1>9, <3>3
  <2> QED BY <1>2, <2>1, <2>2, <2>3 DEF FileKinds
<1> QED BY <1>1, <1>3, <1>6, <1>7, <1>8, <1>10, Unseen

LEMMA RollBackSeen ==
  ASSUME Inv, Inv', RollBack
  PROVE  Fine
<1>0. TypeInv /\ CleanInv /\ RefInv /\ op \in OpType
  BY DEF Inv, TypeInv, Types
<1>1. /\ op.pc \in {"undo", "undoing"} /\ op.pc \in Active /\ op.r.kind # "drop" /\ index' = index
      /\ op' = [op EXCEPT !.pc = "undone"] /\ root' = RolledBack(root)
  BY DEF RollBack, Active, Undoing, rows
<1>2. op.r.kind \in FileKinds
  BY <1>0, <1>1, ActiveOp
<1>3. op'.pc = "undone" /\ op'.r = op.r
  BY <1>0, <1>1 DEF OpType
<1>4. Open /\ ~Open' /\ ~Committing /\ ~Committing'
  BY <1>1, <1>2, <1>3 DEF Open, Committing, Committed, Going
<1>5. Doc = Before
  BY <1>4, ViewsHold DEF Views, ViewOpen
<1>6. story' = story /\ trash' = trash /\ mode' = mode
  BY DEF RollBack, rows
<1>7. Resting'
  BY <1>1, <1>2, <1>3, <1>4, <1>6, FileOpInPlace, NoRequestFacts DEF Resting
<1>8. Doc' = root'.file
  BY <1>7, RestFilesNext DEF AtRest
<1>9. root'.file = Before
  BY <1>0, <1>1, <1>2, RolledBackIsBefore
<1> QED BY <1>1, <1>3, <1>4, <1>5, <1>8, <1>9, Unseen

\* Past the commit.
LEMMA CleanupSeen ==
  ASSUME Inv, Inv', RemoveBackup \/ RecordCleanup \/ (DeleteIntent /\ op.pc = "cleanup")
  PROVE  Fine
<1>0. TypeInv /\ root \in Dirs /\ op \in OpType
  BY DEF Inv, TypeInv, Types
<1>1. /\ op.pc \in Ending /\ op.pc \in Active /\ op.r.kind # "drop" /\ index' = index
      /\ op' = [op EXCEPT !.pc = "cleaned"] \/ op' = [op EXCEPT !.pc = "cleanup"] \/ op' = [op EXCEPT !.pc = "answer"]
      /\ story' = story /\ trash' = trash /\ mode' = mode
  BY DEF RemoveBackup, RecordCleanup, DeleteIntent, Active, Ending, rows, disk
<1>2. op.r.kind \in FileKinds /\ op.m \in Muts
  BY <1>0, <1>1, ActiveOp
<1>3. op'.pc \in {"cleaned", "cleanup", "answer"} /\ op'.r = op.r
  BY <1>0, <1>1 DEF OpType
<1>4. ~Open /\ ~Open' /\ Committing /\ Committing'
  BY <1>1, <1>2, <1>3 DEF Open, Committing, Committed, Going, Ending
<1>5. Doc = root.file
  BY <1>1, <1>2, <1>4, RestFiles, FileOpInPlace DEF Resting, AtRest
<1>6. Resting'
  BY <1>1, <1>2, <1>3, <1>4, FileOpInPlace, NoRequestFacts DEF Resting
<1>7. Doc' = root'.file
  BY <1>6, RestFilesNext DEF AtRest
<1>8. root'.file = root.file
  <2>1. CASE RemoveBackup
    <3>1. root' = root \/ root' = WithoutBak(root, op.m)
      BY <2>1 DEF RemoveBackup, WithoutBak
    <3> QED BY <1>0, <1>2, <3>1, WithoutBakFacts
  <2>2. CASE RecordCleanup \/ DeleteIntent
    BY <2>2 DEF RecordCleanup, DeleteIntent, disk
  <2> QED BY <2>1, <2>2
<1> QED BY <1>1, <1>3, <1>4, <1>5, <1>7, <1>8, Unseen

\* The answer of an up process, and the end of a rollback: nothing is lost.
LEMMA EndSeen ==
  ASSUME Inv, Inv', (Answer /\ mode = "up") \/ (DeleteIntent /\ op.pc = "undone") \/ DropUndone
  PROVE  Fine
<1>0. TypeInv /\ root \in Dirs
  BY DEF Inv, TypeInv, Types
<1>1. /\ op.pc \in {"answer", "undone"} /\ op.pc \in Active /\ op' = NoOp /\ mode = "up" /\ mode' = "up"
      /\ root' = root /\ trash' = trash /\ story' = story
      /\ index' = index \/ index' = Projected(index)
  BY DEF Answer, DeleteIntent, DropUndone, Active, Undoing, rows, disk
<1>2. op.r \in Requests /\ op.r.kind \in FileKinds \cup {"drop"} /\ op # NoOp
  BY <1>0, <1>1, ActiveOp
<1>3. story # "gone" /\ ~trash.there
  BY <1>1, <1>2 DEF Inv, RefInv, DirsOK, GoneOK, TrashOK, FileKinds, Ending
<1>4. ~Open /\ ~Open'
  BY <1>1, NoRequestFacts DEF Open, Going
<1>5. Doc = root.file
  BY <1>1, <1>3, <1>4, RestFiles DEF Resting, AtRest
<1>6. Doc' = root'.file
  BY <1>1, <1>3, <1>4, RestFilesNext DEF Resting, AtRest
<1>7. Doc' = Doc /\ Doc \in Files
  BY <1>0, <1>1, <1>5, <1>6, DirParts DEF Files
<1>8. Orphaned' = Orphaned
  BY <1>1, <1>5, <1>7 DEF Orphaned, Doc, Projected, Exists
<1> QED BY <1>1, <1>2, <1>7, <1>8, KeptAll, Ends

LEMMA AcceptSeen ==
  ASSUME Inv, Inv', NEW r \in Requests, Accept(r)
  PROVE  Fine
<1>1. /\ op = NoOp /\ op' = [pc |-> "locked", r |-> r, existing |-> r.path \in index, m |-> used.ops + 1]
      /\ mode = "up" /\ mode' = "up" /\ story # "gone" /\ root' = root /\ trash' = trash /\ story' = story
      /\ index' = index \/ index' = Projected(index)
  BY DEF Accept, disk
<1>2. op.pc = "idle" /\ op.r = NoRequest /\ op.r.kind = "none" /\ op'.pc = "locked" /\ op'.r = r
  BY <1>1, NoRequestFacts
<1>3. ~trash.there
  BY <1>1, <1>2 DEF Inv, RefInv, DirsOK, TrashOK
<1>4. ~Open /\ ~Open'
  BY <1>2 DEF Open, Going
<1>5. Doc = root.file
  BY <1>1, <1>3, <1>4, RestFiles DEF Resting, AtRest
<1>6. Doc' = root'.file
  BY <1>1, <1>3, <1>4, RestFilesNext DEF Resting, AtRest
<1>7. Orphaned' = Orphaned
  BY <1>1, <1>5, <1>6 DEF Orphaned, Doc, Projected, Exists
<1>8. ReqIdle
  BY <1>2 DEF ReqIdle, Committing, Committed
<1> QED BY <1>1, <1>2, <1>5, <1>6, <1>7, <1>8, Begins

-----------------------------------------------------------------------------
(* The two transactions: the request takes effect.                         *)

\* The documents after the commit, from those before it.
LEMMA CommitFiles ==
  ASSUME Inv, op.pc = "staged", op.r.kind \in FileKinds
  PROVE  /\ op.r.kind = "write" => root.file = [Before EXCEPT ![op.r.path] = op.r.content]
         /\ op.r.kind = "rename" => root.file = [Before EXCEPT ![op.r.next] = Before[op.r.path], ![op.r.path] = NoFile]
         /\ op.r.kind = "delete" => root.file = [Before EXCEPT ![op.r.path] = NoFile]
         /\ op.r.kind # "write" => root.file[op.r.path] = NoFile
         /\ op.r.kind = "write" /\ op.existing => Before[op.r.path] # NoFile
         /\ \A s \in Paths : s # op.r.path /\ s # op.r.next => Before[s] = root.file[s]
<1> DEFINE p == op.r.path
           q == op.r.next
           f == root.file
<1>0. TypeInv /\ root \in Dirs /\ op.pc \in Active /\ op.pc \in Going
  BY DEF Inv, TypeInv, Types, Active, Going
<1>1. op.m \in Muts /\ p \in Paths /\ (op.r.kind = "rename" => q \in Paths /\ p # q)
  BY <1>0, ActiveOp
<1>2. f \in [Paths -> Contents \cup {NoFile}]
  BY <1>0, DirParts
<1>3. CASE op.r.kind = "write"
  <2>1. f[p] = op.r.content
    BY <1>3 DEF Inv, RefInv, OpFilesOK, WriteFile
  <2>2. op.existing => root.bak[op.m] # NoFile
    BY <1>3 DEF Inv, RefInv, OpFilesOK, WriteOver
  <2> DEFINE c == IF root.bak[op.m] # NoFile THEN root.bak[op.m] ELSE NoFile
  <2>3. Before = [f EXCEPT ![p] = c]
    BY <1>3, <2>2 DEF Before
  <2>4. op.existing => c # NoFile
    BY <2>2
  <2> HIDE DEF c, p, f
  <2>5. f = [Before EXCEPT ![p] = op.r.content] /\ (op.existing => Before[p] # NoFile) /\ \A s \in Paths : s # p => Before[s] = f[s]
    BY <1>1, <1>2, <2>1, <2>3, <2>4
  <2> QED BY <1>3, <2>5 DEF p, f
<1>4. CASE op.r.kind = "rename"
  <2>1. f[p] = NoFile /\ f[q] # NoFile
    BY <1>4 DEF Inv, RefInv, OpFilesOK, MoveOK
  <2>2. Before = [f EXCEPT ![p] = f[q], ![q] = NoFile]
    BY <1>4, <2>1 DEF Before
  <2> HIDE DEF p, q, f
  <2>3. f = [Before EXCEPT ![q] = Before[p], ![p] = NoFile] /\ \A s \in Paths : s # p /\ s # q => Before[s] = f[s]
    BY <1>1, <1>2, <1>4, <2>1, <2>2
  <2> QED BY <1>4, <2>1, <2>3 DEF p, q, f
<1>5. CASE op.r.kind = "delete"
  <2>1. f[p] = NoFile
    BY <1>5 DEF Inv, RefInv, OpFilesOK, RemovedOK
  <2>2. PICK c : Before = [f EXCEPT ![p] = c]
    BY <1>5 DEF Before
  <2> HIDE DEF p, f
  <2>3. f = [Before EXCEPT ![p] = NoFile] /\ \A s \in Paths : s # p => Before[s] = f[s]
    BY <1>1, <1>2, <2>1, <2>2
  <2> QED BY <1>5, <2>1, <2>3 DEF p, f
<1> QED BY <1>3, <1>4, <1>5 DEF FileKinds

LEMMA CommitSeen ==
  ASSUME Inv, Inv', Commit
  PROVE  Fine
<1>0. TypeInv /\ op \in OpType
  BY DEF Inv, TypeInv, Types
<1>1. /\ op.pc = "staged" /\ op.pc \in Active /\ op.r.kind # "drop" /\ index' = IndexAfter
      /\ op' = [op EXCEPT !.pc = "committed"] /\ root' = root /\ story' = story /\ trash' = trash /\ mode' = mode
  BY DEF Commit, Active, Going, disk
<1>2. op.r.kind \in FileKinds /\ op.r \in Requests
  BY <1>0, <1>1, ActiveOp
<1>3. op'.pc = "committed" /\ op'.r = op.r
  BY <1>0, <1>1 DEF OpType
<1>4. Open /\ ~Open' /\ op.pc \notin Committed /\ op'.pc \in Committed
  BY <1>1, <1>2, <1>3 DEF Open, Committed, Going
<1>5. Doc = Before
  BY <1>4, ViewsHold DEF Views, ViewOpen
<1>6. Resting'
  BY <1>1, <1>2, <1>3, <1>4, FileOpInPlace, NoRequestFacts DEF Resting
<1>7. Doc' = root.file
  BY <1>1, <1>6, RestFilesNext DEF AtRest
<1>8. /\ op.r.kind = "write" => Doc' = [Doc EXCEPT ![op.r.path] = op.r.content]
      /\ op.r.kind = "rename" => Doc' = [Doc EXCEPT ![op.r.next] = Doc[op.r.path], ![op.r.path] = NoFile]
      /\ op.r.kind = "delete" => Doc' = [Doc EXCEPT ![op.r.path] = NoFile]
  BY <1>1, <1>2, <1>5, <1>7, CommitFiles
<1>9. Orphaned' \subseteq Orphaned
  <2>1. Orphaned = {s \in Paths : Doc[s] # NoFile /\ s \notin index}
    BY DEF Orphaned, Doc
  <2>2. Orphaned' = {s \in Paths : Doc'[s] # NoFile /\ s \notin index'}
    BY DEF Orphaned, Doc
  <2>3. SUFFICES ASSUME NEW s \in Paths, Doc'[s] # NoFile, s \notin index' PROVE Doc[s] # NoFile /\ s \notin index
    BY <2>1, <2>2
  <2>4. CASE s # op.r.path /\ s # op.r.next
    <3>1. Before[s] = root.file[s]
      BY <1>1, <1>2, <2>4, CommitFiles
    <3>2. s \notin index
      BY <1>1, <1>2, <2>3, <2>4 DEF IndexAfter, FileKinds
    <3> QED BY <1>5, <1>7, <2>3, <3>1, <3>2
  <2>5. CASE s = op.r.path
    <3>1. op.r.kind = "write"
      BY <1>1, <1>2, <1>7, <2>3, <2>5, CommitFiles
    <3>2. op.existing /\ s \notin index
      BY <1>1, <2>3, <2>5, <3>1 DEF IndexAfter
    <3>3. Before[op.r.path] # NoFile
      BY <1>1, <1>2, <3>1, <3>2, CommitFiles
    <3> QED BY <1>5, <2>5, <3>2, <3>3
  <2>6. CASE s = op.r.next /\ s # op.r.path
    <3>1. op.r.kind = "rename"
      <4>1. s # NoFile
        BY StoryAssumption
      <4> QED BY <1>2, <2>6, <4>1 DEF Requests
    <3> QED BY <1>1, <2>3, <2>6, <3>1 DEF IndexAfter
  <2> QED BY <2>4, <2>5, <2>6
<1>10. Doc' = CASE op.r.kind = "write"  -> [Doc EXCEPT ![op.r.path] = op.r.content]
                [] op.r.kind = "rename" -> [Doc EXCEPT ![op.r.next] = Doc[op.r.path], ![op.r.path] = NoFile]
                [] op.r.kind = "delete" -> [Doc EXCEPT ![op.r.path] = NoFile]
                [] op.r.kind = "drop"   -> NoFiles
  BY <1>2, <1>8 DEF FileKinds
<1> QED BY <1>2, <1>3, <1>4, <1>9, <1>10, Effects

\* deleteCoordinated: the transaction takes the Story away.
LEMMA DropCommitSeen ==
  ASSUME Inv, Inv', DropCommit
  PROVE  Fine
<1>0. TypeInv /\ op \in OpType
  BY DEF Inv, TypeInv, Types
<1>1. op.pc = "staged" /\ op.pc \in Active /\ op.r.kind = "drop" /\ op' = [op EXCEPT !.pc = "committed"] /\ story' = "gone"
  BY DEF DropCommit, Active, Going
<1>2. op.r \in Requests
  BY <1>0, <1>1, ActiveOp
<1>3. op'.pc = "committed" /\ op'.r = op.r
  BY <1>0, <1>1 DEF OpType
<1>4. Doc' = NoFiles
  BY <1>1, ViewsHoldNext DEF Views, ViewGone
<1>5. Orphaned' \subseteq Orphaned
  BY <1>4 DEF Orphaned, Doc, NoFiles
<1>6. Doc' = CASE op.r.kind = "write"  -> [Doc EXCEPT ![op.r.path] = op.r.content]
               [] op.r.kind = "rename" -> [Doc EXCEPT ![op.r.next] = Doc[op.r.path], ![op.r.path] = NoFile]
               [] op.r.kind = "delete" -> [Doc EXCEPT ![op.r.path] = NoFile]
               [] op.r.kind = "drop"   -> NoFiles
  BY <1>1, <1>4
<1>7. op.pc \notin Committed /\ op'.pc \in Committed
  BY <1>1, <1>3 DEF Committed
<1> QED BY <1>2, <1>3, <1>5, <1>6, <1>7, Effects

-----------------------------------------------------------------------------
(* The other steps of a Story's deletion.                                  *)

LEMMA DropOn ==
  ASSUME Inv, op.pc \in Active, op.r.kind = "drop", NEW x \in Active, op' = [op EXCEPT !.pc = x] \/
         op' = [op EXCEPT !.pc = x, !.existing = root.there]
  PROVE  /\ op'.pc = x /\ op'.r = op.r /\ op # NoOp /\ op' # NoOp /\ ~Open /\ ~Open' /\ mode \in {"up", "closing"}
         /\ op.pc \notin Ending => story # "gone" /\ (op.pc \notin {"moved", "staged", "undo"} => ~trash.there)
<1>1. op \in OpType /\ op # NoOp /\ mode \in {"up", "closing"}
  BY ActiveOp DEF Inv
<1>2. op'.pc = x /\ op'.r = op.r
  BY <1>1 DEF OpType
<1>3. op' # NoOp
  BY <1>2, NoRequestFacts DEF Active, Going, Undoing, Ending
<1>4. ~Open /\ ~Open'
  BY <1>2 DEF Open, FileKinds
<1>5. op.pc \notin Ending => story # "gone" /\ (op.pc \notin {"moved", "staged", "undo"} => ~trash.there)
  BY <1>1 DEF Inv, RefInv, DirsOK, GoneOK, TrashOK
<1> QED BY <1>1, <1>2, <1>3, <1>4, <1>5

\* The directory stays where it is.
LEMMA DropRecords ==
  ASSUME Inv, Inv', DropPrepare \/ DropStaged \/ DropFail
  PROVE  Fine
<1>1. /\ op.pc \in {"locked", "prepared", "moved", "staged"} /\ op.pc \in Active /\ op.r.kind = "drop"
      /\ root' = root /\ trash' = trash /\ story' = story /\ index' = index /\ mode' = mode
  BY DEF DropPrepare, DropStaged, DropFail, Active, Going, disk, rows
<1>2. PICK x \in {"prepared", "staged", "undo"} : op' = [op EXCEPT !.pc = x]
  BY DEF DropPrepare, DropStaged, DropFail
<1>3. x \in Active
  BY DEF Active, Going, Undoing
<1>4. /\ op'.pc = x /\ op'.r = op.r /\ op # NoOp /\ op' # NoOp /\ ~Open /\ ~Open' /\ mode \in {"up", "closing"}
      /\ story # "gone"
  BY <1>1, <1>2, <1>3, DropOn DEF Ending
<1>5. InPlaceNow' <=> InPlaceNow
  BY <1>1, <1>4 DEF InPlaceNow
<1>6. Views /\ Views'
  BY ViewsHold, ViewsHoldNext
<1>7. CASE InPlaceNow
  <2>1. Doc = root.file
    BY <1>4, <1>6, <1>7 DEF Views, ViewRest
  <2>2. Doc' = root'.file
    BY <1>1, <1>4, <1>5, <1>6, <1>7 DEF Views, ViewRest
  <2>3. Doc' = Doc
    BY <1>1, <2>1, <2>2
  <2>4. ~Committing /\ ~Committing'
    BY <1>1, <1>4 DEF Committing, Committed
  <2> QED BY <1>1, <1>4, <2>3, <2>4, Unseen
<1>8. CASE ~InPlaceNow
  <2>1. Doc' = Doc
    BY <1>1, <1>4, <1>5, <1>6, <1>8 DEF Views, ViewTrash
  <2>2. ~Committing /\ ~Committing'
    BY <1>1, <1>4 DEF Committing, Committed
  <2> QED BY <1>1, <1>4, <2>1, <2>2, Unseen
<1> QED BY <1>7, <1>8

LEMMA DropMoveSeen ==
  ASSUME Inv, Inv', DropMove
  PROVE  Fine
<1>1. /\ op.pc = "prepared" /\ op.pc \in Active /\ op.r.kind = "drop" /\ trash' = root /\ root' = NoDir
      /\ op' = [op EXCEPT !.pc = "moved", !.existing = root.there]
      /\ story' = story /\ index' = index /\ mode' = mode /\ "moved" \in Active
  BY DEF DropMove, Active, Going, rows
<1>2. /\ op'.pc = "moved" /\ op'.r = op.r /\ op # NoOp /\ op' # NoOp /\ ~Open /\ ~Open' /\ mode \in {"up", "closing"}
      /\ story # "gone" /\ ~trash.there
  BY <1>1, DropOn DEF Ending
<1>3. Doc = root.file
  BY <1>2, RestFiles DEF Resting, AtRest
<1>4. ~NoDir.there /\ NoDir.file = NoFiles
  BY DEF NoDir, NoFiles
<1>5. CASE root.there
  <2>1. story' # "gone" /\ ~InPlaceNow'
    BY <1>1, <1>2, <1>4, <1>5 DEF InPlaceNow
  <2>2. Doc' = trash'.file
    BY <2>1, ViewsHoldNext DEF Views, ViewTrash
  <2>3. Doc' = Doc
    BY <1>1, <1>3, <2>2
  <2>4. ~Committing /\ ~Committing'
    BY <1>1, <1>2 DEF Committing, Committed
  <2> QED BY <1>1, <1>2, <2>3, <2>4, Unseen
<1>6. CASE ~root.there
  <2>1. \A p \in Paths : root.file[p] = NoFile
    BY <1>6 DEF Inv, RefInv, DirsOK, ThereOK
  <2>2. root.file \in [Paths -> Contents \cup {NoFile}]
    BY DirParts DEF Inv, TypeInv, Types
  <2>3. root.file = NoFiles
    BY <2>1, <2>2 DEF NoFiles
  <2>4. Resting'
    BY <1>1, <1>2, <1>6 DEF Resting
  <2>5. Doc' = root'.file
    BY <2>4, RestFilesNext DEF AtRest
  <2>6. Doc' = Doc
    BY <1>1, <1>3, <1>4, <2>3, <2>5
  <2>7. ~Committing /\ ~Committing'
    BY <1>1, <1>2 DEF Committing, Committed
  <2> QED BY <1>1, <1>2, <2>6, <2>7, Unseen
<1> QED BY <1>5, <1>6

LEMMA DropRestoreSeen ==
  ASSUME Inv, Inv', DropRestore
  PROVE  Fine
<1>1. /\ op.pc = "undo" /\ op.pc \in Active /\ op.r.kind = "drop"
      /\ IF trash.there /\ ~root.there THEN root' = trash /\ trash' = NoDir ELSE root' = root /\ trash' = trash
      /\ op' = [op EXCEPT !.pc = "undone"]
      /\ story' = story /\ index' = index /\ mode' = mode /\ "undone" \in Active
  BY DEF DropRestore, Active, Undoing, rows, disk
<1>2. /\ op'.pc = "undone" /\ op'.r = op.r /\ op # NoOp /\ op' # NoOp /\ ~Open /\ ~Open' /\ mode \in {"up", "closing"}
      /\ story # "gone"
  BY <1>1, DropOn DEF Ending
<1>3. trash.there => ~root.there
  BY <1>2 DEF Inv, RefInv, DirsOK, TrashOK
<1>4. ~NoDir.there
  BY DEF NoDir
<1>5. ~trash'.there
  BY <1>1, <1>3, <1>4
<1>6. Doc' = root'.file
  BY <1>1, <1>2, <1>5, RestFilesNext DEF Resting, AtRest
<1>7. ~Committing /\ ~Committing'
  BY <1>1, <1>2 DEF Committing, Committed
<1>8. CASE trash.there
  <2>1. ~InPlaceNow
    BY <1>1, <1>3, <1>8 DEF InPlaceNow
  <2>2. Doc = trash.file
    BY <1>2, <2>1, ViewsHold DEF Views, ViewTrash
  <2>3. Doc' = Doc
    BY <1>1, <1>3, <1>6, <1>8, <2>2
  <2> QED BY <1>1, <1>2, <1>7, <2>3, Unseen
<1>9. CASE ~trash.there
  <2>1. Doc = root.file
    BY <1>2, <1>9, RestFiles DEF Resting, AtRest
  <2>2. Doc' = Doc
    BY <1>1, <1>6, <1>9, <2>1
  <2> QED BY <1>1, <1>2, <1>7, <2>2, Unseen
<1> QED BY <1>8, <1>9

LEMMA DropCleanSeen ==
  ASSUME Inv, Inv', DropClean
  PROVE  Fine
<1>1. op.pc \in Ending /\ op.pc \in Active /\ op.r.kind = "drop" /\ story' = story /\ index' = index
  BY DEF DropClean, Active, Ending
<1>2. story = "gone" /\ op.r \in Requests
  BY <1>1, ActiveOp DEF Inv, RefInv, DirsOK, GoneOK
<1>3. Doc = NoFiles /\ Doc' = NoFiles
  BY <1>1, <1>2, ViewsHold, ViewsHoldNext DEF Views, ViewGone
<1>4. CASE op' = NoOp
  BY <1>1, <1>2, <1>3, <1>4, Ends
<1>5. CASE op' # NoOp
  <2>1. PICK x \in {"cleaned", "cleanup"} : op' = [op EXCEPT !.pc = x]
    BY <1>5 DEF DropClean
  <2>2. x \in Active
    BY DEF Active, Ending
  <2>3. op'.pc = x /\ op'.r = op.r
    BY <1>1, <2>1, <2>2, DropOn
  <2>4. Committing /\ Committing'
    BY <1>1, <2>3 DEF Committing, Committed, Ending
  <2>5. Doc' = Doc
    BY <1>3
  <2> QED BY <1>1, <2>3, <2>4, <2>5, Unseen
<1> QED BY <1>4, <1>5

-----------------------------------------------------------------------------
(* The lock is given back or the process dies, with the disk and the rows  *)
(* as they are.                                                            *)

\* Recovering a row again that is already put right.
LEMMA DoneRow ==
  ASSUME Inv, NEW k \in Done
  PROVE  /\ k \in Muts
         /\ \/ Recovered(root, k).file = root.file
            \/ /\ intents[k].path \in Paths \ index
               /\ Recovered(root, k).file = [root.file EXCEPT ![intents[k].path] = NoFile]
<1> DEFINE it == intents[k]
           p == it.path
           w == IF p \notin index /\ StagedRow(k) THEN WithoutFile(root, p) ELSE root
<1>0. TypeInv /\ CleanInv /\ RefInv /\ root \in Dirs /\ op \in OpType
  BY DEF Inv, TypeInv, Types
<1>1. /\ op.pc \in {"undone", "recovered"} /\ k \in Muts /\ ~Litter(root, k)
      /\ op.pc = "undone" => k = op.m
      /\ op.pc = "recovered" => k = Oldest
  <2>1. CASE op.pc = "undone"
    <3>1. k = op.m /\ op.pc \in Active
      BY <2>1 DEF Done, Active, Undoing
    <3>2. op.m \in Muts /\ mode \in {"up", "closing"}
      BY <1>0, <3>1, ActiveOp
    <3>3. ~Litter(root, op.m)
      BY <1>0, <2>1, <3>2, OnlyTheOperation DEF Holding, Going
    <3> QED BY <2>1, <3>1, <3>2, <3>3
  <2>2. CASE op.pc = "recovered"
    <3>1. k = Oldest
      BY <2>2 DEF Done
    <3>2. Pending /\ ~Litter(root, Oldest)
      BY <1>0, <2>2 DEF CleanInv, RecoveryOK
    <3> QED BY <2>2, <3>1, <3>2, OldestFacts
  <2>3. op.pc \in {"undone", "recovered"}
    BY DEF Done
  <2> QED BY <2>1, <2>2, <2>3
<1>2. it \in IntentType /\ (it.kind # "none" => p \in Paths)
  BY <1>0, <1>1 DEF TypeInv, Types, NamesOK
<1>3. CASE Inert(k)
  BY <1>0, <1>1, <1>3, InertRow
<1>4. CASE ~Inert(k)
  <2>1. it.kind \in {"write", "rename"} /\ it.phase \notin Final
    BY <1>1, <1>2, <1>4 DEF Inert, IntentType, FileKinds
  <2>2. root.tmp[k] = NoFile /\ root.bak[k] = NoFile
    BY <1>1 DEF Litter
  <2>3. CASE it.kind = "write"
    <3>1. Recovered(root, k) = WithoutTmp(w, k)
      BY <2>1, <2>2, <2>3 DEF Recovered, Final, StagedRow
    <3>2. p \in Paths
      BY <1>2, <2>3
    <3>3. CASE p \notin index /\ StagedRow(k)
      <4>1. w = WithoutFile(root, p)
        BY <3>3
      <4> HIDE DEF w, p
      <4>2. w \in Dirs /\ w.file = [root.file EXCEPT ![p] = NoFile]
        BY <1>0, <3>2, <4>1, WithoutFileFacts
      <4>3. WithoutTmp(w, k).file = w.file
        BY <1>1, <4>2, WithoutTmpFacts
      <4> QED BY <1>1, <3>1, <3>2, <3>3, <4>2, <4>3 DEF p
    <3>4. CASE ~(p \notin index /\ StagedRow(k))
      <4>1. w = root
        BY <3>4
      <4> HIDE DEF w, p
      <4>2. WithoutTmp(w, k).file = w.file
        BY <1>0, <1>1, <4>1, WithoutTmpFacts
      <4> QED BY <1>1, <3>1, <4>1, <4>2
    <3> QED BY <3>3, <3>4
  <2>4. CASE it.kind = "rename"
    <3>1. TakenBack(k)
      <4>1. CASE op.pc = "recovered"
        BY <1>1, <2>1, <2>4, <4>1 DEF Inv, BackOK, MoveOpen
      <4>2. CASE op.pc = "undone"
        <5>1. mode \in {"up", "closing"} /\ op # NoOp /\ k = op.m
          BY <1>0, <1>1, <4>2, ActiveOp DEF Active, Undoing
        <5>2. op.r.kind = "rename"
          BY <1>0, <1>1, <2>1, <2>4, <5>1 DEF CleanInv, MoveGoing, MoveOpen
        <5>3. intents[op.m].path = op.r.path /\ root.file[op.r.path] # NoFile
          BY <1>0, <4>2, <5>2 DEF CleanInv, RowOK, RefInv, OpFilesOK, MoveOK, FileKinds, Undoing
        <5> QED BY <5>1, <5>3 DEF TakenBack
      <4> QED BY <1>1, <4>1, <4>2
    <3>2. Recovered(root, k) = root
      BY <2>1, <2>4, <3>1 DEF Recovered, Final, MovedBack, TakenBack
    <3> QED BY <1>1, <3>2
  <2> QED BY <2>1, <2>3, <2>4
<1> QED BY <1>1, <1>3, <1>4

LEMMA Stops ==
  ASSUME Inv, Inv', root' = root, trash' = trash, index' = index, intents' = intents, del' = del, story' = story, op' = NoOp
  PROVE  OrphansLost \/ (op.r.kind = "drop" /\ Doc' = NoFiles)
<1>0. Views /\ Views' /\ Doc \in Files /\ TypeInv /\ RefInv
  BY ViewsHold, ViewsHoldNext DEF Views, Inv
<1>1. op'.pc = "idle" /\ op'.r.kind = "none" /\ Done' = {}
  BY NoRequestFacts DEF Done
<1>2. \A n \in Muts : Inert(n)' <=> Inert(n)
  BY DEF Inert, Litter
<1>3. Doc' = Doc => OrphansLost
  <2>1. Doc' = Doc => Orphaned' = Orphaned
    BY DEF Doc, Orphaned
  <2> QED BY <1>0, <2>1, KeptAll
<1>4. CASE story = "gone"
  BY <1>0, <1>3, <1>4 DEF Views, ViewGone
<1>5. CASE story # "gone" /\ ~InPlaceNow /\ ~InPlaceNow'
  BY <1>0, <1>3, <1>5 DEF Views, ViewTrash
<1>6. CASE story # "gone" /\ ~InPlaceNow /\ InPlaceNow'
  <2>1. op.r.kind = "drop" /\ trash.there /\ ~root.there
    BY <1>1, <1>6 DEF InPlaceNow
  <2>2. mode \in {"up", "closing"} /\ op # NoOp
    <3>1. op.r # NoRequest
      BY <2>1, NoRequestFacts
    <3>2. op.pc \in {"idle", "reading", "recovering", "recovered"} => op.r = NoRequest
      <4>1. op.pc \in {"idle", "reading", "recovering", "recovered"} => op = [NoOp EXCEPT !.pc = op.pc]
        BY <1>0 DEF RefInv, IdleOK
      <4>2. [NoOp EXCEPT !.pc = op.pc].r = NoRequest
        BY DEF NoOp
      <4> QED BY <4>1, <4>2
    <3> QED BY <1>0, <3>1, <3>2, NoRequestFacts DEF TypeInv, Types, OpOK
  <2>3. \A n \in Muts : Inert(n)
    BY <1>0, <2>1, <2>2, OthersInert DEF RefInv, FileKinds
  <2>4. Doc' = root.file
    BY <1>0, <1>2, <1>6, <2>3 DEF Views, ViewQuiet, Quiet
  <2>5. root.file \in [Paths -> Contents \cup {NoFile}] /\ \A p \in Paths : root.file[p] = NoFile
    BY <1>0, <2>1, DirParts DEF TypeInv, Types, RefInv, DirsOK, ThereOK
  <2> QED BY <2>1, <2>4, <2>5 DEF NoFiles
<1>7. CASE story # "gone" /\ InPlaceNow
  <2>1. InPlaceNow'
    BY <1>1, <1>7 DEF InPlaceNow
  <2>2. CASE \A n \in Muts : Inert(n)
    <3>1. Doc = root.file
      BY <1>0, <1>7, <2>2 DEF Views, ViewQuiet, Quiet
    <3>2. Doc' = root'.file
      BY <1>0, <1>2, <2>1, <2>2 DEF Views, ViewQuiet, Quiet
    <3> QED BY <1>3, <3>1, <3>2
  <2>3. CASE ~\A n \in Muts : Inert(n)
    <3>1. PICK h \in Muts : ~Inert(h)
      BY <2>3
    <3>2. Recovered(root, h)' = Recovered(root, h)
      BY <3>1, RecoveredNext
    <3>3. Doc' = Recovered(root, h).file'
      BY <1>0, <1>1, <1>2, <2>1, <3>1 DEF Views, ViewHot
    <3>4. Doc' = Recovered(root, h).file
      BY <3>2, <3>3
    <3>5. CASE h \notin Done
      <4>1. Doc = Recovered(root, h).file
        BY <1>0, <1>7, <3>1, <3>5 DEF Views, ViewHot
      <4> QED BY <1>3, <3>4, <4>1
    <3>6. CASE h \in Done
      <4>1. \A n \in Muts : Quiet(n)
        BY <1>0, <3>1, <3>6 DEF RefInv, HotOK, Quiet
      <4>2. Doc = root.file
        BY <1>0, <1>7, <4>1 DEF Views, ViewQuiet
      <4>3. \/ Recovered(root, h).file = root.file
            \/ /\ intents[h].path \in Paths \ index
               /\ Recovered(root, h).file = [root.file EXCEPT ![intents[h].path] = NoFile]
        BY <3>6, DoneRow
      <4>4. CASE Recovered(root, h).file = root.file
        BY <1>3, <3>4, <4>2, <4>4
      <4>5. CASE /\ intents[h].path \in Paths \ index
                 /\ Recovered(root, h).file = [root.file EXCEPT ![intents[h].path] = NoFile]
        <5>1. Doc' = [Doc EXCEPT ![intents[h].path] = NoFile]
          BY <3>4, <4>2, <4>5
        <5> QED BY <1>0, <4>5, <5>1, LostOne
      <4> QED BY <4>3, <4>4, <4>5
    <3> QED BY <3>5, <3>6
  <2> QED BY <2>2, <2>3
<1> QED BY <1>4, <1>5, <1>6, <1>7

\* Only an operation has a request.
LEMMA WhoseRequest ==
  ASSUME Inv
  PROVE  \/ op.r \in Requests
         \/ op.r = NoRequest /\ ~Committing
<1>1. op \in OpType /\ (op.pc \in Active => op.r \in Requests)
  BY DEF Inv, TypeInv, Types, OpOK
<1>2. op.pc \notin Active => op.pc \in {"idle", "reading", "recovering", "recovered"}
  BY <1>1 DEF OpType, Points, Active
<1>3. op.pc \notin Active => op = [NoOp EXCEPT !.pc = op.pc]
  BY <1>2 DEF Inv, RefInv, IdleOK
<1>4. [NoOp EXCEPT !.pc = op.pc].r = NoRequest
  BY DEF NoOp
<1>5. op.pc \notin Active => ~Committing
  BY <1>2 DEF Committing, Committed
<1> QED BY <1>1, <1>3, <1>4, <1>5

LEMMA StopsSeen ==
  ASSUME Inv, Inv', Refuse \/ Abandon \/ CloseStream \/ Crash \/ (Answer /\ mode # "up")
  PROVE  Fine
<1>1. root' = root /\ trash' = trash /\ index' = index /\ intents' = intents /\ del' = del /\ story' = story /\ op' = NoOp
  BY DEF Refuse, Abandon, CloseStream, Crash, Answer, disk, rows
<1>2. OrphansLost \/ (op.r.kind = "drop" /\ Doc' = NoFiles)
  BY <1>1, Stops
<1>3. CASE op.r \in Requests
  BY <1>1, <1>2, <1>3, Ends
<1>4. CASE op.r = NoRequest /\ ~Committing
  <2>1. op'.r = op.r /\ (Committing' <=> Committing) /\ op.r.kind # "drop"
    BY <1>1, <1>4, NoRequestFacts DEF Committing, Committed
  <2> QED BY <1>2, <2>1, Loses
<1> QED BY <1>3, <1>4, WhoseRequest

-----------------------------------------------------------------------------
(* Startup recovery.                                                       *)

LEMMA RecoveryPoint ==
  ASSUME Inv, mode = "files", NEW x \in {"idle", "recovering", "recovered"}, op'.pc = x, op'.r = op.r
  PROVE  ~Committing /\ ~Committing' /\ op.r.kind = "none"
<1>1. op.pc \in {"idle", "recovering", "recovered"} /\ op.r.kind = "none"
  BY RecoveringOp DEF Inv, TypeInv, OpOK
<1> QED BY <1>1 DEF Committing, Committed

\* Restoring a backup removes the target before it renames.
LEMMA RecoverPartSeen ==
  ASSUME Inv, Inv', RecoverPart
  PROVE  Fine
<1>0. TypeInv /\ CleanInv /\ RefInv /\ root \in Dirs /\ root' \in Dirs /\ op \in OpType
  BY DEF Inv, TypeInv, Types
<1>1. PICK k \in Muts : k = Oldest
  BY OldestFacts DEF RecoverPart
<1>2. /\ mode = "files" /\ intents[k].kind = "write" /\ intents[k].phase \notin Final
      /\ root.bak[k] # NoFile /\ root' = WithoutFile(root, intents[k].path) /\ intents' = intents /\ index' = index
      /\ trash' = trash /\ story' = story /\ del' = del /\ op.pc = "idle" /\ op' = [op EXCEPT !.pc = "recovering"]
  BY <1>1 DEF RecoverPart, rows, Final
<1>3. PICK p \in Paths : p = intents[k].path
  BY <1>0, <1>2 DEF TypeInv, NamesOK
<1>4. op'.pc = "recovering" /\ op'.r = op.r /\ Done = {} /\ Done' = {}
  BY <1>0, <1>2 DEF OpType, Done
<1>5. ~Committing /\ ~Committing' /\ op.r.kind = "none"
  BY <1>2, <1>4, RecoveryPoint
<1>6. root'.file = [root.file EXCEPT ![p] = NoFile] /\ root'.bak = root.bak /\ root'.there = root.there
  BY <1>0, <1>2, <1>3, WithoutFileFacts, ThereIs
<1>7. Litter(root, k) /\ Litter(root', k) /\ root'.bak[k] # NoFile
  BY <1>2, <1>6 DEF Litter
<1>8. root.there
  BY <1>0, <1>7 DEF RefInv, DirsOK, ThereOK
<1>9. InPlaceNow /\ InPlaceNow'
  BY <1>0, <1>2, <1>5, <1>4, <1>6, <1>8 DEF InPlaceNow, RefInv, DirsOK, GoneOK
<1>10. ~Inert(k) /\ ~Inert(k)'
  BY <1>2, <1>7 DEF Inert
<1>11. Doc = Recovered(root, k).file
  BY <1>4, <1>9, <1>10, ViewsHold DEF Views, ViewHot
<1>12. Doc' = Recovered(root, k)'.file
  BY <1>4, <1>9, <1>10, ViewsHoldNext DEF Views, ViewHot
<1>13. Recovered(root, k) = WithoutTmp(Restored(root, p, k), k)
  BY <1>2, <1>3 DEF Recovered, Final
<1>14. Recovered(root, k)' = WithoutTmp(Restored(root', p, k), k)
  BY <1>2, <1>3, <1>7 DEF Recovered, Final, WithoutTmp, Restored
<1>15. Recovered(root, k).file = [root.file EXCEPT ![p] = root.bak[k]]
  <2>1. Restored(root, p, k) \in Dirs /\ Restored(root, p, k).file = [root.file EXCEPT ![p] = root.bak[k]]
    BY <1>0, <1>3, RestoredFile
  <2>2. WithoutTmp(Restored(root, p, k), k).file = Restored(root, p, k).file
    BY <2>1, WithoutTmpFacts
  <2> QED BY <1>13, <2>1, <2>2
<1>16. Recovered(root, k)'.file = [root'.file EXCEPT ![p] = root.bak[k]]
  <2>1. Restored(root', p, k) \in Dirs /\ Restored(root', p, k).file = [root'.file EXCEPT ![p] = root'.bak[k]]
    BY <1>0, <1>3, RestoredFile
  <2>2. WithoutTmp(Restored(root', p, k), k).file = Restored(root', p, k).file
    BY <2>1, WithoutTmpFacts
  <2>3. root'.bak[k] = root.bak[k]
    BY <1>6
  <2> QED BY <1>14, <2>1, <2>2, <2>3
<1>17. Doc' = Doc
  <2>1. root.file \in [Paths -> Contents \cup {NoFile}]
    BY <1>0, DirParts
  <2> QED BY <1>3, <1>6, <1>11, <1>12, <1>15, <1>16, <2>1
<1> QED BY <1>2, <1>4, <1>5, <1>17, Unseen

LEMMA RecoverFilesSeen ==
  ASSUME Inv, Inv', RecoverFiles
  PROVE  Fine
<1> DEFINE k == Oldest
<1>0. TypeInv /\ CleanInv /\ RefInv /\ root \in Dirs /\ op \in OpType /\ Views /\ Views'
  BY ViewsHold, ViewsHoldNext DEF Inv, TypeInv, Types
<1>1. /\ mode = "files" /\ Pending /\ root' = Recovered(root, k) /\ intents' = intents /\ index' = index
      /\ trash' = trash /\ story' = story /\ del' = del /\ op.pc \in {"idle", "recovering"}
      /\ op' = [op EXCEPT !.pc = "recovered"]
  BY DEF RecoverFiles, rows
<1>2. k \in Muts /\ root'.there = root.there
  BY <1>0, <1>1, OldestFacts, RecoveredThere
<1>3. op'.pc = "recovered" /\ op'.r = op.r /\ Done = {} /\ Done' = {k}
  BY <1>0, <1>1 DEF OpType, Done, Oldest
<1>4. ~Committing /\ ~Committing' /\ op.r.kind = "none"
  BY <1>1, <1>3, RecoveryPoint
<1>5. InPlaceNow' <=> InPlaceNow
  BY <1>1, <1>2, <1>3 DEF InPlaceNow
<1> HIDE DEF k
<1>6. Doc' = Doc
  <2>1. CASE Inert(k)
    <3>1. root' = root
      BY <1>0, <1>1, <1>2, <2>1, InertClean, InertRow
    <3>2. \A n \in Muts : Inert(n)' <=> Inert(n)
      BY <1>1, <3>1 DEF Inert
    <3>3. \A n \in Muts : Quiet(n)' <=> Quiet(n)
      BY <1>3, <2>1, <3>2 DEF Quiet
    <3> QED BY <1>1, <1>5, <3>1, <3>3, SameRows
  <2>2. CASE ~Inert(k) /\ ~InPlaceNow
    BY <1>0, <1>1, <1>5, <2>2 DEF Views, ViewGone, ViewTrash
  <2>3. CASE ~Inert(k) /\ InPlaceNow
    <3>1. Doc = root'.file
      BY <1>0, <1>1, <1>2, <1>3, <2>3 DEF Views, ViewHot
    <3>2. \A n \in Muts : n # k => Inert(n)
      BY <1>0, <1>2, <2>3 DEF RefInv, HotOK
    <3>3. intents[k].kind # "none"
      BY <2>3 DEF Inert
    <3>4. \A n \in Muts : n # k => root'.tmp[n] = root.tmp[n] /\ root'.bak[n] = root.bak[n]
      BY <1>0, <1>1, <1>2, <3>3, RecoveredFacts DEF TypeInv
    <3>5. \A n \in Muts : n # k => Inert(n)'
      BY <1>1, <3>2, <3>4 DEF Inert, Litter
    <3>6. \A n \in Muts : Quiet(n)'
      BY <1>3, <3>5 DEF Quiet
    <3>7. Doc' = root'.file
      BY <1>0, <1>5, <2>3, <3>6 DEF Views, ViewQuiet
    <3> QED BY <3>1, <3>7
  <2> QED BY <2>1, <2>2, <2>3
<1> QED BY <1>1, <1>3, <1>4, <1>6, Unseen

LEMMA RecoverIntentSeen ==
  ASSUME Inv, Inv', RecoverIntent
  PROVE  Fine
<1> DEFINE k == Oldest
<1>0. TypeInv /\ CleanInv
  BY DEF Inv
<1>1. /\ mode = "files" /\ root' = root /\ intents' = [intents EXCEPT ![k] = NoIntent] /\ index' = index
      /\ trash' = trash /\ story' = story /\ del' = del /\ op.pc = "recovered" /\ op' = NoOp
  BY DEF RecoverIntent, disk
<1>2. k \in Muts
  BY <1>0, <1>1, OldestFacts DEF CleanInv, RecoveryOK
<1>3. intents'[k].kind = "none" /\ \A n \in Muts : n # k => intents'[n] = intents[n]
  BY <1>0, <1>1, <1>2, RowIsRemoved DEF TypeInv
<1>4. op.r = NoRequest /\ op'.r = op.r /\ op'.pc = "idle" /\ Done = {k} /\ Done' = {}
  BY <1>1, NoRequestFacts, RecoveringOp DEF Done, Inv
<1>5. ~Committing /\ ~Committing'
  BY <1>1, <1>4, RecoveryPoint
<1> HIDE DEF k
<1>6. \A n \in Muts : (Quiet(n)' <=> Quiet(n)) /\ (~Quiet(n) => intents'[n] = intents[n])
  <2>1. \A n \in Muts : n # k => (Inert(n)' <=> Inert(n))
    BY <1>1, <1>3 DEF Inert
  <2>2. \A n \in Muts : Quiet(n)' <=> Quiet(n)
    <3>1. ASSUME NEW n \in Muts, n # k PROVE Quiet(n)' <=> Quiet(n)
      BY <1>4, <2>1, <3>1 DEF Quiet
    <3>2. Quiet(k)
      BY <1>4 DEF Quiet
    <3>3. \A n \in Muts : n = k => Quiet(n)'
      <4>1. \A n \in Muts : intents'[n].kind = "none" => Quiet(n)'
        BY DEF Inert, Quiet
      <4> QED BY <1>3, <4>1
    <3> QED BY <3>1, <3>2, <3>3
  <2> QED BY <1>3, <1>4, <2>2 DEF Quiet
<1>7. InPlaceNow' <=> InPlaceNow
  BY <1>1, <1>4 DEF InPlaceNow
<1>8. Doc' = Doc
  BY <1>1, <1>6, <1>7, SameRows
<1> QED BY <1>1, <1>4, <1>5, <1>8, Unseen

\* The recovery of an interrupted deletion puts the directory back or forgets it.
LEMMA RecoverDropSeen ==
  ASSUME Inv, Inv', RecoverDrop
  PROVE  Fine
<1>0. TypeInv /\ CleanInv /\ Views /\ Views' /\ NoIntent.kind = "none"
  BY ViewsHold, ViewsHoldNext DEF Inv, NoIntent
<1>1. /\ mode = "drop" /\ intents' = intents /\ index' = index /\ story' = story /\ op' = op /\ trash' = NoDir /\ ~NoDir.there
      /\ IF story # "gone" /\ del.trash /\ trash.there /\ ~root.there THEN root' = trash ELSE root' = root
  BY DEF RecoverDrop, NoDir
<1>2. op = NoOp /\ op.r.kind = "none" /\ ~Pending
  BY <1>0, <1>1, NoRequestFacts DEF TypeInv, OpOK, CleanInv, RecoveryOK
<1>3. \A n \in Muts : Quiet(n) /\ Quiet(n)'
  <2>1. \A n \in Muts : intents[n].kind = "none"
    BY <1>0, <1>2 DEF Pending
  <2> QED BY <1>1, <2>1 DEF Quiet, Inert
<1>4. Doc' = Doc
  <2>1. CASE story = "gone"
    BY <1>0, <1>1, <2>1 DEF Views, ViewGone
  <2>2. CASE story # "gone"
    <3>1. InPlaceNow' /\ Doc' = root'.file
      BY <1>0, <1>1, <1>3, <2>2 DEF Views, ViewQuiet, InPlaceNow
    <3>2. CASE InPlaceNow
      <4>1. Doc = root.file
        BY <1>0, <1>3, <3>2 DEF Views, ViewQuiet
      <4>2. root' = root
        BY <1>1, <1>2, <3>2 DEF InPlaceNow
      <4> QED BY <3>1, <4>1, <4>2
    <3>3. CASE ~InPlaceNow
      <4>1. Doc = trash.file
        BY <1>0, <2>2, <3>3 DEF Views, ViewTrash
      <4>2. root' = trash
        BY <1>1, <1>2, <2>2, <3>3 DEF InPlaceNow
      <4> QED BY <3>1, <4>1, <4>2
    <3> QED BY <3>2, <3>3
  <2> QED BY <2>1, <2>2
<1>5. op'.r = op.r /\ (Committing' <=> Committing)
  BY <1>1 DEF Committing
<1> QED BY <1>1, <1>4, <1>5, Unseen

-----------------------------------------------------------------------------
(* The theorems.                                                           *)

\* Calls without the lock end with the process.
CallersOK == mode \in {"down", "files", "drop"} => listing = {} /\ removals = {}

LEMMA CallersKept ==
  ASSUME TypeInv, CallersOK, [Next]_vars
  PROVE  CallersOK'
<1>1. CASE (\E r \in Requests : Accept(r)) \/ (\E p \in Paths : Read(p) \/ Look(p) \/ RemoveMissing(p))
  BY <1>1 DEF Accept, Read, Look, RemoveMissing, lists, CallersOK
<1>2. CASE List \/ SetArchived \/ Close \/ Crash \/ Start \/ FilesRecovered \/ Ready \/ UNCHANGED vars
  BY <1>2 DEF List, SetArchived, Close, Crash, Start, FilesRecovered, Ready, lists, vars, CallersOK
<1>3. ASSUME mode' = mode, UNCHANGED lists PROVE CallersOK'
  BY <1>3 DEF lists, CallersOK
<1>4. CASE OpStep
  BY <1>3, <1>4 DEF OpStep, Refuse, InsertIntent, Receive, Prepare, MoveAside, MoveFile, RecordStaged,
     Commit, RemoveBackup, RecordCleanup, DeleteIntent, Answer, Fail, RollBackPart, RollBack, Abandon,
     DropPrepare, DropMove, DropStaged, DropCommit, DropClean, DropFail, DropRestore, DropUndone, CloseStream
<1>5. CASE RecoverPart \/ RecoverFiles \/ RecoverIntent \/ RecoverDrop
  BY <1>3, <1>5 DEF RecoverPart, RecoverFiles, RecoverIntent, RecoverDrop
<1> QED BY <1>1, <1>2, <1>4, <1>5 DEF Next, StartStep

\* Who does not find a file, finds it missing, or a request at work.
LEMMA MissSeen ==
  ASSUME Inv, Inv', NEW p \in Paths, Read(p) \/ Look(p)
  PROVE  StepOK
<1>1. Same /\ mode' = mode /\ (removals' = removals \/ (~Exists(p) /\ removals' = removals \cup {p}))
  BY LooksSeen DEF Read, Look
<1>2. CASE Missed' = Missed
  BY <1>1, <1>2, DocumentVars DEF StepOK, Same
<1>3. CASE Missed' # Missed
  <2>1. mode = "up" /\ ~Exists(p) /\ Missed' = Missed \cup {p}
    BY <1>1, <1>3 DEF Missed
  <2>2. SUFFICES ASSUME Req = Docs!Idle PROVE Doc[p] = NoFile
    <3>1. Req # Docs!Idle \/ Doc[p] = NoFile => Docs!Miss(p)
      BY <1>1, <2>1, DocumentMiss
    <3> QED BY <2>2, <3>1 DEF StepOK, Docs!Next
  <2>3. op.r.kind = "none"
    BY <2>2, IdleReq, NoRequestFacts DEF ReqIdle
  <2>4. CASE story = "gone"
    BY <2>4, ViewsHold DEF Views, ViewGone, NoFiles
  <2>5. CASE story # "gone"
    <3>1. ~trash.there /\ ~Open
      BY <2>1, <2>3, <2>5 DEF Inv, RefInv, DirsOK, TrashOK, Open, FileKinds
    <3>2. Doc = root.file
      BY <2>1, <2>5, <3>1, RestFiles DEF Resting, AtRest
    <3> QED BY <2>1, <3>2 DEF Exists
  <2> QED BY <2>4, <2>5
<1> QED BY <1>2, <1>3

\* A step that does not concern the calls without the lock.
LEMMA FineIsStep ==
  ASSUME Inv, Fine, Missed' = Missed
  PROVE  StepOK
<1>1. CASE Same
  BY <1>1, DocumentVars DEF StepOK, Same
<1>2. CASE Starts
  BY <1>2, DocumentBegin DEF StepOK, Docs!Next, Starts
<1>3. CASE TakesEffect
  BY <1>3, DocumentEffect DEF StepOK, Docs!Next
<1>4. CASE Finishes
  BY <1>4, DocumentEnd DEF StepOK, Docs!Next
<1>5. CASE OrphansLost /\ Req' = Req
  BY <1>5, DocumentPass DEF StepOK, Docs!Next
<1> QED BY <1>1, <1>2, <1>3, <1>4, <1>5 DEF Fine

\* The end of the process, or of its storage, ends the calls without the lock.
LEMMA DeathIsStep ==
  ASSUME Inv, Fine, Crash \/ Close
  PROVE  StepOK
<1>1. Missed' = {}
  BY DEF Crash, Close, Missed
<1>2. Req' = Req \/ Req' = Docs!Idle
  <2>1. CASE Crash
    <3>1. op' = NoOp
      BY <2>1 DEF Crash
    <3>2. ReqIdle'
      BY <3>1, NoRequestFacts DEF ReqIdle, Committing, Committed
    <3> QED BY <3>2, IdleReq
  <2>2. CASE Close
    BY <2>2 DEF Close, Req, Committing
  <2> QED BY <2>1, <2>2
<1>3. ~Starts
  <2>1. SUFFICES ASSUME NEW r \in Docs!Requests, Req = Docs!Idle, Req' = [request |-> r, done |-> FALSE] PROVE FALSE
    BY DEF Starts
  <2>2. [request |-> r, done |-> FALSE] = Docs!Idle
    BY <1>2, <2>1
  <2>3. r = Docs!NoRequest
    BY <2>2 DEF Docs!Idle
  <2> QED BY <2>3 DEF Docs!Requests, Docs!NoRequest
<1>4. ~TakesEffect
  <2>1. SUFFICES ASSUME Req # Docs!Idle, ~Req.done, Req' = [Req EXCEPT !.done = TRUE] PROVE FALSE
    BY DEF TakesEffect
  <2>2. PICK b \in BOOLEAN : Req = [request |-> op.r, done |-> b]
    BY IsTruth DEF Req
  <2>3. Req'.done = TRUE
    BY <2>1, <2>2
  <2> QED BY <1>2, <2>1, <2>3 DEF Docs!Idle
<1>5. CASE Same
  <2>1. OrphansLost
    BY <1>5, ViewsHold, KeptAll DEF Same, Views
  <2> QED BY <1>1, <1>5, <2>1, DocumentPass DEF StepOK, Docs!Next, Same
<1>6. CASE Finishes
  BY <1>1, <1>6, DocumentEnd DEF StepOK, Docs!Next
<1>7. CASE OrphansLost /\ Req' = Req
  BY <1>1, <1>7, DocumentPass DEF StepOK, Docs!Next
<1> QED BY <1>3, <1>4, <1>5, <1>6, <1>7 DEF Fine

LEMMA StepSeen ==
  ASSUME OneFailure, Inv, CallersOK, [Next]_vars
  PROVE  StepOK /\ (Orphaned' \subseteq Orphaned \/ \E p \in Paths : RemoveMissing(p))
<1>0. Inv'
  BY InvStep
<1>1. CASE \E r \in Requests : Accept(r)
  <2>1. Fine /\ Missed' = Missed
    BY <1>0, <1>1, AcceptSeen DEF Accept, Missed, lists
  <2> QED BY <2>1, FineIsStep DEF Fine
<1>2. CASE \E p \in Paths : Read(p) \/ Look(p)
  BY <1>0, <1>2, LooksSeen, MissSeen DEF Fine
<1>3. CASE \E p \in Paths : RemoveMissing(p)
  BY <1>0, <1>3, RemovalSeen
<1>4. CASE Crash \/ Close
  <2>1. Fine
    BY <1>0, <1>4, ReadersSeen, StopsSeen
  <2> QED BY <1>4, <2>1, DeathIsStep DEF Fine
<1>5. CASE List \/ SetArchived \/ Start \/ FilesRecovered \/ Ready \/ UNCHANGED vars
  <2>1. Fine
    BY <1>0, <1>5, ReadersSeen
  <2>2. Missed' = Missed
    BY <1>5 DEF List, SetArchived, Start, FilesRecovered, Ready, vars, lists, Missed, CallersOK
  <2> QED BY <2>1, <2>2, FineIsStep DEF Fine
<1>6. CASE OpStep
  <2>1. mode' = mode /\ UNCHANGED lists
    BY <1>6 DEF OpStep, Refuse, InsertIntent, Receive, Prepare, MoveAside, MoveFile, RecordStaged,
       Commit, RemoveBackup, RecordCleanup, DeleteIntent, Answer, Fail, RollBackPart, RollBack, Abandon,
       DropPrepare, DropMove, DropStaged, DropCommit, DropClean, DropFail, DropRestore, DropUndone, CloseStream
  <2>2. Missed' = Missed
    BY <2>1 DEF Missed, lists
  <2>3. CASE InsertIntent \/ Receive \/ Prepare \/ MoveAside \/ MoveFile \/ RecordStaged
    BY <1>0, <2>3, InsertIntentSeen, QuietSteps, AsideSteps, MoveFileSeen, <2>2, FineIsStep DEF Fine
  <2>4. CASE Commit \/ RemoveBackup \/ RecordCleanup
    BY <1>0, <2>4, CommitSeen, CleanupSeen, <2>2, FineIsStep DEF Fine
  <2>5. CASE DeleteIntent
    <3>1. op.pc = "cleanup" \/ op.pc = "undone"
      BY <2>5 DEF DeleteIntent
    <3> QED BY <1>0, <2>5, <3>1, CleanupSeen, EndSeen, <2>2, FineIsStep DEF Fine
  <2>6. CASE Fail \/ RollBackPart \/ RollBack
    BY <1>0, <2>6, QuietSteps, AsideSteps, RollBackSeen, <2>2, FineIsStep DEF Fine
  <2>7. CASE Refuse \/ Abandon \/ CloseStream \/ Answer \/ DropUndone
    BY <1>0, <2>7, StopsSeen, EndSeen, <2>2, FineIsStep DEF Fine
  <2>8. CASE DropPrepare \/ DropStaged \/ DropFail \/ DropMove \/ DropRestore \/ DropClean \/ DropCommit
    BY <1>0, <2>8, DropRecords, DropMoveSeen, DropRestoreSeen, DropCleanSeen, DropCommitSeen, <2>2, FineIsStep DEF Fine
  <2> QED BY <1>6, <2>3, <2>4, <2>5, <2>6, <2>7, <2>8 DEF OpStep
<1>7. CASE RecoverPart \/ RecoverFiles \/ RecoverIntent \/ RecoverDrop
  <2>1. Fine
    BY <1>0, <1>7, RecoverPartSeen, RecoverFilesSeen, RecoverIntentSeen, RecoverDropSeen
  <2>2. Missed' = Missed
    BY <1>7 DEF RecoverPart, RecoverFiles, RecoverIntent, RecoverDrop, Missed, lists
  <2> QED BY <2>1, <2>2, FineIsStep DEF Fine
<1> QED BY <1>1, <1>2, <1>3, <1>4, <1>5, <1>6, <1>7 DEF Next, StartStep

LEMMA InitSeen ==
  ASSUME Init
  PROVE  Doc = NoFiles /\ ReqIdle /\ Orphaned = {}
<1>1. /\ root = NoDir /\ trash = NoDir /\ story = "active" /\ mode = "up" /\ op = NoOp
      /\ ~NoDir.there /\ NoDir.file = NoFiles /\ op.pc = "idle" /\ op.r = NoRequest
  BY NoRequestFacts DEF Init, NoDir, NoFiles
<1>2. Inv /\ Resting
  BY <1>1, InvInit DEF Resting, Open, Going
<1>3. Doc = NoFiles
  BY <1>1, <1>2, RestFiles DEF AtRest
<1>4. Orphaned = {}
  BY <1>3 DEF Orphaned, Doc, NoFiles
<1>5. ReqIdle
  BY <1>1 DEF ReqIdle, Committing, Committed
<1> QED BY <1>3, <1>4, <1>5

\* The Story's files implement DocumentStore unless two calls fail: through every failure,
\* death and restart between the steps of writeContent, updateDocument, deleteDocument and
\* deleteCoordinated, a request takes effect once and as a whole or not at all, and no
\* rollback, recovery or other call changes a document that has its row.  Only a call
\* without the lock takes a row away otherwise, and only when it missed the file while a
\* request had it elsewhere; only documents without a row are lost, except that a deletion
\* of the Story cut short may have taken all.  For every number of paths, contents,
\* operations, unlocked calls and deaths.
THEOREM StoryFilesAreDocuments ==
  ASSUME OneFailure
  PROVE  Spec => Refines
<1>1. Init => Inv /\ CallersOK /\ Docs!Init
  <2>1. SUFFICES ASSUME Init PROVE Docs!Init
    BY InvInit DEF Init, CallersOK
  <2>2. Doc = NoFiles /\ Req = Docs!Idle /\ Orphaned = {} /\ Missed = {}
    BY <2>1, InitSeen, IdleReq DEF Init, Missed
  <2> QED BY <2>2 DEF Docs!Init, Docs!NoDocs, NoFiles, Doc, Req, Committing, Orphaned, Missed
<1>2. Inv /\ CallersOK /\ [Next]_vars => Inv' /\ CallersOK' /\ [Docs!Next]_(Docs!vars)
  BY InvStep, StepSeen, CallersKept DEF StepOK, Inv
<1> QED BY <1>1, <1>2, PTL DEF Spec, Refines, Docs!Spec

\* Unless two calls fail, the files readContent serves while nobody holds the Story's lock
\* are the ones the next start would leave: no intent row left behind by an operation
\* makes recoverFileMutations undo the work of a later one.
THEOREM NothingUndoneLater ==
  ASSUME OneFailure
  PROVE  Spec => []Settled
<1>1. Inv => Settled
  <2>1. SUFFICES ASSUME Inv, mode = "up", op = NoOp, story # "gone", ~trash.there PROVE root.file = Directory.file
    BY DEF Settled
  <2>2. Resting
    BY <2>1, NoRequestFacts DEF Resting, Open, Going
  <2> QED BY <2>1, <2>2, RestFiles DEF AtRest, Doc
<1>2. Init => Inv
  BY InvInit
<1>3. Inv /\ [Next]_vars => Inv'
  BY InvStep
<1> QED BY <1>1, <1>2, <1>3, PTL DEF Spec

\* While nobody lists the Story there is no row to remove, and every document has one.
ListedOK == used.lists = 0 => listing = {} /\ removals = {} /\ Orphaned = {}

LEMMA UnlockedCounts ==
  ASSUME TypeInv, Unlocked
  PROVE  used'.lists # 0
BY DEF TypeInv, Types, UsedType, Unlocked

LEMMA ListsKept ==
  ASSUME TypeInv, [Next]_vars, used'.lists = 0
  PROVE  /\ used.lists = 0
         /\ listing = {} /\ removals = {} => listing' = {} /\ removals' = {}
<1>0. used \in UsedType
  BY DEF TypeInv, Types
<1>1. Fault => used'.lists = used.lists
  BY <1>0 DEF Fault, UsedType
<1>2. CASE \E r \in Requests : Accept(r)
  BY <1>0, <1>2 DEF Accept, UsedType, lists
<1>3. ASSUME NEW p \in Paths, Read(p) PROVE used' = used /\ UNCHANGED lists
  <2>1. Exists(p)
    BY <1>3, UnlockedCounts DEF Read
  <2> QED BY <1>3, <2>1 DEF Read, lists
<1>4. CASE \E p \in Paths : Look(p) \/ RemoveMissing(p)
  BY <1>4 DEF Look, RemoveMissing
<1>5. ~List /\ ~SetArchived
  BY UnlockedCounts DEF List, SetArchived
<1>6. CASE Refuse \/ Abandon \/ Fail \/ DropFail
  BY <1>1, <1>6 DEF Refuse, Abandon, Fail, DropFail, lists
<1>7. CASE Crash
  BY <1>0, <1>7 DEF Crash, UsedType
<1>8. CASE InsertIntent \/ Receive \/ Prepare \/ MoveAside \/ MoveFile \/ RecordStaged \/ Commit \/ RemoveBackup
  BY <1>8 DEF InsertIntent, Receive, Prepare, MoveAside, MoveFile, RecordStaged, Commit, RemoveBackup, lists
<1>9. CASE RecordCleanup \/ DeleteIntent \/ Answer \/ RollBackPart \/ RollBack \/ DropPrepare \/ DropMove \/ DropStaged
  BY <1>9 DEF RecordCleanup, DeleteIntent, Answer, RollBackPart, RollBack, DropPrepare, DropMove, DropStaged, lists
<1>10. CASE DropCommit \/ DropClean \/ DropRestore \/ DropUndone \/ CloseStream \/ Close \/ UNCHANGED vars
  BY <1>10 DEF DropCommit, DropClean, DropRestore, DropUndone, CloseStream, Close, lists, vars
<1>11. CASE Start \/ RecoverPart \/ RecoverFiles \/ RecoverIntent \/ FilesRecovered \/ RecoverDrop \/ Ready
  BY <1>11 DEF Start, RecoverPart, RecoverFiles, RecoverIntent, FilesRecovered, RecoverDrop, Ready, lists
<1> QED BY <1>2, <1>3, <1>4, <1>5, <1>6, <1>7, <1>8, <1>9, <1>10, <1>11 DEF Next, OpStep, StartStep, lists

\* Unless two calls fail, a document keeps its index row as long as nobody lists, archives
\* or reads the Story without the lock: transaction and file step of every operation,
\* rollback and recovery agree on what there is.
THEOREM DocumentsKeepRows ==
  ASSUME OneFailure
  PROVE  Spec => []RowsKept
<1>1. Inv /\ ListedOK => RowsKept
  <2>1. SUFFICES ASSUME Inv, ListedOK, used.lists = 0, mode = "up", op = NoOp, NEW p \in Paths, Exists(p)
                 PROVE  p \in index
    BY DEF RowsKept, FilesIndexed
  <2>2. root.there
    BY <2>1 DEF Inv, RefInv, DirsOK, ThereOK, Exists
  <2>3. story # "gone" /\ ~trash.there
    BY <2>1, <2>2 DEF Inv, RefInv, DirsOK, GoneOK, TrashOK
  <2>4. Resting
    BY <2>1, <2>3, NoRequestFacts DEF Resting, Open, Going
  <2>5. Doc[p] # NoFile
    BY <2>1, <2>4, RestFiles DEF AtRest, Exists
  <2> QED BY <2>1, <2>5 DEF ListedOK, Orphaned, Doc
<1>2. Init => Inv /\ CallersOK /\ ListedOK
  BY InvInit, InitSeen DEF ListedOK, CallersOK, Init
<1>3. Inv /\ CallersOK /\ ListedOK /\ [Next]_vars => Inv' /\ CallersOK' /\ ListedOK'
  <2>1. SUFFICES ASSUME Inv, CallersOK, ListedOK, [Next]_vars, used'.lists = 0
                 PROVE  listing' = {} /\ removals' = {} /\ Orphaned' = {}
    BY InvStep, CallersKept DEF ListedOK, Inv
  <2>2. used.lists = 0 /\ (listing = {} /\ removals = {} => listing' = {} /\ removals' = {})
    BY <2>1, ListsKept DEF Inv
  <2>3. listing = {} /\ removals = {} /\ Orphaned = {}
    BY <2>1, <2>2 DEF ListedOK
  <2>4. ~\E p \in Paths : RemoveMissing(p)
    BY <2>3 DEF RemoveMissing
  <2>5. Orphaned' \subseteq Orphaned
    BY <2>1, <2>4, StepSeen
  <2> QED BY <2>2, <2>3, <2>5
<1> QED BY <1>1, <1>2, <1>3, PTL DEF Spec
=============================================================================
