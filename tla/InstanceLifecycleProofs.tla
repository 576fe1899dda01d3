------------------------ MODULE InstanceLifecycleProofs ------------------------
(***************************************************************************)
(* Proofs about InstanceLifecycle, for any set of process numbers and any  *)
(* bounds: its types, that two processes of the instance never run side by *)
(* side, that the last request of the user wins, that a stopped instance   *)
(* is not started by recovery, and that an instance without a process is   *)
(* one that recovery will restore.                                         *)
(*                                                                         *)
(* The five invariants are consequences of InstanceInv: what the running   *)
(* operation has done so far (OpOK, StartsOK), which process it may have   *)
(* left alive (Owned), what the newest request in the gate is (NewestOK)   *)
(* and what the memory of the recovery supervisor says (SuppressOK,        *)
(* RestoredOK, Quelled).                                                   *)
(***************************************************************************)
EXTENDS InstanceLifecycle, SequenceTheorems, FiniteSetTheorems, WellFoundedInduction, TLAPS

Item == [kind : Commands \cup {"restore"}, valid : BOOLEAN]
Statuses == Restorable \cup Ended \cup {"created", "gone"}
Points == {"idle", "halt", "ask", "quiesce", "boot", "reap", "probe", "import"}
Good == Restorable \cup {"failed"}

OpType ==
  [pc : Points, base : Statuses \ {"gone"}, inc : Procs \cup {0},
   seen : {"none", "exit", "report"}, exited : BOOLEAN, aim : Procs \cup {0}, asked : BOOLEAN]
Counters == [commands : Nat, exits : Nat, faults : Nat, late : Nat, crashes : Nat]

\* The type of every variable, the ones TypeOK says nothing of included.
Types ==
  /\ status \in Statuses
  /\ known \in Procs \cup {0} /\ inc \in Procs \cup {0} /\ child \in Procs \cup {0}
  /\ proc \in [Procs -> {"new", "booting", "serving", "dying", "dead"}]
  /\ enrolled \subseteq Procs
  /\ ready \in BOOLEAN
  /\ gate \in Seq(Item)
  /\ op \in OpType
  /\ suppressed \in BOOLEAN /\ pending \in BOOLEAN /\ restored \in BOOLEAN
  /\ retry \in {"none", "waiting", "due"} /\ mode \in {"up", "stopping", "down"}
  /\ last \in Commands \cup {"none"} /\ moot \in BOOLEAN /\ reported \in BOOLEAN
  /\ used \in Counters

Running == op.pc # "idle"

\* Where the running operation stands, and what it has done to the child by then.
OpOK ==
  /\ Running => gate # <<>> /\ status # "gone"
  /\ op.pc = "halt" => Head1.kind \in {"stop", "delete"}
  /\ op.pc \in {"boot", "reap", "probe", "import"} => Head1.kind \in Starts /\ op.aim \in Procs
  /\ op.pc \in {"ask", "quiesce", "reap"} => child = 0
  /\ op.pc = "boot" => child \in {0, op.aim}
  /\ op.pc \in {"ask", "quiesce", "boot", "reap"} => ~ready
  /\ ready => child \in Procs /\ proc[child] = "serving"
  /\ mode = "down" => op.pc = "idle" /\ gate = <<>> /\ child = 0 /\ ~suppressed /\ ~restored

\* While no agent died and no process outlived SIGKILL, a live process is tracked, or is
\* the one the running operation waits for, so that no other is asked to shut down.
Owned ==
  used.crashes = 0 /\ used.faults = 0 =>
    /\ ~op.asked
    /\ \A n \in Procs : proc[n] \notin {"new", "dead"} =>
         n = child \/ (op.pc \in {"quiesce", "reap"} /\ n = op.aim)

\* Once the row is gone no operation does anything.
GoneOK ==
  status = "gone" => child = 0 /\ ~suppressed /\ \A i \in DOMAIN gate : ~gate[i].valid

\* The newest request in the gate g is c, and it is valid unless the row is gone.
Newest(g, c, gone) ==
  \A i \in DOMAIN g :
    g[i].kind # "restore" /\ (\A j \in DOMAIN g : g[j].kind # "restore" => j <= i) =>
      g[i].kind = c /\ (g[i].valid \/ gone)

NewestOK == Newest(gate, last, status = "gone")

\* Recovery is suppressed while a stop or a delete runs and after a stop, and no start
\* runs then.
SuppressOK ==
  /\ suppressed /\ Running => Head1.kind \notin Starts
  /\ suppressed /\ ready => op.pc = "halt"
  /\ suppressed /\ UserOps = {} => last = "stop"
  /\ Running /\ Head1.kind \in {"stop", "delete"} => suppressed

\* After a stop nothing runs as long as recovery is suppressed or no report was stored
\* since, and until a report is stored the row says stopped.
Quelled ==
  last = "stop" /\ ~moot /\ UserOps = {} /\ (suppressed \/ ~reported) =>
    op.pc = "idle" /\ child = 0 /\ (~reported => status = "stopped")

\* The status a start or a restore leaves, a restart from the time it completes.
StartsOK ==
  Running /\ Head1.kind \in Starts /\ (Head1.kind # "restart" \/ op.pc = "import" \/ op.seen # "none")
    => status \in Good

Clean == used.late + used.crashes + used.faults = 0

\* LastCommandWins, in every mode.
LastOK ==
  UserOps = {} /\ ~moot /\ Clean =>
    /\ last = "stop" => status = "stopped" /\ \A n \in Procs : proc[n] \in {"new", "dead"}
    /\ last = "delete" => status = "gone" /\ \A n \in Procs : proc[n] \in {"new", "dead"}
    /\ last \in {"start", "restart"} => status \in Good

\* What restoredInstances says: the process is there and its exit will be noticed.
RestoredOK ==
  /\ Running /\ Head1.kind = "restore" => ~restored
  /\ mode = "up" /\ Clean /\ op.pc \in {"probe", "import"} /\ ~ready =>
       child = 0 /\ ~restored /\ op.exited /\ (op.pc = "probe" => status = "failed" /\ op.seen = "exit")
  /\ mode = "up" /\ Clean /\ ~moot /\ UserOps = {} /\ restored => ready

InstanceInv ==
  /\ Types /\ OpOK /\ Owned /\ GoneOK /\ NewestOK /\ SuppressOK /\ Quelled /\ StartsOK /\ LastOK
  /\ RestoredOK

-----------------------------------------------------------------------------
(* Lemmas about the gate and about process numbers                         *)

\* No operation of the gate g is still allowed to start the instance.
AllInvalid(g) == \A i \in DOMAIN g : ~g[i].valid

Below == {ss \in Nat \X Nat : ss[1] < ss[2]}

\* A set of numbers that is not empty holds its minimum.
LEMMA MinInSet ==
  ASSUME NEW S, S \subseteq Nat, S # {}
  PROVE  Min(S) \in S
<1>1. IsWellFoundedOn(Below, Nat)
  BY NatLessThanWellFounded DEF OpToRel, Below
<1>2. PICK x \in S : \A y \in S : ~ (<<y, x>> \in Below)
  BY <1>1, WFMin
<1>3. ASSUME NEW y \in S PROVE x <= y
  <2>1. x \in Nat /\ y \in Nat /\ ~(<<y, x>> \in Below)
    BY <1>2
  <2>2. ~(y < x)
    BY <2>1 DEF Below
  <2> QED BY <2>1, <2>2
<1> QED BY <1>2, <1>3 DEF Min

\* An item of the gate is a record of its two fields.
LEMMA GateItems ==
  ASSUME NEW g \in Seq(Item)
  PROVE  /\ DOMAIN g = 1..Len(g) /\ Len(g) \in Nat
         /\ \A i \in 1..Len(g) : g[i] \in Item
         /\ g # <<>> => 1 \in DOMAIN g /\ g[1] \in Item
<1>1. DOMAIN g = 1..Len(g) /\ Len(g) \in Nat
  BY LenProperties
<1>2. \A i \in 1..Len(g) : g[i] \in Item
  BY ElementOfSeq
<1>3. g # <<>> => Len(g) > 0
  BY <1>1, EmptySeq
<1>4. g # <<>> => 1 \in DOMAIN g
  BY <1>1, <1>3
<1> QED BY <1>1, <1>2, <1>4

\* The end of the running operation: the others move up by one place.
LEMMA TailGate ==
  ASSUME NEW g \in Seq(Item), g # <<>>
  PROVE  /\ Tail(g) \in Seq(Item)
         /\ Len(g) \in Nat \ {0} /\ DOMAIN g = 1..Len(g)
         /\ Len(Tail(g)) = Len(g) - 1 /\ DOMAIN Tail(g) = 1..(Len(g) - 1)
         /\ \A i \in 1..(Len(g) - 1) : Tail(g)[i] = g[i + 1]
<1>1. /\ Tail(g) \in Seq(Item) /\ Len(Tail(g)) = Len(g) - 1
      /\ \A i \in 1..Len(Tail(g)) : Tail(g)[i] = g[i + 1]
  BY HeadTailProperties
<1>2. DOMAIN g = 1..Len(g) /\ Len(g) \in Nat /\ 1 \in DOMAIN g
  BY GateItems
<1>3. DOMAIN Tail(g) = 1..Len(Tail(g))
  BY <1>1, GateItems
<1>4. Len(g) \in Nat \ {0}
  BY <1>2
<1> QED BY <1>1, <1>2, <1>3, <1>4

\* It leaves the newest request where it was, among the others.
LEMMA TailNewest ==
  ASSUME NEW g \in Seq(Item), g # <<>>, NEW c, NEW b, Newest(g, c, b)
  PROVE  Newest(Tail(g), c, b)
<1> DEFINE t == Tail(g)
<1>1. /\ Len(g) \in Nat \ {0} /\ DOMAIN g = 1..Len(g) /\ DOMAIN t = 1..(Len(g) - 1)
      /\ \A i \in 1..(Len(g) - 1) : t[i] = g[i + 1]
  BY TailGate
<1> HIDE DEF t
<1>2. SUFFICES ASSUME NEW i \in DOMAIN t, t[i].kind # "restore",
                      \A j \in DOMAIN t : t[j].kind # "restore" => j <= i
               PROVE  t[i].kind = c /\ (t[i].valid \/ b)
  BY DEF Newest, t
<1>3. i \in Nat /\ i + 1 \in DOMAIN g /\ t[i] = g[i + 1]
  BY <1>1
<1>4. ASSUME NEW j \in DOMAIN g, g[j].kind # "restore" PROVE j <= i + 1
  <2>1. CASE j = 1
    BY <2>1, <1>3
  <2>2. CASE j # 1
    <3>1. j - 1 \in DOMAIN t /\ j \in Nat /\ (j - 1) + 1 = j
      BY <1>1, <2>2
    <3>2. t[j - 1] = g[j]
      BY <1>1, <3>1
    <3>3. j - 1 <= i
      BY <1>2, <1>4, <3>1, <3>2
    <3> QED BY <1>3, <3>1, <3>3
  <2> QED BY <2>1, <2>2
<1> QED BY <1>2, <1>3, <1>4 DEF Newest

\* A further operation in the gate.
LEMMA AppendGate ==
  ASSUME NEW g \in Seq(Item), NEW e \in Item
  PROVE  /\ Append(g, e) \in Seq(Item)
         /\ Len(g) \in Nat /\ DOMAIN g = 1..Len(g)
         /\ DOMAIN Append(g, e) = 1..(Len(g) + 1)
         /\ \A i \in 1..Len(g) : Append(g, e)[i] = g[i]
         /\ Append(g, e)[Len(g) + 1] = e
         /\ Append(g, e) # <<>>
<1>1. /\ Append(g, e) \in Seq(Item) /\ Len(Append(g, e)) = Len(g) + 1
      /\ \A i \in 1..Len(g) : Append(g, e)[i] = g[i]
      /\ Append(g, e)[Len(g) + 1] = e
  BY AppendProperties
<1>2. DOMAIN g = 1..Len(g) /\ Len(g) \in Nat
  BY GateItems
<1>3. DOMAIN Append(g, e) = 1..(Len(g) + 1)
  BY <1>1, GateItems
<1>4. Append(g, e) # <<>>
  BY <1>1, <1>2, EmptySeq
<1> QED BY <1>1, <1>2, <1>3, <1>4

\* A request becomes the newest one.
LEMMA AppendNewest ==
  ASSUME NEW g \in Seq(Item), NEW c \in Commands, NEW b
  PROVE  Newest(Append(g, [kind |-> c, valid |-> TRUE]), c, b)
<1> DEFINE e == [kind |-> c, valid |-> TRUE]
           a == Append(g, e)
<1>1. e \in Item /\ e.kind = c /\ e.valid /\ c # "restore"
  BY DEF Item, Commands
<1>2. /\ Len(g) \in Nat /\ DOMAIN a = 1..(Len(g) + 1)
      /\ a[Len(g) + 1] = e
  BY <1>1, AppendGate
<1> HIDE DEF a, e
<1>3. SUFFICES ASSUME NEW i \in DOMAIN a, \A j \in DOMAIN a : a[j].kind # "restore" => j <= i
               PROVE  i = Len(g) + 1
  BY <1>1, <1>2 DEF Newest, a, e
<1>4. Len(g) + 1 <= i
  BY <1>1, <1>2, <1>3
<1> QED BY <1>2, <1>4

\* A restore in the gate is not a request.
LEMMA AppendRestore ==
  ASSUME NEW g \in Seq(Item), NEW c, NEW b, Newest(g, c, b)
  PROVE  Newest(Append(g, [kind |-> "restore", valid |-> TRUE]), c, b)
<1> DEFINE e == [kind |-> "restore", valid |-> TRUE]
           a == Append(g, e)
<1>1. e \in Item /\ e.kind = "restore"
  BY DEF Item
<1>2. /\ Len(g) \in Nat /\ DOMAIN g = 1..Len(g) /\ DOMAIN a = 1..(Len(g) + 1)
      /\ a[Len(g) + 1] = e /\ \A i \in 1..Len(g) : a[i] = g[i]
  BY <1>1, AppendGate
<1> HIDE DEF a, e
<1>3. SUFFICES ASSUME NEW i \in DOMAIN a, a[i].kind # "restore",
                      \A j \in DOMAIN a : a[j].kind # "restore" => j <= i
               PROVE  a[i].kind = c /\ (a[i].valid \/ b)
  BY DEF Newest, a, e
<1>4. i \in DOMAIN g /\ a[i] = g[i]
  BY <1>1, <1>2, <1>3
<1>5. \A j \in DOMAIN g : g[j].kind # "restore" => j <= i
  BY <1>2, <1>3
<1> QED BY <1>3, <1>4, <1>5 DEF Newest

\* Invalidating the operations of the gate changes nothing else of them.
LEMMA InvalidatedGate ==
  ASSUME NEW g \in Seq(Item)
  PROVE  /\ Invalidated(g) \in Seq(Item)
         /\ DOMAIN Invalidated(g) = DOMAIN g
         /\ \A i \in DOMAIN g : Invalidated(g)[i].kind = g[i].kind /\ Invalidated(g)[i].valid = FALSE
         /\ Invalidated(g) = <<>> <=> g = <<>>
<1>1. DOMAIN g = 1..Len(g) /\ Len(g) \in Nat /\ \A i \in DOMAIN g : g[i] \in Item
  BY GateItems
<1>2. DOMAIN Invalidated(g) = DOMAIN g
  BY DEF Invalidated
<1>3. \A i \in DOMAIN g : /\ Invalidated(g)[i] \in Item
                          /\ Invalidated(g)[i].kind = g[i].kind /\ Invalidated(g)[i].valid = FALSE
  BY <1>1 DEF Invalidated, Item
<1>4. Invalidated(g) = [i \in 1..Len(g) |-> Invalidated(g)[i]]
  BY <1>1 DEF Invalidated
<1>5. Invalidated(g) \in Seq(Item)
  BY <1>1, <1>3, <1>4, IsASeq
<1>6. Len(Invalidated(g)) = Len(g)
  BY <1>1, <1>2, <1>5, LenProperties
<1>7. Invalidated(g) = <<>> <=> g = <<>>
  BY <1>5, <1>6, EmptySeq
<1> QED BY <1>2, <1>3, <1>5, <1>7

\* Whether an operation of the user is in the gate, and at its head.
LEMMA HeadFacts ==
  ASSUME gate \in Seq(Item), gate # <<>>
  PROVE  /\ Head1 \in Item
         /\ Head1.kind # "restore" => 1 \in UserOps
         /\ \A c, b : Newest(gate, c, b) /\ UserOps = {1} => Head1.kind = c /\ (Head1.valid \/ b)
<1>1. DOMAIN gate = 1..Len(gate) /\ Len(gate) \in Nat /\ 1 \in DOMAIN gate /\ Head1 \in Item
  BY GateItems DEF Head1
<1>2. Head1.kind # "restore" => 1 \in UserOps
  BY <1>1 DEF Head1, UserOps
<1>3. ASSUME NEW c, NEW b, Newest(gate, c, b), UserOps = {1}
      PROVE  Head1.kind = c /\ (Head1.valid \/ b)
  <2>1. gate[1].kind # "restore" /\ \A j \in DOMAIN gate : gate[j].kind # "restore" => j = 1
    BY <1>3 DEF UserOps
  <2>2. \A j \in DOMAIN gate : gate[j].kind # "restore" => j <= 1
    BY <2>1
  <2> QED BY <1>1, <1>3, <2>1, <2>2 DEF Newest, Head1
<1> QED BY <1>1, <1>2, <1>3

\* What the end of an operation does to the requests of the user.
LEMMA ReleaseFacts ==
  ASSUME gate \in Seq(Item), gate # <<>>, gate' = Tail(gate)
  PROVE  /\ gate' \in Seq(Item)
         /\ Head1.kind # "restore" /\ UserOps' = {} => UserOps = {1}
         /\ Head1.kind = "restore" => (UserOps' = {} <=> UserOps = {})
         /\ \A c, b : Newest(gate, c, b) => Newest(gate', c, b)
         /\ AllInvalid(gate) => AllInvalid(gate')
<1>1. /\ Len(gate) \in Nat \ {0} /\ DOMAIN gate = 1..Len(gate)
      /\ gate' \in Seq(Item) /\ DOMAIN gate' = 1..(Len(gate) - 1)
      /\ \A i \in 1..(Len(gate) - 1) : gate'[i] = gate[i + 1]
  BY TailGate
<1>2. \A c, b : Newest(gate, c, b) => Newest(gate', c, b)
  BY TailNewest
<1>3. ASSUME NEW i \in UserOps, i # 1 PROVE i - 1 \in UserOps'
  <2>1. i \in DOMAIN gate /\ gate[i].kind # "restore"
    BY DEF UserOps
  <2>2. i - 1 \in DOMAIN gate' /\ i \in Nat /\ (i - 1) + 1 = i
    BY <1>1, <1>3, <2>1
  <2>3. gate'[i - 1] = gate[i]
    BY <1>1, <2>2
  <2> QED BY <2>1, <2>2, <2>3 DEF UserOps
<1>4. ASSUME NEW i \in UserOps' PROVE i + 1 \in UserOps
  <2>1. i \in DOMAIN gate' /\ gate'[i].kind # "restore"
    BY DEF UserOps
  <2>2. i + 1 \in DOMAIN gate /\ gate'[i] = gate[i + 1]
    BY <1>1, <2>1
  <2> QED BY <2>1, <2>2 DEF UserOps
<1>5. 1 \in UserOps <=> Head1.kind # "restore"
  BY <1>1 DEF UserOps, Head1
<1>6. ASSUME AllInvalid(gate) PROVE AllInvalid(gate')
  <2>1. SUFFICES ASSUME NEW i \in DOMAIN gate' PROVE ~gate'[i].valid
    BY DEF AllInvalid
  <2>2. i + 1 \in DOMAIN gate /\ gate'[i] = gate[i + 1]
    BY <1>1
  <2> QED BY <1>6, <2>2 DEF AllInvalid
<1>7. Head1.kind # "restore" /\ UserOps' = {} => UserOps = {1}
  BY <1>3, <1>5
<1>8. Head1.kind = "restore" => (UserOps' = {} <=> UserOps = {})
  BY <1>3, <1>4, <1>5
<1> QED BY <1>1, <1>2, <1>6, <1>7, <1>8

\* An operation the gate did not have before; the running one stays.
LEMMA AppendFacts ==
  ASSUME gate \in Seq(Item), NEW g \in {gate, Invalidated(gate)}, NEW e \in Item,
         gate' = Append(g, e)
  PROVE  /\ gate' \in Seq(Item) /\ gate' # <<>>
         /\ gate # <<>> => Head1.kind' = Head1.kind
         /\ e.kind # "restore" => UserOps' # {}
         /\ e.kind = "restore" => (UserOps' = {} <=> UserOps = {})
<1>1. /\ g \in Seq(Item) /\ DOMAIN g = DOMAIN gate
      /\ \A i \in DOMAIN g : g[i].kind = gate[i].kind
  BY InvalidatedGate, ZenonT(30)
<1>2. /\ gate' \in Seq(Item) /\ gate' # <<>>
      /\ Len(g) \in Nat /\ DOMAIN g = 1..Len(g) /\ DOMAIN gate' = 1..(Len(g) + 1)
      /\ \A i \in 1..Len(g) : gate'[i] = g[i]
      /\ gate'[Len(g) + 1] = e
  BY <1>1, AppendGate
<1>3. gate # <<>> => Head1.kind' = Head1.kind
  <2>1. SUFFICES ASSUME gate # <<>> PROVE gate'[1].kind = gate[1].kind
    BY DEF Head1
  <2>2. 1 \in DOMAIN g
    BY <1>1, <2>1, GateItems
  <2> QED BY <1>1, <1>2, <2>2
<1>4. e.kind # "restore" => UserOps' # {}
  <2>1. Len(g) + 1 \in DOMAIN gate'
    BY <1>2
  <2> QED BY <1>2, <2>1 DEF UserOps
<1>5. \A i \in UserOps : i \in UserOps'
  <2>1. SUFFICES ASSUME NEW i \in UserOps PROVE i \in UserOps'
    OBVIOUS
  <2>2. i \in DOMAIN g /\ g[i].kind # "restore"
    BY <1>1 DEF UserOps
  <2>3. i \in DOMAIN gate' /\ gate'[i] = g[i]
    BY <1>2, <2>2
  <2> QED BY <2>2, <2>3 DEF UserOps
<1>6. ASSUME e.kind = "restore", NEW i \in UserOps' PROVE i \in UserOps
  <2>1. i \in DOMAIN gate' /\ gate'[i].kind # "restore"
    BY DEF UserOps
  <2>2. i # Len(g) + 1
    BY <1>2, <1>6, <2>1
  <2>3. i \in 1..Len(g)
    BY <1>2, <2>1, <2>2
  <2> QED BY <1>1, <1>2, <2>1, <2>3 DEF UserOps
<1> QED BY <1>2, <1>3, <1>4, <1>5, <1>6

\* The rest of the gate when a delete completes.
LEMMA DropFacts ==
  ASSUME gate \in Seq(Item), gate # <<>>, gate' = Invalidated(Tail(gate))
  PROVE  /\ gate' \in Seq(Item) /\ AllInvalid(gate')
         /\ Head1.kind # "restore" /\ UserOps' = {} => UserOps = {1}
         /\ \A c, b : Newest(gate, c, b) => Newest(gate', c, TRUE)
<1> DEFINE t == Tail(gate)
<1>1. t \in Seq(Item)
  BY TailGate
<1>2. /\ gate' \in Seq(Item) /\ DOMAIN gate' = DOMAIN t
      /\ \A i \in DOMAIN t : gate'[i].kind = t[i].kind /\ gate'[i].valid = FALSE
  BY <1>1, InvalidatedGate
<1>3. AllInvalid(gate')
  BY <1>2 DEF AllInvalid
<1>4. /\ Len(gate) \in Nat \ {0} /\ DOMAIN gate = 1..Len(gate) /\ DOMAIN t = 1..(Len(gate) - 1)
      /\ \A i \in 1..(Len(gate) - 1) : t[i] = gate[i + 1]
  BY TailGate
<1>5. \A c, b : Newest(gate, c, b) => Newest(t, c, b)
  BY TailNewest
<1> HIDE DEF t
<1>6. ASSUME NEW i \in UserOps, i # 1 PROVE i - 1 \in UserOps'
  <2>1. i \in DOMAIN gate /\ gate[i].kind # "restore"
    BY DEF UserOps
  <2>2. i - 1 \in DOMAIN t /\ i \in Nat /\ (i - 1) + 1 = i
    BY <1>4, <1>6, <2>1
  <2>3. t[i - 1] = gate[i]
    BY <1>4, <2>2
  <2> QED BY <1>2, <2>1, <2>2, <2>3 DEF UserOps
<1>7. Head1.kind # "restore" => 1 \in UserOps
  BY <1>4 DEF UserOps, Head1
<1>8. \A c, b : Newest(t, c, b) => Newest(gate', c, TRUE)
  BY <1>2 DEF Newest
<1> QED BY <1>2, <1>3, <1>5, <1>6, <1>7, <1>8

-----------------------------------------------------------------------------
(* Types                                                                   *)

\* The gate stays a sequence of operations.
LEMMA GateTyped ==
  ASSUME Types, [Next]_vars
  PROVE  gate' \in Seq(Item)
<1> USE DEF Types
<1>1. CASE gate' = gate
  BY <1>1
<1>2. CASE gate # <<>> /\ gate' = Tail(gate)
  BY <1>2, ReleaseFacts
<1>3. CASE gate # <<>> /\ gate' = Invalidated(Tail(gate))
  BY <1>3, DropFacts
<1>4. CASE gate' = <<>>
  BY <1>4, EmptySeq
<1>5. ASSUME NEW c \in Commands, Request(c) PROVE gate' \in Seq(Item)
  <2>1. [kind |-> c, valid |-> TRUE] \in Item
    BY DEF Item
  <2> QED BY <1>5, <2>1, AppendFacts DEF Request
<1>6. CASE Cycle
  <2>1. [kind |-> "restore", valid |-> TRUE] \in Item
    BY DEF Item
  <2> QED BY <1>6, <2>1, AppendFacts DEF Cycle
<1>7. CASE OpStep
  <2>1. CASE BeginStart \/ BeginStop \/ Halt \/ NotReady
    BY <1>1, <2>1 DEF BeginStart, BeginStop, Halt, NotReady, Goto
  <2>2. CASE Supersede \/ BeginRestore
    BY <1>1, <1>2, <2>2 DEF Supersede, BeginRestore, Release, At
  <2>3. CASE Ask \/ Unconfirmed \/ Reap
    BY <1>1, <1>2, <2>3 DEF Ask, Unconfirmed, Reap, OpFails, Release, At, Goto
  <2>4. CASE StopCompleted \/ DeleteCompleted
    BY <1>2, <1>3, <2>4 DEF StopCompleted, DeleteCompleted, Release, At
  <2>5. CASE Spawn \/ BecomeReady
    BY <1>1, <1>2, <2>5 DEF Spawn, BecomeReady, OpFails, Release, At, Goto
  <2>6. CASE Probe \/ Import
    BY <1>1, <1>2, <2>6 DEF Probe, Import, OpFails, Release, At, Goto
  <2> QED BY <1>7, <2>1, <2>2, <2>3, <2>4, <2>5, <2>6 DEF OpStep
<1>8. CASE StopAll \/ Crash
  BY <1>4, <1>8 DEF StopAll, Crash, Forgotten
<1>9. CASE RetryDue \/ Shutdown \/ Start \/ UNCHANGED vars
  BY <1>1, <1>9 DEF RetryDue, Shutdown, Start, vars
<1>10. ASSUME NEW n \in Procs, Serve(n) \/ Exit(n) \/ Report(n) PROVE gate' \in Seq(Item)
  BY <1>1, <1>10 DEF Serve, Exit, Report
<1> QED BY <1>5, <1>6, <1>7, <1>8, <1>9, <1>10 DEF Next

\* OpFails, by kind, when every variable has its type.
LEMMA FailTypes ==
  ASSUME Types, gate # <<>>, OpFails
  PROVE  /\ status' \in Statuses /\ (status # "gone" => status' # "gone")
         /\ inc' \in Procs \cup {0} /\ op' = NoOp /\ moot' \in BOOLEAN
         /\ suppressed' \in BOOLEAN /\ pending' \in BOOLEAN /\ restored' \in BOOLEAN
         /\ retry' \in {"none", "waiting", "due"}
<1>1. Head1.kind \in {"start", "stop", "restart", "delete", "restore"}
  BY HeadFacts DEF Types, Item, Commands
<1>2. op' = NoOp /\ moot' \in BOOLEAN /\ inc' \in Procs \cup {0}
  BY DEF OpFails, Release, Types, OpType
<1>3. CASE Head1.kind \in {"start", "restart"}
  <2>1. status' \in {status, "failed"} /\ UNCHANGED recovery
    BY <1>3 DEF OpFails
  <2> QED BY <1>2, <2>1 DEF Types, Statuses, recovery, Ended
<1>4. CASE Head1.kind = "restore"
  <2>1. status' \in {status, "failed"} /\ retry' \in {retry, "waiting"}
        /\ UNCHANGED <<suppressed, pending, restored>>
    BY <1>4 DEF OpFails, recovery
  <2> QED BY <1>2, <2>1 DEF Types, Statuses, Ended
<1>5. CASE Head1.kind \in {"stop", "delete"}
  <2>1. \/ AllowRecovery(op.base)
        \/ AllowRecovery(status)
    BY <1>5 DEF OpFails
  <2>2. op.base \in Statuses \ {"gone"}
    BY DEF Types, OpType
  <2> QED BY <1>2, <2>1, <2>2 DEF Types, Statuses, AllowRecovery, ApplyExit, Ended
<1> QED BY <1>1, <1>3, <1>4, <1>5

\* The fields of the operation record, and what the actions do to it.
LEMMA OpFields ==
  ASSUME NEW o \in OpType
  PROVE  /\ o.pc \in Points /\ o.aim \in Procs \cup {0} /\ o.inc \in Procs \cup {0}
         /\ o.base \in Statuses \ {"gone"} /\ o.seen \in {"none", "exit", "report"} /\ o.exited \in BOOLEAN
         /\ o.asked \in BOOLEAN
BY DEF OpType

(* The fields of the operation record while no operation runs.             *)
LEMMA NoOpFields ==
  /\ NoOp \in OpType /\ NoOp.pc = "idle" /\ NoOp.seen = "none" /\ NoOp.exited = FALSE /\ NoOp.aim = 0
  /\ NoOp.asked = FALSE
BY DEF NoOp, OpType, Points, Statuses

(* Changing one field of the operation record keeps the others and its type. *)
LEMMA OpEdits ==
  ASSUME NEW o \in OpType, NEW p \in Points, NEW a \in Procs \cup {0}, NEW b \in BOOLEAN
  PROVE  /\ [o EXCEPT !.pc = p] \in OpType
         /\ [o EXCEPT !.pc = p, !.aim = a, !.asked = b] \in OpType
         /\ [o EXCEPT !.aim = a, !.pc = p] \in OpType
         /\ [o EXCEPT !.pc = p, !.aim = a] \in OpType
         /\ [o EXCEPT !.seen = "exit", !.exited = TRUE] \in OpType
         /\ [o EXCEPT !.seen = "report"] \in OpType
BY DEF OpType

\* A process number that is not in use.
LEMMA UnusedProc ==
  Unused # {} => Min(Unused) \in Unused /\ Min(Unused) \in Procs /\ Min(Unused) \notin Alive
<1>1. Unused \subseteq Procs /\ Unused \subseteq Nat /\ Unused \cap Alive = {}
  BY InstanceAssumption DEF Unused
<1> HIDE DEF Unused
<1> QED BY <1>1, MinInSet

\* The operation record keeps its type.
LEMMA OpTyped ==
  ASSUME Types, [Next]_vars
  PROVE  op' \in OpType
<1>1. op \in OpType /\ status \in Statuses /\ inc \in Procs \cup {0} /\ child \in Procs \cup {0}
  BY DEF Types
<1>2. {"idle", "halt", "ask", "quiesce", "boot", "reap", "probe", "import"} \subseteq Points
  BY DEF Points
<1>3. ASSUME NEW o \in {op, NoOp}, SignalChild(o) PROVE op' \in OpType
  BY <1>1, <1>2, <1>3, OpEdits, NoOpFields DEF SignalChild
<1>4. ASSUME NEW p \in Points, Goto(p) PROVE op' \in OpType
  BY <1>1, <1>4, OpEdits DEF Goto
<1>5. CASE op' \in {op, NoOp}
  BY <1>1, <1>5, NoOpFields
<1>6. CASE OpStep
  <2>1. CASE BeginStart \/ Halt \/ BeginRestore
    BY <1>3, <1>5, <2>1 DEF BeginStart, Halt, BeginRestore, Release
  <2>2. CASE BeginStop
    <3>1. op' = [NoOp EXCEPT !.pc = "halt", !.base = status, !.inc = inc] /\ status # "gone"
      BY <2>2 DEF BeginStop
    <3> QED BY <1>1, <1>2, <3>1 DEF OpType, NoOp
  <2>3. CASE Ask
    <3>1. ASSUME NEW n \in Serving, op' = [op EXCEPT !.pc = "quiesce", !.aim = n, !.asked = (n = known)] PROVE op' \in OpType
      <4>1. n \in Procs \cup {0}
        BY DEF Serving
      <4> QED BY <1>1, <1>2, <3>1, <4>1, OpEdits
    <3> QED BY <1>2, <1>4, <1>5, <2>3, <3>1 DEF Ask, OpFails, Release
  <2>4. CASE Spawn
    <3>1. ASSUME Unused # {}, op' = [op EXCEPT !.pc = "boot", !.aim = Min(Unused), !.asked = FALSE] PROVE op' \in OpType
      <4>1. Min(Unused) \in Procs \cup {0}
        BY <3>1, UnusedProc
      <4> HIDE DEF Unused
      <4> QED BY <1>1, <1>2, <3>1, <4>1, OpEdits
    <3> QED BY <1>5, <2>4, <3>1 DEF Spawn, OpFails, Release
  <2>5. CASE BecomeReady \/ NotReady \/ Probe
    BY <1>2, <1>4, <1>5, <2>5 DEF BecomeReady, NotReady, Probe, Release
  <2>6. CASE Supersede \/ Unconfirmed \/ StopCompleted \/ DeleteCompleted \/ Reap
    BY <1>5, <2>6 DEF Supersede, Unconfirmed, StopCompleted, DeleteCompleted, Reap, OpFails, Release
  <2>7. CASE Import
    BY <1>5, <2>7 DEF Import, OpFails, Release
  <2> QED BY <1>6, <2>1, <2>2, <2>3, <2>4, <2>5, <2>6, <2>7 DEF OpStep
<1>7. ASSUME NEW n \in Procs, Serve(n) \/ Exit(n) \/ Report(n) PROVE op' \in OpType
  <2>1. op' \in {op, [op EXCEPT !.seen = "exit", !.exited = TRUE], [op EXCEPT !.seen = "report"]}
    BY <1>7 DEF Serve, Exit, Report
  <2> QED BY <1>1, <1>2, <2>1, OpEdits
<1>8. CASE StopAll \/ Crash
  BY <1>5, <1>8 DEF StopAll, Crash, Forgotten
<1>9. CASE Cycle \/ RetryDue \/ Shutdown \/ Start \/ UNCHANGED vars \/ \E c \in Commands : Request(c)
  BY <1>5, <1>9 DEF Cycle, RetryDue, Shutdown, Start, vars, Request
<1> QED BY <1>6, <1>7, <1>8, <1>9 DEF Next

\* The counters are numbers, and none goes down.
LEMMA CountersTyped ==
  ASSUME Types, [Next]_vars
  PROVE  /\ used \in Counters /\ used' \in Counters
         /\ used'.crashes = 0 => used.crashes = 0
         /\ used'.faults = 0 => used.faults = 0
         /\ used'.late = 0 => used.late = 0
         /\ Clean' => Clean
<1>1. used \in Counters
  BY DEF Types
<1> DEFINE Next1 ==
             {used, [used EXCEPT !.commands = @ + 1], [used EXCEPT !.exits = @ + 1],
              [used EXCEPT !.faults = @ + 1], [used EXCEPT !.late = @ + 1], [used EXCEPT !.crashes = @ + 1]}
<1>2. used' \in Next1
  <2>1. CASE OpStep
    BY <2>1 DEF OpStep, BeginStart, Supersede, BeginRestore, BeginStop, Halt, Ask, Unconfirmed, StopCompleted,
       DeleteCompleted, Spawn, BecomeReady, NotReady, Reap, Probe, Import
  <2>2. ASSUME NEW n \in Procs, Serve(n) \/ Exit(n) \/ Report(n) PROVE used' \in Next1
    BY <2>2 DEF Serve, Exit, Report
  <2>3. CASE StopAll \/ Crash
    BY <2>3 DEF StopAll, Crash, Forgotten
  <2>4. CASE Cycle \/ RetryDue \/ Shutdown \/ Start \/ UNCHANGED vars \/ \E c \in Commands : Request(c)
    BY <2>4 DEF Cycle, RetryDue, Shutdown, Start, vars, Request
  <2> QED BY <2>1, <2>2, <2>3, <2>4 DEF Next
<1>3. /\ used' \in Counters
      /\ used'.crashes >= used.crashes /\ used'.faults >= used.faults /\ used'.late >= used.late
  BY <1>1, <1>2 DEF Counters
<1>4. /\ used.late \in Nat /\ used.crashes \in Nat /\ used.faults \in Nat
      /\ used'.late \in Nat /\ used'.crashes \in Nat /\ used'.faults \in Nat
  BY <1>1, <1>3 DEF Counters
<1> QED BY <1>1, <1>3, <1>4 DEF Clean

\* Every step keeps every variable in its type.
LEMMA TypesStep ==
  ASSUME Types, [Next]_vars
  PROVE  Types'
<1>1. gate' \in Seq(Item) /\ op' \in OpType /\ used' \in Counters
  BY GateTyped, OpTyped, CountersTyped
<1>2. op.aim \in Procs \cup {0}
  BY DEF Types, OpType
<1>3. ASSUME NEW c \in Commands, Request(c) PROVE Types'
  BY <1>1, <1>3 DEF Types, Request, row, procs, recovery
<1>4. CASE Cycle \/ RetryDue \/ Shutdown \/ Start \/ UNCHANGED vars
  <2>1. UNCHANGED <<status, known, inc, proc, enrolled, child, ready, suppressed, pending, restored, last, moot, reported>>
        /\ retry' \in {retry, "due"} /\ mode' \in {mode, "stopping", "up"}
    BY <1>4 DEF Cycle, RetryDue, Shutdown, Start, vars, row, procs, recovery, history
  <2> QED BY <1>1, <2>1 DEF Types
<1>5. CASE StopAll \/ Crash
  BY <1>1, <1>5 DEF Types, StopAll, Crash, Forgotten, Unknowable, row
<1>6. ASSUME NEW n \in Procs, Serve(n) PROVE Types'
  BY <1>1, <1>6 DEF Types, Serve, row, recovery, history
<1>7. ASSUME NEW n \in Procs, Exit(n) PROVE Types'
  <2>1. /\ status' \in {status, "failed"} /\ retry' \in {retry, "waiting", "due"}
        /\ suppressed' \in BOOLEAN /\ restored' \in BOOLEAN /\ pending' \in BOOLEAN
        /\ child' \in {0, child} /\ ready' \in BOOLEAN
    BY <1>7 DEF Exit, ApplyExit, recovery, Types
  <2>2. /\ proc' = [proc EXCEPT ![n] = "dead"]
        /\ UNCHANGED <<known, inc, enrolled, mode, last, moot, reported>>
    BY <1>7 DEF Exit, history
  <2> QED BY <1>1, <2>1, <2>2 DEF Types, Statuses, Ended
<1>8. ASSUME NEW n \in Procs, Report(n) PROVE Types'
  BY <1>1, <1>8 DEF Types, Report, recovery, Statuses, Restorable
<1>9. ASSUME NEW o, SignalChild(o) PROVE child' = 0 /\ ready' = FALSE /\ proc' \in [Procs -> {"new", "booting", "serving", "dying", "dead"}]
  BY <1>9 DEF SignalChild, Types
<1>10. CASE BeginStart
  <2>1. /\ status' \in {status, "starting", "failed"} /\ retry' \in {retry, "waiting", "due"}
        /\ restored' \in BOOLEAN
    BY <1>10 DEF BeginStart
  <2> QED BY <1>1, <1>9, <1>10, <2>1, ZenonT(30) DEF Types, BeginStart, history, Statuses, Ended, Restorable
<1>11. CASE Supersede
  BY <1>1, <1>11 DEF Types, Supersede, Release, row, procs, recovery
<1>12. CASE BeginRestore
  <2>1. /\ status' \in {status, "starting"} /\ moot' \in BOOLEAN
        /\ child' \in {child, 0} /\ ready' \in BOOLEAN
        /\ proc' \in [Procs -> {"new", "booting", "serving", "dying", "dead"}]
    BY <1>9, <1>12 DEF BeginRestore, Release, Types
  <2>2. UNCHANGED <<known, inc, enrolled, suppressed, pending, restored, retry, mode, last, reported>>
    BY <1>12 DEF BeginRestore, recovery
  <2> QED BY <1>1, <2>1, <2>2 DEF Types, Statuses, Restorable
<1>13. CASE BeginStop
  BY <1>1, <1>13 DEF Types, BeginStop, procs, history, Statuses, Ended
<1>14. CASE Halt
  BY <1>1, <1>9, <1>14 DEF Types, Halt, recovery, history, Statuses, Ended
<1>15. CASE Ask
  <2>1. gate # <<>>
    BY <1>15 DEF Ask, At
  <2>2. CASE OpFails /\ UNCHANGED <<proc, known>>
    BY <1>1, <1>15, <2>1, <2>2, FailTypes DEF Types, Ask
  <2>3. UNCHANGED <<enrolled, child, ready, mode, last, reported>>
    BY <1>15 DEF Ask
  <2>4. ASSUME UNCHANGED <<row, recovery, moot>>, proc' \in [Procs -> {"new", "booting", "serving", "dying", "dead"}]
        PROVE  Types'
    BY <1>1, <2>3, <2>4 DEF Types, row, recovery
  <2>5. CASE UNCHANGED <<row, recovery, moot>>
    BY <1>15, <2>4, <2>5 DEF Ask, Goto, Types
  <2> QED BY <1>15, <2>2, <2>5 DEF Ask, Goto
<1>16. CASE Unconfirmed \/ Reap
  <2>1. gate # <<>> /\ OpFails /\ UNCHANGED <<known, procs, mode, last, reported>>
    BY <1>16 DEF Unconfirmed, Reap, At
  <2> QED BY <1>1, <2>1, FailTypes DEF Types, procs
<1>17. CASE StopCompleted
  BY <1>1, <1>17 DEF Types, StopCompleted, Release, procs, Statuses, Ended
<1>18. CASE DeleteCompleted
  BY <1>1, <1>18 DEF Types, DeleteCompleted, procs, history, Statuses
<1>19. CASE Spawn
  <2>1. gate # <<>>
    BY <1>19 DEF Spawn, At
  <2>2. CASE OpFails /\ UNCHANGED <<proc, enrolled, child, known>>
    BY <1>1, <1>19, <2>1, <2>2, FailTypes DEF Types, Spawn
  <2>3. ASSUME Unused # {}, UNCHANGED <<row, recovery, gate, moot>>,
               NEW n \in Procs, proc' = [proc EXCEPT ![n] = "booting"], child' = n, enrolled' = enrolled \ {n}
        PROVE  Types'
    BY <1>1, <1>19, <2>3 DEF Types, Spawn, row, recovery
  <2> QED BY <1>19, <2>2, <2>3, UnusedProc DEF Spawn
<1>21. CASE BecomeReady
  <2>1. /\ status' \in {status, "registering"} /\ known' \in {known, op.aim} /\ inc' = inc /\ moot' = moot
        /\ restored' \in BOOLEAN /\ retry' \in {retry, "none"}
    BY <1>21 DEF BecomeReady, Complete, CompletedStatus, MarkRestored, Goto, row, Types
  <2> QED BY <1>1, <1>2, <1>21, <2>1 DEF Types, BecomeReady, Statuses, Restorable
<1>22. CASE NotReady
  BY <1>1, <1>22, ZenonT(30) DEF Types, NotReady, Goto, row, recovery
<1>23. CASE Probe
  <2>1. /\ status' \in {status, "registering"} /\ known' \in {known, op.aim} /\ inc' = inc /\ moot' \in BOOLEAN
        /\ restored' \in BOOLEAN /\ retry' \in {retry, "none"}
    BY <1>23 DEF Probe, Complete, CompletedStatus, MarkRestored, Release, Goto, Types
  <2> QED BY <1>1, <1>2, <1>23, <2>1 DEF Types, Probe, procs, Statuses, Restorable
<1>24. CASE Import
  <2>1. gate # <<>>
    BY <1>24 DEF Import, At
  <2>2. CASE OpFails
    BY <1>1, <1>24, <2>1, <2>2, FailTypes DEF Types, Import, procs
  <2>3. CASE /\ UNCHANGED <<status, inc, suppressed, pending>> /\ moot' \in BOOLEAN
             /\ restored' \in BOOLEAN /\ retry' \in {retry, "none"}
    BY <1>1, <1>24, <2>3 DEF Types, Import, procs
  <2> QED BY <1>24, <2>2, <2>3 DEF Import, Release, MarkRestored, recovery, Types
<1> QED
  BY <1>3, <1>4, <1>5, <1>6, <1>7, <1>8, <1>10, <1>11, <1>12, <1>13, <1>14, <1>15, <1>16, <1>17, <1>18,
     <1>19, <1>21, <1>22, <1>23, <1>24 DEF Next, OpStep

-----------------------------------------------------------------------------
(* The running operation and its process                                   *)

\* The parts of actions that move the operation, field by field.
LEMMA GotoFields ==
  ASSUME op \in OpType, NEW p, Goto(p)
  PROVE  /\ op'.pc = p /\ op'.aim = op.aim /\ op'.seen = op.seen /\ op'.exited = op.exited
         /\ gate' = gate /\ moot' = moot /\ Head1' = Head1 /\ UserOps' = UserOps
BY DEF Goto, OpType, Head1, UserOps

(* What signalling the child changes: nothing to wait for, or a wait for it. *)
LEMMA SignalFields ==
  ASSUME Types, NEW o \in OpType, SignalChild(o)
  PROVE  /\ child' = 0 /\ ready' = FALSE
         /\ op'.seen = o.seen /\ op'.exited = o.exited
         /\ \/ child = 0 /\ op'.pc = "ask" /\ proc' = proc
            \/ child \in Procs /\ op'.pc = "quiesce" /\ op'.aim = child /\ proc' = [proc EXCEPT ![child] = "dying"]
BY DEF SignalChild, OpType, Types

(* What noting an exit or a report in the waiting operation changes.        *)
LEMMA SeenFields ==
  ASSUME op \in OpType, op' = [op EXCEPT !.seen = "exit", !.exited = TRUE] \/ op' = [op EXCEPT !.seen = "report"]
  PROVE  /\ op'.pc = op.pc /\ op'.aim = op.aim
         /\ op'.seen \in {"exit", "report"}
BY DEF OpType

\* The end of an operation, by return or throw.
LEMMA ReleaseFields ==
  ASSUME Types, NEW b \in BOOLEAN, Release(b)
  PROVE  /\ op' = NoOp /\ gate' = Tail(gate)
         /\ moot => moot'
         /\ b /\ Head1.kind # "restore" /\ UserOps = {1} => moot'
         /\ ~b \/ Head1.kind = "restore" => moot' = moot
BY DEF Release, Types

(* What a failing operation leaves.                                         *)
LEMMA FailFields ==
  ASSUME Types, gate # <<>>, OpFails
  PROVE  /\ op' = NoOp /\ gate' = Tail(gate)
         /\ moot => moot'
         /\ Head1.kind # "restore" /\ UserOps = {1} => moot'
         /\ Head1.kind \in Starts => UNCHANGED <<suppressed, restored>> /\ status' \in {status, "failed"}
         /\ Head1.kind \notin Starts => suppressed' = FALSE
         /\ status # "gone" => status' # "gone"
<1>1. Head1.kind \in {"start", "stop", "restart", "delete", "restore"}
  BY HeadFacts DEF Types, Item, Commands
<1>2. op' = NoOp /\ gate' = Tail(gate) /\ (moot => moot') /\ (Head1.kind # "restore" /\ UserOps = {1} => moot')
  BY DEF OpFails, Release, Types
<1>3. status # "gone" => status' # "gone"
  BY FailTypes
<1>4. CASE Head1.kind \in {"start", "restart"}
  <2>1. status' \in {status, "failed"} /\ UNCHANGED recovery
    BY <1>4 DEF OpFails
  <2> QED BY <1>2, <1>3, <1>4, <2>1 DEF recovery, Starts
<1>5. CASE Head1.kind = "restore"
  <2>1. status' \in {status, "failed"} /\ UNCHANGED <<suppressed, restored>>
    BY <1>5 DEF OpFails, recovery
  <2> QED BY <1>2, <1>3, <1>5, <2>1 DEF Starts
<1>6. CASE Head1.kind \in {"stop", "delete"}
  <2>1. \/ AllowRecovery(op.base)
        \/ AllowRecovery(status)
    BY <1>6 DEF OpFails
  <2>2. suppressed' = FALSE
    BY <2>1 DEF AllowRecovery
  <2> QED BY <1>2, <1>3, <1>6, <2>2 DEF Starts
<1> QED BY <1>1, <1>4, <1>5, <1>6

\* A step that changes neither the gate nor the operation.
LEMMA SameOp ==
  ASSUME gate' = gate
  PROVE  Head1' = Head1 /\ UserOps' = UserOps
BY DEF Head1, UserOps

\* Nothing runs, and nothing is tracked.
LEMMA IdleOp ==
  ASSUME Types, OpOK, op' = NoOp, ready' => ready /\ child' = child /\ proc' = proc, mode' # "down"
  PROVE  OpOK'
BY NoOpFields DEF OpOK, Running

\* The running operation keeps its place in the gate and its hold on the child.
LEMMA OpStepOK ==
  ASSUME Types, OpOK, GoneOK, OpStep
  PROVE  OpOK'
<1>1. op \in OpType /\ op.pc \in Points /\ gate \in Seq(Item) /\ ready \in BOOLEAN
  BY OpFields DEF Types
<1>2. ASSUME SignalChild(NoOp) \/ SignalChild(op), gate # <<>>, gate' = gate, status' # "gone", mode' # "down"
      PROVE  OpOK'
  BY <1>1, <1>2, SignalFields, NoOpFields DEF OpOK, Running
<1>3. ASSUME op' = NoOp, ready' = ready, child' = child, proc' = proc, mode' # "down" PROVE OpOK'
  BY <1>3, IdleOp
<1>4. CASE BeginStart
  <2>1. gate # <<>> /\ mode # "down" /\ gate[1].valid /\ SignalChild(NoOp)
    BY <1>4 DEF BeginStart, At, Head1
  <2>2. status # "gone"
    BY <1>1, <2>1, GateItems DEF GoneOK
  <2>3. status' # "gone" /\ gate' = gate /\ mode' = mode
    BY <1>4, <2>2 DEF BeginStart
  <2> QED BY <1>2, <2>1, <2>3
<1>5. CASE BeginRestore
  <2>1. CASE mode = "up" /\ Candidate
    BY <1>2, <1>5, <2>1 DEF BeginRestore, At
  <2>2. CASE ~(mode = "up" /\ Candidate)
    BY <1>3, <1>5, <2>2, ReleaseFields DEF BeginRestore, At
  <2> QED BY <2>1, <2>2
<1>6. CASE BeginStop
  <2>1. op' = [NoOp EXCEPT !.pc = "halt", !.base = status, !.inc = inc]
        /\ gate' = gate /\ gate # <<>> /\ mode' = mode /\ mode # "down"
        /\ UNCHANGED <<proc, child, ready>> /\ status' # "gone" /\ Head1.kind \in {"stop", "delete"}
    BY <1>6 DEF BeginStop, At, procs
  <2>2. op'.pc = "halt"
    BY <2>1 DEF NoOp
  <2> QED BY <2>1, <2>2, SameOp DEF OpOK, Running
<1>7. CASE Halt
  <2>1. gate # <<>> /\ mode # "down" /\ op.pc = "halt" /\ SignalChild(op) /\ gate' = gate /\ mode' = mode
        /\ status' \in {status, "deleting"}
    BY <1>7 DEF Halt, At
  <2>2. status # "gone"
    BY <2>1 DEF OpOK, Running
  <2> QED BY <1>2, <2>1, <2>2
<1>8. CASE Supersede
  BY <1>3, <1>8, ReleaseFields DEF Supersede, At, procs
<1>9. CASE Ask
  <2>1. gate # <<>> /\ mode # "down" /\ op.pc = "ask" /\ UNCHANGED <<child, ready, mode>>
    BY <1>9 DEF Ask, At
  <2>2. CASE OpFails /\ UNCHANGED <<proc, known>>
    BY <1>3, <2>1, <2>2, FailFields
  <2>3. ASSUME op'.pc = "quiesce", gate' = gate, status' = status PROVE OpOK'
    BY <2>1, <2>3 DEF OpOK, Running
  <2>4. CASE Goto("quiesce") /\ UNCHANGED <<proc, row, recovery>>
    BY <1>1, <2>3, <2>4, GotoFields DEF row
  <2>5. ASSUME NEW n \in Serving, op' = [op EXCEPT !.pc = "quiesce", !.aim = n, !.asked = (n = known)], UNCHANGED <<gate, moot, row, recovery>>
        PROVE  OpOK'
    <3>1. op'.pc = "quiesce"
      BY <1>1, <2>5 DEF OpType
    <3> QED BY <2>3, <2>5, <3>1 DEF row
  <2> QED BY <1>9, <2>2, <2>4, <2>5 DEF Ask
<1>10. CASE Unconfirmed \/ Reap
  <2>1. gate # <<>> /\ mode # "down" /\ mode' = mode /\ OpFails /\ UNCHANGED <<child, ready, proc>>
    BY <1>10 DEF Unconfirmed, Reap, At, procs
  <2> QED BY <1>3, <2>1, FailFields
<1>11. CASE StopCompleted \/ DeleteCompleted
  <2>1. mode # "down" /\ mode' = mode /\ op' = NoOp /\ UNCHANGED <<child, ready, proc>>
    BY <1>11 DEF StopCompleted, DeleteCompleted, Release, At, procs
  <2> QED BY <1>3, <2>1
<1>12. CASE Spawn
  <2>1. gate # <<>> /\ mode # "down" /\ op.pc = "quiesce" /\ UNCHANGED <<ready, mode>> /\ Head1.kind \in Starts
    BY <1>12 DEF Spawn, At
  <2>2. CASE OpFails /\ UNCHANGED <<proc, enrolled, child, known>>
    BY <1>3, <2>1, <2>2, FailFields
  <2>3. ASSUME NEW n \in Procs, child' = n, op' = [op EXCEPT !.pc = "boot", !.aim = n, !.asked = FALSE], UNCHANGED <<row, gate>>
        PROVE  OpOK'
    <3>1. op'.pc = "boot" /\ op'.aim = n
      BY <1>1, <2>3 DEF OpType
    <3> QED BY <2>1, <2>3, <3>1, SameOp DEF OpOK, Running, row
  <2> QED BY <1>12, <2>2, <2>3, UnusedProc DEF Spawn
<1>13. CASE BecomeReady
  <2>1. /\ mode # "down" /\ gate # <<>> /\ op.pc = "boot" /\ Head1.kind \in Starts
        /\ proc[op.aim] = "serving" /\ child = op.aim
        /\ UNCHANGED <<proc, child, mode>> /\ ready' = TRUE
        /\ Goto("import") \/ Goto("probe")
        /\ status' \in {status, "registering"}
    BY <1>13 DEF BecomeReady, At, Complete, CompletedStatus, row
  <2>2. op'.pc \in {"import", "probe"} /\ op'.aim = op.aim /\ gate' = gate /\ Head1' = Head1
    BY <1>1, <2>1, GotoFields
  <2> QED BY <2>1, <2>2 DEF OpOK, Running
<1>14. CASE NotReady
  <2>1. /\ mode # "down" /\ gate # <<>> /\ op.pc = "boot" /\ Head1.kind \in Starts
        /\ child' = 0 /\ UNCHANGED <<status, ready, mode>> /\ Goto("reap")
    BY <1>14 DEF NotReady, At, row
  <2>2. op'.pc = "reap" /\ op'.aim = op.aim /\ gate' = gate /\ Head1' = Head1
    BY <1>1, <2>1, GotoFields
  <2> QED BY <2>1, <2>2 DEF OpOK, Running
<1>15. CASE Probe
  <2>1. /\ mode # "down" /\ gate # <<>> /\ op.pc = "probe" /\ Head1.kind \in Starts
        /\ UNCHANGED <<proc, child, ready, mode>>
        /\ Goto("import") \/ Release(FALSE)
        /\ status' \in {status, "registering"}
    BY <1>15 DEF Probe, At, Complete, CompletedStatus, procs, Starts
  <2>2. CASE Release(FALSE)
    BY <1>3, <2>1, <2>2, ReleaseFields
  <2>3. CASE Goto("import")
    <3>1. op'.pc = "import" /\ op'.aim = op.aim /\ gate' = gate /\ Head1' = Head1
      BY <1>1, <2>3, GotoFields
    <3> QED BY <2>1, <3>1 DEF OpOK, Running
  <2> QED BY <2>1, <2>2, <2>3
<1>16. CASE Import
  <2>1. /\ mode # "down" /\ mode' = mode /\ UNCHANGED <<child, ready, proc>> /\ op' = NoOp
    BY <1>16 DEF Import, At, OpFails, Release, procs
  <2> QED BY <1>3, <2>1
<1> QED
  BY <1>4, <1>5, <1>6, <1>7, <1>8, <1>9, <1>10, <1>11, <1>12, <1>13, <1>14, <1>15, <1>16 DEF OpStep

\* The same for every step.
LEMMA OpOKStep ==
  ASSUME Types, OpOK, GoneOK, [Next]_vars
  PROVE  OpOK'
<1>1. op \in OpType /\ op.pc \in Points /\ gate \in Seq(Item) /\ ready \in BOOLEAN
  BY OpFields DEF Types
<1>2. ASSUME NEW c \in Commands, Request(c) PROVE OpOK'
  <2>1. [kind |-> c, valid |-> TRUE] \in Item
    BY DEF Item
  <2>2. gate' # <<>> /\ (gate # <<>> => Head1.kind' = Head1.kind)
    BY <1>1, <1>2, <2>1, AppendFacts DEF Request
  <2> QED BY <1>2, <2>2 DEF Request, OpOK, Running, row, procs, recovery
<1>3. CASE Cycle
  <2>1. [kind |-> "restore", valid |-> TRUE] \in Item
    BY DEF Item
  <2>2. gate' # <<>> /\ (gate # <<>> => Head1.kind' = Head1.kind)
    BY <1>1, <1>3, <2>1, AppendFacts DEF Cycle
  <2> QED BY <1>3, <2>2 DEF Cycle, OpOK, Running, row, procs, recovery
<1>4. CASE RetryDue \/ Shutdown \/ Start \/ UNCHANGED vars
  <2>1. UNCHANGED <<status, gate, op, child, ready, proc, suppressed, restored>> /\ (mode' = "down" => mode = "down")
    BY <1>4 DEF RetryDue, Shutdown, Start, vars, row, procs, recovery
  <2> QED BY <2>1, SameOp DEF OpOK, Running
<1>5. CASE StopAll \/ Crash
  BY <1>5, NoOpFields DEF StopAll, Crash, Forgotten, OpOK, Running
<1>6. ASSUME NEW n \in Procs, Serve(n) PROVE OpOK'
  <2>1. /\ UNCHANGED <<status, gate, op, child, ready, suppressed, restored, mode>>
        /\ proc' = [proc EXCEPT ![n] = "serving"]
    BY <1>6 DEF Serve, row, recovery
  <2>2. ready => child' \in Procs /\ proc'[child'] = "serving"
    BY <2>1 DEF OpOK, Types
  <2> QED BY <2>1, <2>2, SameOp DEF OpOK, Running
<1>7. ASSUME NEW n \in Procs, Exit(n) PROVE OpOK'
  <2>1. /\ UNCHANGED <<gate, mode, suppressed>>
        /\ proc' = [proc EXCEPT ![n] = "dead"]
        /\ child' = (IF child = n THEN 0 ELSE child)
        /\ ready' => ready /\ child # n
        /\ status' \in {status, "failed"}
        /\ op' = op \/ op' = [op EXCEPT !.seen = "exit", !.exited = TRUE]
        /\ mode = "down" => restored' = restored
    BY <1>7 DEF Exit, ApplyExit, recovery
  <2>2. op'.pc = op.pc /\ op'.aim = op.aim
    BY <1>1, <2>1, SeenFields
  <2>3. ready' => child' \in Procs /\ proc'[child'] = "serving"
    BY <2>1 DEF OpOK, Types
  <2>4. child' \in {0, child}
    BY <2>1
  <2> QED BY <2>1, <2>2, <2>3, <2>4, SameOp DEF OpOK, Running
<1>8. ASSUME NEW n \in Procs, Report(n) PROVE OpOK'
  <2>1. /\ UNCHANGED <<gate, mode, suppressed, restored, proc, child, ready>>
        /\ status' # "gone"
        /\ op' = op \/ op' = [op EXCEPT !.seen = "report"]
    BY <1>8 DEF Report, recovery
  <2>2. op'.pc = op.pc /\ op'.aim = op.aim
    BY <1>1, <2>1, SeenFields
  <2> QED BY <2>1, <2>2, SameOp DEF OpOK, Running
<1> QED BY <1>2, <1>3, <1>4, <1>5, <1>6, <1>7, <1>8, OpStepOK DEF Next

\* Nobody serves when the child is not there and none was waited for, so no process is asked
\* to shut down over its port.
LEMMA AskedKept ==
  ASSUME Types, OpOK, Owned, [Next]_vars, used'.crashes = 0, used'.faults = 0
  PROVE  ~op'.asked
<1>1. used.crashes = 0 /\ used.faults = 0 /\ ~op.asked /\ op \in OpType
  BY CountersTyped DEF Owned, Types
<1>2. ASSUME op' = NoOp PROVE ~op'.asked
  BY <1>2, NoOpFields
<1>3. ASSUME op' = op PROVE ~op'.asked
  BY <1>1, <1>3
<1>4. ASSUME NEW o \in {op, NoOp}, SignalChild(o) PROVE ~op'.asked
  BY <1>1, <1>4, NoOpFields DEF SignalChild, OpType
<1>5. ASSUME NEW x, Goto(x) PROVE ~op'.asked
  BY <1>1, <1>5 DEF Goto, OpType
<1>6. ASSUME OpFails PROVE ~op'.asked
  BY <1>2, <1>6 DEF OpFails, Release
<1>7. CASE Ask
  <2>1. op.pc = "ask" /\ child = 0
    BY <1>7 DEF Ask, At, OpOK
  <2>2. Serving = {}
    BY <1>1, <2>1, InstanceAssumption DEF Serving, Owned
  <2> QED BY <1>5, <1>6, <1>7, <2>2 DEF Ask
<1>8. CASE Spawn
  <2>1. OpFails \/ op' = [op EXCEPT !.pc = "boot", !.aim = Min(Unused), !.asked = FALSE]
    BY <1>8 DEF Spawn
  <2> QED BY <1>1, <1>6, <2>1 DEF OpType
<1>9. CASE BeginStart \/ BeginRestore \/ Halt
  BY <1>2, <1>4, <1>9 DEF BeginStart, BeginRestore, Halt, Release
<1>10. CASE BeginStop
  <2>1. op' = [NoOp EXCEPT !.pc = "halt", !.base = status, !.inc = inc]
    BY <1>10 DEF BeginStop
  <2> QED BY <2>1 DEF NoOp
<1>11. CASE Supersede \/ Unconfirmed \/ StopCompleted \/ DeleteCompleted \/ Reap
  BY <1>2, <1>6, <1>11 DEF Supersede, Unconfirmed, StopCompleted, DeleteCompleted, Reap, Release
<1>12. CASE BecomeReady \/ NotReady \/ Probe \/ Import
  BY <1>2, <1>5, <1>6, <1>12 DEF BecomeReady, NotReady, Probe, Import, Release
<1>13. CASE StopAll \/ Crash
  BY <1>2, <1>13 DEF StopAll, Crash, Forgotten
<1>14. CASE Cycle \/ RetryDue \/ Shutdown \/ Start \/ UNCHANGED vars \/ \E c \in Commands : Request(c)
  BY <1>3, <1>14 DEF Cycle, RetryDue, Shutdown, Start, vars, Request
<1>15. ASSUME NEW n \in Procs, Serve(n) \/ Exit(n) \/ Report(n) PROVE ~op'.asked
  <2>1. \/ op' = op
        \/ op' = [op EXCEPT !.seen = "exit", !.exited = TRUE]
        \/ op' = [op EXCEPT !.seen = "report"]
    BY <1>15 DEF Serve, Exit, Report
  <2> QED BY <1>1, <2>1 DEF OpType
<1> QED
  BY <1>7, <1>8, <1>9, <1>10, <1>11, <1>12, <1>13, <1>14, <1>15 DEF Next, OpStep

\* A process that is alive is tracked, or waited for by the running operation.
LEMMA OwnedStep ==
  ASSUME Types, OpOK, Owned, [Next]_vars
  PROVE  Owned'
<1> DEFINE Live(n) == proc[n] \notin {"new", "dead"}
           Held(n) == n = child \/ (op.pc \in {"quiesce", "reap"} /\ n = op.aim)
<1>1. SUFFICES ASSUME used'.crashes = 0, used'.faults = 0, NEW n \in Procs, Live(n)'
               PROVE  Held(n)'
  BY AskedKept DEF Owned
<1>2. /\ used.crashes = 0 /\ used.faults = 0 /\ ~op.asked
      /\ Live(n) => Held(n)
  BY <1>1, CountersTyped DEF Owned
<1>3. op \in OpType /\ proc \in [Procs -> {"new", "booting", "serving", "dying", "dead"}]
  BY DEF Types
<1>4. ASSUME proc' = proc, child' = child, op'.pc = op.pc, op'.aim = op.aim PROVE Held(n)'
  BY <1>1, <1>2, <1>4
<1>5. ASSUME NEW o \in {op, NoOp}, SignalChild(o), op.pc \notin {"quiesce", "reap"} PROVE Held(n)'
  <2>1. n = child
    BY <1>1, <1>2, <1>3, <1>5, SignalFields, NoOpFields
  <2>2. child # 0
    BY <2>1, InstanceAssumption
  <2> QED BY <1>3, <1>5, <2>1, <2>2, SignalFields, NoOpFields
<1>6. ASSUME op.pc \notin {"quiesce", "reap"} \/ Quiet, proc' = proc, child' = child PROVE Held(n)'
  BY <1>1, <1>2, <1>6 DEF Quiet, Alive
<1>7. CASE BeginStart \/ BeginRestore
  BY <1>5, <1>6, <1>7 DEF BeginStart, BeginRestore, At
<1>8. CASE Halt
  BY <1>5, <1>8 DEF Halt, At
<1>9. CASE BeginStop \/ Supersede
  BY <1>6, <1>9 DEF BeginStop, Supersede, At, procs
<1>10. CASE Ask
  <2>1. op.pc = "ask" /\ child = 0
    BY <1>10 DEF Ask, At, OpOK
  <2>2. Serving = {}
    BY <1>2, <2>1, InstanceAssumption, CountersTyped, <1>1 DEF Serving, Owned
  <2>3. proc' = proc /\ child' = child
    BY <1>10, <2>2 DEF Ask
  <2> QED BY <1>6, <2>1, <2>3
<1>11. CASE Unconfirmed
  BY <1>1, <1>2, <1>11 DEF Unconfirmed, Types, Counters
<1>12. CASE StopCompleted \/ DeleteCompleted \/ Reap
  BY <1>6, <1>12 DEF StopCompleted, DeleteCompleted, Reap, procs
<1>13. CASE Spawn
  <2>1. op.pc = "quiesce" /\ child = 0 /\ Quiet
    BY <1>13 DEF Spawn, At, OpOK
  <2>2. n # 0
    BY InstanceAssumption
  <2>3. ~Live(n)
    BY <1>2, <2>1, <2>2 DEF Quiet, Alive
  <2>4. proc' = proc \/ \E m \in Procs : child' = m /\ proc' = [proc EXCEPT ![m] = "booting"]
    BY <1>13, UnusedProc DEF Spawn
  <2>5. ASSUME NEW m \in Procs, m # n, proc' = [proc EXCEPT ![m] = "booting"] PROVE proc'[n] = proc[n]
    BY <1>3, <2>5
  <2>6. proc'[n] # proc[n]
    BY <1>1, <2>3
  <2> QED BY <2>4, <2>5, <2>6
<1>14. CASE BecomeReady \/ Probe
  <2>1. op.pc \in {"boot", "probe"} /\ proc' = proc /\ child' = child
    BY <1>14 DEF BecomeReady, Probe, At, procs
  <2> QED BY <1>6, <2>1
<1>15. CASE NotReady
  <2>1. op.pc = "boot" /\ Goto("reap")
    BY <1>15 DEF NotReady, At
  <2>2. op'.pc = "reap" /\ op'.aim = op.aim
    BY <1>3, <2>1, GotoFields
  <2>3. n # op.aim => proc'[n] = proc[n]
    BY <1>3, <1>15 DEF NotReady
  <2>4. n # 0 /\ (n = child => n = op.aim)
    BY <2>1, InstanceAssumption DEF OpOK
  <2> QED BY <1>1, <1>2, <2>1, <2>2, <2>3, <2>4
<1>16. CASE Import
  BY <1>6, <1>16 DEF Import, At, procs
<1>17. CASE StopAll \/ Crash
  BY <1>1, <1>2, <1>17 DEF StopAll, Crash, Forgotten, Types, Counters
<1>18. CASE Cycle \/ RetryDue \/ Shutdown \/ Start \/ UNCHANGED vars \/ \E c \in Commands : Request(c)
  BY <1>4, <1>18 DEF Cycle, RetryDue, Shutdown, Start, vars, Request, procs
<1>19. ASSUME NEW m \in Procs, Serve(m) PROVE Held(n)'
  <2>1. Live(n)
    BY <1>1, <1>3, <1>19 DEF Serve
  <2> QED BY <1>2, <1>19, <2>1 DEF Serve
<1>20. ASSUME NEW m \in Procs, Exit(m) PROVE Held(n)'
  <2>1. /\ proc' = [proc EXCEPT ![m] = "dead"]
        /\ child' = (IF child = m THEN 0 ELSE child)
        /\ op' = op \/ op' = [op EXCEPT !.seen = "exit", !.exited = TRUE]
    BY <1>20 DEF Exit
  <2>2. op'.pc = op.pc /\ op'.aim = op.aim
    BY <1>3, <2>1, SeenFields
  <2>3. n # m /\ Live(n)
    BY <1>1, <1>3, <2>1
  <2> QED BY <1>2, <2>1, <2>2, <2>3
<1>21. ASSUME NEW m \in Procs, Report(m) PROVE Held(n)'
  <2>1. proc' = proc /\ child' = child /\ (op' = op \/ op' = [op EXCEPT !.seen = "report"])
    BY <1>21 DEF Report
  <2>2. op'.pc = op.pc /\ op'.aim = op.aim
    BY <1>3, <2>1, SeenFields
  <2> QED BY <1>4, <2>1, <2>2
<1> QED
  BY <1>7, <1>8, <1>9, <1>10, <1>11, <1>12, <1>13, <1>14, <1>15, <1>16, <1>17, <1>18, <1>19, <1>20, <1>21
  DEF Next, OpStep

\* The gate refuses everything once the row is gone.
LEMMA GoneStep ==
  ASSUME Types, OpOK, GoneOK, SuppressOK, [Next]_vars
  PROVE  GoneOK'
<1>1. op \in OpType /\ gate \in Seq(Item)
  BY DEF Types
<1>2. SUFFICES ASSUME status' = "gone" PROVE child' = 0 /\ suppressed' = FALSE /\ AllInvalid(gate')
  BY DEF GoneOK, AllInvalid
<1>3. ASSUME status = "gone" PROVE op.pc = "idle" /\ child = 0 /\ suppressed = FALSE /\ ready = FALSE /\ AllInvalid(gate)
  BY <1>3, InstanceAssumption DEF GoneOK, OpOK, Running, AllInvalid, Types
<1>4. CASE DeleteCompleted
  <2>1. child' = 0 /\ suppressed' = FALSE
    BY <1>4 DEF DeleteCompleted, At, OpOK, procs
  <2> QED BY <1>1, <1>4, <2>1, DropFacts DEF DeleteCompleted, At
<1>5. ASSUME gate' = gate \/ (gate # <<>> /\ gate' = Tail(gate)) \/ gate' = <<>>, status = "gone" PROVE AllInvalid(gate')
  BY <1>1, <1>3, <1>5, ReleaseFacts DEF AllInvalid
<1>6. CASE Supersede
  BY <1>1, <1>2, <1>3, <1>5, <1>6, ReleaseFields DEF Supersede, At, row, procs, recovery
<1>7. CASE BeginRestore
  <2>1. status = "gone"
    BY <1>2, <1>7 DEF BeginRestore
  <2>2. ~Candidate
    BY <2>1 DEF Candidate, Restorable
  <2> QED BY <1>1, <1>3, <1>5, <1>7, <2>1, <2>2, ReleaseFields DEF BeginRestore, At, recovery
<1>8. CASE BeginStart
  <2>1. status = "gone" /\ gate # <<>> /\ gate[1].valid
    BY <1>2, <1>8 DEF BeginStart, At, Head1
  <2> QED BY <1>1, <1>3, <2>1, GateItems DEF AllInvalid
<1>9. CASE BeginStop
  BY <1>2, <1>9 DEF BeginStop
<1>10. CASE Halt \/ Ask \/ Unconfirmed \/ StopCompleted \/ Spawn \/ BecomeReady \/ NotReady \/ Reap \/ Probe \/ Import
  <2>1. op.pc # "idle" /\ status # "gone"
    BY <1>10 DEF Halt, Ask, Unconfirmed, StopCompleted, Spawn, BecomeReady, NotReady, Reap, Probe, Import, At, OpOK, Running
  <2>2. OpFails => status' # "gone"
    BY <2>1, FailTypes DEF OpOK, Running
  <2>3. CASE Halt \/ StopCompleted
    BY <1>2, <2>1, <2>3 DEF Halt, StopCompleted
  <2>4. CASE Ask \/ Unconfirmed
    BY <1>2, <2>1, <2>2, <2>4 DEF Ask, Unconfirmed, row
  <2>5. CASE Spawn \/ Reap
    BY <1>2, <2>1, <2>2, <2>5 DEF Spawn, Reap, row
  <2>6. CASE BecomeReady \/ Probe \/ NotReady
    BY <1>2, <2>1, <2>6 DEF BecomeReady, Probe, NotReady, Complete, CompletedStatus, row
  <2>7. CASE Import
    BY <1>2, <2>1, <2>2, <2>7 DEF Import
  <2> QED BY <1>10, <2>3, <2>4, <2>5, <2>6, <2>7
<1>11. CASE StopAll \/ Crash
  BY <1>2, <1>5, <1>11 DEF StopAll, Crash, Forgotten, row
<1>12. ASSUME NEW c \in Commands, Request(c) PROVE FALSE
  BY <1>2, <1>12 DEF Request, row
<1>13. CASE Cycle
  BY <1>2, <1>13 DEF Cycle, Candidate, row, Restorable
<1>14. CASE RetryDue \/ Shutdown \/ Start \/ UNCHANGED vars
  <2>1. UNCHANGED <<status, gate, child, suppressed>>
    BY <1>14 DEF RetryDue, Shutdown, Start, vars, row, procs, recovery
  <2> QED BY <1>2, <1>3, <1>5, <2>1
<1>15. ASSUME NEW n \in Procs, Serve(n) PROVE child' = 0 /\ suppressed' = FALSE /\ AllInvalid(gate')
  BY <1>2, <1>3, <1>5, <1>15 DEF Serve, row, recovery
<1>16. ASSUME NEW n \in Procs, Exit(n) PROVE child' = 0 /\ suppressed' = FALSE /\ AllInvalid(gate')
  <2>1. status = "gone" /\ suppressed' = suppressed /\ gate' = gate /\ child' \in {0, child}
    BY <1>2, <1>16 DEF Exit, ApplyExit, recovery
  <2> QED BY <1>3, <1>5, <2>1
<1>17. ASSUME NEW n \in Procs, Report(n) PROVE FALSE
  BY <1>2, <1>17 DEF Report
<1> QED
  BY <1>4, <1>6, <1>7, <1>8, <1>9, <1>10, <1>11, <1>12, <1>13, <1>14, <1>15, <1>16, <1>17 DEF Next, OpStep

\* The steps of an operation that has begun.
LEMMA BegunStep ==
  ASSUME OpOK,
         Halt \/ Ask \/ Unconfirmed \/ StopCompleted \/ DeleteCompleted \/ Spawn \/ BecomeReady \/ NotReady
           \/ Reap \/ Probe \/ Import
  PROVE  Running /\ gate # <<>> /\ status # "gone" /\ mode # "down"
BY DEF Halt, Ask, Unconfirmed, StopCompleted, DeleteCompleted, Spawn, BecomeReady, NotReady, Reap, Probe,
   Import, At, OpOK, Running

\* The row does not come back.
LEMMA GoneStays ==
  ASSUME Types, OpOK, GoneOK, [Next]_vars, status = "gone"
  PROVE  status' = "gone"
<1>1. op.pc = "idle" /\ ready = FALSE /\ \A i \in DOMAIN gate : ~gate[i].valid
  BY InstanceAssumption DEF GoneOK, OpOK, Running, Types
<1>2. CASE BeginStart
  <2>1. gate # <<>> /\ gate[1].valid
    BY <1>2 DEF BeginStart, At, Head1
  <2> QED BY <1>1, <2>1, GateItems DEF Types
<1>3. CASE BeginRestore
  BY <1>3 DEF BeginRestore, Candidate, Restorable
<1>4. CASE Supersede \/ BeginStop
  BY <1>4 DEF Supersede, BeginStop, row
<1>5. CASE StopAll \/ Crash \/ Cycle \/ RetryDue \/ Shutdown \/ Start \/ UNCHANGED vars \/ \E c \in Commands : Request(c)
  BY <1>5 DEF StopAll, Crash, Cycle, RetryDue, Shutdown, Start, vars, Request, row
<1>6. ASSUME NEW n \in Procs, Serve(n) \/ Exit(n) \/ Report(n) PROVE status' = "gone"
  BY <1>1, <1>6 DEF Serve, Exit, Report, row
<1> QED BY <1>2, <1>3, <1>4, <1>5, <1>6, BegunStep DEF Next, OpStep

\* How a step changes the gate.
LEMMA GateStep ==
  ASSUME Types, [Next]_vars
  PROVE  \/ gate' = gate /\ last' = last
         \/ gate # <<>> /\ gate' = Tail(gate) /\ last' = last
         \/ DeleteCompleted
         \/ gate' = <<>> /\ last' = last
         \/ Cycle
         \/ \E c \in Commands : Request(c)
<1>1. CASE BeginStart \/ BeginStop \/ Halt \/ NotReady
  BY <1>1 DEF BeginStart, BeginStop, Halt, NotReady, Goto, history
<1>2. CASE Supersede \/ BeginRestore
  BY <1>2 DEF Supersede, BeginRestore, Release, At
<1>3. CASE Ask \/ Unconfirmed \/ Reap
  BY <1>3 DEF Ask, Unconfirmed, Reap, OpFails, Release, At, Goto
<1>4. CASE StopCompleted
  BY <1>4 DEF StopCompleted, Release, At
<1>5. CASE Spawn \/ BecomeReady
  BY <1>5 DEF Spawn, BecomeReady, OpFails, Release, At, Goto
<1>6. CASE Probe \/ Import
  BY <1>6 DEF Probe, Import, OpFails, Release, At, Goto
<1>7. CASE StopAll \/ Crash
  BY <1>7 DEF StopAll, Crash, Forgotten
<1>8. CASE RetryDue \/ Shutdown \/ Start \/ UNCHANGED vars
  BY <1>8 DEF RetryDue, Shutdown, Start, vars, history
<1>9. ASSUME NEW n \in Procs, Serve(n) \/ Exit(n) \/ Report(n) PROVE gate' = gate /\ last' = last
  BY <1>9 DEF Serve, Exit, Report, history
<1> QED BY <1>1, <1>2, <1>3, <1>4, <1>5, <1>6, <1>7, <1>8, <1>9 DEF Next, OpStep

\* The newest request in the gate is the last one of the user.
LEMMA NewestStep ==
  ASSUME Types, OpOK, GoneOK, NewestOK, [Next]_vars
  PROVE  NewestOK'
<1>1. gate \in Seq(Item)
  BY DEF Types
<1>2. ASSUME NEW g, NEW c, Newest(g, c, status = "gone") PROVE Newest(g, c, status' = "gone")
  BY <1>2, GoneStays DEF Newest
<1>3. CASE gate' = gate /\ last' = last
  BY <1>2, <1>3 DEF NewestOK
<1>4. CASE gate # <<>> /\ gate' = Tail(gate) /\ last' = last
  <2>1. Newest(gate', last, status = "gone")
    BY <1>1, <1>4, ReleaseFacts DEF NewestOK
  <2> QED BY <1>2, <1>4, <2>1 DEF NewestOK
<1>5. CASE DeleteCompleted
  <2>1. gate # <<>> /\ gate' = Invalidated(Tail(gate)) /\ status' = "gone" /\ last' = last
    BY <1>5 DEF DeleteCompleted, At, history
  <2>2. Newest(gate', last, TRUE)
    BY <1>1, <2>1, DropFacts DEF NewestOK
  <2> QED BY <2>1, <2>2 DEF NewestOK, Newest
<1>6. CASE gate' = <<>> /\ last' = last
  BY <1>6 DEF NewestOK, Newest
<1>7. CASE Cycle
  <2>1. Newest(gate', last, status = "gone") /\ last' = last
    BY <1>1, <1>7, AppendRestore DEF NewestOK, Cycle, history
  <2> QED BY <1>2, <2>1 DEF NewestOK
<1>8. ASSUME NEW c \in Commands, Request(c) PROVE NewestOK'
  <2>1. PICK g \in {gate, Invalidated(gate)} : gate' = Append(g, [kind |-> c, valid |-> TRUE])
    BY <1>8 DEF Request
  <2>2. g \in Seq(Item)
    BY <1>1, InvalidatedGate
  <2>3. Newest(gate', c, status' = "gone") /\ last' = c
    BY <1>8, <2>1, <2>2, AppendNewest DEF Request
  <2> QED BY <2>3 DEF NewestOK
<1> QED BY <1>3, <1>4, <1>5, <1>6, <1>7, <1>8, GateStep

-----------------------------------------------------------------------------
(* What the recovery supervisor remembers                                  *)

\* A step that adds to the gate leaves the running operation alone.
LEMMA QueueStep ==
  ASSUME Types, OpOK, Cycle \/ \E c \in Commands : Request(c)
  PROVE  /\ UNCHANGED <<status, known, inc, proc, enrolled, child, ready, op, suppressed, pending, restored, retry, mode>>
         /\ Running => Head1.kind' = Head1.kind
         /\ Cycle => (UserOps' = {} <=> UserOps = {}) /\ UNCHANGED <<last, moot, reported, used>>
         /\ ~Cycle => UserOps' # {}
<1>1. gate \in Seq(Item)
  BY DEF Types
<1>2. [kind |-> "restore", valid |-> TRUE] \in Item /\ \A c \in Commands : [kind |-> c, valid |-> TRUE] \in Item /\ c # "restore"
  BY DEF Item, Commands
<1>3. UNCHANGED <<status, known, inc, proc, enrolled, child, ready, op, suppressed, pending, restored, retry, mode>>
  BY DEF Cycle, Request, row, procs, recovery
<1>4. CASE Cycle
  <2>1. (gate # <<>> => Head1.kind' = Head1.kind) /\ (UserOps' = {} <=> UserOps = {})
    BY <1>1, <1>2, <1>4, AppendFacts DEF Cycle
  <2>2. UNCHANGED <<last, moot, reported, used>>
    BY <1>4 DEF Cycle, history
  <2> QED BY <1>3, <1>4, <2>1, <2>2 DEF OpOK
<1>5. ASSUME NEW c \in Commands, Request(c) PROVE (gate # <<>> => Head1.kind' = Head1.kind) /\ UserOps' # {}
  BY <1>1, <1>2, <1>5, AppendFacts DEF Request
<1> QED BY <1>3, <1>4, <1>5 DEF OpOK

\* Recovery is suppressed only by a stop or a delete, and then nothing starts.
LEMMA SuppressStep ==
  ASSUME Types, OpOK, GoneOK, NewestOK, SuppressOK, [Next]_vars
  PROVE  SuppressOK'
<1>1. op \in OpType /\ gate \in Seq(Item) /\ suppressed \in BOOLEAN /\ ready \in BOOLEAN
  BY DEF Types
<1>2. suppressed' \in BOOLEAN /\ ready' \in BOOLEAN
  BY TypesStep DEF Types
<1>3. ASSUME op' = NoOp, suppressed' = FALSE PROVE SuppressOK'
  BY <1>3, NoOpFields DEF SuppressOK, Running
<1>4. ASSUME OpFails, gate # <<>>, Running PROVE SuppressOK'
  BY <1>1, <1>3, <1>4, FailFields DEF SuppressOK
<1>5. ASSUME Running, Head1.kind \in Starts, suppressed' = suppressed, gate' = gate PROVE SuppressOK'
  <2>1. suppressed' = FALSE
    BY <1>1, <1>5 DEF SuppressOK
  <2> QED BY <1>5, <2>1, SameOp DEF SuppressOK, Starts
<1>6. ASSUME suppressed' = suppressed, gate' = gate, last' = last, op'.pc = op.pc, ready' => ready PROVE SuppressOK'
  BY <1>6, SameOp DEF SuppressOK, Running
<1>7. CASE Cycle \/ \E c \in Commands : Request(c)
  BY <1>7, QueueStep DEF SuppressOK, Running
<1>8. CASE RetryDue \/ Shutdown \/ Start \/ UNCHANGED vars
  BY <1>6, <1>8 DEF RetryDue, Shutdown, Start, vars, procs, recovery, history
<1>9. CASE StopAll \/ Crash
  BY <1>3, <1>9 DEF StopAll, Crash, Forgotten
<1>10. ASSUME NEW n \in Procs, Serve(n) PROVE SuppressOK'
  BY <1>6, <1>10 DEF Serve, recovery, history
<1>11. ASSUME NEW n \in Procs, Exit(n) PROVE SuppressOK'
  <2>1. /\ suppressed' = suppressed /\ gate' = gate /\ last' = last /\ (ready' => ready)
        /\ op' = op \/ op' = [op EXCEPT !.seen = "exit", !.exited = TRUE]
    BY <1>11 DEF Exit, recovery, history
  <2> QED BY <1>1, <1>6, <2>1, SeenFields
<1>12. ASSUME NEW n \in Procs, Report(n) PROVE SuppressOK'
  <2>1. /\ suppressed' = suppressed /\ gate' = gate /\ last' = last /\ ready' = ready
        /\ op' = op \/ op' = [op EXCEPT !.seen = "report"]
    BY <1>12 DEF Report, recovery
  <2> QED BY <1>1, <1>6, <2>1, SeenFields
<1>13. CASE BeginStart
  <2>1. suppressed' = FALSE /\ gate' = gate /\ Head1.kind \notin {"stop", "delete"}
    BY <1>13 DEF BeginStart, At
  <2> QED BY <2>1, SameOp DEF SuppressOK
<1>14. CASE Supersede
  <2>1. gate # <<>> /\ op.pc = "idle" /\ Head1.kind # "restore" /\ (status = "gone" \/ ~Head1.valid)
        /\ Release(TRUE) /\ UNCHANGED <<suppressed, ready, last>>
    BY <1>14 DEF Supersede, At, recovery, procs
  <2>2. op' = NoOp /\ gate' = Tail(gate)
    BY <2>1, ReleaseFields
  <2>3. suppressed => ~ready /\ status # "gone"
    BY <2>1 DEF SuppressOK, GoneOK
  <2>4. UserOps' = {} => status = "gone"
    BY <1>1, <2>1, <2>2, ReleaseFacts, HeadFacts DEF NewestOK
  <2> QED BY <2>1, <2>2, <2>3, <2>4, NoOpFields DEF SuppressOK, Running
<1>15. CASE BeginRestore
  <2>1. gate # <<>> /\ op.pc = "idle" /\ Head1.kind = "restore" /\ UNCHANGED <<suppressed, last>>
    BY <1>15 DEF BeginRestore, At, recovery
  <2>2. CASE mode = "up" /\ Candidate
    <3>1. suppressed = FALSE /\ gate' = gate
      BY <1>1, <1>15, <2>2 DEF BeginRestore, Candidate
    <3> QED BY <2>1, <3>1, SameOp DEF SuppressOK
  <2>3. CASE ~(mode = "up" /\ Candidate)
    <3>1. op' = NoOp /\ gate' = Tail(gate) /\ ready' = ready
      BY <1>15, <2>3, ReleaseFields DEF BeginRestore
    <3>2. UserOps' = {} <=> UserOps = {}
      BY <1>1, <2>1, <3>1, ReleaseFacts
    <3> QED BY <2>1, <3>1, <3>2, NoOpFields DEF SuppressOK, Running
  <2> QED BY <2>2, <2>3
<1>16. CASE BeginStop
  <2>1. /\ gate # <<>> /\ Head1.kind \in {"stop", "delete"} /\ gate' = gate
        /\ op' = [NoOp EXCEPT !.pc = "halt", !.base = status, !.inc = inc] /\ suppressed' = TRUE
    BY <1>16 DEF BeginStop, At
  <2>2. op'.pc = "halt"
    BY <2>1 DEF NoOp
  <2>3. 1 \in UserOps
    BY <1>1, <2>1, HeadFacts
  <2> QED BY <2>1, <2>2, <2>3, SameOp DEF SuppressOK, Starts
<1>17. CASE Halt
  <2>1. /\ gate # <<>> /\ op.pc = "halt" /\ Head1.kind \in {"stop", "delete"} /\ gate' = gate
        /\ SignalChild(op) /\ UNCHANGED <<suppressed, last>>
    BY <1>17 DEF Halt, At, recovery, history
  <2>2. ready' = FALSE
    BY <1>1, <2>1, SignalFields
  <2>3. suppressed
    BY <2>1 DEF SuppressOK, Running
  <2>4. 1 \in UserOps
    BY <1>1, <2>1, HeadFacts
  <2> QED BY <2>1, <2>2, <2>3, <2>4, SameOp DEF SuppressOK, Starts
<1>18. CASE Ask
  <2>1. Running /\ gate # <<>> /\ op.pc = "ask" /\ ~ready /\ UNCHANGED <<ready, last>>
    BY <1>18 DEF Ask, At, OpOK, Running
  <2>2. CASE OpFails
    BY <1>4, <2>1, <2>2
  <2>3. CASE gate' = gate /\ suppressed' = suppressed
    BY <2>1, <2>3, SameOp DEF SuppressOK
  <2> QED BY <1>18, <2>2, <2>3 DEF Ask, Goto, recovery
<1>19. CASE Unconfirmed \/ Reap
  BY <1>4, <1>19, BegunStep DEF Unconfirmed, Reap
<1>20. CASE StopCompleted
  <2>1. /\ gate # <<>> /\ op.pc = "quiesce" /\ Head1.kind = "stop" /\ Release(FALSE)
        /\ status # "gone" /\ ~ready /\ UNCHANGED <<suppressed, ready, last>>
    BY <1>20, BegunStep DEF StopCompleted, At, procs, OpOK
  <2>2. op' = NoOp /\ gate' = Tail(gate)
    BY <2>1, ReleaseFields
  <2>3. UserOps' = {} => last = "stop"
    BY <1>1, <2>1, <2>2, ReleaseFacts, HeadFacts DEF NewestOK
  <2> QED BY <2>1, <2>2, <2>3, NoOpFields DEF SuppressOK, Running
<1>21. CASE DeleteCompleted
  BY <1>3, <1>21 DEF DeleteCompleted
<1>22. CASE Spawn
  <2>1. Running /\ gate # <<>> /\ Head1.kind \in Starts
    BY <1>22, BegunStep DEF Spawn, At
  <2> QED BY <1>4, <1>5, <1>22, <2>1 DEF Spawn, recovery
<1>23. CASE BecomeReady \/ NotReady
  <2>1. Running /\ Head1.kind \in Starts /\ suppressed' = suppressed /\ gate' = gate
    BY <1>23, BegunStep DEF BecomeReady, NotReady, At, recovery, Goto
  <2> QED BY <1>5, <2>1
<1>24. CASE Probe \/ Import
  <2>1. Running /\ gate # <<>> /\ Head1.kind \in Starts
    BY <1>24, BegunStep DEF Probe, Import, At, Starts
  <2>2. suppressed = FALSE
    BY <1>1, <2>1 DEF SuppressOK
  <2>3. CASE OpFails
    BY <1>4, <2>1, <2>3
  <2>4. CASE suppressed' = suppressed /\ (op' = NoOp \/ gate' = gate)
    BY <1>3, <1>5, <2>1, <2>2, <2>4
  <2> QED BY <1>24, <2>3, <2>4 DEF Probe, Import, Release, Goto, recovery
<1> QED
  BY <1>7, <1>8, <1>9, <1>10, <1>11, <1>12, <1>13, <1>14, <1>15, <1>16, <1>17, <1>18, <1>19, <1>20, <1>21,
     <1>22, <1>23, <1>24 DEF Next, OpStep

\* The end of an operation that has begun: when no request is left, it was the last one.
LEMMA EndStep ==
  ASSUME Types, NewestOK, gate # <<>>, status # "gone", gate' = Tail(gate) \/ gate' = Invalidated(Tail(gate)),
         Head1.kind # "restore", UserOps' = {}
  PROVE  UserOps = {1} /\ Head1.kind = last /\ Head1.valid
<1>1. gate \in Seq(Item)
  BY DEF Types
<1>2. UserOps = {1}
  BY <1>1, ReleaseFacts, DropFacts
<1> QED BY <1>1, <1>2, HeadFacts DEF NewestOK

\* After a stop no operation begins.
LEMMA QuelledStep ==
  ASSUME Types, OpOK, GoneOK, NewestOK, SuppressOK, Quelled, [Next]_vars
  PROVE  Quelled'
<1>1. op \in OpType /\ gate \in Seq(Item) /\ suppressed \in BOOLEAN /\ ready \in BOOLEAN /\ moot \in BOOLEAN /\ reported \in BOOLEAN
  BY DEF Types
<1>2. ASSUME UserOps # {} \/ moot \/ last # "stop", gate' = gate, last' = last, moot' = moot PROVE Quelled'
  BY <1>2, SameOp DEF Quelled
<1>3. ASSUME gate # <<>>, Head1.kind # "restore" PROVE UserOps # {}
  BY <1>1, <1>3, HeadFacts
<1>0. ASSUME ~suppressed, reported, ~suppressed', reported' PROVE Quelled'
  BY <1>0 DEF Quelled
<1>4. ASSUME Running PROVE UserOps # {} \/ moot \/ last # "stop" \/ (~suppressed /\ reported)
  BY <1>1, <1>4 DEF Quelled, Running
<1>5. ASSUME OpFails, Running, gate # <<>>, UNCHANGED <<last, reported>> PROVE Quelled'
  <2>1. gate' = Tail(gate) /\ (moot => moot') /\ (Head1.kind # "restore" /\ UserOps = {1} => moot')
    BY <1>5, FailFields
  <2>2. Head1.kind # "restore" /\ UserOps' = {} => UserOps = {1}
    BY <1>1, <1>5, <2>1, ReleaseFacts
  <2>3. Head1.kind = "restore" => (UserOps' = {} <=> UserOps = {})
    BY <1>1, <1>5, <2>1, ReleaseFacts
  <2>4. ~suppressed => ~suppressed'
    BY <1>1, <1>5, FailFields
  <2>5. CASE ~suppressed /\ reported
    BY <1>0, <1>5, <2>4, <2>5
  <2>6. CASE UserOps # {} \/ moot \/ last # "stop"
    BY <1>5, <2>1, <2>2, <2>3, <2>6 DEF Quelled
  <2> QED BY <1>4, <1>5, <2>5, <2>6
<1>6. CASE Cycle \/ \E c \in Commands : Request(c)
  <2>1. UNCHANGED <<status, child, op, suppressed>>
    BY <1>6, QueueStep
  <2>2. CASE Cycle
    BY <2>1, <2>2, QueueStep DEF Quelled
  <2>3. CASE ~Cycle
    BY <1>6, <2>3, QueueStep DEF Quelled
  <2> QED BY <2>2, <2>3
<1>7. CASE RetryDue \/ Shutdown \/ Start \/ UNCHANGED vars
  <2>1. UNCHANGED <<status, gate, op, child, suppressed, last, moot, reported>>
    BY <1>7 DEF RetryDue, Shutdown, Start, vars, row, procs, recovery, history
  <2> QED BY <2>1, SameOp DEF Quelled
<1>8. CASE StopAll \/ Crash
  BY <1>8, NoOpFields DEF StopAll, Crash, Forgotten, Unknowable, Quelled, row
<1>9. ASSUME NEW n \in Procs, Serve(n) PROVE Quelled'
  <2>1. UNCHANGED <<status, gate, op, child, suppressed, last, moot, reported>>
    BY <1>9 DEF Serve, row, recovery, history
  <2> QED BY <2>1, SameOp DEF Quelled
<1>10. ASSUME NEW n \in Procs, Exit(n) PROVE Quelled'
  <2>1. /\ UNCHANGED <<gate, last, moot, reported>> /\ (child = 0 => UNCHANGED <<status, op, child>>)
        /\ suppressed' = suppressed
    BY <1>10, InstanceAssumption DEF Exit, recovery, history
  <2> QED BY <2>1, SameOp DEF Quelled
<1>11. ASSUME NEW n \in Procs, Report(n) PROVE Quelled'
  <2>1. /\ UNCHANGED <<gate, last, child, suppressed>>
        /\ moot' = moot /\ (reported => reported') /\ (last = "stop" /\ UserOps = {} => reported')
        /\ op.pc = "idle" => op' = op
    BY <1>11 DEF Report, recovery
  <2> QED BY <2>1, SameOp DEF Quelled
<1>12. CASE BeginStart \/ BeginStop \/ Halt
  <2>1. gate # <<>> /\ Head1.kind # "restore" /\ UNCHANGED <<gate, last, moot>>
    BY <1>12 DEF BeginStart, BeginStop, Halt, At, history
  <2> QED BY <1>2, <1>3, <2>1
<1>13. CASE Supersede
  <2>1. gate # <<>> /\ Head1.kind # "restore" /\ Release(TRUE)
    BY <1>13 DEF Supersede, At
  <2>2. gate' = Tail(gate) /\ (UserOps = {1} => moot')
    BY <2>1, ReleaseFields
  <2>3. UserOps' = {} => UserOps = {1}
    BY <1>1, <2>1, <2>2, ReleaseFacts
  <2> QED BY <2>2, <2>3 DEF Quelled
<1>14. CASE BeginRestore
  <2>1. gate # <<>> /\ op.pc = "idle" /\ Head1.kind = "restore" /\ UNCHANGED <<suppressed, last, reported>>
    BY <1>14 DEF BeginRestore, At, recovery
  <2>2. CASE mode = "up" /\ Candidate
    <3>1. ~suppressed /\ status # "stopped" /\ UNCHANGED <<gate, moot, reported>>
      BY <1>14, <2>2 DEF BeginRestore, Candidate, Restorable
    <3>2. CASE reported
      BY <1>0, <2>1, <3>1, <3>2
    <3>3. CASE ~reported
      BY <1>2, <2>1, <3>1, <3>3 DEF Quelled
    <3> QED BY <3>2, <3>3
  <2>3. CASE ~(mode = "up" /\ Candidate)
    <3>1. op' = NoOp /\ gate' = Tail(gate) /\ moot' = moot /\ UNCHANGED <<child, status>>
      BY <1>14, <2>3, ReleaseFields DEF BeginRestore
    <3>2. UserOps' = {} <=> UserOps = {}
      BY <1>1, <2>1, <3>1, ReleaseFacts
    <3> QED BY <2>1, <3>1, <3>2, NoOpFields DEF Quelled
  <2> QED BY <2>2, <2>3
<1>15. CASE Ask \/ Spawn \/ Unconfirmed \/ Reap
  <2>1. Running /\ gate # <<>> /\ UNCHANGED <<last, reported>>
    BY <1>15, BegunStep DEF Ask, Spawn, Unconfirmed, Reap
  <2>2. OpFails \/ UNCHANGED <<gate, moot, suppressed>>
    BY <1>15 DEF Ask, Spawn, Unconfirmed, Reap, Goto, recovery
  <2> QED BY <1>0, <1>2, <1>4, <1>5, <2>1, <2>2
<1>16. CASE StopCompleted
  <2>1. /\ Running /\ gate # <<>> /\ op.pc = "quiesce" /\ Head1.kind = "stop" /\ op' = NoOp
        /\ UNCHANGED <<suppressed, child>> /\ child = 0
    BY <1>16, BegunStep DEF StopCompleted, At, procs, OpOK, Release
  <2>2. status' = "stopped"
    BY <1>16 DEF StopCompleted
  <2> QED BY <2>1, <2>2, NoOpFields DEF Quelled
<1>17. CASE DeleteCompleted
  <2>1. /\ gate # <<>> /\ status # "gone" /\ Head1.kind = "delete" /\ gate' = Invalidated(Tail(gate)) /\ last' = last
    BY <1>17, BegunStep DEF DeleteCompleted, At, history
  <2>2. UserOps' = {} => last # "stop"
    BY <2>1, EndStep
  <2> QED BY <2>1, <2>2 DEF Quelled
<1>18. CASE BecomeReady \/ NotReady
  <2>1. Running /\ UNCHANGED <<gate, moot, last, reported, suppressed>>
    BY <1>18, BegunStep DEF BecomeReady, NotReady, Goto, recovery
  <2> QED BY <1>0, <1>2, <1>4, <2>1
<1>19. ASSUME Running, gate # <<>>, status # "gone", Head1.kind \in Starts, gate' = Tail(gate),
              UNCHANGED <<last, reported>>, moot => moot', suppressed' => suppressed
       PROVE  Quelled'
  <2>1. Head1.kind # "restore" /\ UserOps' = {} => last # "stop"
    BY <1>19, EndStep DEF Starts
  <2>2. Head1.kind = "restore" => (UserOps' = {} <=> UserOps = {})
    BY <1>1, <1>19, ReleaseFacts
  <2>3. CASE ~suppressed /\ reported
    BY <1>0, <1>19, <2>3
  <2>4. CASE UserOps # {} \/ moot \/ last # "stop"
    BY <1>19, <2>1, <2>2, <2>4 DEF Quelled
  <2> QED BY <1>4, <1>19, <2>3, <2>4
<1>20. CASE Probe \/ Import
  <2>1. Running /\ gate # <<>> /\ status # "gone" /\ Head1.kind \in Starts /\ UNCHANGED <<last, reported>>
    BY <1>20, BegunStep DEF Probe, Import, At, Starts
  <2>2. \/ gate' = Tail(gate) /\ (moot => moot') /\ (suppressed' => suppressed)
        \/ UNCHANGED <<gate, moot, suppressed>>
    BY <1>20 DEF Probe, Import, OpFails, Release, Goto, recovery, AllowRecovery
  <2> QED BY <1>0, <1>2, <1>4, <1>19, <2>1, <2>2
<1> QED
  BY <1>6, <1>7, <1>8, <1>9, <1>10, <1>11, <1>12, <1>13, <1>14, <1>15, <1>16, <1>17, <1>18, <1>20
  DEF Next, OpStep

\* A start leaves the row in a state recovery looks after.
LEMMA StartsStep ==
  ASSUME Types, OpOK, GoneOK, StartsOK, [Next]_vars
  PROVE  StartsOK'
<1>1. op \in OpType /\ gate \in Seq(Item)
  BY DEF Types
<1>2. {"starting", "registering", "registered", "running", "failed"} \subseteq Good
  BY DEF Good, Restorable
<1>3. CASE op' = NoOp \/ status' \in Good
  BY <1>3, NoOpFields DEF StartsOK, Running
<1>4. ASSUME gate' = gate, status' = status, op'.pc # "import", op'.seen = op.seen, Running PROVE StartsOK'
  BY <1>4, SameOp DEF StartsOK
<1>5. CASE Cycle \/ \E c \in Commands : Request(c)
  BY <1>5, QueueStep DEF StartsOK, Running
<1>6. CASE RetryDue \/ Shutdown \/ Start \/ UNCHANGED vars
  <2>1. UNCHANGED <<status, gate, op>>
    BY <1>6 DEF RetryDue, Shutdown, Start, vars, row
  <2> QED BY <2>1, SameOp DEF StartsOK, Running
<1>7. CASE StopAll \/ Crash
  BY <1>3, <1>7 DEF StopAll, Crash, Forgotten
<1>8. ASSUME NEW n \in Procs, Serve(n) \/ Exit(n) \/ Report(n) PROVE StartsOK'
  <2>1. CASE UNCHANGED <<status, gate, op>>
    BY <2>1, SameOp DEF StartsOK, Running
  <2>2. CASE status' \in {"failed", "running", "registered"}
    BY <1>2, <1>3, <2>2
  <2> QED BY <1>8, <2>1, <2>2 DEF Serve, Exit, Report, ApplyExit, row
<1>9. CASE BeginStart
  <2>1. CASE Head1.kind = "start"
    BY <1>2, <1>3, <1>9, <2>1 DEF BeginStart
  <2>2. CASE Head1.kind # "start"
    <3>1. Head1.kind = "restart" /\ SignalChild(NoOp) /\ gate' = gate
      BY <1>9, <2>2 DEF BeginStart, At
    <3>2. op'.pc # "import" /\ op'.seen = "none"
      BY <3>1, SignalFields, NoOpFields
    <3> QED BY <3>1, <3>2, SameOp DEF StartsOK
  <2> QED BY <2>1, <2>2
<1>10. CASE Supersede \/ BeginRestore
  BY <1>2, <1>3, <1>10 DEF Supersede, BeginRestore, Release
<1>11. CASE BeginStop \/ Halt
  <2>1. Head1.kind \in {"stop", "delete"} /\ gate' = gate
    BY <1>11 DEF BeginStop, Halt, At
  <2> QED BY <2>1, SameOp DEF StartsOK, Starts
<1>12. CASE Ask \/ Spawn
  <2>1. Running
    BY <1>12, BegunStep
  <2>2. CASE OpFails
    BY <1>3, <2>2 DEF OpFails, Release
  <2>3. CASE Goto("quiesce") /\ UNCHANGED row
    BY <1>1, <1>4, <2>1, <2>3, GotoFields DEF row
  <2>4. ASSUME NEW n, op' = [op EXCEPT !.pc = "quiesce", !.aim = n, !.asked = (n = known)] \/ op' = [op EXCEPT !.pc = "boot", !.aim = n, !.asked = FALSE],
               UNCHANGED <<row, gate>>
        PROVE  StartsOK'
    <3>1. op'.pc # "import" /\ op'.seen = op.seen
      BY <1>1, <2>4 DEF OpType
    <3> QED BY <1>4, <2>1, <2>4, <3>1 DEF row
  <2>5. CASE Ask
    BY <2>2, <2>3, <2>4, <2>5 DEF Ask
  <2>6. CASE Spawn
    <3> HIDE DEF Unused
    <3> QED BY <2>2, <2>4, <2>6 DEF Spawn
  <2> QED BY <1>12, <2>5, <2>6
<1>13. CASE Unconfirmed \/ Reap \/ StopCompleted \/ DeleteCompleted \/ Import
  <2>1. op' = NoOp
    BY <1>13 DEF Unconfirmed, Reap, StopCompleted, DeleteCompleted, Import, OpFails, Release
  <2> QED BY <1>3, <2>1
<1>14. CASE BecomeReady
  <2>1. Running /\ op.pc = "boot" /\ Head1.kind \in Starts
    BY <1>14, BegunStep DEF BecomeReady, At
  <2>2. CASE Head1.kind = "restart"
    <3>1. status' = (IF (op.seen # "none" /\ status \in Ended) \/ op.seen = "report" THEN status ELSE "registering")
      BY <1>14, <2>2 DEF BecomeReady, Complete, CompletedStatus
    <3>2. op.seen # "none" => status \in Good
      BY <2>1 DEF StartsOK
    <3> QED BY <1>2, <1>3, <3>1, <3>2
  <2>3. CASE Head1.kind # "restart"
    BY <1>1, <1>4, <1>14, <2>1, <2>3, GotoFields DEF BecomeReady, row
  <2> QED BY <2>2, <2>3
<1>15. CASE NotReady
  BY <1>1, <1>4, <1>15, BegunStep, GotoFields DEF NotReady, row
<1>16. CASE Probe
  <2>1. status \in Good /\ status' \in {status, "registering"}
    BY <1>16, BegunStep DEF Probe, At, Complete, CompletedStatus, StartsOK, Starts
  <2> QED BY <1>2, <1>3, <2>1
<1> QED
  BY <1>5, <1>6, <1>7, <1>8, <1>9, <1>10, <1>11, <1>12, <1>13, <1>14, <1>15, <1>16 DEF Next, OpStep

-----------------------------------------------------------------------------
(* The last request, and what recovery believes to run                     *)

\* A stop or delete that completes leaves no process.
LEMMA QuietIsDead ==
  ASSUME Types, OpOK, Owned, Clean, op.pc = "quiesce", Quiet
  PROVE  \A n \in Procs : proc[n] \in {"new", "dead"}
<1>1. used.crashes = 0 /\ used.faults = 0
  BY DEF Clean, Types, Counters
<1>2. child = 0 /\ 0 \notin Procs
  BY InstanceAssumption DEF OpOK
<1> QED BY <1>1, <1>2 DEF Owned, Quiet, Alive, Types

\* An operation that fails leaves what the last request asked for alone, or was it.
LEMMA FailEnds ==
  ASSUME Types, gate # <<>>, OpFails, UserOps' = {}, ~moot'
  PROVE  /\ Head1.kind = "restore" /\ UserOps = {} /\ ~moot
         /\ status' \in {status, "failed"} /\ UNCHANGED <<suppressed, restored>>
<1>1. gate \in Seq(Item)
  BY DEF Types
<1>2. /\ gate' = Tail(gate) /\ ~moot /\ ~(Head1.kind # "restore" /\ UserOps = {1})
      /\ Head1.kind \in Starts => UNCHANGED <<suppressed, restored>> /\ status' \in {status, "failed"}
  BY FailFields
<1>3. Head1.kind = "restore" /\ UserOps = {}
  BY <1>1, <1>2, ReleaseFacts
<1> QED BY <1>2, <1>3 DEF Starts

\* What the last request asked for stays so until the next one.
LEMMA LastStep ==
  ASSUME Types, OpOK, Owned, GoneOK, NewestOK, SuppressOK, StartsOK, LastOK, [Next]_vars
  PROVE  LastOK'
<1> DEFINE Dead == \A n \in Procs : proc[n] \in {"new", "dead"}
           Right == /\ last = "stop" => status = "stopped" /\ Dead
                    /\ last = "delete" => status = "gone" /\ Dead
                    /\ last \in {"start", "restart"} => status \in Good
<1>1. SUFFICES ASSUME UserOps' = {}, ~moot', Clean' PROVE Right'
  BY DEF LastOK
<1>2. op \in OpType /\ gate \in Seq(Item) /\ moot \in BOOLEAN /\ used \in Counters /\ Clean
  BY <1>1, CountersTyped DEF Types
<1>3. UserOps = {} /\ ~moot => Right
  BY <1>2 DEF LastOK
<1>4. {"starting", "registering", "registered", "running", "failed"} \subseteq Good
  BY DEF Good, Restorable
<1>5. ASSUME gate # <<>>, Head1.kind # "restore" PROVE UserOps # {}
  BY <1>2, <1>5, HeadFacts
<1>6. ASSUME Running, status # "gone", UserOps = {}, ~moot PROVE last \notin {"stop", "delete"}
  <2>1. gate # <<>> /\ Head1.kind = "restore"
    BY <1>5, <1>6 DEF OpOK
  <2>2. status \in Good
    BY <1>6, <2>1 DEF StartsOK, Starts
  <2> QED BY <1>3, <1>6, <2>2 DEF Good, Restorable
<1>7. ASSUME Running, status # "gone", UserOps = {}, ~moot, last' = last, status' \in Good \/ status' = status
      PROVE  Right'
  BY <1>3, <1>4, <1>6, <1>7
<1>8. ASSUME UserOps = {}, ~moot, UNCHANGED <<status, proc, last>> PROVE Right'
  BY <1>3, <1>8
<1>9. ASSUME OpFails, Running, status # "gone", gate # <<>>, last' = last PROVE Right'
  <2>1. UserOps = {} /\ ~moot /\ status' \in {status, "failed"}
    BY <1>1, <1>9, FailEnds
  <2> QED BY <1>4, <1>7, <1>9, <2>1
<1>10. CASE Cycle \/ \E c \in Commands : Request(c)
  BY <1>1, <1>8, <1>10, QueueStep
<1>11. CASE RetryDue \/ Shutdown \/ Start \/ UNCHANGED vars
  <2>1. UNCHANGED <<status, gate, proc, last, moot>>
    BY <1>11 DEF RetryDue, Shutdown, Start, vars, row, procs, history
  <2> QED BY <1>1, <1>8, <2>1, SameOp
<1>12. CASE StopAll \/ Crash
  <2>1. used' = [used EXCEPT !.crashes = @ + 1]
    BY <1>12 DEF StopAll, Crash, Forgotten
  <2>2. used'.late \in Nat /\ used'.faults \in Nat /\ used'.crashes \in Nat /\ used'.crashes > 0
    BY <1>2, <2>1 DEF Counters
  <2> QED BY <1>1, <2>2 DEF Clean
<1>13. ASSUME NEW n \in Procs, Serve(n) \/ Exit(n) \/ Report(n) PROVE Right'
  <2>1. UNCHANGED <<gate, last>> /\ (~moot' => ~moot) /\ (status' \in {status, "failed", "running", "registered"})
    <3>1. CASE Serve(n)
      BY <3>1 DEF Serve, row, history
    <3>2. CASE Exit(n)
      BY <3>2 DEF Exit, ApplyExit, history
    <3>3. CASE Report(n)
      BY <3>3 DEF Report
    <3> QED BY <1>13, <3>1, <3>2, <3>3
  <2>2. proc[n] \notin {"new", "dead"}
    <3>1. CASE Serve(n) \/ Exit(n)
      BY <3>1 DEF Serve, Exit, Alive
    <3>2. CASE Report(n)
      <4>1. proc[n] \in {"serving", "dying"} \/ used' = [used EXCEPT !.late = @ + 1]
        BY <3>2 DEF Report
      <4>2. ASSUME used' = [used EXCEPT !.late = @ + 1] PROVE FALSE
        <5>1. used'.late \in Nat /\ used'.faults \in Nat /\ used'.crashes \in Nat /\ used'.late > 0
          BY <1>2, <4>2 DEF Counters
        <5> QED BY <1>1, <5>1 DEF Clean
      <4> QED BY <4>1, <4>2
    <3> QED BY <1>13, <3>1, <3>2
  <2>3. Right /\ last \notin {"stop", "delete"}
    BY <1>1, <1>3, <2>1, <2>2, SameOp
  <2> QED BY <1>4, <2>1, <2>3
<1>14. CASE BeginStart \/ BeginStop \/ Halt
  <2>1. gate # <<>> /\ Head1.kind # "restore" /\ gate' = gate
    BY <1>14 DEF BeginStart, BeginStop, Halt, At
  <2> QED BY <1>1, <1>5, <2>1, SameOp
<1>15. CASE Supersede
  <2>1. gate # <<>> /\ Head1.kind # "restore" /\ Release(TRUE)
    BY <1>15 DEF Supersede, At
  <2>2. gate' = Tail(gate) /\ UserOps # {1}
    BY <1>1, <2>1, ReleaseFields
  <2> QED BY <1>1, <1>2, <2>1, <2>2, ReleaseFacts
<1>16. CASE BeginRestore
  <2>1. gate # <<>> /\ op.pc = "idle" /\ Head1.kind = "restore" /\ last' = last
    BY <1>16 DEF BeginRestore, At
  <2>2. CASE mode = "up" /\ Candidate
    <3>1. UNCHANGED <<gate, moot>> /\ status' = "starting" /\ status \notin {"stopped", "gone"}
      BY <1>16, <2>2 DEF BeginRestore, Candidate, Restorable
    <3>2. Right
      BY <1>1, <1>3, <3>1, SameOp
    <3> QED BY <1>4, <2>1, <3>1, <3>2
  <2>3. CASE ~(mode = "up" /\ Candidate)
    <3>1. gate' = Tail(gate) /\ moot' = moot /\ UNCHANGED <<proc, status>>
      BY <1>16, <2>3, ReleaseFields DEF BeginRestore
    <3>2. UserOps = {}
      BY <1>1, <1>2, <2>1, <3>1, ReleaseFacts
    <3> QED BY <1>1, <1>8, <2>1, <3>1, <3>2
  <2> QED BY <2>2, <2>3
<1>17. CASE Ask \/ Spawn \/ Unconfirmed \/ Reap
  <2>1. Running /\ gate # <<>> /\ status # "gone" /\ last' = last
    BY <1>17, BegunStep DEF Ask, Spawn, Unconfirmed, Reap
  <2>2. OpFails \/ UNCHANGED <<gate, moot, status>>
    BY <1>17 DEF Ask, Spawn, Unconfirmed, Reap, Goto, row
  <2> QED BY <1>1, <1>7, <1>9, <2>1, <2>2, SameOp
<1>18. CASE StopCompleted
  <2>1. /\ gate # <<>> /\ status # "gone" /\ Head1.kind = "stop" /\ gate' = Tail(gate) /\ last' = last
        /\ op.pc = "quiesce" /\ Quiet /\ proc' = proc /\ status' = "stopped"
    BY <1>18, BegunStep DEF StopCompleted, At, procs, Release
  <2>2. last = "stop"
    BY <1>1, <2>1, EndStep
  <2> QED BY <1>2, <2>1, <2>2, QuietIsDead
<1>19. CASE DeleteCompleted
  <2>1. /\ gate # <<>> /\ status # "gone" /\ Head1.kind = "delete" /\ gate' = Invalidated(Tail(gate)) /\ last' = last
        /\ op.pc = "quiesce" /\ Quiet /\ proc' = proc /\ status' = "gone"
    BY <1>19, BegunStep DEF DeleteCompleted, At, procs, history
  <2>2. last = "delete"
    BY <1>1, <2>1, EndStep
  <2> QED BY <1>2, <2>1, <2>2, QuietIsDead
<1>20. CASE BecomeReady \/ NotReady
  <2>1. Running /\ status # "gone" /\ UNCHANGED <<gate, moot, last>> /\ status' \in {status, "registering"}
    BY <1>20, BegunStep DEF BecomeReady, NotReady, Goto, Complete, CompletedStatus, row
  <2> QED BY <1>1, <1>4, <1>7, <2>1, SameOp
<1>21. CASE Probe
  <2>1. Running /\ gate # <<>> /\ status # "gone" /\ last' = last /\ status' \in {status, "registering"}
    BY <1>21, BegunStep DEF Probe, Complete, CompletedStatus
  <2>2. CASE Head1.kind = "start" /\ ~Head1.valid
    <3>1. gate' = Tail(gate)
      BY <1>21, <2>2 DEF Probe, Release
    <3> QED BY <1>1, <2>1, <2>2, <3>1, EndStep
  <2>3. CASE ~(Head1.kind = "start" /\ ~Head1.valid)
    BY <1>1, <1>4, <1>7, <1>21, <2>1, <2>3, SameOp DEF Probe, Goto
  <2> QED BY <2>2, <2>3
<1>22. CASE Import
  <2>1. Running /\ op.pc = "import" /\ gate # <<>> /\ status # "gone" /\ last' = last /\ Head1.kind \in Starts
    BY <1>22, BegunStep DEF Import, At
  <2>2. CASE OpFails
    BY <1>9, <2>1, <2>2
  <2>3. CASE gate' = Tail(gate) /\ status' = status /\ Head1.kind # "restore"
    <3>1. last = Head1.kind
      BY <1>1, <2>1, <2>3, EndStep
    <3>2. status \in Good
      BY <2>1 DEF StartsOK
    <3> QED BY <2>1, <2>3, <3>1, <3>2 DEF Starts
  <2>4. CASE gate' = Tail(gate) /\ status' = status /\ Head1.kind = "restore" /\ (moot => moot')
    <3>1. UserOps = {}
      BY <1>1, <1>2, <2>1, <2>4, ReleaseFacts
    <3> QED BY <1>1, <1>7, <2>1, <2>4, <3>1
  <2> QED BY <1>22, <2>2, <2>3, <2>4 DEF Import, Release
<1> QED
  BY <1>10, <1>11, <1>12, <1>13, <1>14, <1>15, <1>16, <1>17, <1>18, <1>19, <1>20, <1>21, <1>22 DEF Next, OpStep

\* restoredInstances: while a restore runs the instance is not in it.
LEMMA RestoringStep ==
  ASSUME Types, OpOK, RestoredOK, [Next]_vars
  PROVE  Running' /\ Head1.kind' = "restore" => ~restored'
<1>1. op \in OpType /\ gate \in Seq(Item) /\ restored \in BOOLEAN
  BY DEF Types
<1>2. SUFFICES ASSUME Running', Head1.kind' = "restore" PROVE ~restored'
  OBVIOUS
<1>3. op' # NoOp
  BY <1>2, NoOpFields DEF Running
<1>4. ASSUME Running, gate' = gate, restored' => restored PROVE ~restored'
  BY <1>2, <1>4, SameOp DEF RestoredOK
<1>5. CASE Cycle \/ \E c \in Commands : Request(c)
  <2>1. UNCHANGED <<op, restored>> /\ (Running => Head1.kind' = Head1.kind)
    BY <1>5, QueueStep
  <2> QED BY <1>2, <2>1 DEF RestoredOK, Running
<1>6. CASE RetryDue \/ Shutdown \/ Start \/ UNCHANGED vars
  <2>1. UNCHANGED <<op, gate, restored>>
    BY <1>6 DEF RetryDue, Shutdown, Start, vars, recovery
  <2> QED BY <1>2, <1>4, <2>1 DEF Running
<1>7. CASE StopAll \/ Crash
  BY <1>3, <1>7 DEF StopAll, Crash, Forgotten
<1>8. ASSUME NEW n \in Procs, Serve(n) \/ Exit(n) \/ Report(n) PROVE ~restored'
  <2>1. gate' = gate /\ (restored' => restored) /\ (op.pc = "idle" => op' = op)
    BY <1>8 DEF Serve, Exit, Report, ApplyExit, recovery
  <2> QED BY <1>2, <1>4, <2>1 DEF Running
<1>9. CASE BeginStart \/ BeginStop \/ Halt
  <2>1. gate' = gate /\ Head1.kind # "restore"
    BY <1>9 DEF BeginStart, BeginStop, Halt, At
  <2> QED BY <1>2, <2>1, SameOp
<1>10. CASE BeginRestore
  BY <1>3, <1>10 DEF BeginRestore, Candidate, Release, recovery
<1>11. CASE Supersede \/ Unconfirmed \/ StopCompleted \/ DeleteCompleted \/ Reap \/ Import
  BY <1>3, <1>11 DEF Supersede, Unconfirmed, StopCompleted, DeleteCompleted, Reap, Import, OpFails, Release
<1>12. CASE Ask \/ Spawn
  <2>1. Running /\ gate' = gate /\ restored' = restored
    BY <1>3, <1>12, BegunStep DEF Ask, Spawn, OpFails, Release, Goto, recovery
  <2> QED BY <1>4, <2>1
<1>13. CASE BecomeReady \/ NotReady \/ Probe
  <2>1. Running /\ gate' = gate
    BY <1>3, <1>13, BegunStep DEF BecomeReady, NotReady, Probe, Release, Goto
  <2>2. Head1.kind = "restore"
    BY <1>2, <2>1, SameOp
  <2>3. restored' = restored
    BY <1>3, <1>13, <2>2 DEF BecomeReady, NotReady, Probe, Release, recovery
  <2> QED BY <1>4, <2>1, <2>3
<1> QED
  BY <1>5, <1>6, <1>7, <1>8, <1>9, <1>10, <1>11, <1>12, <1>13 DEF Next, OpStep

\* A start whose process has exited since it was ready knows of it.
LEMMA NoticedStep ==
  ASSUME Types, OpOK, Owned, SuppressOK, RestoredOK, [Next]_vars,
         mode' = "up", Clean', op'.pc \in {"probe", "import"}, ~ready'
  PROVE  /\ child' = 0 /\ ~restored' /\ op'.exited
         /\ op'.pc = "probe" => status' = "failed" /\ op'.seen = "exit"
<1> DEFINE Noticed == /\ child = 0 /\ ~restored /\ op.exited
                      /\ op.pc = "probe" => status = "failed" /\ op.seen = "exit"
<1>1. op \in OpType /\ gate \in Seq(Item) /\ restored \in BOOLEAN /\ ready \in BOOLEAN /\ Clean /\ used \in Counters
  BY CountersTyped DEF Types
<1>2. mode = "up" /\ op.pc \in {"probe", "import"} /\ ~ready => Noticed
  BY <1>1 DEF RestoredOK
<1>3. op' # NoOp
  BY NoOpFields
<1>4. ASSUME UNCHANGED <<op, child, ready, restored, status>>, mode = "up" PROVE Noticed'
  BY <1>2, <1>4
<1>5. CASE Cycle \/ \E c \in Commands : Request(c)
  BY <1>4, <1>5, QueueStep
<1>6. CASE RetryDue \/ UNCHANGED vars
  BY <1>4, <1>6 DEF RetryDue, vars, row, procs
<1>7. CASE Shutdown \/ Start
  BY <1>7 DEF Shutdown, Start, OpOK
<1>8. CASE StopAll \/ Crash
  BY <1>3, <1>8 DEF StopAll, Crash, Forgotten
<1>9. ASSUME NEW n \in Procs, Serve(n) PROVE Noticed'
  BY <1>4, <1>9 DEF Serve, row, recovery
<1>10. ASSUME NEW n \in Procs, Exit(n) PROVE Noticed'
  <2>1. mode = "up" /\ (op' = op \/ op' = [op EXCEPT !.seen = "exit", !.exited = TRUE])
    BY <1>10 DEF Exit
  <2>2. op.pc \in {"probe", "import"}
    BY <1>1, <2>1, SeenFields
  <2>3. CASE ready /\ child = n
    <3>1. Head1.kind \in Starts /\ ~suppressed
      BY <2>2 DEF OpOK, SuppressOK, Running
    <3>2. child' = 0 /\ status' = "failed" /\ ~restored' /\ op' = [op EXCEPT !.seen = "exit", !.exited = TRUE]
      BY <1>10, <2>1, <2>2, <2>3, <3>1 DEF Exit, ApplyExit
    <3>3. op'.exited = TRUE /\ op'.seen = "exit"
      BY <1>1, <3>2 DEF OpType
    <3> QED BY <3>2, <3>3
  <2>4. CASE ~(ready /\ child = n)
    <3>1. UNCHANGED <<op, restored, status>>
      BY <1>10, <2>4 DEF Exit, recovery
    <3>2. ~ready /\ Noticed
      BY <1>2, <1>10, <2>1, <2>2, <2>4 DEF Exit
    <3>3. child' = 0
      BY <1>10, <3>2 DEF Exit
    <3> QED BY <3>1, <3>2, <3>3
  <2> QED BY <2>3, <2>4
<1>11. ASSUME NEW n \in Procs, Report(n) PROVE Noticed'
  <2>1. mode = "up" /\ ready' = ready /\ (op' = op \/ op' = [op EXCEPT !.seen = "report"])
    BY <1>11 DEF Report
  <2>2. op.pc \in {"probe", "import"}
    BY <1>1, <2>1, SeenFields
  <2>3. child = 0
    BY <1>2, <2>1, <2>2
  <2>4. ASSUME used' = [used EXCEPT !.late = @ + 1] PROVE FALSE
    <3>1. used'.late \in Nat /\ used'.faults \in Nat /\ used'.crashes \in Nat /\ used'.late > 0
      BY <1>1, <2>4 DEF Counters
    <3> QED BY <3>1 DEF Clean
  <2>5. proc[n] \in {"serving", "dying"}
    BY <1>11, <2>4 DEF Report
  <2>6. used.crashes = 0 /\ used.faults = 0
    BY <1>1 DEF Clean, Counters
  <2>7. n = child
    BY <2>2, <2>5, <2>6 DEF Owned
  <2> QED BY <2>3, <2>7, InstanceAssumption
<1>12. CASE BeginStart \/ Halt \/ BeginRestore
  <2>1. SignalChild(NoOp) \/ SignalChild(op)
    BY <1>3, <1>12 DEF BeginStart, Halt, BeginRestore, Release
  <2> QED BY <1>1, <2>1, SignalFields, NoOpFields
<1>13. CASE BeginStop
  BY <1>13 DEF BeginStop, NoOp
<1>14. CASE Supersede \/ Unconfirmed \/ StopCompleted \/ DeleteCompleted \/ Reap \/ Import
  BY <1>3, <1>14 DEF Supersede, Unconfirmed, StopCompleted, DeleteCompleted, Reap, Import, OpFails, Release
<1>15. CASE Ask \/ Spawn \/ NotReady
  <2>1. \/ Goto("quiesce") \/ Goto("reap")
        \/ \E n : op' = [op EXCEPT !.pc = "quiesce", !.aim = n, !.asked = (n = known)] \/ op' = [op EXCEPT !.pc = "boot", !.aim = n, !.asked = FALSE]
    <3> HIDE DEF Unused
    <3> QED BY <1>3, <1>15 DEF Ask, Spawn, NotReady, OpFails, Release
  <2>2. ASSUME NEW n, op' = [op EXCEPT !.pc = "quiesce", !.aim = n, !.asked = (n = known)] \/ op' = [op EXCEPT !.pc = "boot", !.aim = n, !.asked = FALSE]
        PROVE  op'.pc \in {"quiesce", "boot"}
    BY <1>1, <2>2 DEF OpType
  <2>3. ASSUME Goto("quiesce") \/ Goto("reap") PROVE op'.pc \in {"quiesce", "reap"}
    BY <1>1, <2>3, GotoFields
  <2> QED BY <2>1, <2>2, <2>3
<1>16. CASE BecomeReady
  BY <1>16 DEF BecomeReady
<1>17. CASE Probe
  <2>1. op.pc = "probe" /\ UNCHANGED <<child, ready, mode>> /\ Goto("import")
    BY <1>3, <1>17 DEF Probe, At, procs, Release
  <2>2. Noticed /\ status = "failed" /\ op.seen = "exit"
    BY <1>2, <2>1
  <2>3. CompletedStatus = "failed"
    BY <2>2 DEF CompletedStatus, Ended
  <2>4. ~restored'
    BY <1>3, <1>17, <2>2, <2>3 DEF Probe, MarkRestored, Recoverable, Release
  <2>5. op'.pc = "import" /\ op'.exited = op.exited
    BY <1>1, <2>1, GotoFields
  <2> QED BY <2>1, <2>2, <2>4, <2>5
<1> QED
  BY <1>5, <1>6, <1>7, <1>8, <1>9, <1>10, <1>11, <1>12, <1>13, <1>14, <1>15, <1>16, <1>17 DEF Next, OpStep

\* An instance in restoredInstances has a process whose exit will be noticed.
LEMMA RestoredRunsStep ==
  ASSUME Types, OpOK, NewestOK, SuppressOK, RestoredOK, [Next]_vars,
         mode' = "up", Clean', ~moot', UserOps' = {}, restored'
  PROVE  ready'
<1>1. op \in OpType /\ gate \in Seq(Item) /\ restored \in BOOLEAN /\ ready \in BOOLEAN /\ Clean /\ moot \in BOOLEAN
  BY CountersTyped DEF Types
<1>2. mode = "up" /\ ~moot /\ UserOps = {} /\ restored => ready
  BY <1>1 DEF RestoredOK
<1>3. ASSUME gate # <<>>, Head1.kind # "restore" PROVE UserOps # {}
  BY <1>1, <1>3, HeadFacts
<1>4. ASSUME Running, gate # <<>>, UserOps = {} PROVE ~restored
  BY <1>3, <1>4 DEF RestoredOK
<1>5. ASSUME OpFails, Running, gate # <<>> PROVE FALSE
  <2>1. UserOps = {} /\ restored' = restored
    BY <1>5, FailEnds
  <2> QED BY <1>4, <1>5, <2>1
<1>6. CASE Cycle \/ \E c \in Commands : Request(c)
  BY <1>2, <1>6, QueueStep
<1>7. CASE RetryDue \/ UNCHANGED vars
  <2>1. UNCHANGED <<gate, mode, moot, restored, ready>>
    BY <1>7 DEF RetryDue, vars, procs, history
  <2> QED BY <1>2, <2>1, SameOp
<1>8. CASE Shutdown \/ Start
  BY <1>8 DEF Shutdown, Start, OpOK, recovery
<1>9. CASE StopAll \/ Crash
  BY <1>9 DEF StopAll, Crash, Forgotten
<1>10. ASSUME NEW n \in Procs, Serve(n) PROVE ready'
  <2>1. UNCHANGED <<gate, mode, moot, restored, ready>>
    BY <1>10 DEF Serve, recovery, history
  <2> QED BY <1>2, <2>1, SameOp
<1>11. ASSUME NEW n \in Procs, Exit(n) PROVE ready'
  <2>1. UNCHANGED <<gate, mode, moot>> /\ (restored' => restored)
    BY <1>11 DEF Exit, ApplyExit, recovery, history
  <2>2. ready /\ UserOps = {} /\ mode = "up"
    BY <1>2, <2>1, SameOp
  <2>3. CASE child = n
    <3>1. ~suppressed
      BY <1>3, <2>2 DEF SuppressOK, OpOK, Running
    <3> QED BY <1>11, <2>2, <2>3, <3>1 DEF Exit, ApplyExit
  <2>4. CASE child # n
    BY <1>11, <2>2, <2>4 DEF Exit
  <2> QED BY <2>3, <2>4
<1>12. ASSUME NEW n \in Procs, Report(n) PROVE ready'
  <2>1. UNCHANGED <<gate, mode, restored, ready>> /\ (~moot' => ~moot)
    BY <1>12 DEF Report, recovery
  <2> QED BY <1>2, <2>1, SameOp
<1>13. CASE BeginStart \/ BeginStop \/ Halt
  <2>1. gate # <<>> /\ Head1.kind # "restore" /\ gate' = gate
    BY <1>13 DEF BeginStart, BeginStop, Halt, At
  <2> QED BY <1>3, <2>1, SameOp
<1>14. CASE Supersede
  <2>1. gate # <<>> /\ Head1.kind # "restore" /\ Release(TRUE)
    BY <1>14 DEF Supersede, At
  <2>2. gate' = Tail(gate) /\ UserOps # {1}
    BY <2>1, ReleaseFields
  <2> QED BY <1>1, <2>1, <2>2, ReleaseFacts
<1>15. CASE BeginRestore
  <2>1. gate # <<>> /\ Head1.kind = "restore" /\ UNCHANGED <<restored, mode>> /\ ~Candidate
    BY <1>15 DEF BeginRestore, At, recovery, Candidate
  <2>2. Release(FALSE) /\ ready' = ready
    BY <1>15, <2>1 DEF BeginRestore
  <2>3. gate' = Tail(gate) /\ moot' = moot
    BY <2>2, ReleaseFields
  <2>4. UserOps = {}
    BY <1>1, <2>1, <2>3, ReleaseFacts
  <2> QED BY <1>2, <2>1, <2>2, <2>3, <2>4
<1>16. CASE Ask \/ Spawn \/ Unconfirmed \/ Reap \/ NotReady
  <2>1. Running /\ gate # <<>>
    BY <1>16, BegunStep
  <2>2. OpFails \/ UNCHANGED <<gate, restored>>
    BY <1>16 DEF Ask, Spawn, Unconfirmed, Reap, NotReady, Goto, recovery
  <2> QED BY <1>4, <1>5, <2>1, <2>2, SameOp
<1>17. CASE StopCompleted \/ DeleteCompleted
  BY <1>17 DEF StopCompleted, DeleteCompleted
<1>18. CASE BecomeReady
  BY <1>18 DEF BecomeReady
<1>19. CASE Probe
  <2>1. Running /\ gate # <<>> /\ status # "gone"
    BY <1>19, BegunStep
  <2>2. CASE Head1.kind = "start" /\ ~Head1.valid
    <3>1. gate' = Tail(gate)
      BY <1>19, <2>2 DEF Probe, Release
    <3> QED BY <2>1, <2>2, <3>1, EndStep
  <2>3. CASE Head1.kind = "start" /\ Head1.valid
    BY <1>3, <1>19, <2>1, <2>3, SameOp DEF Probe, Goto
  <2>4. CASE Head1.kind # "start"
    BY <1>4, <1>19, <2>1, <2>4, SameOp DEF Probe, Goto
  <2> QED BY <2>2, <2>3, <2>4
<1>20. CASE Import
  <2>1. /\ Running /\ op.pc = "import" /\ gate # <<>> /\ UNCHANGED <<ready, mode>>
        /\ Head1.kind = "restore" => ~restored
    BY <1>20, BegunStep DEF Import, At, procs, RestoredOK
  <2>2. ready \/ (~restored /\ op.exited)
    BY <1>1, <2>1 DEF RestoredOK
  <2>3. CASE OpFails
    BY <1>5, <2>1, <2>3
  <2>4. CASE ~OpFails
    BY <1>20, <2>1, <2>2, <2>4 DEF Import, recovery
  <2> QED BY <2>3, <2>4
<1> QED
  BY <1>6, <1>7, <1>8, <1>9, <1>10, <1>11, <1>12, <1>13, <1>14, <1>15, <1>16, <1>17, <1>18, <1>19, <1>20
  DEF Next, OpStep

-----------------------------------------------------------------------------
(* The theorems                                                            *)

\* InstanceInv is inductive.
LEMMA InstanceInit ==
  Init => InstanceInv
<1> SUFFICES ASSUME Init PROVE InstanceInv
  OBVIOUS
<1>1. gate = <<>> /\ DOMAIN gate = {} /\ UserOps = {} /\ gate \in Seq(Item)
  BY EmptySeq DEF Init, UserOps
<1>2. Types
  BY <1>1, NoOpFields DEF Init, Types, Statuses, Counters
<1>3. OpOK
  BY NoOpFields DEF Init, OpOK, Running
<1>4. Owned
  BY NoOpFields DEF Init, Owned
<1>5. GoneOK /\ NewestOK
  BY <1>1 DEF Init, GoneOK, NewestOK, Newest
<1>6. SuppressOK /\ Quelled /\ StartsOK
  BY NoOpFields DEF Init, SuppressOK, Quelled, StartsOK, Running
<1>7. LastOK /\ RestoredOK
  BY NoOpFields DEF Init, LastOK, RestoredOK, Running
<1> QED BY <1>2, <1>3, <1>4, <1>5, <1>6, <1>7 DEF InstanceInv

\* Every step preserves it.
LEMMA InstanceNext ==
  InstanceInv /\ [Next]_vars => InstanceInv'
<1> SUFFICES ASSUME InstanceInv, [Next]_vars PROVE InstanceInv'
  OBVIOUS
<1> USE DEF InstanceInv
<1>1. Types' /\ OpOK' /\ Owned'
  BY TypesStep, OpOKStep, OwnedStep
<1>2. GoneOK' /\ NewestOK' /\ SuppressOK'
  BY GoneStep, NewestStep, SuppressStep
<1>3. Quelled' /\ StartsOK' /\ LastOK'
  BY QuelledStep, StartsStep, LastStep
<1>4. RestoredOK'
  BY RestoringStep, NoticedStep, RestoredRunsStep DEF RestoredOK
<1> QED BY <1>1, <1>2, <1>3, <1>4

\* It holds in every reachable state.
LEMMA InstanceInvariant ==
  Spec => []InstanceInv
BY InstanceInit, InstanceNext, PTL DEF Spec

\* Every variable keeps its type, and a child is marked ready only while it is tracked
\* and serves (markReady, stop and the exit handler of local-process-supervisor.ts).
THEOREM InstanceTypes ==
  Spec => []TypeOK
<1>1. InstanceInv => TypeOK
  <2> SUFFICES ASSUME InstanceInv PROVE TypeOK
    OBVIOUS
  <2>1. Types /\ OpOK
    BY DEF InstanceInv
  <2>2. op.pc \in Points /\ op.aim \in Procs \cup {0} /\ op.asked \in BOOLEAN
    BY <2>1, OpFields DEF Types
  <2>3. \A i \in DOMAIN gate : gate[i] \in Item
    BY <2>1, GateItems DEF Types
  <2>4. ready => child # 0 /\ proc[child] = "serving"
    BY <2>1, InstanceAssumption DEF OpOK
  <2> QED BY <2>1, <2>2, <2>3, <2>4 DEF TypeOK, Types, Statuses, Points, Item
<1> QED BY <1>1, InstanceInvariant, PTL

\* Two processes of the instance never run side by side, however many requests, exits
\* and restores interleave, unless the agent died or a process outlived its SIGKILL.
THEOREM OneProcessAtATime ==
  Spec => []SingleProcess
<1>1. InstanceInv => SingleProcess
  <2> SUFFICES ASSUME InstanceInv, used.crashes = 0, used.faults = 0 PROVE Cardinality(Alive) <= 1
    BY DEF SingleProcess
  <2>1. Types /\ OpOK /\ Owned
    BY DEF InstanceInv
  <2> DEFINE x == IF op.pc \in {"quiesce", "reap"} THEN op.aim ELSE child
  <2>2. Alive \subseteq {x}
    BY <2>1, InstanceAssumption DEF Alive, Owned, OpOK
  <2>3. IsFiniteSet({x}) /\ Cardinality({x}) = 1
    BY FS_Singleton
  <2>4. Cardinality(Alive) <= Cardinality({x})
    BY <2>2, <2>3, FS_Subset
  <2> QED BY <2>3, <2>4
<1> QED BY <1>1, InstanceInvariant, PTL

\* When the gate is free of requests, the row and the process are what the last request
\* asked for, for any number of requests that were queued, superseded or overtaken.
THEOREM LastRequestWins ==
  Spec => []LastCommandWins
<1>1. InstanceInv => LastCommandWins
  <2> SUFFICES ASSUME InstanceInv, UserOps = {}, ~moot, Clean
               PROVE  /\ last = "stop" => status = "stopped" /\ Alive = {}
                      /\ last = "delete" => status = "gone" /\ Alive = {}
                      /\ last \in {"start", "restart"} =>
                           status \notin {"created", "stopping", "stopped", "deleting", "gone"}
    BY DEF LastCommandWins, Clean
  <2>1. LastOK
    BY DEF InstanceInv
  <2> QED BY <2>1 DEF LastOK, Alive, Good, Restorable
<1> QED BY <1>1, InstanceInvariant, PTL

\* Recovery does not start an instance that was stopped last while the agent of the stop is
\* up, whatever is reported, nor after restarts of the agent, unless a report was stored
\* after the stop: suppressedInstances is lost with the agent and the row is believed.
THEOREM RecoveryRespectsStop ==
  Spec => []StoppedStaysStopped
<1>1. InstanceInv => StoppedStaysStopped
  BY DEF InstanceInv, Quelled, StoppedStaysStopped
<1> QED BY <1>1, InstanceInvariant, PTL

\* An instance that should run and has no process is a candidate of recovery: it is
\* neither taken for restored nor suppressed.
THEOREM RecoveryForgetsNothing ==
  Spec => []NotForgotten
<1>1. InstanceInv => NotForgotten
  <2> SUFFICES ASSUME InstanceInv PROVE NotForgotten
    OBVIOUS
  <2>1. Types /\ OpOK /\ SuppressOK /\ RestoredOK
    BY DEF InstanceInv
  <2>2. used.late \in Nat /\ used.faults \in Nat /\ used.crashes \in Nat
    BY <2>1 DEF Types, Counters
  <2>3. used.late + used.faults + used.crashes = 0 => Clean
    BY <2>2 DEF Clean
  <2>4. gate = <<>> => UserOps = {}
    BY DEF UserOps
  <2>5. Alive = {} => ~ready
    BY <2>1 DEF OpOK, Alive
  <2> QED BY <2>1, <2>3, <2>4, <2>5 DEF NotForgotten, SuppressOK, RestoredOK
<1> QED BY <1>1, InstanceInvariant, PTL

=============================================================================
