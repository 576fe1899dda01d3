--------------------------- MODULE AgentRunProofs ---------------------------
(***************************************************************************)
(* Type correctness of AgentRun and two safety results, for every value of *)
(* its constants: a finished run or member never changes again, and no     *)
(* workspace is removed while the session that uses it is live.            *)
(***************************************************************************)
EXTENDS AgentRun, TLAPS

-----------------------------------------------------------------------------
(* Type correctness                                                        *)

\* The part of TypeOK that an execution's outcome is written to.
OutTypeOK ==
  /\ run \in [Runs -> Status]
  /\ cleanup \in [Runs -> {"none", "retrying", "completed", "manual-intervention"}]
  /\ member \in [Members -> Status]
  /\ space \in [Runs -> Space]
  /\ managed \in SUBSET Runs
  /\ err \in [Members -> Errors]
  /\ pc \in [Members -> Location]

\* The schedulers' part.
SchedTypeOK ==
  /\ runQueue \in Seq(Runs)
  /\ runCount \in Nat
  /\ runActive \in SUBSET Runs
  /\ memQueue \in [Runs -> Seq(Members)]
  /\ active \in [Runs -> SUBSET Members]

\* The resources, the reconcile passes and the bounds.
RestTypeOK ==
  /\ parent \in [Members -> 0..(MaxMembers - 1)]
  /\ depth \in [Members -> Nat]
  /\ thread \in [Members -> Phase]
  /\ overlay \in [Members -> Phase]
  /\ session \in [Members -> {"none", "live", "closed"}]
  /\ mode \in {"booting", "up", "stopping"}
  /\ aborted \in SUBSET Members
  /\ abandoned \in SUBSET Members
  /\ recon \in [Reconcilers -> PassSet]
  /\ faults \in 0..MaxFaults
  /\ crashes \in 0..MaxCrashes
  /\ retries \in 0..MaxRetries

(* TypeOK is the conjunction of the three parts, now and after a step.      *)
LEMMA TypeParts ==
  /\ TypeOK <=> OutTypeOK /\ SchedTypeOK /\ RestTypeOK
  /\ TypeOK' <=> OutTypeOK' /\ SchedTypeOK' /\ RestTypeOK'
  BY DEF TypeOK, OutTypeOK, SchedTypeOK, RestTypeOK

(* A member is a run and an index, and every run has its root (Members,     *)
(* RunOf and Root of the run records).                                      *)
LEMMA MemberRun ==
  /\ \A m \in Members : RunOf(m) \in Runs
  /\ \A r \in Runs : Root(r) \in Members /\ RunOf(Root(r)) = r /\ IsRoot(Root(r))
  /\ \A r \in Runs : MembersOf(r) \subseteq Members
  BY AgentRunAssumption DEF Members, Runs, RunOf, Root, MembersOf, IsRoot

(* The tail of finalizeMember writes only statuses, spaces and await points *)
(* that exist.                                                              *)
LEMMA SettleType ==
  ASSUME OutTypeOK, NEW m \in Members, NEW e \in Errors,
         NEW mem \in [Members -> Status], NEW mg \in SUBSET Runs,
         Settle(m, e, mem, mg)
  PROVE  OutTypeOK'
<1>1. RunOf(m) \in Runs
  BY MemberRun
<1>2. Outcome(RunOf(m), e) \in Status
  BY DEF Outcome, Status, Terminal
<1>3. SettledMember(m, e, mem) \in [Members -> Status]
  BY <1>2 DEF SettledMember
<1>4. RetryPc \in Location /\ "done" \in Location /\ "leaked" \in Location
  BY DEF RetryPc, Location, Ended
<1>5. "finalizing" \in Status /\ "retained" \in Space
  BY DEF Status, Space
<1>6. member' \in [Members -> Status] /\ err' \in [Members -> Errors]
  BY <1>3 DEF Settle, OutTypeOK
<1>7. pc' \in [Members -> Location]
  BY <1>4 DEF Settle, OutTypeOK
<1>8. run' \in [Runs -> Status] /\ space' \in [Runs -> Space] /\ managed' \in SUBSET Runs
  BY <1>1, <1>2, <1>5 DEF Settle, OutTypeOK
<1>9. cleanup' \in [Runs -> {"none", "retrying", "completed", "manual-intervention"}]
  BY <1>1 DEF Settle, OutTypeOK
<1> QED
  BY <1>6, <1>7, <1>8, <1>9 DEF OutTypeOK

(* Starting an execution does too (the synchronous part of executeMember).  *)
LEMMA BeginType ==
  ASSUME OutTypeOK, NEW m \in Members, NEW mem \in [Members -> Status],
         NEW mg \in SUBSET Runs, Begin(m, mem, mg)
  PROVE  OutTypeOK'
<1>1. RunOf(m) \in Runs
  BY MemberRun
<1>2. CASE Settle(m, "cancelled", mem, mg) \/ Settle(m, "failed", mem, mg)
  <2>1. "cancelled" \in Errors /\ "failed" \in Errors
    BY DEF Errors
  <2> QED BY <1>2, <2>1, SettleType
<1>3. CASE ~(Settle(m, "cancelled", mem, mg) \/ Settle(m, "failed", mem, mg))
  <2>1. "preparing" \in Status /\ "preparing" \in Space /\ "ensuring" \in Location
        /\ "mounting" \in Location
    BY DEF Status, Space, Location, Preparing
  <2> QED BY <1>1, <1>3, <2>1 DEF Begin, OutTypeOK
<1> QED BY <1>2, <1>3

(* A failed cleanup leaves typed records (finalizeMember's error branch).   *)
LEMMA CleanupFailedType ==
  ASSUME OutTypeOK, NEW m \in Members, CleanupFailed(m)
  PROVE  OutTypeOK'
<1>1. RunOf(m) \in Runs
  BY MemberRun
<1>2. RetryPc \in Location /\ "leaked" \in Location /\ "finalizing" \in Status
  BY DEF RetryPc, Location, Ended, Status
<1> QED BY <1>1, <1>2 DEF CleanupFailed, OutTypeOK

(* The first part of finalizeMember leaves typed records.                   *)
LEMMA FinalizeType ==
  ASSUME OutTypeOK, thread \in [Members -> Phase], NEW m \in Members, NEW e \in Errors,
         NEW thr \in Phase, NEW ru \in [Runs -> Status], Finalize(m, e, thr, ru)
  PROVE  OutTypeOK' /\ thread' \in [Members -> Phase]
<1>1. CASE member[m] \in Terminal
  <2>1. Settle(m, e, member, managed)
    BY <1>1 DEF Finalize
  <2>2. OutTypeOK'
    BY <2>1, SettleType DEF OutTypeOK
  <2> QED BY <1>1, <2>2 DEF Finalize
<1>2. CASE member[m] \notin Terminal
  <2>1. "finalizing" \in Status /\ "disposing" \in Location /\ "closing" \in Location
        /\ "none" \in Phase /\ "deleting" \in Phase
    BY DEF Status, Location, Cleaning, Phase
  <2> QED BY <1>2, <2>1 DEF Finalize, OutTypeOK
<1> QED BY <1>1, <1>2

(* Submitting a root, from create or from reconcile, keeps the records and  *)
(* the schedulers typed.                                                    *)
LEMMA AcceptRootType ==
  ASSUME OutTypeOK, SchedTypeOK, NEW r \in Runs, NEW mem \in [Members -> Status],
         AcceptRoot(r, mem)
  PROVE  OutTypeOK' /\ SchedTypeOK'
<1>1. Root(r) \in Members
  BY MemberRun
<1>2. managed \cup {r} \in SUBSET Runs /\ managed \in SUBSET Runs
  BY DEF OutTypeOK
<1>3. "failed" \in Status /\ "queued" \in Status
  BY DEF Status, Terminal
<1>4. CASE FailQueuedRoot(r, mem, managed) /\ UNCHANGED schedVars
  <2>1. OutTypeOK'
    BY <1>1, <1>2, <1>3, <1>4 DEF FailQueuedRoot, OutTypeOK
  <2> QED BY <1>4, <2>1 DEF SchedTypeOK, schedVars
<1>5. CASE /\ runCount' = runCount + 1
           /\ runActive' = runActive \cup {r}
           /\ BeginRoot(r, mem, managed \cup {r})
           /\ UNCHANGED <<runQueue, memQueue>>
  <2>1. OutTypeOK'
    BY <1>1, <1>2, <1>5, BeginType DEF BeginRoot
  <2>2. SchedTypeOK'
    BY <1>1, <1>5 DEF BeginRoot, SchedTypeOK
  <2> QED BY <2>1, <2>2
<1>6. CASE /\ runQueue' = Append(runQueue, r)
           /\ managed' = managed \cup {r}
           /\ member' = mem
           /\ run' = [run EXCEPT ![r] = IF @ = "absent" THEN "queued" ELSE @]
           /\ UNCHANGED <<cleanup, space, err, pc, runCount, runActive, memQueue, active>>
  <2>1. OutTypeOK'
    BY <1>2, <1>3, <1>6 DEF OutTypeOK
  <2>2. SchedTypeOK'
    BY <1>6 DEF SchedTypeOK
  <2> QED BY <2>1, <2>2
<1> QED BY <1>4, <1>5, <1>6 DEF AcceptRoot

(* So does submitting a callee.                                             *)
LEMMA AcceptCalleeType ==
  ASSUME OutTypeOK, SchedTypeOK, NEW m \in Members, NEW mem \in [Members -> Status],
         AcceptCallee(m, mem)
  PROVE  OutTypeOK' /\ SchedTypeOK'
<1>1. RunOf(m) \in Runs
  BY MemberRun
<1>2. CASE /\ member' = [mem EXCEPT ![m] = "failed"]
           /\ UNCHANGED <<run, cleanup, space, managed, err, pc, schedVars>>
  <2>1. "failed" \in Status
    BY DEF Status, Terminal
  <2> QED BY <1>2, <2>1 DEF OutTypeOK, SchedTypeOK, schedVars
<1>3. CASE /\ active' = [active EXCEPT ![RunOf(m)] = @ \cup {m}]
           /\ Begin(m, mem, managed)
           /\ UNCHANGED <<runQueue, runCount, runActive, memQueue>>
  <2>1. OutTypeOK'
    BY <1>3, BeginType DEF OutTypeOK
  <2>2. SchedTypeOK'
    BY <1>1, <1>3 DEF SchedTypeOK
  <2> QED BY <2>1, <2>2
<1>4. CASE /\ memQueue' = [memQueue EXCEPT ![RunOf(m)] = Append(@, m)]
           /\ member' = mem
           /\ UNCHANGED <<run, cleanup, space, managed, err, pc, runQueue, runCount, runActive, active>>
  <2>1. memQueue' \in [Runs -> Seq(Members)]
    BY <1>1, <1>4 DEF SchedTypeOK
  <2> QED BY <1>4, <2>1 DEF OutTypeOK, SchedTypeOK
<1> QED BY <1>2, <1>3, <1>4 DEF AcceptCallee

(* A reconcile pass that starts, advances, works or throws is a pass.       *)
LEMMA PassType ==
  ASSUME OutTypeOK, recon \in [Reconcilers -> PassSet], NEW c \in Reconcilers
  PROVE  /\ IdlePass \in PassSet /\ NewPass \in PassSet
         /\ Throw(c) \in [Reconcilers -> PassSet]
         /\ \A r \in Runs : Advance(c, r) \in [Reconcilers -> PassSet]
         /\ \A r \in Runs, ts, os \in SUBSET Members, is \in SUBSET Instances :
              Working(c, r, ts, is, os) \in [Reconcilers -> PassSet]
<1>1. 1 \in Runs
  BY AgentRunAssumption DEF Runs
<1>2. \A at \in {"idle", "next", "work"}, todo \in SUBSET Runs, snap \in [Runs -> SnapStatus],
         r \in Runs, ts, os \in SUBSET Members, is \in SUBSET Instances :
         Pass(at, todo, snap, r, ts, is, os) \in PassSet
  BY DEF Pass, PassSet
<1>3. IdlePass \in PassSet
  <2>1. NoSnap \in [Runs -> SnapStatus]
    BY DEF NoSnap, SnapStatus
  <2> QED BY <1>1, <1>2, <2>1 DEF IdlePass
<1>4. NewPass \in PassSet
  <2>1. [r \in Runs |-> Snapshot(r)] \in [Runs -> SnapStatus]
    BY DEF Snapshot, SnapStatus
  <2> QED BY <1>1, <1>2, <2>1 DEF NewPass
<1>5. Throw(c) \in [Reconcilers -> PassSet]
  BY <1>3 DEF Throw
<1>6. recon[c].todo \in SUBSET Runs /\ recon[c].snap \in [Runs -> SnapStatus]
  BY DEF PassSet
<1>7. ASSUME NEW r \in Runs PROVE Advance(c, r) \in [Reconcilers -> PassSet]
  <2> DEFINE rest == recon[c].todo \ {r}
             snap == [recon[c].snap EXCEPT ![r] = "started"]
  <2>2. rest \in SUBSET Runs /\ snap \in [Runs -> SnapStatus]
    BY <1>6 DEF SnapStatus
  <2>3. Pass("next", rest, snap, 1, {}, {}, {}) \in PassSet
    BY <1>1, <1>2, <2>2
  <2> QED BY <1>3, <2>3 DEF Advance
<1>8. ASSUME NEW r \in Runs, NEW ts \in SUBSET Members, NEW os \in SUBSET Members,
             NEW is \in SUBSET Instances
      PROVE  Working(c, r, ts, is, os) \in [Reconcilers -> PassSet]
  <2>1. Pass("work", recon[c].todo, recon[c].snap, r, ts, is, os) \in PassSet
    BY <1>2, <1>6
  <2> QED BY <2>1 DEF Working
<1> QED BY <1>3, <1>4, <1>5, <1>7, <1>8

-----------------------------------------------------------------------------
(* One step keeps the types: one lemma per group of actions                *)

(* The requests: create, addMember, its retry, the tool timeout and cancel. *)
LEMMA RequestType ==
  ASSUME TypeOK,
         Request \/ \E m \in Members : ToolTimeout(m)
  PROVE  TypeOK'
<1>0. OutTypeOK /\ SchedTypeOK /\ RestTypeOK
  BY TypeParts
<1>s. "queued" \in Status /\ "failed" \in Status /\ "finalizing" \in Status
  BY DEF Status, Terminal
<1>1. ASSUME NEW r \in Runs, Create(r) PROVE TypeOK'
  <2>1. [member EXCEPT ![Root(r)] = "queued"] \in [Members -> Status]
    BY <1>0, <1>s DEF OutTypeOK
  <2>2. OutTypeOK' /\ SchedTypeOK'
    BY <1>0, <1>1, <2>1, AcceptRootType DEF Create
  <2>3. RestTypeOK'
    BY <1>0, <1>1 DEF Create, RestTypeOK, fixVars, boundVars
  <2> QED BY <2>2, <2>3, TypeParts
<1>2. ASSUME NEW r \in Runs, Cancel(r) PROVE TypeOK'
  <2>1. FailQueuedIn(memQueue[r], member) \in [Members -> Status]
    BY <1>0, <1>s DEF FailQueuedIn, OutTypeOK
  <2>2. OutTypeOK'
    BY <1>0, <1>2, <1>s, <2>1 DEF Cancel, OutTypeOK
  <2>3. SchedTypeOK'
    BY <1>0, <1>2 DEF Cancel, SchedTypeOK
  <2>4. RestTypeOK'
    BY <1>0, <1>2, MemberRun DEF Cancel, RestTypeOK, fixVars, boundVars
  <2> QED BY <2>2, <2>3, <2>4, TypeParts
<1>3. ASSUME NEW p \in Members, NEW m \in Members, AddMember(p, m) PROVE TypeOK'
  <2>1. [member EXCEPT ![m] = "queued"] \in [Members -> Status]
    BY <1>0, <1>s DEF OutTypeOK
  <2>2. OutTypeOK' /\ SchedTypeOK'
    BY <1>0, <1>3, <2>1, AcceptCalleeType DEF AddMember
  <2>3. p[2] \in 0..(MaxMembers - 1)
    BY DEF Members
  <2>4. RestTypeOK'
    BY <1>0, <1>3, <2>3 DEF AddMember, RestTypeOK, boundVars
  <2> QED BY <2>2, <2>4, TypeParts
<1>4. ASSUME NEW m \in Members, RetryInvoke(m) PROVE TypeOK'
  <2>1. OutTypeOK' /\ SchedTypeOK'
    BY <1>0, <1>4, AcceptCalleeType DEF RetryInvoke, OutTypeOK
  <2>2. retries' \in 0..MaxRetries
    BY <1>0, <1>4, AgentRunAssumption DEF RetryInvoke, RestTypeOK
  <2>3. RestTypeOK'
    BY <1>0, <1>4, <2>2 DEF RetryInvoke, RestTypeOK
  <2> QED BY <2>1, <2>3, TypeParts
<1>5. ASSUME NEW m \in Members, ToolTimeout(m) PROVE TypeOK'
  <2>1. OutTypeOK' /\ SchedTypeOK'
    BY <1>0, <1>5 DEF ToolTimeout, OutTypeOK, SchedTypeOK, outVars, schedVars
  <2>2. RestTypeOK'
    BY <1>0, <1>5 DEF ToolTimeout, RestTypeOK, boundVars
  <2> QED BY <2>1, <2>2, TypeParts
<1> QED BY <1>1, <1>2, <1>3, <1>4, <1>5 DEF Request

(* The schedulers' finish and drain: the entry that starts is one that was  *)
(* queued, and the rest of the queue stays a queue.                         *)
LEMMA ReleaseType ==
  ASSUME TypeOK, Release
  PROVE  TypeOK'
<1>0. OutTypeOK /\ SchedTypeOK /\ RestTypeOK
  BY TypeParts
<1>1. ASSUME NEW m \in Members, ReleaseMember(m) PROVE TypeOK'
  <2> DEFINE r == RunOf(m)
             q == memQueue[r]
  <2>0. PICK n \in 0..Len(q) :
          \/ /\ active' = [active EXCEPT ![r] = @ \ {m}]
             /\ memQueue' = [memQueue EXCEPT ![r] = <<>>]
             /\ member' = VoidEffect(r, q, n)
             /\ UNCHANGED <<run, cleanup, space, managed, err, pc>>
          \/ /\ n < Len(q)
             /\ active' = [active EXCEPT ![r] = (@ \ {m}) \cup {q[n + 1]}]
             /\ memQueue' = [memQueue EXCEPT ![r] = SubSeq(q, n + 2, Len(q))]
             /\ Begin(q[n + 1], VoidEffect(r, q, n), managed)
    BY <1>1 DEF ReleaseMember
  <2> DEFINE mem == VoidEffect(r, q, n)
  <2>1. r \in Runs /\ q \in Seq(Members)
    BY <1>0, MemberRun DEF SchedTypeOK
  <2>2. n \in Nat
    BY <2>1
  <2>3. mem \in [Members -> Status]
    <3>1. Outcome(r, "cancelled") \in Status
      BY DEF Outcome, Status, Terminal
    <3> HIDE DEF r
    <3> QED BY <1>0, <3>1 DEF VoidEffect, OutTypeOK
  <2>r. RestTypeOK'
    BY <1>0, <1>1 DEF ReleaseMember, RestTypeOK, fixVars, boundVars
  <2>u. runQueue' = runQueue /\ runCount' = runCount /\ runActive' = runActive
    BY <1>1 DEF ReleaseMember
  <2>4. CASE /\ active' = [active EXCEPT ![r] = @ \ {m}]
             /\ memQueue' = [memQueue EXCEPT ![r] = <<>>]
             /\ member' = mem
             /\ UNCHANGED <<run, cleanup, space, managed, err, pc>>
    <3> HIDE DEF r, q, mem
    <3>1. OutTypeOK'
      BY <1>0, <2>3, <2>4 DEF OutTypeOK
    <3>2. SchedTypeOK'
      BY <1>0, <2>1, <2>4, <2>u DEF SchedTypeOK
    <3> QED BY <2>r, <3>1, <3>2, TypeParts
  <2>5. CASE /\ n < Len(q)
             /\ active' = [active EXCEPT ![r] = (@ \ {m}) \cup {q[n + 1]}]
             /\ memQueue' = [memQueue EXCEPT ![r] = SubSeq(q, n + 2, Len(q))]
             /\ Begin(q[n + 1], mem, managed)
    <3> HIDE DEF r, q, mem
    <3>1. q[n + 1] \in Members
      BY <2>1, <2>2, <2>5
    <3>2. SubSeq(q, n + 2, Len(q)) \in Seq(Members)
      BY <2>1, <2>2, <2>5
    <3>3. OutTypeOK'
      BY <1>0, <2>3, <2>5, <3>1, BeginType DEF OutTypeOK
    <3>4. SchedTypeOK'
      BY <1>0, <2>1, <2>5, <2>u, <3>1, <3>2 DEF SchedTypeOK
    <3> QED BY <2>r, <3>3, <3>4, TypeParts
  <2> QED BY <2>0, <2>4, <2>5
<1>2. ASSUME NEW r \in Runs, ReleaseRun(r) PROVE TypeOK'
  <2>0. RestTypeOK'
    BY <1>0, <1>2 DEF ReleaseRun, RestTypeOK, fixVars, boundVars
  <2>f. Finished \in Nat /\ Finished + 1 \in Nat
    BY <1>0 DEF Finished, SchedTypeOK
  <2>1. CASE runQueue = <<>>
    <3>1. OutTypeOK'
      BY <1>0, <1>2, <2>1 DEF ReleaseRun, OutTypeOK, outVars
    <3>2. SchedTypeOK'
      BY <1>0, <1>2, <2>1, <2>f DEF ReleaseRun, SchedTypeOK
    <3> QED BY <2>0, <3>1, <3>2, TypeParts
  <2>2. CASE runQueue # <<>>
    <3>1. Head(runQueue) \in Runs /\ Tail(runQueue) \in Seq(Runs)
      BY <1>0, <2>2 DEF SchedTypeOK
    <3>2. BeginRoot(Head(runQueue), member, managed)
      BY <1>2, <2>2 DEF ReleaseRun
    <3>3. OutTypeOK'
      BY <1>0, <3>1, <3>2, BeginType, MemberRun DEF BeginRoot, OutTypeOK
    <3>4. SchedTypeOK'
      BY <1>0, <1>2, <2>2, <2>f, <3>1, <3>2, MemberRun DEF ReleaseRun, BeginRoot, SchedTypeOK
    <3> QED BY <2>0, <3>3, <3>4, TypeParts
  <2> QED BY <2>1, <2>2
<1> QED BY <1>1, <1>2 DEF Release

(* A call that may fail consumes one of the bounded faults.                 *)
LEMMA FaultType ==
  ASSUME faults \in 0..MaxFaults, MayFault
  PROVE  faults' \in 0..MaxFaults
  BY AgentRunAssumption DEF MayFault

(* Closing a session, or failing to, leaves a session.                      *)
LEMMA CloseType ==
  ASSUME RestTypeOK, NEW m \in Members
  PROVE  /\ CloseSession(m) => session' \in [Members -> {"none", "live", "closed"}]
         /\ CloseFails(m) => /\ session' \in [Members -> {"none", "live", "closed"}]
                             /\ faults' \in 0..MaxFaults
  BY FaultType DEF RestTypeOK, CloseSession, CloseFails

(* Everything execFrame keeps.                                              *)
LEMMA ExecFrameType ==
  ASSUME SchedTypeOK, RestTypeOK, UNCHANGED execFrame,
         thread' \in [Members -> Phase], overlay' \in [Members -> Phase],
         session' \in [Members -> {"none", "live", "closed"}], faults' \in 0..MaxFaults
  PROVE  SchedTypeOK' /\ RestTypeOK'
  BY DEF SchedTypeOK, RestTypeOK, execFrame, schedVars

(* executeMember after its awaits.                                          *)
LEMMA ExecuteType ==
  ASSUME TypeOK, NEW m \in Members, Execute(m)
  PROVE  TypeOK'
<1>0. OutTypeOK /\ SchedTypeOK /\ RestTypeOK
  BY TypeParts
<1>a. /\ thread \in [Members -> Phase] /\ overlay \in [Members -> Phase]
      /\ session \in [Members -> {"none", "live", "closed"}] /\ faults \in 0..MaxFaults
      /\ run \in [Runs -> Status] /\ member \in [Members -> Status] /\ managed \in SUBSET Runs
      /\ RunOf(m) \in Runs
  BY <1>0, MemberRun DEF OutTypeOK, RestTypeOK
<1>b. /\ "failed" \in Errors /\ "cancelled" \in Errors /\ "none" \in Errors
      /\ "preparing" \in Phase /\ "ready" \in Phase /\ "deleted" \in Phase
      /\ "delete-retrying" \in Phase /\ "none" \in Phase
  BY DEF Errors, Phase
<1>c. /\ "running" \in Status /\ "active" \in Space
      /\ "mounting" \in Location /\ "injecting" \in Location /\ "creating" \in Location
      /\ "polling" \in Location
  BY DEF Status, Space, Location, Preparing
<1>d. Settle(m, "failed", member, managed) => OutTypeOK'
  BY <1>0, <1>a, <1>b, SettleType
<1>f. UNCHANGED execFrame
  BY DEF Execute, EnsureDone, MountDone, InjectDone, InstanceCreates, CreateDone, CreateFails,
         PollCompleted, PollFailed, PollCancelled
<1>q. SUFFICES /\ OutTypeOK' /\ thread' \in [Members -> Phase] /\ overlay' \in [Members -> Phase]
               /\ session' \in [Members -> {"none", "live", "closed"}] /\ faults' \in 0..MaxFaults
  BY <1>0, <1>f, ExecFrameType, TypeParts
<1>1. CASE EnsureDone(m)
  <2>1. OutTypeOK'
    BY <1>0, <1>1, <1>a, <1>c, <1>d DEF EnsureDone, OutTypeOK
  <2> QED BY <1>1, <1>a, <2>1 DEF EnsureDone
<1>2. CASE MountDone(m)
  <2>1. OutTypeOK'
    BY <1>0, <1>2, <1>c, <1>d DEF MountDone, OutTypeOK
  <2> QED BY <1>2, <1>a, <1>b, <2>1 DEF MountDone
<1>3. CASE InjectDone(m)
  <2>1. OutTypeOK'
    BY <1>0, <1>3, <1>c, <1>d DEF InjectDone, OutTypeOK
  <2> QED BY <1>3, <1>a, <1>b, <2>1, FaultType DEF InjectDone
<1>4. CASE InstanceCreates(m)
  <2>1. OutTypeOK'
    BY <1>0, <1>4 DEF InstanceCreates, OutTypeOK, outVars
  <2> QED BY <1>4, <1>a, <2>1 DEF InstanceCreates
<1>5. CASE CreateDone(m)
  <2> DEFINE started == IF IsRoot(m) THEN [run EXCEPT ![RunOf(m)] = "running"] ELSE run
  <2>1. started \in [Runs -> Status]
    BY <1>a, <1>c
  <2>2. CASE /\ thread' = [thread EXCEPT ![m] = "ready"]
             /\ member' = [member EXCEPT ![m] = "running"]
             /\ run' = started
             /\ pc' = [pc EXCEPT ![m] = "polling"]
             /\ UNCHANGED <<cleanup, space, managed, err>>
    <3> HIDE DEF started
    <3>1. OutTypeOK'
      BY <1>0, <1>c, <2>1, <2>2 DEF OutTypeOK
    <3> QED BY <1>5, <1>a, <1>b, <2>2, <3>1 DEF CreateDone
  <2>3. CASE Finalize(m, "failed", "ready", run) \/ Finalize(m, "cancelled", "ready", started)
    <3>1. OutTypeOK' /\ thread' \in [Members -> Phase]
      BY <1>0, <1>a, <1>b, <2>1, <2>3, FinalizeType
    <3> QED BY <1>5, <1>a, <3>1 DEF CreateDone
  <2> QED BY <1>5, <2>2, <2>3 DEF CreateDone
<1>6. CASE CreateFails(m) \/ PollCompleted(m) \/ PollFailed(m) \/ PollCancelled(m)
  <2>1. \E e \in Errors, thr \in Phase : Finalize(m, e, thr, run)
    BY <1>6, <1>a, <1>b DEF CreateFails, PollCompleted, PollFailed, PollCancelled
  <2>2. OutTypeOK' /\ thread' \in [Members -> Phase]
    BY <1>0, <1>a, <2>1, FinalizeType
  <2> QED BY <1>6, <1>a, <2>2 DEF CreateFails, PollCompleted, PollFailed, PollCancelled
<1> QED BY <1>1, <1>2, <1>3, <1>4, <1>5, <1>6 DEF Execute

(* finalizeMember after its awaits, and the cleanup retry timer.            *)
LEMMA CleanType ==
  ASSUME TypeOK, NEW m \in Members, Clean(m)
  PROVE  TypeOK'
<1>0. OutTypeOK /\ SchedTypeOK /\ RestTypeOK
  BY TypeParts
<1>a. /\ thread \in [Members -> Phase] /\ overlay \in [Members -> Phase]
      /\ session \in [Members -> {"none", "live", "closed"}] /\ faults \in 0..MaxFaults
      /\ run \in [Runs -> Status] /\ member \in [Members -> Status] /\ managed \in SUBSET Runs
      /\ err[m] \in Errors
  BY <1>0 DEF OutTypeOK, RestTypeOK
<1>b. /\ "deleting" \in Phase /\ "deleted" \in Phase /\ "delete-retrying" \in Phase
      /\ "manual-intervention" \in Phase
      /\ "disposing" \in Location /\ "unmounting" \in Location
  BY DEF Phase, Location, Cleaning
<1>f. UNCHANGED execFrame
  BY DEF Clean, CloseDone, DisposeStarts, DisposeRefused, UnmountDone, RetryFire
<1>q. SUFFICES /\ OutTypeOK' /\ thread' \in [Members -> Phase] /\ overlay' \in [Members -> Phase]
               /\ session' \in [Members -> {"none", "live", "closed"}] /\ faults' \in 0..MaxFaults
  BY <1>0, <1>f, ExecFrameType, TypeParts
<1>1. CASE CloseDone(m)
  <2>1. OutTypeOK'
    BY <1>0, <1>1, <1>b, CleanupFailedType DEF CloseDone, OutTypeOK
  <2> QED BY <1>0, <1>1, <1>a, <1>b, <2>1, CloseType DEF CloseDone
<1>2. CASE DisposeStarts(m)
  <2>1. OutTypeOK'
    BY <1>0, <1>2, <1>b DEF DisposeStarts, OutTypeOK
  <2> QED BY <1>0, <1>2, <1>a, <1>b, <2>1, CloseType DEF DisposeStarts, TerminateMemberThread
<1>3. CASE DisposeRefused(m)
  <2>1. OutTypeOK'
    BY <1>0, <1>3, CleanupFailedType DEF DisposeRefused
  <2> QED BY <1>0, <1>3, <1>a, <1>b, <2>1, CloseType, FaultType DEF DisposeRefused
<1>4. CASE UnmountDone(m)
  <2>1. OutTypeOK'
    BY <1>0, <1>4, <1>a, CleanupFailedType, SettleType DEF UnmountDone
  <2> QED BY <1>4, <1>a, <1>b, <2>1, FaultType DEF UnmountDone
<1>5. CASE RetryFire(m)
  <2>1. OutTypeOK' /\ thread' \in [Members -> Phase]
    BY <1>0, <1>5, <1>a, FinalizeType DEF RetryFire
  <2> QED BY <1>5, <1>a, <2>1 DEF RetryFire
<1> QED BY <1>1, <1>2, <1>3, <1>4, <1>5 DEF Clean

(* The reconcile passes.                                                    *)
LEMMA ReconcileType ==
  ASSUME TypeOK, NEW c \in Reconcilers, Reconcile(c)
  PROVE  TypeOK'
<1>0. OutTypeOK /\ SchedTypeOK /\ RestTypeOK
  BY TypeParts
<1>a. /\ thread \in [Members -> Phase] /\ overlay \in [Members -> Phase]
      /\ session \in [Members -> {"none", "live", "closed"}] /\ faults \in 0..MaxFaults
      /\ recon \in [Reconcilers -> PassSet]
  BY <1>0 DEF RestTypeOK
<1>b. /\ "deleted" \in Phase /\ "delete-retrying" \in Phase /\ "manual-intervention" \in Phase
      /\ "finalizing" \in Status /\ "failed" \in Status
  BY DEF Phase, Status, Terminal
<1>c. /\ recon[c].run \in Runs /\ recon[c].threads \in SUBSET Members
      /\ recon[c].overlays \in SUBSET Members /\ recon[c].insts \in SUBSET Instances
      /\ recon[c].todo \in SUBSET Runs
  BY <1>a DEF PassSet
<1>d. /\ NewPass \in PassSet /\ Throw(c) \in [Reconcilers -> PassSet]
      /\ \A r \in Runs : Advance(c, r) \in [Reconcilers -> PassSet]
      /\ \A r \in Runs, ts, os \in SUBSET Members, is \in SUBSET Instances :
           Working(c, r, ts, is, os) \in [Reconcilers -> PassSet]
  BY <1>0, <1>a, PassType
<1>f. UNCHANGED reconFrame /\ aborted' = aborted
  BY DEF Reconcile, Tick, ReconSkip, ReconAccept, ReconFail, ReconClaim, ReconClose, ReconSweep,
         ReconDispose, ReconFinish
<1>q. ASSUME /\ OutTypeOK' /\ SchedTypeOK'
             /\ thread' \in [Members -> Phase] /\ overlay' \in [Members -> Phase]
             /\ session' \in [Members -> {"none", "live", "closed"}] /\ faults' \in 0..MaxFaults
             /\ recon' \in [Reconcilers -> PassSet]
      PROVE  TypeOK'
  <2>1. RestTypeOK'
    BY <1>0, <1>f, <1>q DEF RestTypeOK, reconFrame
  <2> QED BY <1>q, <2>1, TypeParts
<1>1. CASE Tick(c)
  <2>1. OutTypeOK' /\ SchedTypeOK'
    BY <1>0, <1>1 DEF Tick, OutTypeOK, SchedTypeOK, outVars, schedVars
  <2> QED BY <1>1, <1>a, <1>d, <1>q, <2>1 DEF Tick
<1>2. ASSUME NEW r \in Runs, ReconSkip(c, r) PROVE TypeOK'
  <2>1. OutTypeOK' /\ SchedTypeOK'
    BY <1>0, <1>2 DEF ReconSkip, OutTypeOK, SchedTypeOK, schedVars
  <2> QED BY <1>2, <1>a, <1>d, <1>q, <2>1 DEF ReconSkip
<1>3. ASSUME NEW r \in Runs, ReconAccept(c, r) PROVE TypeOK'
  <2>1. OutTypeOK' /\ SchedTypeOK'
    BY <1>0, <1>3, AcceptRootType DEF ReconAccept, OutTypeOK
  <2> QED BY <1>3, <1>a, <1>d, <1>q, <2>1 DEF ReconAccept
<1>4. ASSUME NEW r \in Runs, ReconClaim(c, r) PROVE TypeOK'
  <2>1. OutTypeOK' /\ SchedTypeOK'
    BY <1>0, <1>4, <1>b DEF ReconClaim, OutTypeOK, SchedTypeOK, schedVars
  <2>2. {m \in MembersOf(r) : Live(thread[m])} \in SUBSET Members
    BY MemberRun
  <2>3. ResourceInstances(r) \in SUBSET Instances
    BY MemberRun, AgentRunAssumption DEF ResourceInstances
  <2>4. recon' \in [Reconcilers -> PassSet]
    <3> DEFINE ts == {m \in MembersOf(r) : Live(thread[m])}
    <3>1. recon' = Throw(c) \/ recon' = Working(c, r, ts, ResourceInstances(r), {})
      BY <1>4 DEF ReconClaim
    <3> HIDE DEF ts
    <3>2. {} \in SUBSET Members
      OBVIOUS
    <3> QED BY <1>d, <2>2, <2>3, <3>1, <3>2, SMTT(30) DEF ts
  <2> QED BY <1>4, <1>a, <1>q, <2>1, <2>4 DEF ReconClaim
<1>5. ASSUME NEW m \in Members, ReconClose(c, m) PROVE TypeOK'
  <2>1. OutTypeOK' /\ SchedTypeOK'
    BY <1>0, <1>5 DEF ReconClose, OutTypeOK, SchedTypeOK, outVars, schedVars
  <2>2. recon' \in [Reconcilers -> PassSet]
    BY <1>5, <1>c, <1>d DEF ReconClose
  <2> QED BY <1>0, <1>5, <1>a, <1>b, <1>q, <2>1, <2>2, CloseType DEF ReconClose
<1>6. ASSUME NEW m \in Members, ReconDispose(c, m) PROVE TypeOK'
  <2>1. OutTypeOK' /\ SchedTypeOK'
    BY <1>0, <1>6 DEF ReconDispose, OutTypeOK, SchedTypeOK, outVars, schedVars
  <2>2. recon' \in [Reconcilers -> PassSet]
    BY <1>6, <1>c, <1>d DEF ReconDispose
  <2> QED BY <1>0, <1>6, <1>a, <1>b, <1>q, <2>1, <2>2, CloseType, FaultType
          DEF ReconDispose, TerminateMemberThread
<1>7. ASSUME NEW i \in Instances, ReconSweep(c, i) PROVE TypeOK'
  <2>1. OutTypeOK' /\ SchedTypeOK'
    BY <1>0, <1>7 DEF ReconSweep, OutTypeOK, SchedTypeOK, outVars, schedVars
  <2>2. recon' \in [Reconcilers -> PassSet]
    BY <1>7, <1>c, <1>d DEF ReconSweep
  <2> QED BY <1>7, <1>a, <1>q, <2>1, <2>2 DEF ReconSweep
<1>8. CASE ReconFinish(c)
  <2>1. OutTypeOK' /\ SchedTypeOK'
    <3>1. run' \in [Runs -> Status]
      BY <1>0, <1>8, <1>b, <1>c DEF ReconFinish, OutTypeOK
    <3>2. member' \in [Members -> Status]
      BY <1>0, <1>8, <1>b DEF ReconFinish, OutTypeOK
    <3>3. cleanup' \in [Runs -> {"none", "retrying", "completed", "manual-intervention"}]
      BY <1>0, <1>8, <1>c DEF ReconFinish, OutTypeOK
    <3>4. UNCHANGED <<space, managed, err, pc, schedVars>>
      BY <1>8 DEF ReconFinish
    <3> QED BY <1>0, <3>1, <3>2, <3>3, <3>4 DEF OutTypeOK, SchedTypeOK, schedVars
  <2>2. recon' \in [Reconcilers -> PassSet]
    BY <1>8, <1>c, <1>d DEF ReconFinish
  <2> QED BY <1>8, <1>a, <1>q, <2>1, <2>2 DEF ReconFinish
<1>9. ASSUME NEW r \in Runs, ReconFail(c, r) PROVE TypeOK'
  <2>1. OutTypeOK' /\ SchedTypeOK'
    BY <1>0, <1>9, <1>b DEF ReconFail, OutTypeOK, SchedTypeOK, schedVars
  <2>2. recon' \in [Reconcilers -> PassSet]
    BY <1>9, <1>d DEF ReconFail
  <2> QED BY <1>9, <1>a, <1>q, <2>1, <2>2 DEF ReconFail
<1> QED BY <1>1, <1>2, <1>3, <1>4, <1>5, <1>6, <1>7, <1>8, <1>9 DEF Reconcile

(* stop(), the restart of the process and the start of serving.             *)
LEMMA ProcessType ==
  ASSUME TypeOK, Stop \/ Restart \/ Listen
  PROVE  TypeOK'
<1>0. OutTypeOK /\ SchedTypeOK /\ RestTypeOK
  BY TypeParts
<1>b. "failed" \in Status /\ "done" \in Location /\ "idle" \in Location /\ "none" \in Errors
  BY DEF Status, Terminal, Location, Ended, Errors
<1>1. CASE Stop
  <2>1. OutTypeOK'
    BY <1>0, <1>1, <1>b DEF Stop, OutTypeOK
  <2>2. SchedTypeOK'
    BY <1>0, <1>1 DEF Stop, SchedTypeOK
  <2>3. RestTypeOK'
    BY <1>0, <1>1 DEF Stop, RestTypeOK, boundVars
  <2> QED BY <2>1, <2>2, <2>3, TypeParts
<1>2. CASE Restart
  <2>1. OutTypeOK'
    BY <1>0, <1>2, <1>b DEF Restart, OutTypeOK, dbVars
  <2>2. SchedTypeOK'
    BY <1>0, <1>2 DEF Restart, SchedTypeOK
  <2>3. recon' \in [Reconcilers -> PassSet]
    BY <1>0, <1>2, PassType DEF Restart, RestTypeOK
  <2>4. crashes' \in 0..MaxCrashes
    BY <1>0, <1>2, AgentRunAssumption DEF Restart, RestTypeOK
  <2>5. RestTypeOK'
    BY <1>0, <1>2, <2>3, <2>4 DEF Restart, RestTypeOK, dbVars
  <2> QED BY <2>1, <2>2, <2>5, TypeParts
<1>3. CASE Listen
  <2>1. OutTypeOK' /\ SchedTypeOK'
    BY <1>0, <1>3 DEF Listen, OutTypeOK, SchedTypeOK, dbVars, schedVars
  <2>2. RestTypeOK'
    BY <1>0, <1>3 DEF Listen, RestTypeOK, dbVars, boundVars
  <2> QED BY <2>1, <2>2, TypeParts
<1> QED BY <1>1, <1>2, <1>3

(* A create request that the instance carries out late.                     *)
LEMMA LateCreateType ==
  ASSUME TypeOK, NEW m \in Members, LateCreate(m)
  PROVE  TypeOK'
<1>1. OutTypeOK /\ SchedTypeOK /\ RestTypeOK
  BY TypeParts
<1>2. OutTypeOK'
  BY <1>1 DEF LateCreate, OutTypeOK, outVars
<1>3. UNCHANGED execFrame
  BY DEF LateCreate
<1>4. /\ thread' \in [Members -> Phase] /\ overlay' \in [Members -> Phase]
      /\ session' \in [Members -> {"none", "live", "closed"}] /\ faults' \in 0..MaxFaults
  BY <1>1 DEF LateCreate, RestTypeOK
<1> QED BY <1>1, <1>2, <1>3, <1>4, ExecFrameType, TypeParts

(* The records, the schedulers, the sessions and the reconcile passes keep  *)
(* their types whatever the number of runs, members, instances, overlapping *)
(* passes, faults and restarts.                                             *)
THEOREM TypeCorrect == Spec => []TypeOK
<1>1. Init => TypeOK
  <2>1. ASSUME Init PROVE TypeOK
    <3>1. /\ "absent" \in Status /\ "none" \in Phase /\ "none" \in Space
          /\ "idle" \in Location /\ "none" \in Errors
      BY DEF Status, Phase, Space, Location, Errors
    <3>2. OutTypeOK
      BY <2>1, <3>1 DEF Init, OutTypeOK
    <3>3. SchedTypeOK
      BY <2>1 DEF Init, SchedTypeOK
    <3>4. 0 \in 0..(MaxMembers - 1)
      BY AgentRunAssumption
    <3>5. IdlePass \in PassSet
      <4>1. 1 \in Runs
        BY AgentRunAssumption DEF Runs
      <4> QED BY <4>1 DEF IdlePass, Pass, PassSet, NoSnap, SnapStatus
    <3>6. RestTypeOK
      BY <2>1, <3>1, <3>4, <3>5, AgentRunAssumption DEF Init, RestTypeOK
    <3> QED BY <3>2, <3>3, <3>6, TypeParts
  <2> QED BY <2>1
<1>2. TypeOK /\ [Next]_vars => TypeOK'
  <2>1. ASSUME TypeOK, Next PROVE TypeOK'
    BY <2>1, RequestType, ReleaseType, ExecuteType, CleanType, LateCreateType, ReconcileType,
       ProcessType DEF Next
  <2>2. ASSUME TypeOK, UNCHANGED vars PROVE TypeOK'
    BY <2>2 DEF TypeOK, vars, dbVars, schedVars, boundVars
  <2> QED BY <2>1, <2>2
<1> QED BY <1>1, <1>2, PTL DEF Spec


-----------------------------------------------------------------------------
(* The inductive invariant                                                 *)

\* An execution of m, or the retry of its cleanup, is under way.
InFlight(m) == pc[m] \notin {"idle", "done", "leaked"}

\* A run is recorded together with its root member.
RootRecorded ==
  \A r \in Runs : run[r] = "absent" <=> member[Root(r)] = "absent"

\* A run leaves "queued" together with its root.
QueuedRoot ==
  \A r \in Runs : run[r] = "queued" => member[Root(r)] = "queued"

\* Nothing executes before it has left "queued".
StartedFirst ==
  \A m \in Members : InFlight(m) =>
     /\ member[m] \notin {"absent", "queued"}
     /\ IsRoot(m) => run[RunOf(m)] \notin {"absent", "queued"}

\* A member that has not started has no session, and no workspace that a
\* create request could have been sent for.
NoEarlySession ==
  \A m \in Members : member[m] \in {"absent", "queued"}
                        => session[m] = "none" /\ overlay[m] # "ready"

\* The member scheduler queues callees, each under its own run.
CalleesQueued ==
  \A r \in Runs : \A i \in DOMAIN memQueue[r] :
     RunOf(memQueue[r][i]) = r /\ ~IsRoot(memQueue[r][i])

\* A run in the run queue has not started, is owned, and is there once, unless
\* it has already ended.
RunQueueOK ==
  /\ \A i \in DOMAIN runQueue :
       /\ run[runQueue[i]] \in {"queued", "finalizing"} \cup Terminal
       /\ runQueue[i] \in managed \/ run[runQueue[i]] \in Terminal
  /\ \A i, j \in DOMAIN runQueue :
       i # j /\ runQueue[i] = runQueue[j] => run[runQueue[i]] \in Terminal

\* What a stale snapshot of a reconcile pass still says about a run.
PassOK ==
  \A c \in Reconcilers :
     /\ \A r \in Runs :
          /\ r \in recon[c].todo => run[r] # "absent"
          /\ recon[c].snap[r] = "terminal" => run[r] \in Terminal
          /\ recon[c].snap[r] = "queued" /\ r \notin managed
               => run[r] \notin {"absent", "preparing", "running"}
     /\ recon[c].pc = "work" => run[recon[c].run] \in {"finalizing"} \cup Terminal

\* Session and workspace of a member at each await point.
SessionOK ==
  \A m \in Members :
     /\ pc[m] \in {"ensuring", "mounting", "injecting"}
          => session[m] # "live" /\ overlay[m] # "ready"
     /\ pc[m] = "creating" /\ session[m] = "none" => overlay[m] \notin {"deleting", "deleted"}
     /\ pc[m] = "unmounting" => session[m] = "closed"
     /\ overlay[m] \in {"deleting", "deleted"} => session[m] # "live"

StatusInv == RootRecorded /\ QueuedRoot /\ StartedFirst /\ NoEarlySession
QueueInv  == CalleesQueued /\ RunQueueOK /\ PassOK
SafetyInv == TypeOK /\ StatusInv /\ QueueInv /\ SessionOK

-----------------------------------------------------------------------------
(* What one segment of an execution does to the statuses                   *)

Started == {"preparing", "running", "finalizing"} \cup Terminal

(* One segment of the execution of m, which finds the member statuses mem   *)
(* and the owned runs mg: it writes only m and, for a root, its run, never  *)
(* a finished one, and disowns the run only when it ends it.                *)
Segment(m, mem, mg) ==
  LET r == RunOf(m) IN
  /\ \A x \in Members \ {m} : member'[x] = mem[x] /\ pc'[x] = pc[x]
  /\ IF mem[m] \in Terminal THEN member'[m] = mem[m] ELSE member'[m] \in Started
  /\ \A q \in Runs : q # r \/ ~IsRoot(m) => run'[q] = run[q]
  /\ IsRoot(m) => /\ run[r] \in Terminal => run'[r] = run[r]
                  /\ run[r] = "finalizing" => run'[r] \in {"finalizing"} \cup Terminal
                  /\ run'[r] \in Started
  /\ \/ managed' = mg
     \/ IsRoot(m) /\ managed' = mg \ {r} /\ run'[r] \in Terminal

(* The tail of finalizeMember is such a segment.                            *)
LEMMA SettleSegment ==
  ASSUME OutTypeOK, NEW m \in Members, NEW e \in Errors,
         NEW mem \in [Members -> Status], NEW mg \in SUBSET Runs,
         Settle(m, e, mem, mg)
  PROVE  Segment(m, mem, mg) /\ pc'[m] \in {"done", "leaked", "retryWait"}
<1>1. RunOf(m) \in Runs
  BY MemberRun
<1>2. Outcome(RunOf(m), e) \in Terminal
  BY DEF Outcome, Terminal
<1>3. /\ \A x \in Members \ {m} : member'[x] = mem[x]
      /\ IF mem[m] \in Terminal THEN member'[m] = mem[m] ELSE member'[m] \in Started
  BY <1>2 DEF Settle, SettledMember, Started
<1>4. RetryPc \in {"done", "retryWait"}
  BY DEF RetryPc
<1>5. /\ \A x \in Members \ {m} : pc'[x] = pc[x]
      /\ pc'[m] \in {"done", "leaked", "retryWait"}
  BY <1>4 DEF Settle, OutTypeOK
<1>6. \A q \in Runs : q # RunOf(m) \/ ~IsRoot(m) => run'[q] = run[q]
  BY <1>1 DEF Settle, OutTypeOK
<1>7. IsRoot(m) => /\ run[RunOf(m)] \in Terminal => run'[RunOf(m)] = run[RunOf(m)]
                   /\ run[RunOf(m)] = "finalizing" =>
                        run'[RunOf(m)] \in {"finalizing"} \cup Terminal
                   /\ run'[RunOf(m)] \in Started
  BY <1>1, <1>2 DEF Settle, OutTypeOK, Started
<1>8. \/ managed' = mg
      \/ IsRoot(m) /\ managed' = mg \ {RunOf(m)} /\ run'[RunOf(m)] \in Terminal
  BY <1>1, <1>2 DEF Settle, OutTypeOK
<1> QED BY <1>3, <1>5, <1>6, <1>7, <1>8 DEF Segment

(* So is the start of an execution; where it goes on, the member and (for a *)
(* root) its run were queued or already preparing.                          *)
LEMMA BeginSegment ==
  ASSUME OutTypeOK, NEW m \in Members, NEW mem \in [Members -> Status],
         NEW mg \in SUBSET Runs, Begin(m, mem, mg)
  PROVE  /\ Segment(m, mem, mg)
         /\ \/ pc'[m] \in {"done", "leaked", "retryWait"}
            \/ /\ pc'[m] \in {"ensuring", "mounting"}
               /\ mem[m] \in {"queued", "preparing"}
               /\ IsRoot(m) => run[RunOf(m)] \in {"absent", "queued", "preparing"}
<1>1. RunOf(m) \in Runs
  BY MemberRun
<1>2. CASE Settle(m, "cancelled", mem, mg) \/ Settle(m, "failed", mem, mg)
  <2>1. "cancelled" \in Errors /\ "failed" \in Errors
    BY DEF Errors
  <2> QED BY <1>2, <2>1, SettleSegment
<1>3. CASE /\ run[RunOf(m)] # "finalizing" /\ CanTransition(mem[m], "preparing")
           /\ IsRoot(m) => run[RunOf(m)] = "absent" \/ CanTransition(run[RunOf(m)], "preparing")
           /\ member' = [mem EXCEPT ![m] = "preparing"]
           /\ managed' = mg
           /\ UNCHANGED <<cleanup, err>>
           /\ IF IsRoot(m)
              THEN /\ run' = [run EXCEPT ![RunOf(m)] = "preparing"]
                   /\ space' = [space EXCEPT ![RunOf(m)] = "preparing"]
                   /\ pc' = [pc EXCEPT ![m] = "ensuring"]
              ELSE pc' = [pc EXCEPT ![m] = "mounting"] /\ UNCHANGED <<run, space>>
  <2>1. /\ mem[m] \in {"queued", "preparing"}
        /\ IsRoot(m) => run[RunOf(m)] \in {"absent", "queued", "preparing"}
    BY <1>3 DEF CanTransition, Terminal
  <2>2. /\ \A x \in Members \ {m} : member'[x] = mem[x] /\ pc'[x] = pc[x]
        /\ mem[m] \notin Terminal /\ member'[m] \in Started
        /\ pc'[m] \in {"ensuring", "mounting"}
    BY <1>3, <2>1 DEF OutTypeOK, Started, Terminal
  <2>3. /\ \A q \in Runs : q # RunOf(m) \/ ~IsRoot(m) => run'[q] = run[q]
        /\ IsRoot(m) => run[RunOf(m)] \notin Terminal \cup {"finalizing"}
                        /\ run'[RunOf(m)] \in Started
    BY <1>1, <1>3, <2>1 DEF OutTypeOK, Started, Terminal
  <2> QED BY <1>3, <2>1, <2>2, <2>3 DEF Segment
<1> QED BY <1>2, <1>3 DEF Begin

(* So is a failed cleanup ...                                               *)
LEMMA CleanupFailedSegment ==
  ASSUME OutTypeOK, NEW m \in Members, CleanupFailed(m), member[m] \in Started,
         IsRoot(m) => run[RunOf(m)] \in Started
  PROVE  Segment(m, member, managed) /\ pc'[m] \in {"done", "leaked", "retryWait"}
<1>1. RunOf(m) \in Runs
  BY MemberRun
<1>2. RetryPc \in {"done", "retryWait"}
  BY DEF RetryPc
<1>3. /\ \A x \in Members \ {m} : member'[x] = member[x] /\ pc'[x] = pc[x]
      /\ pc'[m] \in {"done", "leaked", "retryWait"}
      /\ member' = member /\ managed' = managed
  BY <1>2 DEF CleanupFailed, OutTypeOK
<1>4. \A q \in Runs : q # RunOf(m) \/ ~IsRoot(m) => run'[q] = run[q]
  BY <1>1 DEF CleanupFailed, OutTypeOK
<1>5. IsRoot(m) => /\ run[RunOf(m)] \in Terminal => run'[RunOf(m)] = run[RunOf(m)]
                   /\ run[RunOf(m)] = "finalizing" =>
                        run'[RunOf(m)] \in {"finalizing"} \cup Terminal
                   /\ run'[RunOf(m)] \in Started
  BY <1>1 DEF CleanupFailed, OutTypeOK, Started
<1> QED BY <1>3, <1>4, <1>5 DEF Segment

(* ... and the first part of finalizeMember, where ru is the run statuses   *)
(* or marks the run of a preparing root as running.                         *)
LEMMA FinalizeSegment ==
  ASSUME OutTypeOK, NEW m \in Members, NEW e \in Errors, NEW thr \in Phase, NEW ru,
         Finalize(m, e, thr, ru), member[m] \in Started,
         IsRoot(m) => run[RunOf(m)] \in Started,
         \/ ru = run
         \/ /\ IsRoot(m) /\ run[RunOf(m)] = "preparing"
            /\ ru = [run EXCEPT ![RunOf(m)] = "running"]
  PROVE  /\ Segment(m, member, managed)
         /\ pc'[m] \in {"done", "leaked", "retryWait", "disposing", "closing"}
<1>1. RunOf(m) \in Runs
  BY MemberRun
<1>2. CASE member[m] \in Terminal
  <2>1. Settle(m, e, member, managed)
    BY <1>2 DEF Finalize
  <2> QED BY <2>1, SettleSegment DEF OutTypeOK
<1>3. CASE member[m] \notin Terminal
  <2>1. /\ \A x \in Members \ {m} : member'[x] = member[x] /\ pc'[x] = pc[x]
        /\ member'[m] \in Started
        /\ pc'[m] \in {"disposing", "closing"}
        /\ managed' = managed /\ run' = ru
    BY <1>3 DEF Finalize, OutTypeOK, Started
  <2>2. \A q \in Runs : q # RunOf(m) \/ ~IsRoot(m) => run'[q] = run[q]
    BY <1>1, <2>1 DEF OutTypeOK
  <2>3. IsRoot(m) => /\ run[RunOf(m)] \in Terminal => run'[RunOf(m)] = run[RunOf(m)]
                     /\ run[RunOf(m)] = "finalizing" =>
                          run'[RunOf(m)] \in {"finalizing"} \cup Terminal
                     /\ run'[RunOf(m)] \in Started
    BY <1>1, <2>1 DEF OutTypeOK, Started, Terminal
  <2> QED BY <1>3, <2>1, <2>2, <2>3 DEF Segment
<1> QED BY <1>2, <1>3

-----------------------------------------------------------------------------
(* What every step does to the statuses                                    *)

\* A run goes forward, starts only under this process, and is disowned only
\* when it has ended.
StatusStep ==
  \A r \in Runs :
    /\ run[r] = "finalizing" => run'[r] \in {"finalizing"} \cup Terminal
    /\ run[r] # "absent" => run'[r] # "absent"
    /\ run'[r] \in {"preparing", "running"} =>
         run[r] \in {"preparing", "running"} \/ r \in managed'
    /\ r \in managed \ managed' => run'[r] \in Terminal

\* The step formula of TerminalIsFinal.
Final ==
  /\ \A r \in Runs : run[r] \in Terminal => run'[r] = run[r]
  /\ \A m \in Members : member[m] \in Terminal => member'[m] = member[m]

(* A member is a root exactly when it is the root of its run.               *)
LEMMA RootIsRoot ==
  \A m \in Members : IsRoot(m) <=> m = Root(RunOf(m))
  BY DEF Members, IsRoot, Root, RunOf

(* A segment of one execution keeps the status invariant, when all that     *)
(* happened before it in the same step is the settling of finalizing        *)
(* members, the submission of m and the claim of its run.                   *)
LEMMA SegmentKeeps ==
  ASSUME OutTypeOK, StatusInv, NEW m \in Members,
         NEW mem \in [Members -> Status], NEW mg \in SUBSET Runs,
         Segment(m, mem, mg),
         \A x \in Members \ {m} :
            mem[x] = member[x] \/ (member[x] = "finalizing" /\ mem[x] \in Terminal),
         member[m] \in Terminal => mem[m] = member[m],
         \A x \in Members \ {m} : session'[x] = session[x] /\ overlay'[x] = overlay[x],
         managed \subseteq mg,
         IsRoot(m) => \/ RunOf(m) \in mg \/ run[RunOf(m)] \in Started
                      \/ run'[RunOf(m)] \in Terminal
  PROVE  StatusInv' /\ StatusStep /\ Final
<1> DEFINE r == RunOf(m)
<1>1. r \in Runs /\ (IsRoot(m) => m = Root(r))
  BY MemberRun, RootIsRoot
<1>2. /\ \A x \in Members \ {m} : member'[x] = mem[x] /\ pc'[x] = pc[x]
      /\ IF mem[m] \in Terminal THEN member'[m] = mem[m] ELSE member'[m] \in Started
      /\ \A q \in Runs : q # r \/ ~IsRoot(m) => run'[q] = run[q]
      /\ IsRoot(m) => /\ run[r] \in Terminal => run'[r] = run[r]
                      /\ run[r] = "finalizing" => run'[r] \in {"finalizing"} \cup Terminal
                      /\ run'[r] \in Started
      /\ \/ managed' = mg
         \/ IsRoot(m) /\ managed' = mg \ {r} /\ run'[r] \in Terminal
  BY DEF Segment
<1>3. member'[m] \in Started
  BY <1>2 DEF Started
<1>4. \A x \in Members \ {m} :
         /\ member'[x] = "absent" <=> member[x] = "absent"
         /\ member'[x] = "queued" <=> member[x] = "queued"
         /\ member[x] \in Terminal => member'[x] = member[x]
  BY <1>2 DEF Terminal
<1>5. "absent" \notin Started /\ "queued" \notin Started
  BY DEF Started, Terminal
<1>6. \A q \in Runs : /\ Root(q) \in Members
                      /\ Root(q) = m => q = r /\ IsRoot(m)
  BY MemberRun
<1>7. \A x \in Members : IsRoot(x) /\ RunOf(x) = r /\ IsRoot(m) => x = m
  BY RootIsRoot
<1>8. IsRoot(m) => \/ RunOf(m) \in mg \/ run[RunOf(m)] \in Started
                   \/ run'[RunOf(m)] \in Terminal
  OBVIOUS
<1> HIDE DEF r
<1>9. RootRecorded'
  BY <1>1, <1>2, <1>3, <1>4, <1>5, <1>6 DEF RootRecorded, StatusInv
<1>10. QueuedRoot'
  BY <1>1, <1>2, <1>3, <1>4, <1>5, <1>6 DEF QueuedRoot, StatusInv
<1>11. StartedFirst'
  <2> SUFFICES ASSUME NEW x \in Members, InFlight(x)'
               PROVE  /\ member'[x] \notin {"absent", "queued"}
                      /\ IsRoot(x) => run'[RunOf(x)] \notin {"absent", "queued"}
    BY DEF StartedFirst
  <2>1. CASE x = m
    BY <1>2, <1>3, <1>5, <2>1 DEF r
  <2>2. CASE x # m
    <3>1. InFlight(x)
      BY <1>2, <2>2 DEF InFlight
    <3>2. RunOf(x) \in Runs
      BY MemberRun
    <3>3. /\ member[x] \notin {"absent", "queued"}
          /\ IsRoot(x) => run[RunOf(x)] \notin {"absent", "queued"}
      BY <3>1 DEF StartedFirst, StatusInv
    <3> QED BY <1>2, <1>4, <1>7, <2>2, <3>2, <3>3
  <2> QED BY <2>1, <2>2
<1>12. NoEarlySession'
  BY <1>3, <1>4, <1>5 DEF NoEarlySession, StatusInv
<1>13. StatusStep
  <2> SUFFICES ASSUME NEW q \in Runs
               PROVE  /\ run[q] = "finalizing" => run'[q] \in {"finalizing"} \cup Terminal
                      /\ run[q] # "absent" => run'[q] # "absent"
                      /\ run'[q] \in {"preparing", "running"} =>
                           run[q] \in {"preparing", "running"} \/ q \in managed'
                      /\ q \in managed \ managed' => run'[q] \in Terminal
    BY DEF StatusStep
  <2>1. CASE q = r /\ IsRoot(m)
    BY <1>1, <1>2, <1>5, <1>8, <2>1 DEF Started, Terminal, r
  <2>2. CASE ~(q = r /\ IsRoot(m))
    BY <1>2, <2>2
  <2> QED BY <2>1, <2>2
<1>14. Final
  BY <1>1, <1>2, <1>4 DEF Final
<1> QED BY <1>9, <1>10, <1>11, <1>12, <1>13, <1>14 DEF StatusInv

(* A reconcile pass that rests keeps what it knows.                         *)
LEMMA PassKept ==
  ASSUME TypeOK, PassOK, StatusStep, Final, recon' = recon
  PROVE  PassOK'
<1> SUFFICES ASSUME NEW c \in Reconcilers
             PROVE  /\ \A r \in Runs :
                         /\ r \in recon[c].todo => run'[r] # "absent"
                         /\ recon[c].snap[r] = "terminal" => run'[r] \in Terminal
                         /\ recon[c].snap[r] = "queued" /\ r \notin managed'
                              => run'[r] \notin {"absent", "preparing", "running"}
                    /\ recon[c].pc = "work" => run'[recon[c].run] \in {"finalizing"} \cup Terminal
  BY DEF PassOK
<1>1. recon[c].run \in Runs
  BY DEF TypeOK, PassSet
<1>2. recon[c].pc = "work" => run'[recon[c].run] \in {"finalizing"} \cup Terminal
  BY <1>1 DEF PassOK, StatusStep, Final
<1>3. ASSUME NEW r \in Runs
      PROVE  /\ r \in recon[c].todo => run'[r] # "absent"
             /\ recon[c].snap[r] = "terminal" => run'[r] \in Terminal
             /\ recon[c].snap[r] = "queued" /\ r \notin managed'
                  => run'[r] \notin {"absent", "preparing", "running"}
  BY DEF PassOK, StatusStep, Final, Terminal
<1> QED BY <1>2, <1>3

(* An execution under way keeps the queues, which it does not touch.        *)
LEMMA FlightKeeps ==
  ASSUME TypeOK, StatusInv, QueueInv, NEW m \in Members, InFlight(m),
         Segment(m, member, managed),
         UNCHANGED <<recon, runQueue, memQueue>>,
         \A x \in Members \ {m} : session'[x] = session[x] /\ overlay'[x] = overlay[x]
  PROVE  StatusInv' /\ QueueInv' /\ Final
<1>0. OutTypeOK /\ SchedTypeOK /\ member \in [Members -> Status] /\ managed \in SUBSET Runs
      /\ run \in [Runs -> Status]
  BY TypeParts DEF OutTypeOK
<1>1. RunOf(m) \in Runs
  BY MemberRun
<1>2. IsRoot(m) => run[RunOf(m)] \in Started
  BY <1>0, <1>1 DEF StatusInv, StartedFirst, Started, Status
<1>3. StatusInv' /\ StatusStep /\ Final
  BY <1>0, <1>2, SegmentKeeps
<1>4. PassOK'
  BY <1>3, PassKept DEF QueueInv
<1>5. CalleesQueued'
  BY DEF CalleesQueued, QueueInv
<1>6. \A q \in Runs : /\ run[q] \in {"queued", "finalizing"} \cup Terminal
                          => run'[q] \in {"queued", "finalizing"} \cup Terminal
                      /\ run[q] \in Terminal => run'[q] \in Terminal
  BY <1>1, <1>2, <1>3 DEF Segment, Final, StatusStep, Started, Terminal
<1>7. RunQueueOK'
  <2>1. \A i \in DOMAIN runQueue : runQueue[i] \in Runs
    BY <1>0 DEF SchedTypeOK
  <2> QED BY <1>3, <1>6, <2>1 DEF RunQueueOK, QueueInv, StatusStep
<1> QED BY <1>3, <1>4, <1>5, <1>7 DEF QueueInv

-----------------------------------------------------------------------------
(* Executions and cleanups                                                 *)

(* An execution under way has left "queued", as has the run of a root.      *)
LEMMA FlightStarted ==
  ASSUME TypeOK, StatusInv, NEW m \in Members, InFlight(m)
  PROVE  member[m] \in Started /\ (IsRoot(m) => run[RunOf(m)] \in Started)
<1>1. RunOf(m) \in Runs
  BY MemberRun
<1>2. member[m] \in Status /\ run[RunOf(m)] \in Status
  BY <1>1 DEF TypeOK
<1> QED BY <1>2 DEF StatusInv, StartedFirst, Started, Status

(* Moving on without writing a status is a segment.                         *)
LEMMA QuietSegment ==
  ASSUME NEW m \in Members, UNCHANGED <<run, member, managed>>,
         \A x \in Members \ {m} : pc'[x] = pc[x],
         member[m] \in Started, IsRoot(m) => run[RunOf(m)] \in Started
  PROVE  Segment(m, member, managed)
  BY DEF Segment

\* What SessionOK says of one member, after the step.
SessionAfter(m) ==
  /\ pc'[m] \in {"ensuring", "mounting", "injecting"}
       => session'[m] # "live" /\ overlay'[m] # "ready"
  /\ pc'[m] = "creating" /\ session'[m] = "none" => overlay'[m] \notin {"deleting", "deleted"}
  /\ pc'[m] = "unmounting" => session'[m] = "closed"
  /\ overlay'[m] \in {"deleting", "deleted"} => session'[m] # "live"

(* The other members' sessions and workspaces are not disturbed.            *)
LEMMA SessionKept ==
  ASSUME SessionOK, NEW m \in Members,
         \A x \in Members \ {m} : /\ pc'[x] = pc[x] /\ session'[x] = session[x]
                                  /\ overlay'[x] = overlay[x],
         SessionAfter(m)
  PROVE  SessionOK'
  BY DEF SessionOK, SessionAfter

\* Await points at which session and workspace are not constrained.
Elsewhere == {"done", "leaked", "retryWait", "disposing", "closing", "polling"}

(* Every segment of executeMember keeps the invariant.                      *)
LEMMA ExecuteSafe ==
  ASSUME SafetyInv, NEW m \in Members, Execute(m)
  PROVE  StatusInv' /\ QueueInv' /\ SessionOK' /\ Final
<1>0. TypeOK /\ StatusInv /\ QueueInv /\ SessionOK /\ OutTypeOK /\ RestTypeOK
  BY TypeParts DEF SafetyInv
<1>a. /\ pc \in [Members -> Location] /\ session \in [Members -> {"none", "live", "closed"}]
      /\ overlay \in [Members -> Phase] /\ thread \in [Members -> Phase]
      /\ member \in [Members -> Status] /\ managed \in SUBSET Runs /\ run \in [Runs -> Status]
      /\ RunOf(m) \in Runs
  BY <1>0, MemberRun DEF OutTypeOK, RestTypeOK
<1>b. InFlight(m) /\ UNCHANGED <<recon, runQueue, memQueue>>
  BY DEF Execute, EnsureDone, MountDone, InjectDone, InstanceCreates, CreateDone, CreateFails,
         PollCompleted, PollFailed, PollCancelled, InFlight, execFrame, schedVars
<1>c. member[m] \in Started /\ (IsRoot(m) => run[RunOf(m)] \in Started)
  BY <1>0, <1>b, FlightStarted
<1>e. "failed" \in Errors /\ "cancelled" \in Errors /\ "none" \in Errors
      /\ "ready" \in Phase /\ "none" \in Phase
  BY DEF Errors, Phase
<1>g. ASSUME Segment(m, member, managed), SessionAfter(m),
             \A x \in Members \ {m} : session'[x] = session[x] /\ overlay'[x] = overlay[x]
      PROVE  StatusInv' /\ QueueInv' /\ SessionOK' /\ Final
  <2>1. StatusInv' /\ QueueInv' /\ Final
    BY <1>0, <1>b, <1>g, FlightKeeps
  <2>2. \A x \in Members \ {m} : pc'[x] = pc[x]
    BY <1>g DEF Segment
  <2>3. SessionOK'
    BY <1>0, <1>g, <2>2, SessionKept
  <2> QED BY <2>1, <2>3
<1>s. ASSUME Settle(m, "failed", member, managed)
      PROVE  Segment(m, member, managed) /\ pc'[m] \in Elsewhere
  BY <1>0, <1>a, <1>e, <1>s, SettleSegment DEF Elsewhere
<1>t. ASSUME pc'[m] \in Elsewhere, UNCHANGED <<session, overlay>>
      PROVE  SessionAfter(m)
  BY <1>0, <1>t DEF SessionAfter, SessionOK, Elsewhere
<1>1. CASE EnsureDone(m)
  <2>1. CASE Settle(m, "failed", member, managed)
    BY <1>1, <1>g, <1>s, <1>t, <2>1 DEF EnsureDone
  <2>2. CASE pc' = [pc EXCEPT ![m] = "mounting"] /\ UNCHANGED <<run, cleanup, member, managed, err>>
    <3>1. Segment(m, member, managed)
      BY <1>a, <1>c, <2>2, QuietSegment
    <3>2. SessionAfter(m)
      BY <1>0, <1>1, <1>a, <2>2 DEF EnsureDone, SessionOK, SessionAfter
    <3> QED BY <1>1, <1>g, <3>1, <3>2 DEF EnsureDone
  <2> QED BY <1>1, <2>1, <2>2 DEF EnsureDone
<1>2. CASE MountDone(m)
  <2>1. CASE Settle(m, "failed", member, managed) /\ UNCHANGED overlay
    BY <1>2, <1>g, <1>s, <1>t, <2>1 DEF MountDone
  <2>2. CASE /\ overlay' = [overlay EXCEPT ![m] = "preparing"]
             /\ pc' = [pc EXCEPT ![m] = "injecting"]
             /\ UNCHANGED <<run, cleanup, member, space, managed, err>>
    <3>1. Segment(m, member, managed)
      BY <1>a, <1>c, <2>2, QuietSegment
    <3>2. SessionAfter(m)
      BY <1>0, <1>2, <1>a, <2>2 DEF MountDone, SessionOK, SessionAfter
    <3> QED BY <1>2, <1>a, <1>g, <2>2, <3>1, <3>2 DEF MountDone
  <2> QED BY <1>2, <2>1, <2>2 DEF MountDone
<1>3. CASE InjectDone(m)
  <2>1. CASE /\ overlay' = [overlay EXCEPT ![m] = "ready"]
             /\ pc' = [pc EXCEPT ![m] = "creating"]
             /\ UNCHANGED <<run, cleanup, member, space, managed, err, faults>>
    <3>1. Segment(m, member, managed)
      BY <1>a, <1>c, <2>1, QuietSegment
    <3>2. SessionAfter(m)
      BY <1>0, <1>3, <1>a, <2>1 DEF InjectDone, SessionOK, SessionAfter
    <3> QED BY <1>3, <1>a, <1>g, <2>1, <3>1, <3>2 DEF InjectDone
  <2>2. CASE /\ \/ overlay' = [overlay EXCEPT ![m] = "deleted"]
                \/ overlay' = [overlay EXCEPT ![m] = "delete-retrying"]
             /\ Settle(m, "failed", member, managed)
    <3>1. Segment(m, member, managed) /\ pc'[m] \in Elsewhere
      BY <1>s, <2>2
    <3>2. session' = session /\ session[m] # "live"
      BY <1>0, <1>3 DEF InjectDone, SessionOK
    <3>3. SessionAfter(m)
      BY <3>1, <3>2 DEF SessionAfter, Elsewhere
    <3>4. \A x \in Members \ {m} : overlay'[x] = overlay[x]
      BY <1>a, <2>2
    <3> QED BY <1>g, <3>1, <3>2, <3>3, <3>4
  <2> QED BY <1>3, <2>1, <2>2 DEF InjectDone
<1>4. CASE InstanceCreates(m)
  <2>1. Segment(m, member, managed)
    BY <1>4, <1>c, QuietSegment DEF InstanceCreates, outVars
  <2>2. SessionAfter(m)
    BY <1>0, <1>4, <1>a DEF InstanceCreates, outVars, SessionOK, SessionAfter
  <2> QED BY <1>4, <1>a, <1>g, <2>1, <2>2 DEF InstanceCreates
<1>5. CASE CreateDone(m)
  <2> DEFINE started == IF IsRoot(m) THEN [run EXCEPT ![RunOf(m)] = "running"] ELSE run
             refused == member[m] # "preparing" \/ (IsRoot(m) /\ run[RunOf(m)] # "preparing")
  <2>1. CASE /\ ~refused
             /\ member' = [member EXCEPT ![m] = "running"]
             /\ run' = started
             /\ pc' = [pc EXCEPT ![m] = "polling"]
             /\ UNCHANGED <<cleanup, space, managed, err>>
    <3>1. Segment(m, member, managed)
      BY <1>a, <1>c, <2>1 DEF Segment, Started, Terminal
    <3>2. pc'[m] \in Elsewhere
      BY <1>a, <2>1 DEF Elsewhere
    <3> QED BY <1>5, <1>g, <1>t, <3>1, <3>2 DEF CreateDone
  <2>2. CASE Finalize(m, "failed", "ready", run)
    <3>1. Segment(m, member, managed) /\ pc'[m] \in Elsewhere
      BY <1>0, <1>c, <1>e, <2>2, FinalizeSegment DEF Elsewhere
    <3> QED BY <1>5, <1>g, <1>t, <3>1 DEF CreateDone
  <2>3. CASE ~refused /\ Finalize(m, "cancelled", "ready", started)
    <3>1. Segment(m, member, managed) /\ pc'[m] \in Elsewhere
      BY <1>0, <1>c, <1>e, <2>3, FinalizeSegment DEF Elsewhere
    <3> QED BY <1>5, <1>g, <1>t, <3>1 DEF CreateDone
  <2> QED BY <1>5, <2>1, <2>2, <2>3 DEF CreateDone
<1>6. CASE CreateFails(m) \/ PollCompleted(m) \/ PollFailed(m) \/ PollCancelled(m)
  <2>1. PICK e \in Errors, thr \in Phase : Finalize(m, e, thr, run)
    BY <1>6, <1>a, <1>e DEF CreateFails, PollCompleted, PollFailed, PollCancelled
  <2>2. Segment(m, member, managed) /\ pc'[m] \in Elsewhere
    BY <1>0, <1>c, <2>1, FinalizeSegment DEF Elsewhere
  <2>3. UNCHANGED <<session, overlay>>
    BY <1>6 DEF CreateFails, PollCompleted, PollFailed, PollCancelled
  <2> QED BY <1>g, <1>t, <2>2, <2>3
<1> QED BY <1>1, <1>2, <1>3, <1>4, <1>5, <1>6 DEF Execute

(* A close, whether or not it is answered, touches one session and makes    *)
(* none live.                                                               *)
LEMMA CloseOne ==
  ASSUME session \in [Members -> {"none", "live", "closed"}], NEW m \in Members,
         CloseSession(m) \/ CloseFails(m)
  PROVE  /\ \A x \in Members \ {m} : session'[x] = session[x]
         /\ session'[m] = session[m] \/ (session[m] # "none" /\ session'[m] = "closed")
  BY DEF CloseSession, CloseFails

(* Every segment of finalizeMember after its first await keeps it.          *)
LEMMA CleanSafe ==
  ASSUME SafetyInv, NEW m \in Members, Clean(m)
  PROVE  StatusInv' /\ QueueInv' /\ SessionOK' /\ Final
<1>0. TypeOK /\ StatusInv /\ QueueInv /\ SessionOK /\ OutTypeOK /\ RestTypeOK
  BY TypeParts DEF SafetyInv
<1>a. /\ pc \in [Members -> Location] /\ session \in [Members -> {"none", "live", "closed"}]
      /\ overlay \in [Members -> Phase] /\ thread \in [Members -> Phase]
      /\ member \in [Members -> Status] /\ managed \in SUBSET Runs /\ err[m] \in Errors
  BY <1>0 DEF OutTypeOK, RestTypeOK
<1>b. InFlight(m) /\ UNCHANGED <<recon, runQueue, memQueue>>
  BY DEF Clean, CloseDone, DisposeStarts, DisposeRefused, UnmountDone, RetryFire, InFlight,
         execFrame, schedVars
<1>c. member[m] \in Started /\ (IsRoot(m) => run[RunOf(m)] \in Started)
  BY <1>0, <1>b, FlightStarted
<1>g. ASSUME Segment(m, member, managed), SessionAfter(m),
             \A x \in Members \ {m} : session'[x] = session[x] /\ overlay'[x] = overlay[x]
      PROVE  StatusInv' /\ QueueInv' /\ SessionOK' /\ Final
  <2>1. StatusInv' /\ QueueInv' /\ Final
    BY <1>0, <1>b, <1>g, FlightKeeps
  <2>2. \A x \in Members \ {m} : pc'[x] = pc[x]
    BY <1>g DEF Segment
  <2>3. SessionOK'
    BY <1>0, <1>g, <2>2, SessionKept
  <2> QED BY <2>1, <2>3
<1>s. ASSUME CleanupFailed(m)
      PROVE  Segment(m, member, managed) /\ pc'[m] \in Elsewhere
  BY <1>0, <1>c, <1>s, CleanupFailedSegment DEF Elsewhere
<1>1. CASE CloseDone(m)
  <2>1. /\ \A x \in Members \ {m} : session'[x] = session[x]
        /\ session'[m] = session[m] \/ session'[m] = "closed"
        /\ overlay' = overlay
    BY <1>1, <1>a, CloseOne DEF CloseDone
  <2>2. Segment(m, member, managed) /\ pc'[m] \in Elsewhere
    <3>1. CASE CleanupFailed(m)
      BY <1>s, <3>1
    <3>2. CASE pc' = [pc EXCEPT ![m] = "disposing"] /\ UNCHANGED <<run, cleanup, member, space, managed>>
      BY <1>a, <1>c, <3>2, QuietSegment DEF Elsewhere
    <3> QED BY <1>1, <3>1, <3>2 DEF CloseDone
  <2>3. SessionAfter(m)
    BY <1>0, <2>1, <2>2 DEF SessionAfter, SessionOK, Elsewhere
  <2> QED BY <1>g, <2>1, <2>2, <2>3
<1>2. CASE DisposeStarts(m)
  <2>1. /\ \A x \in Members \ {m} : session'[x] = session[x] /\ overlay'[x] = overlay[x]
        /\ session'[m] = "closed" /\ pc' = [pc EXCEPT ![m] = "unmounting"]
    BY <1>2, <1>a DEF DisposeStarts, TerminateMemberThread, CloseSession
  <2>2. Segment(m, member, managed)
    BY <1>2, <1>a, <1>c, <2>1, QuietSegment DEF DisposeStarts
  <2>3. SessionAfter(m)
    BY <1>a, <2>1 DEF SessionAfter
  <2> QED BY <1>g, <2>1, <2>2, <2>3
<1>3. CASE DisposeRefused(m)
  <2>1. /\ \A x \in Members \ {m} : session'[x] = session[x] /\ overlay'[x] = overlay[x]
        /\ session'[m] = session[m] \/ session'[m] = "closed"
        /\ overlay'[m] = overlay[m] \/ overlay'[m] = "manual-intervention"
    BY <1>3, <1>a, CloseOne DEF DisposeRefused
  <2>2. Segment(m, member, managed) /\ pc'[m] \in Elsewhere
    BY <1>3, <1>s DEF DisposeRefused
  <2>3. SessionAfter(m)
    BY <1>0, <2>1, <2>2 DEF SessionAfter, SessionOK, Elsewhere
  <2> QED BY <1>g, <2>1, <2>2, <2>3
<1>4. CASE UnmountDone(m)
  <2>1. Segment(m, member, managed) /\ pc'[m] \in Elsewhere
    <3>1. CASE Settle(m, err[m], member, managed)
      BY <1>0, <1>a, <3>1, SettleSegment DEF Elsewhere
    <3>2. CASE CleanupFailed(m)
      BY <1>s, <3>2
    <3> QED BY <1>4, <3>1, <3>2 DEF UnmountDone
  <2>2. /\ session' = session /\ session[m] = "closed"
        /\ \A x \in Members \ {m} : overlay'[x] = overlay[x]
    BY <1>0, <1>4, <1>a DEF UnmountDone, SessionOK
  <2>3. SessionAfter(m)
    BY <2>1, <2>2 DEF SessionAfter, Elsewhere
  <2> QED BY <1>g, <2>1, <2>2, <2>3
<1>5. CASE RetryFire(m)
  <2>1. Segment(m, member, managed) /\ pc'[m] \in Elsewhere
    BY <1>0, <1>5, <1>a, <1>c, FinalizeSegment DEF RetryFire, Elsewhere
  <2>2. SessionAfter(m)
    BY <1>0, <1>5, <2>1 DEF RetryFire, SessionAfter, SessionOK, Elsewhere
  <2> QED BY <1>5, <1>g, <2>1, <2>2 DEF RetryFire
<1> QED BY <1>1, <1>2, <1>3, <1>4, <1>5 DEF Clean

-----------------------------------------------------------------------------
(* Starting members and runs                                               *)

(* Beginning an execution keeps the status invariant and the sessions, when *)
(* a member that really starts was queued until this step.                  *)
LEMMA BeginKeeps ==
  ASSUME TypeOK, StatusInv, SessionOK, NEW m \in Members,
         NEW mem \in [Members -> Status], NEW mg \in SUBSET Runs,
         Begin(m, mem, mg),
         \A x \in Members \ {m} :
            mem[x] = member[x] \/ (member[x] = "finalizing" /\ mem[x] \in Terminal),
         member[m] \in Terminal => mem[m] = member[m],
         UNCHANGED <<session, overlay>>,
         managed \subseteq mg,
         IsRoot(m) => RunOf(m) \in mg \/ run[RunOf(m)] \in Started,
         (/\ mem[m] \in {"queued", "preparing"}
          /\ IsRoot(m) => run[RunOf(m)] \in {"absent", "queued", "preparing"})
            => member[m] \in {"absent", "queued"}
  PROVE  StatusInv' /\ StatusStep /\ Final /\ SessionOK'
<1>0. OutTypeOK
  BY TypeParts
<1>1. /\ Segment(m, mem, mg)
      /\ \/ pc'[m] \in {"done", "leaked", "retryWait"}
         \/ /\ pc'[m] \in {"ensuring", "mounting"}
            /\ mem[m] \in {"queued", "preparing"}
            /\ IsRoot(m) => run[RunOf(m)] \in {"absent", "queued", "preparing"}
  BY <1>0, BeginSegment
<1>2. StatusInv' /\ StatusStep /\ Final
  BY <1>0, <1>1, SegmentKeeps
<1>3. SessionAfter(m)
  <2>1. CASE pc'[m] \in {"done", "leaked", "retryWait"}
    BY <2>1 DEF SessionAfter, SessionOK
  <2>2. CASE /\ pc'[m] \in {"ensuring", "mounting"}
             /\ mem[m] \in {"queued", "preparing"}
             /\ IsRoot(m) => run[RunOf(m)] \in {"absent", "queued", "preparing"}
    <3>1. session[m] = "none" /\ overlay[m] # "ready"
      BY <2>2 DEF StatusInv, NoEarlySession
    <3> QED BY <2>2, <3>1 DEF SessionAfter
  <2> QED BY <1>1, <2>1, <2>2
<1>4. SessionOK'
  BY <1>1, <1>3, SessionKept DEF Segment
<1> QED BY <1>2, <1>4

(* A run that has not started, and was submitted by create or found queued  *)
(* and unowned by a reconcile pass.                                         *)
LEMMA AcceptRootKeeps ==
  ASSUME TypeOK, StatusInv, SessionOK, RunQueueOK, CalleesQueued,
         NEW r \in Runs, NEW mem \in [Members -> Status], AcceptRoot(r, mem),
         UNCHANGED <<session, overlay>>,
         \A x \in Members \ {Root(r)} : mem[x] = member[x],
         \/ run[r] = "absent" /\ mem[Root(r)] = "queued"
         \/ mem = member /\ r \notin managed /\ run[r] \notin {"absent", "preparing", "running"}
  PROVE  StatusInv' /\ StatusStep /\ Final /\ SessionOK' /\ RunQueueOK' /\ CalleesQueued'
<1> DEFINE m == Root(r)
<1>0. OutTypeOK /\ SchedTypeOK
  BY TypeParts
<1>a. m \in Members /\ IsRoot(m) /\ RunOf(m) = r
  BY MemberRun
<1>b. /\ run \in [Runs -> Status] /\ member \in [Members -> Status] /\ managed \in SUBSET Runs
      /\ pc \in [Members -> Location] /\ runQueue \in Seq(Runs)
      /\ \A i \in DOMAIN runQueue : runQueue[i] \in Runs
  BY <1>0 DEF OutTypeOK, SchedTypeOK
<1>c. \/ run[r] = "absent" /\ member[m] = "absent" /\ mem[m] = "queued"
      \/ mem = member /\ r \notin managed /\ run[r] \in {"queued", "finalizing"} \cup Terminal
  <2>1. run[r] = "absent" => member[m] = "absent"
    BY DEF StatusInv, RootRecorded
  <2>2. run[r] \in Status
    BY <1>b
  <2> QED BY <2>1, <2>2 DEF Status
<1>d. member[m] \in Terminal => mem[m] = member[m]
  BY <1>c DEF Terminal
<1>e. \A i \in DOMAIN runQueue : runQueue[i] = r => run[r] \in Terminal
  BY <1>c DEF RunQueueOK, Terminal
<1>q. ASSUME StatusStep, Final, runQueue' = runQueue,
             \A q \in Runs \ {r} : run'[q] = run[q]
      PROVE  RunQueueOK'
  BY <1>b, <1>e, <1>q DEF RunQueueOK, StatusStep, Final
<1>w. CalleesQueued'
  BY DEF AcceptRoot, CalleesQueued, schedVars
<1> HIDE DEF m
<1>1. CASE FailQueuedRoot(r, mem, managed) /\ UNCHANGED schedVars
  <2>0. /\ member' = IF mem[m] = "queued" THEN [mem EXCEPT ![m] = "failed"] ELSE mem
        /\ IF mem[m] = "queued" /\ run[r] \notin Terminal
           THEN run' = [run EXCEPT ![r] = "failed"] /\ managed' = managed \ {r}
           ELSE managed' = managed /\ run' = run
        /\ pc' = pc
    BY <1>1 DEF FailQueuedRoot, m
  <2>1. mem[m] # "queued" => member[m] \in Started /\ run[r] \in Started
    <3>1. run[r] = "queued" => member[m] = "queued"
      BY DEF StatusInv, QueuedRoot, m
    <3>2. run[r] # "absent" => member[m] # "absent"
      BY DEF StatusInv, RootRecorded, m
    <3>3. member[m] \in Status
      BY <1>a, <1>b
    <3> QED BY <1>c, <3>1, <3>2, <3>3 DEF Status, Started, Terminal
  <2>2. /\ \A x \in Members \ {m} : member'[x] = mem[x] /\ pc'[x] = pc[x]
        /\ IF mem[m] \in Terminal THEN member'[m] = mem[m] ELSE member'[m] \in Started
    BY <1>a, <1>c, <2>0, <2>1 DEF Started, Terminal
  <2>3. /\ \A q \in Runs : q # r => run'[q] = run[q]
        /\ run[r] \in Terminal => run'[r] = run[r]
        /\ run[r] = "finalizing" => run'[r] \in {"finalizing"} \cup Terminal
        /\ run'[r] \in Started
        /\ managed' = managed \/ (managed' = managed \ {r} /\ run'[r] \in Terminal)
        /\ run[r] \in Started \/ run'[r] \in Terminal
    BY <1>b, <2>0, <2>1 DEF Started, Terminal
  <2>4. Segment(m, mem, managed)
    BY <1>a, <2>2, <2>3 DEF Segment
  <2>5. StatusInv' /\ StatusStep /\ Final
    BY <1>0, <1>a, <1>b, <1>d, <2>3, <2>4, SegmentKeeps DEF m
  <2>6. SessionOK'
    BY <2>0 DEF SessionOK
  <2>7. RunQueueOK'
    BY <1>1, <1>q, <2>3, <2>5 DEF schedVars
  <2> QED BY <1>w, <2>5, <2>6, <2>7
<1>2. CASE BeginRoot(r, mem, managed \cup {r}) /\ UNCHANGED <<runQueue, memQueue>>
  <2>1. Begin(m, mem, managed \cup {r})
    BY <1>2 DEF BeginRoot, m
  <2>2. managed \cup {r} \in SUBSET Runs
    BY <1>b
  <2>3. run[r] \in {"absent", "queued", "preparing"} => member[m] \in {"absent", "queued"}
    BY <1>c DEF StatusInv, QueuedRoot, Terminal, m
  <2>4. StatusInv' /\ StatusStep /\ Final /\ SessionOK'
    BY <1>a, <1>d, <2>1, <2>2, <2>3, BeginKeeps DEF m
  <2>5. Segment(m, mem, managed \cup {r})
    BY <1>0, <1>a, <2>1, <2>2, BeginSegment
  <2>6. RunQueueOK'
    BY <1>2, <1>a, <1>q, <2>4, <2>5 DEF Segment
  <2> QED BY <1>w, <2>4, <2>6
<1>3. CASE /\ runQueue' = Append(runQueue, r)
           /\ managed' = managed \cup {r}
           /\ member' = mem
           /\ run' = [run EXCEPT ![r] = IF @ = "absent" THEN "queued" ELSE @]
           /\ UNCHANGED <<cleanup, space, err, pc, runCount, runActive, memQueue, active>>
  <2>1. /\ \A q \in Runs \ {r} : run'[q] = run[q]
        /\ IF run[r] = "absent" THEN run'[r] = "queued" ELSE run'[r] = run[r]
    BY <1>3, <1>b
  <2>2. /\ \A x \in Members \ {m} : member'[x] = member[x]
        /\ IF run[r] = "absent" THEN member[m] = "absent" /\ member'[m] = "queued"
                               ELSE member'[m] = member[m]
    BY <1>3, <1>c DEF m, Terminal
  <2>3. \A q \in Runs : Root(q) \in Members /\ (Root(q) = m => q = r)
    BY MemberRun DEF m
  <2>4. RootRecorded' /\ QueuedRoot'
    BY <2>1, <2>2, <2>3 DEF StatusInv, RootRecorded, QueuedRoot, m
  <2>5. StartedFirst'
    <3> SUFFICES ASSUME NEW x \in Members, InFlight(x)'
                 PROVE  /\ member'[x] \notin {"absent", "queued"}
                        /\ IsRoot(x) => run'[RunOf(x)] \notin {"absent", "queued"}
      BY DEF StartedFirst
    <3>1. InFlight(x) /\ RunOf(x) \in Runs
      BY <1>3, MemberRun DEF InFlight
    <3>2. /\ member[x] \notin {"absent", "queued"}
          /\ IsRoot(x) => run[RunOf(x)] \notin {"absent", "queued"}
      BY <3>1 DEF StatusInv, StartedFirst
    <3> QED BY <2>1, <2>2, <3>1, <3>2
  <2>6. NoEarlySession'
    BY <2>2 DEF StatusInv, NoEarlySession
  <2>7. StatusStep /\ Final
    BY <1>3, <1>a, <2>1, <2>2 DEF StatusStep, Final, Terminal
  <2>8. SessionOK'
    BY <1>3 DEF SessionOK
  <2>9. RunQueueOK'
    <3>1. \A i \in DOMAIN runQueue' :
            \/ i \in DOMAIN runQueue /\ runQueue'[i] = runQueue[i]
            \/ i = Len(runQueue) + 1 /\ runQueue'[i] = r
      BY <1>3, <1>b
    <3>2. run'[r] \in {"queued", "finalizing"} \cup Terminal /\ r \in managed'
      BY <1>3, <1>c, <2>1
    <3>3. \A q \in Runs : /\ run[q] \in Terminal => run'[q] \in Terminal
                          /\ run[q] \in {"queued", "finalizing"} \cup Terminal
                               => run'[q] = run[q]
      BY <2>1 DEF Terminal
    <3>4. managed \subseteq managed'
      BY <1>3
    <3>5. \A i \in DOMAIN runQueue' :
            /\ run'[runQueue'[i]] \in {"queued", "finalizing"} \cup Terminal
            /\ runQueue'[i] \in managed' \/ run'[runQueue'[i]] \in Terminal
      BY <1>b, <3>1, <3>2, <3>3, <3>4 DEF RunQueueOK
    <3>6. \A i, j \in DOMAIN runQueue' :
            i # j /\ runQueue'[i] = runQueue'[j] => run'[runQueue'[i]] \in Terminal
      BY <1>b, <1>e, <3>1, <3>3 DEF RunQueueOK
    <3> QED BY <3>5, <3>6 DEF RunQueueOK
  <2> QED BY <1>w, <2>4, <2>5, <2>6, <2>7, <2>8, <2>9 DEF StatusInv
<1> QED BY <1>1, <1>2, <1>3 DEF AcceptRoot

(* The queues do not change where neither the run statuses nor the owned    *)
(* runs do.                                                                 *)
LEMMA RunQueueKept ==
  ASSUME RunQueueOK, UNCHANGED <<run, managed, runQueue>>
  PROVE  RunQueueOK'
  BY DEF RunQueueOK

(* A callee that is submitted, again or for the first time.                 *)
LEMMA AcceptCalleeKeeps ==
  ASSUME TypeOK, StatusInv, SessionOK, RunQueueOK, CalleesQueued,
         NEW m \in Members, ~IsRoot(m), member[m] \in {"absent", "queued"},
         AcceptCallee(m, [member EXCEPT ![m] = "queued"]),
         UNCHANGED <<session, overlay>>
  PROVE  StatusInv' /\ StatusStep /\ Final /\ SessionOK' /\ RunQueueOK' /\ CalleesQueued'
<1> DEFINE mem == [member EXCEPT ![m] = "queued"]
<1>0. OutTypeOK /\ SchedTypeOK
  BY TypeParts
<1>a. RunOf(m) \in Runs
  BY MemberRun
<1>b. /\ run \in [Runs -> Status] /\ member \in [Members -> Status] /\ managed \in SUBSET Runs
      /\ memQueue \in [Runs -> Seq(Members)]
  BY <1>0 DEF OutTypeOK, SchedTypeOK
<1>c. /\ mem \in [Members -> Status] /\ mem[m] = "queued"
      /\ \A x \in Members \ {m} : mem[x] = member[x]
  BY <1>b DEF Status
<1>d. member[m] \notin Terminal
  BY DEF Terminal
<1>e. AcceptCallee(m, mem)
  OBVIOUS
<1> HIDE DEF mem
<1>1. CASE /\ member' = [mem EXCEPT ![m] = "failed"]
           /\ UNCHANGED <<run, cleanup, space, managed, err, pc, schedVars>>
  <2>1. Segment(m, mem, managed)
    BY <1>1, <1>a, <1>c DEF Segment, Started, Terminal
  <2>2. StatusInv' /\ StatusStep /\ Final
    BY <1>0, <1>b, <1>c, <1>d, <2>1, SegmentKeeps
  <2>3. SessionOK' /\ CalleesQueued'
    BY <1>1 DEF SessionOK, CalleesQueued, schedVars
  <2>4. RunQueueOK'
    BY <1>1, RunQueueKept DEF schedVars
  <2> QED BY <2>2, <2>3, <2>4
<1>2. CASE /\ Begin(m, mem, managed)
           /\ UNCHANGED <<runQueue, runCount, runActive, memQueue>>
  <2>1. StatusInv' /\ StatusStep /\ Final /\ SessionOK'
    BY <1>2, <1>b, <1>c, <1>d, BeginKeeps
  <2>2. Segment(m, mem, managed)
    BY <1>0, <1>2, <1>b, <1>c, BeginSegment
  <2>3. \A q \in Runs : run'[q] = run[q]
    BY <2>2 DEF Segment
  <2>4. managed' = managed
    BY <2>2 DEF Segment
  <2>5. RunQueueOK'
    <3>1. \A i \in DOMAIN runQueue : runQueue[i] \in Runs
      BY <1>0 DEF SchedTypeOK
    <3> QED BY <1>2, <2>3, <2>4, <3>1 DEF RunQueueOK
  <2>6. CalleesQueued'
    BY <1>2 DEF CalleesQueued
  <2> QED BY <2>1, <2>5, <2>6
<1>3. CASE /\ memQueue' = [memQueue EXCEPT ![RunOf(m)] = Append(@, m)]
           /\ member' = mem
           /\ UNCHANGED <<run, cleanup, space, managed, err, pc, runQueue, runCount, runActive, active>>
  <2>1. /\ \A x \in Members \ {m} : member'[x] = member[x]
        /\ member'[m] = "queued"
    BY <1>3, <1>c
  <2>2. RootRecorded' /\ QueuedRoot'
    <3>1. \A q \in Runs : Root(q) \in Members \ {m}
      BY MemberRun
    <3> QED BY <1>3, <2>1, <3>1 DEF StatusInv, RootRecorded, QueuedRoot
  <2>3. StartedFirst'
    BY <1>3, <2>1 DEF StatusInv, StartedFirst, InFlight
  <2>4. NoEarlySession'
    BY <2>1 DEF StatusInv, NoEarlySession
  <2>5. StatusStep /\ Final
    BY <1>3, <1>d, <2>1 DEF StatusStep, Final
  <2>6. SessionOK'
    BY <1>3 DEF SessionOK
  <2>7. RunQueueOK'
    BY <1>3, RunQueueKept
  <2>8. CalleesQueued'
    <3> SUFFICES ASSUME NEW q \in Runs, NEW i \in DOMAIN memQueue'[q]
                 PROVE  RunOf(memQueue'[q][i]) = q /\ ~IsRoot(memQueue'[q][i])
      BY DEF CalleesQueued
    <3>1. CASE q # RunOf(m)
      BY <1>3, <1>a, <1>b, <3>1 DEF CalleesQueued
    <3>2. CASE q = RunOf(m)
      <4>1. memQueue[q] \in Seq(Members) /\ memQueue'[q] = Append(memQueue[q], m)
        BY <1>3, <1>a, <1>b, <3>2
      <4>2. \/ i \in DOMAIN memQueue[q] /\ memQueue'[q][i] = memQueue[q][i]
            \/ memQueue'[q][i] = m
        BY <4>1
      <4> QED BY <3>2, <4>2 DEF CalleesQueued
    <3> QED BY <3>1, <3>2
  <2> QED BY <2>2, <2>3, <2>4, <2>5, <2>6, <2>7, <2>8 DEF StatusInv
<1> QED BY <1>1, <1>2, <1>3, <1>e DEF AcceptCallee

(* create, addMember and its repetition, the tool timeout and cancel.       *)
LEMMA RequestSafe ==
  ASSUME SafetyInv, Request \/ \E m \in Members : ToolTimeout(m)
  PROVE  StatusInv' /\ QueueInv' /\ SessionOK' /\ Final
<1>0. /\ TypeOK /\ StatusInv /\ SessionOK /\ OutTypeOK /\ SchedTypeOK
      /\ RunQueueOK /\ CalleesQueued /\ PassOK
  BY TypeParts DEF SafetyInv, QueueInv
<1>a. /\ run \in [Runs -> Status] /\ member \in [Members -> Status] /\ managed \in SUBSET Runs
      /\ memQueue \in [Runs -> Seq(Members)]
  BY <1>0 DEF OutTypeOK, SchedTypeOK
<1>g. ASSUME StatusInv', StatusStep, Final, SessionOK', RunQueueOK', CalleesQueued', recon' = recon
      PROVE  StatusInv' /\ QueueInv' /\ SessionOK' /\ Final
  BY <1>0, <1>g, PassKept DEF QueueInv
<1>1. ASSUME NEW r \in Runs, Create(r)
      PROVE  StatusInv' /\ QueueInv' /\ SessionOK' /\ Final
  <2> DEFINE mem == [member EXCEPT ![Root(r)] = "queued"]
  <2>1. Root(r) \in Members
    BY MemberRun
  <2>2. /\ mem \in [Members -> Status] /\ mem[Root(r)] = "queued"
        /\ \A x \in Members \ {Root(r)} : mem[x] = member[x]
    BY <1>a, <2>1 DEF Status
  <2>3. /\ AcceptRoot(r, mem) /\ run[r] = "absent"
        /\ UNCHANGED <<session, overlay>> /\ recon' = recon
    BY <1>1 DEF Create, fixVars
  <2> HIDE DEF mem
  <2>4. StatusInv' /\ StatusStep /\ Final /\ SessionOK' /\ RunQueueOK' /\ CalleesQueued'
    BY <1>0, <2>2, <2>3, AcceptRootKeeps
  <2> QED BY <1>g, <2>3, <2>4
<1>2. ASSUME NEW p \in Members, NEW m \in Members, AddMember(p, m)
      PROVE  StatusInv' /\ QueueInv' /\ SessionOK' /\ Final
  <2>1. /\ member[m] = "absent" /\ run[RunOf(m)] = "running"
        /\ AcceptCallee(m, [member EXCEPT ![m] = "queued"])
        /\ UNCHANGED <<session, overlay>> /\ recon' = recon
    BY <1>2 DEF AddMember
  <2>2. ~IsRoot(m)
    <3>1. RunOf(m) \in Runs
      BY MemberRun
    <3>2. member[Root(RunOf(m))] # "absent"
      BY <1>0, <2>1, <3>1 DEF StatusInv, RootRecorded
    <3> QED BY <2>1, <3>2, RootIsRoot
  <2>3. StatusInv' /\ StatusStep /\ Final /\ SessionOK' /\ RunQueueOK' /\ CalleesQueued'
    BY <1>0, <2>1, <2>2, AcceptCalleeKeeps
  <2> QED BY <1>g, <2>1, <2>3
<1>3. ASSUME NEW m \in Members, RetryInvoke(m)
      PROVE  StatusInv' /\ QueueInv' /\ SessionOK' /\ Final
  <2>1. /\ member[m] = "queued" /\ ~IsRoot(m) /\ AcceptCallee(m, member)
        /\ UNCHANGED <<session, overlay>> /\ recon' = recon
    BY <1>3 DEF RetryInvoke
  <2>2. member = [member EXCEPT ![m] = "queued"]
    BY <1>a, <2>1
  <2>3. AcceptCallee(m, [member EXCEPT ![m] = "queued"])
    BY <2>1, <2>2
  <2>4. StatusInv' /\ StatusStep /\ Final /\ SessionOK' /\ RunQueueOK' /\ CalleesQueued'
    BY <1>0, <2>1, <2>3, AcceptCalleeKeeps
  <2> QED BY <1>g, <2>1, <2>4
<1>4. ASSUME NEW m \in Members, ToolTimeout(m)
      PROVE  StatusInv' /\ QueueInv' /\ SessionOK' /\ Final
  <2>1. UNCHANGED <<run, member, managed, pc, session, overlay, runQueue, memQueue, recon>>
    BY <1>4 DEF ToolTimeout, outVars, schedVars
  <2>2. StatusInv' /\ SessionOK'
    BY <1>0, <2>1 DEF StatusInv, RootRecorded, QueuedRoot, StartedFirst, InFlight,
                      NoEarlySession, SessionOK
  <2>3. StatusStep /\ Final /\ RunQueueOK' /\ CalleesQueued'
    BY <1>0, <2>1 DEF StatusStep, Final, RunQueueOK, CalleesQueued
  <2> QED BY <1>g, <2>1, <2>2, <2>3
<1>5. ASSUME NEW r \in Runs, Cancel(r)
      PROVE  StatusInv' /\ QueueInv' /\ SessionOK' /\ Final
  <2>1. /\ run[r] \in {"queued", "preparing", "running"}
        /\ run' = [run EXCEPT ![r] = "finalizing"]
        /\ member' = FailQueuedIn(memQueue[r], member)
        /\ memQueue' = [memQueue EXCEPT ![r] = <<>>]
        /\ UNCHANGED <<managed, pc, session, overlay, runQueue, recon>>
    BY <1>5 DEF Cancel, Cancellable, fixVars
  <2>2. /\ \A q \in Runs \ {r} : run'[q] = run[q]
        /\ run'[r] = "finalizing"
    BY <1>a, <2>1
  <2>3. \A x \in Members :
          \/ member'[x] = member[x]
          \/ member[x] = "queued" /\ member'[x] = "failed" /\ ~IsRoot(x)
    BY <1>0, <2>1 DEF FailQueuedIn, CalleesQueued
  <2>4. \A q \in Runs : Root(q) \in Members /\ IsRoot(Root(q))
    BY MemberRun
  <2>5. RootRecorded' /\ QueuedRoot'
    BY <1>0, <2>1, <2>2, <2>3, <2>4 DEF StatusInv, RootRecorded, QueuedRoot
  <2>6. StartedFirst'
    BY <1>0, <2>1, <2>2, <2>3, MemberRun DEF StatusInv, StartedFirst, InFlight
  <2>7. NoEarlySession'
    BY <1>0, <2>1, <2>3 DEF StatusInv, NoEarlySession
  <2>8. StatusStep /\ Final
    BY <2>1, <2>2, <2>3 DEF StatusStep, Final, Terminal
  <2>9. RunQueueOK'
    <3>1. \A i \in DOMAIN runQueue : runQueue[i] \in Runs
      BY <1>0 DEF SchedTypeOK
    <3> QED BY <1>0, <2>1, <2>2, <3>1 DEF RunQueueOK, Terminal
  <2>10. CalleesQueued' /\ SessionOK'
    BY <1>0, <1>a, <2>1 DEF CalleesQueued, SessionOK
  <2> QED BY <1>g, <2>1, <2>5, <2>6, <2>7, <2>8, <2>9, <2>10 DEF StatusInv
<1> QED BY <1>1, <1>2, <1>3, <1>4, <1>5 DEF Request

(* The schedulers: the entries drained and the one that starts.             *)
LEMMA ReleaseSafe ==
  ASSUME SafetyInv, Release
  PROVE  StatusInv' /\ QueueInv' /\ SessionOK' /\ Final
<1>0. /\ TypeOK /\ StatusInv /\ SessionOK /\ OutTypeOK /\ SchedTypeOK
      /\ RunQueueOK /\ CalleesQueued /\ PassOK
  BY TypeParts DEF SafetyInv, QueueInv
<1>a. /\ run \in [Runs -> Status] /\ member \in [Members -> Status] /\ managed \in SUBSET Runs
      /\ memQueue \in [Runs -> Seq(Members)] /\ runQueue \in Seq(Runs)
      /\ \A i \in DOMAIN runQueue : runQueue[i] \in Runs
  BY <1>0 DEF OutTypeOK, SchedTypeOK
<1>g. ASSUME StatusInv', StatusStep, Final, SessionOK', RunQueueOK', CalleesQueued', recon' = recon
      PROVE  StatusInv' /\ QueueInv' /\ SessionOK' /\ Final
  BY <1>0, <1>g, PassKept DEF QueueInv
<1>1. ASSUME NEW m \in Members, ReleaseMember(m)
      PROVE  StatusInv' /\ QueueInv' /\ SessionOK' /\ Final
  <2> DEFINE r == RunOf(m)
             q == memQueue[r]
  <2>0. PICK n \in 0..Len(q) :
          /\ Drained(q, n)
          /\ \/ /\ memQueue' = [memQueue EXCEPT ![r] = <<>>]
                /\ member' = VoidEffect(r, q, n)
                /\ UNCHANGED <<run, cleanup, space, managed, err, pc>>
             \/ /\ n < Len(q)
                /\ memQueue' = [memQueue EXCEPT ![r] = SubSeq(q, n + 2, Len(q))]
                /\ Begin(q[n + 1], VoidEffect(r, q, n), managed)
    BY <1>1 DEF ReleaseMember
  <2> DEFINE mem == VoidEffect(r, q, n)
  <2>1. r \in Runs /\ q \in Seq(Members) /\ n \in Nat
    BY <1>a, MemberRun
  <2>2. UNCHANGED <<session, overlay, runQueue, recon>>
    BY <1>1 DEF ReleaseMember, fixVars
  <2>3. /\ mem \in [Members -> Status]
        /\ \A x \in Members :
             mem[x] = member[x] \/ (member[x] = "finalizing" /\ mem[x] \in Terminal)
    <3>1. Outcome(r, "cancelled") \in Terminal /\ Terminal \subseteq Status
      BY DEF Outcome, Status, Terminal
    <3> HIDE DEF r, q
    <3> QED BY <1>a, <3>1 DEF VoidEffect
  <2>4. \A i \in DOMAIN q : RunOf(q[i]) = r /\ ~IsRoot(q[i])
    BY <1>0, <2>1 DEF CalleesQueued
  <2>5. CASE /\ memQueue' = [memQueue EXCEPT ![r] = <<>>]
             /\ member' = mem
             /\ UNCHANGED <<run, cleanup, space, managed, err, pc>>
    <3> HIDE DEF r, q, mem
    <3>1. \A x \in Members :
            member'[x] = member[x] \/ (member[x] = "finalizing" /\ member'[x] \in Terminal)
      BY <2>3, <2>5
    <3>2. RootRecorded' /\ QueuedRoot'
      BY <1>0, <2>5, <3>1, MemberRun DEF StatusInv, RootRecorded, QueuedRoot, Terminal
    <3>3. StartedFirst' /\ NoEarlySession'
      BY <1>0, <2>2, <2>5, <3>1 DEF StatusInv, StartedFirst, NoEarlySession, InFlight, Terminal
    <3>4. StatusStep /\ Final
      BY <2>5, <3>1 DEF StatusStep, Final, Terminal
    <3>5. RunQueueOK'
      BY <1>0, <2>2, <2>5, RunQueueKept
    <3>6. CalleesQueued' /\ SessionOK'
      BY <1>0, <1>a, <2>1, <2>2, <2>5 DEF CalleesQueued, SessionOK
    <3> QED BY <1>g, <2>2, <3>2, <3>3, <3>4, <3>5, <3>6 DEF StatusInv
  <2>6. CASE /\ n < Len(q)
             /\ memQueue' = [memQueue EXCEPT ![r] = SubSeq(q, n + 2, Len(q))]
             /\ Begin(q[n + 1], mem, managed)
    <3> DEFINE x == q[n + 1]
    <3>1. x \in Members /\ RunOf(x) = r /\ ~IsRoot(x) /\ member[x] = "queued"
      <4>1. n + 1 \in DOMAIN q
        BY <2>1, <2>6
      <4>2. ~Void(x)
        BY <2>0, <2>6 DEF Drained
      <4> QED BY <2>1, <2>4, <4>1, <4>2 DEF Void
    <3>2. Begin(x, mem, managed)
      BY <2>6
    <3>3. \A i \in DOMAIN SubSeq(q, n + 2, Len(q)) : \E j \in DOMAIN q : SubSeq(q, n + 2, Len(q))[i] = q[j]
      BY <2>1
    <3> HIDE DEF x, mem
    <3>4. StatusInv' /\ StatusStep /\ Final /\ SessionOK'
      <4>1. member[x] \notin Terminal
        BY <3>1 DEF Terminal
      <4> QED BY <1>0, <1>a, <2>2, <2>3, <3>1, <3>2, <4>1, BeginKeeps
    <3>5. Segment(x, mem, managed)
      BY <1>0, <1>a, <2>3, <3>1, <3>2, BeginSegment
    <3>6. RunQueueOK'
      BY <1>0, <1>a, <2>2, <3>1, <3>5 DEF RunQueueOK, Segment
    <3>7. CalleesQueued'
      <4> SUFFICES ASSUME NEW k \in Runs, NEW i \in DOMAIN memQueue'[k]
                   PROVE  RunOf(memQueue'[k][i]) = k /\ ~IsRoot(memQueue'[k][i])
        BY DEF CalleesQueued
      <4> HIDE DEF r
      <4>1. CASE k # r
        BY <1>0, <1>a, <2>1, <2>6, <4>1 DEF CalleesQueued
      <4>2. CASE k = r
        <5>1. memQueue'[k] = SubSeq(q, n + 2, Len(q))
          BY <1>a, <2>1, <2>6, <4>2
        <5> QED BY <2>4, <3>3, <4>2, <5>1
      <4> QED BY <4>1, <4>2
    <3> QED BY <1>g, <2>2, <3>4, <3>6, <3>7
  <2> QED BY <2>0, <2>5, <2>6
<1>2. ASSUME NEW r \in Runs, ReleaseRun(r)
      PROVE  StatusInv' /\ QueueInv' /\ SessionOK' /\ Final
  <2>0. UNCHANGED <<session, overlay, memQueue, recon>>
    BY <1>2 DEF ReleaseRun, fixVars
  <2>1. CASE runQueue = <<>>
    <3>1. UNCHANGED <<run, member, managed, pc, runQueue>>
      BY <1>2, <2>1 DEF ReleaseRun, outVars
    <3>2. StatusInv' /\ SessionOK'
      BY <1>0, <2>0, <3>1 DEF StatusInv, RootRecorded, QueuedRoot, StartedFirst, InFlight,
                              NoEarlySession, SessionOK
    <3>3. StatusStep /\ Final /\ RunQueueOK' /\ CalleesQueued'
      BY <1>0, <2>0, <3>1 DEF StatusStep, Final, RunQueueOK, CalleesQueued
    <3> QED BY <1>g, <2>0, <3>2, <3>3
  <2>2. CASE runQueue # <<>>
    <3> DEFINE h == Head(runQueue)
    <3>1. /\ h \in Runs /\ 1 \in DOMAIN runQueue /\ runQueue[1] = h
          /\ runQueue' = Tail(runQueue) /\ Begin(Root(h), member, managed)
      BY <1>2, <1>a, <2>2 DEF ReleaseRun, BeginRoot
    <3>2. \A i \in DOMAIN Tail(runQueue) :
            i + 1 \in DOMAIN runQueue /\ Tail(runQueue)[i] = runQueue[i + 1] /\ i \in Nat /\ i >= 1
      BY <1>a, <2>2
    <3>3. Root(h) \in Members /\ RunOf(Root(h)) = h /\ IsRoot(Root(h))
      BY <3>1, MemberRun
    <3> HIDE DEF h
    <3>4. /\ run[h] \in {"queued", "finalizing"} \cup Terminal
          /\ h \in managed \/ run[h] \in Terminal
      BY <1>0, <3>1 DEF RunQueueOK
    <3>5. run[h] \in {"absent", "queued", "preparing"} => member[Root(h)] = "queued"
      BY <1>0, <3>1, <3>4 DEF StatusInv, QueuedRoot, Terminal
    <3>6. StatusInv' /\ StatusStep /\ Final /\ SessionOK'
      BY <1>0, <1>a, <2>0, <3>1, <3>3, <3>4, <3>5, BeginKeeps DEF Started
    <3>7. \A k \in Runs \ {h} : run'[k] = run[k]
      <4>1. Segment(Root(h), member, managed)
        BY <1>0, <1>a, <3>1, <3>3, BeginSegment
      <4> QED BY <3>3, <4>1 DEF Segment
    <3>8. \A i \in DOMAIN Tail(runQueue) : Tail(runQueue)[i] = h => run[h] \in Terminal
      <4>1. \A i \in DOMAIN Tail(runQueue) : i + 1 # 1
        BY <3>2
      <4> QED BY <1>0, <3>1, <3>2, <4>1 DEF RunQueueOK
    <3>9. RunQueueOK'
      <4> DEFINE t == Tail(runQueue)
      <4>1. \A i \in DOMAIN t :
              /\ t[i] \in Runs
              /\ run[t[i]] \in {"queued", "finalizing"} \cup Terminal
              /\ t[i] \in managed \/ run[t[i]] \in Terminal
        BY <1>0, <1>a, <3>2 DEF RunQueueOK
      <4>2. \A i, j \in DOMAIN t : i # j /\ t[i] = t[j] => run[t[i]] \in Terminal
        <5>1. \A i, j \in DOMAIN t : i # j => i + 1 # j + 1
          BY <3>2
        <5> QED BY <1>0, <3>2, <5>1 DEF RunQueueOK
      <4>3. \A i \in DOMAIN t : t[i] = h => run[h] \in Terminal
        BY <3>8
      <4>4. runQueue' = t
        BY <3>1
      <4> HIDE DEF t
      <4> QED BY <3>1, <3>6, <3>7, <4>1, <4>2, <4>3, <4>4 DEF RunQueueOK, StatusStep, Final
    <3>10. CalleesQueued'
      BY <1>0, <2>0 DEF CalleesQueued
    <3> QED BY <1>g, <2>0, <3>6, <3>9, <3>10
  <2> QED BY <2>1, <2>2
<1> QED BY <1>1, <1>2 DEF Release

-----------------------------------------------------------------------------
(* Reconcile passes                                                        *)

\* Pass w says no more about the runs than pass v did.
Forgets(w, v) ==
  /\ w.todo \subseteq v.todo
  /\ \A r \in Runs : w.snap[r] = v.snap[r] \/ w.snap[r] = "started"
  /\ w.pc = "work" =>
       \/ v.pc = "work" /\ w.run = v.run
       \/ w.run \in Runs /\ run'[w.run] \in {"finalizing"} \cup Terminal

(* A pass that advances, throws or takes up a finalizing run keeps PassOK.  *)
LEMMA PassForgets ==
  ASSUME TypeOK, PassOK, StatusStep, Final,
         \A d \in Reconcilers : Forgets(recon'[d], recon[d])
  PROVE  PassOK'
<1> SUFFICES ASSUME NEW d \in Reconcilers
             PROVE  /\ \A r \in Runs :
                         /\ r \in recon'[d].todo => run'[r] # "absent"
                         /\ recon'[d].snap[r] = "terminal" => run'[r] \in Terminal
                         /\ recon'[d].snap[r] = "queued" /\ r \notin managed'
                              => run'[r] \notin {"absent", "preparing", "running"}
                    /\ recon'[d].pc = "work" => run'[recon'[d].run] \in {"finalizing"} \cup Terminal
  BY DEF PassOK
<1>1. recon[d].run \in Runs
  BY DEF TypeOK, PassSet
<1>2. Forgets(recon'[d], recon[d])
  OBVIOUS
<1>3. recon'[d].pc = "work" => run'[recon'[d].run] \in {"finalizing"} \cup Terminal
  BY <1>1, <1>2 DEF Forgets, PassOK, StatusStep, Final
<1>4. ASSUME NEW r \in Runs
      PROVE  /\ r \in recon'[d].todo => run'[r] # "absent"
             /\ recon'[d].snap[r] = "terminal" => run'[r] \in Terminal
             /\ recon'[d].snap[r] = "queued" /\ r \notin managed'
                  => run'[r] \notin {"absent", "preparing", "running"}
  <2>1. /\ r \in recon[d].todo => run[r] # "absent"
        /\ recon[d].snap[r] = "terminal" => run[r] \in Terminal
        /\ recon[d].snap[r] = "queued" /\ r \notin managed
             => run[r] \notin {"absent", "preparing", "running"}
    BY DEF PassOK
  <2>2. /\ r \in recon'[d].todo => r \in recon[d].todo
        /\ recon'[d].snap[r] = recon[d].snap[r] \/ recon'[d].snap[r] = "started"
    BY <1>2 DEF Forgets
  <2>3. /\ run[r] # "absent" => run'[r] # "absent"
        /\ run[r] \in Terminal => run'[r] \in Terminal
        /\ run'[r] \in {"preparing", "running"} =>
             run[r] \in {"preparing", "running"} \/ r \in managed'
        /\ r \in managed /\ r \notin managed' => run'[r] \in Terminal
    BY DEF StatusStep, Final
  <2> QED BY <2>1, <2>2, <2>3 DEF Terminal
<1> QED BY <1>3, <1>4

(* The ways a pass moves on are of that kind.                               *)
LEMMA PassMoves ==
  ASSUME recon \in [Reconcilers -> PassSet], NEW c \in Reconcilers, NEW r \in Runs
  PROVE  /\ recon' = Advance(c, r) => \A d \in Reconcilers : Forgets(recon'[d], recon[d])
         /\ recon' = Throw(c) => \A d \in Reconcilers : Forgets(recon'[d], recon[d])
         /\ \A ts, os \in SUBSET Members, is \in SUBSET Instances :
              (/\ recon' = Working(c, r, ts, is, os)
               /\ \/ run'[r] \in {"finalizing"} \cup Terminal
                  \/ recon[c].pc = "work" /\ recon[c].run = r)
                => \A d \in Reconcilers : Forgets(recon'[d], recon[d])
<1>1. \A d \in Reconcilers : Forgets(recon[d], recon[d])
  BY DEF Forgets
<1>2. \A d \in Reconcilers : recon[d].snap \in [Runs -> SnapStatus]
  BY DEF PassSet
<1>3. Forgets(IdlePass, recon[c])
  BY DEF Forgets, IdlePass, Pass, NoSnap
<1>4. ASSUME recon' = Advance(c, r), NEW d \in Reconcilers PROVE Forgets(recon'[d], recon[d])
  <2>1. CASE d # c
    BY <1>1, <1>4, <2>1 DEF Advance
  <2>2. CASE d = c
    <3> DEFINE rest == recon[c].todo \ {r}
               snap == [recon[c].snap EXCEPT ![r] = "started"]
    <3>1. recon'[c] = IF rest = {} THEN IdlePass ELSE Pass("next", rest, snap, 1, {}, {}, {})
      BY <1>4 DEF Advance
    <3>2. \A q \in Runs : snap[q] = recon[c].snap[q] \/ snap[q] = "started"
      BY <1>2
    <3>3. Forgets(Pass("next", rest, snap, 1, {}, {}, {}), recon[c])
      BY <3>2 DEF Forgets, Pass
    <3> QED BY <1>3, <2>2, <3>1, <3>3
  <2> QED BY <2>1, <2>2
<1>5. ASSUME recon' = Throw(c), NEW d \in Reconcilers PROVE Forgets(recon'[d], recon[d])
  <2>1. recon'[d] = recon[d] \/ (d = c /\ recon'[d] = IdlePass)
    BY <1>5 DEF Throw
  <2> QED BY <1>1, <1>3, <2>1
<1>6. ASSUME NEW ts \in SUBSET Members, NEW os \in SUBSET Members, NEW is \in SUBSET Instances,
             recon' = Working(c, r, ts, is, os),
             \/ run'[r] \in {"finalizing"} \cup Terminal
             \/ recon[c].pc = "work" /\ recon[c].run = r,
             NEW d \in Reconcilers
      PROVE  Forgets(recon'[d], recon[d])
  <2>1. CASE d # c
    BY <1>1, <1>6, <2>1 DEF Working
  <2>2. CASE d = c
    <3>1. recon'[c] = Pass("work", recon[c].todo, recon[c].snap, r, ts, is, os)
      BY <1>6 DEF Working
    <3>2. Forgets(Pass("work", recon[c].todo, recon[c].snap, r, ts, is, os), recon[c])
      BY <1>6 DEF Forgets, Pass
    <3> QED BY <2>2, <3>1, <3>2
  <2> QED BY <2>1, <2>2
<1> QED BY <1>4, <1>5, <1>6

(* Closing sessions and removing workspaces changes no status and no queue. *)
LEMMA QuietKeeps ==
  ASSUME StatusInv, RunQueueOK, CalleesQueued,
         UNCHANGED <<run, member, managed, pc, runQueue, memQueue>>,
         \A x \in Members :
            /\ session'[x] = session[x] \/ (session[x] # "none" /\ session'[x] = "closed")
            /\ overlay'[x] = overlay[x] \/ overlay'[x] # "ready"
  PROVE  StatusInv' /\ StatusStep /\ Final /\ RunQueueOK' /\ CalleesQueued'
<1>1. StatusInv'
  BY DEF StatusInv, RootRecorded, QueuedRoot, StartedFirst, InFlight, NoEarlySession
<1>2. StatusStep /\ Final /\ RunQueueOK' /\ CalleesQueued'
  BY DEF StatusStep, Final, RunQueueOK, CalleesQueued
<1> QED BY <1>1, <1>2

(* Ending or taking over the members of a run that is finalizing or has     *)
(* ended keeps the statuses: w is what its other members become.            *)
LEMMA TakeOverKeeps ==
  ASSUME TypeOK, StatusInv, RunQueueOK, CalleesQueued, NEW r \in Runs,
         run[r] # "absent", run'[r] \in {"finalizing"} \cup Terminal,
         run[r] \in Terminal => run'[r] = run[r],
         \A q \in Runs \ {r} : run'[q] = run[q],
         NEW w \in {"finalizing", "failed"},
         member' = [m \in Members |->
                      IF m \in MembersOf(r) /\ member[m] \notin Terminal \cup {"absent"}
                      THEN w ELSE member[m]],
         UNCHANGED <<managed, pc, session, overlay, runQueue, memQueue>>
  PROVE  StatusInv' /\ StatusStep /\ Final /\ RunQueueOK' /\ CalleesQueued'
<1>1. \A q \in Runs : /\ Root(q) \in Members
                      /\ Root(q) \in MembersOf(r) => q = r
  BY MemberRun DEF Root, MembersOf
<1>2. w \notin {"absent", "queued"} /\ "queued" \notin Terminal /\ "absent" \notin Terminal
      /\ "finalizing" \notin Terminal
  BY DEF Terminal
<1>3. \A x \in Members :
         /\ member'[x] = "absent" <=> member[x] = "absent"
         /\ member'[x] = "queued" => member[x] = "queued"
         /\ x \notin MembersOf(r) => member'[x] = member[x]
         /\ member[x] \in Terminal => member'[x] = member[x]
  BY <1>2
<1>4. RootRecorded' /\ QueuedRoot'
  BY <1>1, <1>2, <1>3 DEF StatusInv, RootRecorded, QueuedRoot
<1>5. StartedFirst'
  <2> SUFFICES ASSUME NEW x \in Members, InFlight(x)'
               PROVE  /\ member'[x] \notin {"absent", "queued"}
                      /\ IsRoot(x) => run'[RunOf(x)] \notin {"absent", "queued"}
    BY DEF StartedFirst
  <2>1. InFlight(x) /\ RunOf(x) \in Runs
    BY MemberRun DEF InFlight
  <2>2. /\ member[x] \notin {"absent", "queued"}
        /\ IsRoot(x) => run[RunOf(x)] \notin {"absent", "queued"}
    BY <2>1 DEF StatusInv, StartedFirst
  <2> QED BY <1>2, <1>3, <2>1, <2>2
<1>6. NoEarlySession'
  BY <1>3 DEF StatusInv, NoEarlySession
<1>7. StatusStep /\ Final
  BY <1>3 DEF StatusStep, Final, Terminal
<1>8. RunQueueOK'
  <2>1. \A i \in DOMAIN runQueue : runQueue[i] \in Runs
    BY DEF TypeOK
  <2> QED BY <2>1 DEF RunQueueOK
<1>9. CalleesQueued'
  BY DEF CalleesQueued
<1> QED BY <1>4, <1>5, <1>6, <1>7, <1>8, <1>9 DEF StatusInv

(* Every step of a reconcile pass.                                          *)
LEMMA ReconcileSafe ==
  ASSUME SafetyInv, NEW c \in Reconcilers, Reconcile(c)
  PROVE  StatusInv' /\ QueueInv' /\ SessionOK' /\ Final
<1>0. /\ TypeOK /\ StatusInv /\ SessionOK /\ OutTypeOK /\ SchedTypeOK /\ RestTypeOK
      /\ RunQueueOK /\ CalleesQueued /\ PassOK
  BY TypeParts DEF SafetyInv, QueueInv
<1>a. /\ recon \in [Reconcilers -> PassSet] /\ session \in [Members -> {"none", "live", "closed"}]
      /\ overlay \in [Members -> Phase] /\ member \in [Members -> Status]
      /\ run \in [Runs -> Status]
  BY <1>0 DEF RestTypeOK, OutTypeOK
<1>c. /\ recon[c].run \in Runs /\ recon[c].threads \in SUBSET Members
      /\ recon[c].overlays \in SUBSET Members /\ recon[c].insts \in SUBSET Instances
      /\ {} \in SUBSET Members
  BY <1>a DEF PassSet
<1>g. ASSUME StatusInv', StatusStep, Final, SessionOK', RunQueueOK', CalleesQueued',
             \A d \in Reconcilers : Forgets(recon'[d], recon[d])
      PROVE  StatusInv' /\ QueueInv' /\ SessionOK' /\ Final
  BY <1>0, <1>g, PassForgets DEF QueueInv
<1>w. ASSUME recon[c].pc = "work", NEW ts \in SUBSET Members, NEW os \in SUBSET Members,
             NEW is \in SUBSET Instances, recon' = Working(c, recon[c].run, ts, is, os)
      PROVE  \A d \in Reconcilers : Forgets(recon'[d], recon[d])
  BY <1>a, <1>c, <1>w, PassMoves
<1>1. CASE Tick(c)
  <2>1. UNCHANGED <<run, member, managed, pc, session, overlay, runQueue, memQueue>>
    BY <1>1 DEF Tick, outVars, schedVars
  <2>2. StatusInv' /\ StatusStep /\ Final /\ RunQueueOK' /\ CalleesQueued'
    BY <1>0, <2>1, QuietKeeps
  <2>3. SessionOK'
    BY <1>0, <2>1 DEF SessionOK
  <2>4. PassOK'
    <3> SUFFICES ASSUME NEW d \in Reconcilers
                 PROVE  /\ \A r \in Runs :
                             /\ r \in recon'[d].todo => run'[r] # "absent"
                             /\ recon'[d].snap[r] = "terminal" => run'[r] \in Terminal
                             /\ recon'[d].snap[r] = "queued" /\ r \notin managed'
                                  => run'[r] \notin {"absent", "preparing", "running"}
                        /\ recon'[d].pc = "work" =>
                             run'[recon'[d].run] \in {"finalizing"} \cup Terminal
      BY DEF PassOK
    <3>1. CASE d # c
      <4>1. recon'[d] = recon[d]
        BY <1>1, <3>1 DEF Tick
      <4> QED BY <1>0, <2>1, <4>1 DEF PassOK
    <3>2. CASE d = c
      <4>1. recon'[d] = NewPass
        BY <1>1, <1>a, <3>2 DEF Tick
      <4> QED BY <2>1, <4>1 DEF NewPass, Pass, Snapshot
    <3> QED BY <3>1, <3>2
  <2> QED BY <2>2, <2>3, <2>4 DEF QueueInv
<1>2. ASSUME NEW r \in Runs, ReconSkip(c, r)
      PROVE  StatusInv' /\ QueueInv' /\ SessionOK' /\ Final
  <2>1. /\ UNCHANGED <<run, member, pc, session, overlay, runQueue, memQueue>>
        /\ recon' = Advance(c, r)
        /\ managed' = managed \/ (managed' = managed \ {r} /\ run[r] \in Terminal)
    BY <1>0, <1>2 DEF ReconSkip, schedVars, PassOK
  <2>2. StatusInv' /\ SessionOK' /\ CalleesQueued'
    BY <1>0, <2>1 DEF StatusInv, RootRecorded, QueuedRoot, StartedFirst, InFlight,
                      NoEarlySession, SessionOK, CalleesQueued
  <2>3. StatusStep /\ Final /\ RunQueueOK'
    BY <1>0, <2>1 DEF StatusStep, Final, RunQueueOK
  <2> QED BY <1>a, <1>g, <2>1, <2>2, <2>3, PassMoves
<1>3. ASSUME NEW r \in Runs, ReconAccept(c, r)
      PROVE  StatusInv' /\ QueueInv' /\ SessionOK' /\ Final
  <2>1. /\ AcceptRoot(r, member) /\ UNCHANGED <<session, overlay>> /\ recon' = Advance(c, r)
        /\ r \notin managed /\ recon[c].snap[r] = "queued"
    BY <1>3 DEF ReconAccept, Owned
  <2>2. run[r] \notin {"absent", "preparing", "running"}
    BY <1>0, <2>1 DEF PassOK
  <2>3. StatusInv' /\ StatusStep /\ Final /\ SessionOK' /\ RunQueueOK' /\ CalleesQueued'
    BY <1>0, <1>a, <2>1, <2>2, AcceptRootKeeps
  <2> QED BY <1>a, <1>g, <2>1, <2>3, PassMoves
<1>4. ASSUME NEW r \in Runs, ReconClaim(c, r)
      PROVE  StatusInv' /\ QueueInv' /\ SessionOK' /\ Final
  <2>0. UNCHANGED <<managed, pc, session, overlay, runQueue, memQueue>> /\ run[r] # "absent"
    BY <1>0, <1>4 DEF ReconClaim, schedVars, PassOK, Newest
  <2>s. SessionOK'
    BY <1>0, <2>0 DEF SessionOK
  <2>1. CASE run[r] \in Terminal
    <3>1. recon' = Throw(c) /\ UNCHANGED <<run, member>>
      BY <1>4, <2>1 DEF ReconClaim
    <3>2. StatusInv' /\ StatusStep /\ Final /\ RunQueueOK' /\ CalleesQueued'
      BY <1>0, <2>0, <3>1, QuietKeeps
    <3> QED BY <1>a, <1>g, <2>s, <3>1, <3>2, PassMoves
  <2>2. CASE run[r] \notin Terminal
    <3> DEFINE ts == {m \in MembersOf(r) : Live(thread[m])}
               is == ResourceInstances(r)
    <3>1. /\ run' = [run EXCEPT ![r] = "finalizing"]
          /\ member' = [m \in Members |->
               IF m \in MembersOf(r) /\ member[m] \notin Terminal \cup {"absent"}
               THEN "finalizing" ELSE member[m]]
          /\ recon' = Working(c, r, ts, is, {})
      BY <1>4, <2>2 DEF ReconClaim
    <3>2. ts \in SUBSET Members
      BY MemberRun
    <3>3. is \in SUBSET Instances
      BY MemberRun, AgentRunAssumption DEF ResourceInstances
    <3> HIDE DEF ts, is
    <3>4. run'[r] = "finalizing" /\ \A q \in Runs \ {r} : run'[q] = run[q]
      BY <1>a, <3>1
    <3>5. StatusInv' /\ StatusStep /\ Final /\ RunQueueOK' /\ CalleesQueued'
      BY <1>0, <2>0, <2>2, <3>1, <3>4, TakeOverKeeps
    <3>6. \A d \in Reconcilers : Forgets(recon'[d], recon[d])
      BY <1>a, <1>c, <3>1, <3>2, <3>3, <3>4, PassMoves
    <3> QED BY <1>g, <2>s, <3>5, <3>6
  <2> QED BY <2>1, <2>2
<1>5. ASSUME NEW m \in Members, ReconClose(c, m)
      PROVE  StatusInv' /\ QueueInv' /\ SessionOK' /\ Final
  <2>1. /\ UNCHANGED <<run, member, managed, pc, overlay, runQueue, memQueue>>
        /\ recon[c].pc = "work"
        /\ recon' = Working(c, recon[c].run, recon[c].threads \ {m}, recon[c].insts,
                            recon[c].overlays)
    BY <1>5 DEF ReconClose, outVars, schedVars
  <2>2. /\ \A x \in Members \ {m} : session'[x] = session[x]
        /\ session'[m] = session[m] \/ (session[m] # "none" /\ session'[m] = "closed")
    BY <1>5, <1>a, CloseOne DEF ReconClose
  <2>3. StatusInv' /\ StatusStep /\ Final /\ RunQueueOK' /\ CalleesQueued'
    BY <1>0, <2>1, <2>2, QuietKeeps
  <2>4. SessionOK'
    BY <1>0, <2>1, <2>2 DEF SessionOK
  <2>5. recon[c].threads \ {m} \in SUBSET Members
    BY <1>c
  <2> QED BY <1>c, <1>g, <1>w, <2>1, <2>3, <2>4, <2>5
<1>6. ASSUME NEW m \in Members, ReconDispose(c, m)
      PROVE  StatusInv' /\ QueueInv' /\ SessionOK' /\ Final
  <2>1. /\ UNCHANGED <<run, member, managed, pc, runQueue, memQueue>>
        /\ recon[c].pc = "work"
        /\ recon' = Working(c, recon[c].run, recon[c].threads, recon[c].insts,
                            recon[c].overlays \ {m})
    BY <1>6 DEF ReconDispose, outVars, schedVars
  <2>2. /\ \A x \in Members \ {m} : session'[x] = session[x] /\ overlay'[x] = overlay[x]
        /\ session'[m] = session[m] \/ (session[m] # "none" /\ session'[m] = "closed")
        /\ \/ overlay'[m] = overlay[m] \/ overlay'[m] = "manual-intervention"
           \/ session'[m] = "closed" /\ overlay'[m] # "ready"
    <3>1. CASE /\ TerminateMemberThread(m)
               /\ \/ overlay' = [overlay EXCEPT ![m] = "deleted"]
                  \/ overlay' = [overlay EXCEPT ![m] = "delete-retrying"]
      BY <1>a, <3>1 DEF TerminateMemberThread, CloseSession
    <3>2. CASE overlay' = overlay /\ (session' = session \/ CloseFails(m))
      BY <1>a, <3>2, CloseOne
    <3>3. CASE overlay' = [overlay EXCEPT ![m] = "manual-intervention"] /\ session' = session
      BY <1>a, <3>3
    <3> QED BY <1>6, <3>1, <3>2, <3>3 DEF ReconDispose
  <2>3. StatusInv' /\ StatusStep /\ Final /\ RunQueueOK' /\ CalleesQueued'
    BY <1>0, <2>1, <2>2, QuietKeeps
  <2>4. SessionAfter(m)
    BY <1>0, <2>1, <2>2 DEF SessionOK, SessionAfter
  <2>5. SessionOK'
    BY <1>0, <2>1, <2>2, <2>4, SessionKept
  <2>6. recon[c].overlays \ {m} \in SUBSET Members
    BY <1>c
  <2> QED BY <1>c, <1>g, <1>w, <2>1, <2>3, <2>5, <2>6
<1>7. ASSUME NEW i \in Instances, ReconSweep(c, i)
      PROVE  StatusInv' /\ QueueInv' /\ SessionOK' /\ Final
  <2> DEFINE os == {m \in Members : /\ InstanceOf[m] = i
                                    /\ Live(overlay[m]) /\ overlay[m] # "manual-intervention"}
  <2>1. /\ UNCHANGED <<run, member, managed, pc, session, overlay, runQueue, memQueue>>
        /\ recon[c].pc = "work"
        /\ recon' = Working(c, recon[c].run, {}, recon[c].insts \ {i}, os)
    BY <1>7 DEF ReconSweep, outVars, schedVars
  <2>2. os \in SUBSET Members /\ recon[c].insts \ {i} \in SUBSET Instances
    BY <1>c
  <2> HIDE DEF os
  <2>3. StatusInv' /\ StatusStep /\ Final /\ RunQueueOK' /\ CalleesQueued'
    BY <1>0, <2>1, QuietKeeps
  <2>4. SessionOK'
    BY <1>0, <2>1 DEF SessionOK
  <2> QED BY <1>c, <1>g, <1>w, <2>1, <2>2, <2>3, <2>4
<1>8. CASE ReconFinish(c)
  <2> DEFINE r == recon[c].run
  <2>0. /\ UNCHANGED <<managed, pc, session, overlay, runQueue, memQueue>>
        /\ r \in Runs /\ run[r] \in {"finalizing"} \cup Terminal
    BY <1>0, <1>8, <1>c DEF ReconFinish, schedVars, PassOK
  <2>s. SessionOK'
    BY <1>0, <2>0 DEF SessionOK
  <2>f. \A d \in Reconcilers : Forgets(recon'[d], recon[d])
    <3>1. recon' = Advance(c, r) \/ recon' = Throw(c)
      BY <1>8 DEF ReconFinish
    <3> QED BY <1>a, <2>0, <3>1, PassMoves
  <2> HIDE DEF r
  <2>1. CASE UNCHANGED <<run, member>>
    <3>1. StatusInv' /\ StatusStep /\ Final /\ RunQueueOK' /\ CalleesQueued'
      BY <1>0, <2>0, <2>1, QuietKeeps
    <3> QED BY <1>g, <2>f, <2>s, <3>1
  <2>2. CASE /\ member' = [m \in Members |->
                  IF m \in MembersOf(r) /\ member[m] \notin Terminal \cup {"absent"}
                  THEN "failed" ELSE member[m]]
             /\ \/ run[r] \in {"finalizing", "failed"} /\ run' = [run EXCEPT ![r] = "failed"]
                \/ run' = run
    <3>1. /\ run[r] # "absent" /\ run'[r] \in {"finalizing"} \cup Terminal
          /\ run[r] \in Terminal => run'[r] = run[r]
          /\ \A q \in Runs \ {r} : run'[q] = run[q]
      BY <1>a, <2>0, <2>2 DEF Terminal
    <3>2. StatusInv' /\ StatusStep /\ Final /\ RunQueueOK' /\ CalleesQueued'
      BY <1>0, <2>0, <2>2, <3>1, TakeOverKeeps
    <3> QED BY <1>g, <2>f, <2>s, <3>2
  <2> QED BY <1>8, <2>1, <2>2 DEF ReconFinish, r
<1>9. ASSUME NEW r \in Runs, ReconFail(c, r)
      PROVE  StatusInv' /\ QueueInv' /\ SessionOK' /\ Final
  <2>0. UNCHANGED <<managed, pc, session, overlay, runQueue, memQueue>> /\ run[r] # "absent"
    BY <1>0, <1>9 DEF ReconFail, schedVars, PassOK, Newest
  <2>s. SessionOK'
    BY <1>0, <2>0 DEF SessionOK
  <2>f. \A d \in Reconcilers : Forgets(recon'[d], recon[d])
    <3>1. recon' = Advance(c, r) \/ recon' = Throw(c)
      BY <1>9 DEF ReconFail
    <3> QED BY <1>a, <3>1, PassMoves
  <2>1. CASE run[r] \in Terminal
    <3>1. UNCHANGED <<run, member>>
      BY <1>9, <2>1 DEF ReconFail
    <3>2. StatusInv' /\ StatusStep /\ Final /\ RunQueueOK' /\ CalleesQueued'
      BY <1>0, <2>0, <3>1, QuietKeeps
    <3> QED BY <1>g, <2>f, <2>s, <3>2
  <2>2. CASE run[r] \notin Terminal
    <3>1. /\ run' = [run EXCEPT ![r] = "failed"]
          /\ member' = [m \in Members |->
               IF m \in MembersOf(r) /\ member[m] \notin Terminal \cup {"absent"}
               THEN "failed" ELSE member[m]]
      BY <1>9, <2>2 DEF ReconFail
    <3>2. /\ run'[r] \in {"finalizing"} \cup Terminal
          /\ \A q \in Runs \ {r} : run'[q] = run[q]
      BY <1>a, <3>1 DEF Terminal
    <3>3. StatusInv' /\ StatusStep /\ Final /\ RunQueueOK' /\ CalleesQueued'
      BY <1>0, <2>0, <2>2, <3>1, <3>2, TakeOverKeeps
    <3> QED BY <1>g, <2>f, <2>s, <3>3
  <2> QED BY <2>1, <2>2
<1> QED BY <1>1, <1>2, <1>3, <1>4, <1>5, <1>6, <1>7, <1>8, <1>9 DEF Reconcile

-----------------------------------------------------------------------------
(* The process                                                             *)

(* stop(), the restart of the process and the start of serving.             *)
LEMMA ProcessSafe ==
  ASSUME SafetyInv, Stop \/ Restart \/ Listen
  PROVE  StatusInv' /\ QueueInv' /\ SessionOK' /\ Final
<1>0. /\ TypeOK /\ StatusInv /\ SessionOK /\ OutTypeOK /\ SchedTypeOK /\ RestTypeOK
      /\ RunQueueOK /\ CalleesQueued /\ PassOK
  BY TypeParts DEF SafetyInv, QueueInv
<1>a. \A r \in Runs : Root(r) \in Members /\ RunOf(Root(r)) = r /\ IsRoot(Root(r))
  BY MemberRun
<1>1. CASE Stop
  <2> DEFINE inRunQueue(r) == \E i \in DOMAIN runQueue : runQueue[i] = r
             inMemQueue(m) == \E i \in DOMAIN memQueue[RunOf(m)] : memQueue[RunOf(m)][i] = m
             ended == {r \in Runs : /\ inRunQueue(r) /\ member[Root(r)] = "queued"
                                    /\ run[r] \notin Terminal}
  <2>1. /\ run' = [r \in Runs |-> IF r \in ended THEN "failed" ELSE run[r]]
        /\ member' = [m \in Members |->
             IF member[m] = "queued" /\ (inMemQueue(m) \/ (IsRoot(m) /\ inRunQueue(RunOf(m))))
             THEN "failed" ELSE member[m]]
        /\ managed' = managed \ ended
        /\ runQueue' = <<>> /\ memQueue' = [r \in Runs |-> <<>>]
        /\ pc' = [m \in Members |-> IF pc[m] = "retryWait" THEN "done" ELSE pc[m]]
        /\ UNCHANGED <<session, overlay, recon>>
    BY <1>1 DEF Stop
  <2>2. \A m \in Members : inMemQueue(m) => ~IsRoot(m)
    BY <1>0, MemberRun DEF CalleesQueued
  <2>3. \A r \in ended : inRunQueue(r) /\ member[Root(r)] = "queued" /\ run[r] \notin Terminal
    OBVIOUS
  <2>4. \A r \in Runs : inRunQueue(r) /\ member[Root(r)] = "queued" /\ run[r] \notin Terminal
                          => r \in ended
    OBVIOUS
  <2>5. \A r \in Runs : inRunQueue(r) => run[r] # "absent"
    BY <1>0 DEF RunQueueOK, Terminal
  <2> HIDE DEF inRunQueue, inMemQueue, ended
  <2>6. \A r \in Runs : run'[r] = IF r \in ended THEN "failed" ELSE run[r]
    BY <2>1
  <2>7. \A m \in Members : member'[m] = member[m] \/ (member[m] = "queued" /\ member'[m] = "failed")
    BY <2>1
  <2>8. RootRecorded'
    BY <1>0, <1>a, <2>3, <2>5, <2>6, <2>7 DEF StatusInv, RootRecorded
  <2>9. QueuedRoot'
    <3> SUFFICES ASSUME NEW r \in Runs, run'[r] = "queued"
                 PROVE  member'[Root(r)] = "queued"
      BY DEF QueuedRoot
    <3>1. r \notin ended /\ run[r] = "queued"
      BY <2>6
    <3>2. member[Root(r)] = "queued"
      BY <1>0, <3>1 DEF StatusInv, QueuedRoot
    <3>3. ~inRunQueue(r)
      BY <2>4, <3>1, <3>2 DEF Terminal
    <3> QED BY <1>a, <2>1, <2>2, <3>2, <3>3
  <2>10. StartedFirst'
    <3> SUFFICES ASSUME NEW x \in Members, InFlight(x)'
                 PROVE  /\ member'[x] \notin {"absent", "queued"}
                        /\ IsRoot(x) => run'[RunOf(x)] \notin {"absent", "queued"}
      BY DEF StartedFirst
    <3>1. InFlight(x) /\ RunOf(x) \in Runs
      BY <2>1, MemberRun DEF InFlight
    <3>2. /\ member[x] \notin {"absent", "queued"}
          /\ IsRoot(x) => run[RunOf(x)] \notin {"absent", "queued"}
      BY <1>0, <3>1 DEF StatusInv, StartedFirst
    <3> QED BY <2>6, <2>7, <3>1, <3>2
  <2>11. NoEarlySession'
    BY <1>0, <2>1, <2>7 DEF StatusInv, NoEarlySession
  <2>12. StatusStep /\ Final
    BY <2>1, <2>3, <2>6, <2>7 DEF StatusStep, Final, Terminal
  <2>13. RunQueueOK' /\ CalleesQueued'
    BY <2>1 DEF RunQueueOK, CalleesQueued
  <2>14. SessionOK'
    BY <1>0, <2>1 DEF SessionOK
  <2>15. PassOK'
    BY <1>0, <2>1, <2>12, PassKept
  <2> QED BY <2>8, <2>9, <2>10, <2>11, <2>12, <2>13, <2>14, <2>15 DEF StatusInv, QueueInv
<1>2. CASE Restart
  <2>1. /\ UNCHANGED <<run, member, session, overlay>>
        /\ runQueue' = <<>> /\ memQueue' = [r \in Runs |-> <<>>]
        /\ pc' = [m \in Members |-> "idle"]
        /\ \A d \in Reconcilers : recon'[d] \in {NewPass, IdlePass}
    BY <1>2 DEF Restart, dbVars
  <2>2. StatusInv'
    BY <1>0, <2>1 DEF StatusInv, RootRecorded, QueuedRoot, StartedFirst, InFlight, NoEarlySession
  <2>3. RunQueueOK' /\ CalleesQueued'
    BY <2>1 DEF RunQueueOK, CalleesQueued
  <2>4. SessionOK' /\ Final
    BY <1>0, <2>1 DEF SessionOK, Final
  <2>5. PassOK'
    <3> SUFFICES ASSUME NEW d \in Reconcilers
                 PROVE  /\ \A r \in Runs :
                             /\ r \in recon'[d].todo => run'[r] # "absent"
                             /\ recon'[d].snap[r] = "terminal" => run'[r] \in Terminal
                             /\ recon'[d].snap[r] = "queued" /\ r \notin managed'
                                  => run'[r] \notin {"absent", "preparing", "running"}
                        /\ recon'[d].pc = "work" =>
                             run'[recon'[d].run] \in {"finalizing"} \cup Terminal
      BY DEF PassOK
    <3>1. CASE recon'[d] = NewPass
      BY <2>1, <3>1 DEF NewPass, Pass, Snapshot
    <3>2. CASE recon'[d] = IdlePass
      BY <3>2 DEF IdlePass, Pass, NoSnap
    <3> QED BY <2>1, <3>1, <3>2
  <2> QED BY <2>2, <2>3, <2>4, <2>5 DEF QueueInv
<1>3. CASE Listen
  <2>1. UNCHANGED <<run, member, managed, pc, session, overlay, runQueue, memQueue, recon>>
    BY <1>3 DEF Listen, dbVars, schedVars
  <2>2. StatusInv' /\ StatusStep /\ Final /\ RunQueueOK' /\ CalleesQueued'
    BY <1>0, <2>1, QuietKeeps
  <2>3. SessionOK' /\ PassOK'
    BY <1>0, <2>1, <2>2, PassKept DEF SessionOK
  <2> QED BY <2>2, <2>3 DEF QueueInv
<1> QED BY <1>1, <1>2, <1>3

(* A session created late has a started member, whose workspace is not      *)
(* being removed.                                                           *)
LEMMA LateCreateSafe ==
  ASSUME SafetyInv, NEW m \in Members, LateCreate(m)
  PROVE  StatusInv' /\ QueueInv' /\ SessionOK' /\ Final
<1>0. TypeOK /\ StatusInv /\ QueueInv /\ SessionOK
  BY DEF SafetyInv
<1>1. /\ UNCHANGED <<run, member, managed, pc, overlay, runQueue, memQueue, recon>>
      /\ pc[m] # "creating" /\ session[m] = "none" /\ overlay[m] = "ready"
  BY DEF LateCreate, outVars, execFrame, schedVars
<1>2. session'[m] = "live" /\ \A x \in Members \ {m} : session'[x] = session[x]
  BY <1>0 DEF LateCreate, TypeOK
<1>3. StatusInv'
  BY <1>0, <1>1, <1>2
     DEF StatusInv, RootRecorded, QueuedRoot, StartedFirst, InFlight, NoEarlySession
<1>4. StatusStep /\ Final /\ RunQueueOK' /\ CalleesQueued'
  BY <1>0, <1>1 DEF QueueInv, StatusStep, Final, RunQueueOK, CalleesQueued
<1>5. PassOK'
  BY <1>0, <1>1, <1>4, PassKept DEF QueueInv
<1>6. SessionOK'
  BY <1>0, <1>1, <1>2 DEF SessionOK
<1> QED BY <1>3, <1>4, <1>5, <1>6 DEF QueueInv

(* Every step from a state of the invariant keeps it and changes no         *)
(* outcome.                                                                 *)
LEMMA SafetyStep ==
  ASSUME SafetyInv, [Next]_vars
  PROVE  StatusInv' /\ QueueInv' /\ SessionOK' /\ Final
<1>1. CASE Next
  BY <1>1, RequestSafe, ReleaseSafe, ExecuteSafe, CleanSafe, LateCreateSafe, ReconcileSafe,
     ProcessSafe DEF Next
<1>2. CASE UNCHANGED vars
  <2>1. UNCHANGED <<run, member, managed, pc, session, overlay, runQueue, memQueue, recon>>
    BY <1>2 DEF vars, dbVars, schedVars
  <2>2. StatusInv' /\ StatusStep /\ Final /\ RunQueueOK' /\ CalleesQueued'
    BY <2>1, QuietKeeps DEF SafetyInv, QueueInv
  <2>3. SessionOK' /\ PassOK'
    BY <2>1, <2>2, PassKept DEF SessionOK, SafetyInv, QueueInv
  <2> QED BY <2>2, <2>3 DEF QueueInv
<1> QED BY <1>1, <1>2

(* The initial state satisfies the invariant.                               *)
LEMMA SafetyInit ==
  ASSUME Init
  PROVE  StatusInv /\ QueueInv /\ SessionOK
<1>1. StatusInv
  BY MemberRun DEF Init, StatusInv, RootRecorded, QueuedRoot, StartedFirst, InFlight, NoEarlySession
<1>2. QueueInv
  BY DEF Init, QueueInv, CalleesQueued, RunQueueOK, PassOK, IdlePass, Pass, NoSnap
<1>3. SessionOK
  BY DEF Init, SessionOK
<1> QED BY <1>1, <1>2, <1>3

(* SafetyInv is an invariant of the specification.                          *)
THEOREM SafetyInvariant == Spec => []SafetyInv
<1>1. Init => StatusInv /\ QueueInv /\ SessionOK
  BY SafetyInit
<1>2. TypeOK /\ TypeOK' /\ StatusInv /\ QueueInv /\ SessionOK /\ [Next]_vars
        => StatusInv' /\ QueueInv' /\ SessionOK'
  BY SafetyStep DEF SafetyInv
<1> QED BY <1>1, <1>2, TypeCorrect, PTL DEF Spec, SafetyInv

(* No workspace is being removed or has been removed while the provider     *)
(* session that uses it is live, for any number of runs, members,           *)
(* instances, overlapping reconcile passes, failed calls and restarts.      *)
THEOREM NoLiveSessionUnmounted == Spec => []ClosedBeforeUnmount
<1>1. SafetyInv => ClosedBeforeUnmount
  BY DEF SafetyInv, SessionOK, ClosedBeforeUnmount
<1> QED BY <1>1, SafetyInvariant, PTL

(* No execution, retry, cancel, reconcile pass, shutdown or restart changes *)
(* the outcome of a run or member that has ended.                           *)
THEOREM OutcomesAreFinal == Spec => TerminalIsFinal
<1>1. SafetyInv /\ [Next]_vars =>
        [/\ \A r \in Runs : run[r] \in Terminal => run'[r] = run[r]
         /\ \A m \in Members : member[m] \in Terminal => member'[m] = member[m]]_vars
  BY SafetyStep DEF Final
<1> QED BY <1>1, SafetyInvariant, PTL DEF Spec, TerminalIsFinal

=============================================================================
