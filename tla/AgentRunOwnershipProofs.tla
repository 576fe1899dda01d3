----------------------- MODULE AgentRunOwnershipProofs -----------------------
(***************************************************************************)
(* Who works on a run, however reconcile passes overlap: no accepted run   *)
(* or callee is forgotten, a run has one owner, and no slot is exceeded or *)
(* idle beside a queue.                                                    *)
(***************************************************************************)
EXTENDS AgentRunProofs, FiniteSetTheorems

-----------------------------------------------------------------------------
(* What one segment of an execution does to run, space and await point     *)

Busy    == Preparing \cup {"polling"} \cup Cleaning
Mounted == {"mounting", "injecting", "creating"}
Made    == {"active", "retained"}
Early   == {"absent", "queued", "preparing"}
Later   == {"running", "finalizing"} \cup Terminal

\* Only a root makes the shared space of its run.
RootEnsures == \A m \in Members : pc[m] = "ensuring" => IsRoot(m)

(* A segment of m: the space of the run is made before anything is mounted, *)
(* a run is ended together with its root, its space retained and the run    *)
(* disowned, and the root of a run that has ended does not go on.           *)
Shape(m, mem, mg) ==
  LET r == RunOf(m) IN
  /\ Segment(m, mem, mg)
  /\ pc'[m] \in {"done", "leaked", "retryWait"} \cup Busy
  /\ pc'[m] \in Busy /\ member'[m] \in Terminal => mem[m] \in Terminal /\ pc[m] \in Busy
  /\ pc'[m] = "retryWait" => member'[m] \in Terminal \/ pc[m] \in Cleaning
  /\ pc'[m] = "ensuring" => IsRoot(m)
  /\ \A q \in Runs : q # r \/ ~IsRoot(m) => space'[q] = space[q]
  /\ IsRoot(m) =>
       /\ run[r] \in Later => run'[r] \in Later
       /\ run'[r] = "running" => run[r] = "running" \/ pc[m] = "creating"
       /\ \/ space'[r] = space[r] \/ space'[r] \in Made
          \/ run[r] \in Early /\ run'[r] = "preparing" /\ pc'[m] = "ensuring"
       /\ pc'[m] \in Mounted => space'[r] \in Made \/ (pc[m] \in Mounted /\ space'[r] = space[r])
       /\ run'[r] \in Terminal /\ run[r] \notin Terminal =>
            /\ r \notin managed' /\ space'[r] = "retained"
            /\ pc'[m] = "done" /\ member'[m] \in Terminal
       /\ run[r] \in Terminal /\ InFlight(m)' => InFlight(m)

(* The tail of finalizeMember.                                              *)
LEMMA SettleShape ==
  ASSUME OutTypeOK, NEW m \in Members, NEW e \in Errors,
         NEW mem \in [Members -> Status], NEW mg \in SUBSET Runs,
         Settle(m, e, mem, mg)
  PROVE  /\ Shape(m, mem, mg) /\ member'[m] \in Terminal
         /\ pc'[m] \in {"done", "leaked", "retryWait"}
<1>1. RunOf(m) \in Runs
  BY MemberRun
<1>2. /\ Segment(m, mem, mg) /\ pc'[m] \in {"done", "leaked", "retryWait"}
  BY SettleSegment
<1>3. \A r \in Runs : Outcome(r, e) \in Terminal
  BY DEF Outcome, Terminal
<1>4. member'[m] \in Terminal
  BY <1>1, <1>3 DEF Settle, SettledMember
<1>5. "finalizing" \in Later /\ Terminal \subseteq Later /\ "running" \notin Terminal /\ "finalizing" \notin Terminal
  BY DEF Later, Terminal
<1>6. /\ \A q \in Runs : q # RunOf(m) \/ ~IsRoot(m) => space'[q] = space[q]
      /\ space'[RunOf(m)] = space[RunOf(m)] \/ space'[RunOf(m)] \in Made
  BY <1>1 DEF Settle, OutTypeOK, Made
<1>7. IsRoot(m) => \/ run[RunOf(m)] \in Terminal /\ run' = run /\ pc'[m] = "leaked"
                   \/ run[RunOf(m)] \notin Terminal /\ run'[RunOf(m)] = "finalizing"
                   \/ /\ run[RunOf(m)] \notin Terminal /\ run'[RunOf(m)] \in Terminal
                      /\ managed' = mg \ {RunOf(m)} /\ space'[RunOf(m)] = "retained" /\ pc'[m] = "done"
  BY <1>1, <1>3 DEF Settle, OutTypeOK
<1>8. pc'[m] \notin Mounted /\ pc'[m] \notin Busy /\ pc'[m] # "ensuring"
  BY <1>2 DEF Mounted, Busy, Preparing, Cleaning
<1> QED BY <1>2, <1>4, <1>5, <1>6, <1>7, <1>8 DEF Shape, InFlight

(* The start of an execution.                                               *)
LEMMA BeginShape ==
  ASSUME OutTypeOK, NEW m \in Members, NEW mem \in [Members -> Status],
         NEW mg \in SUBSET Runs, Begin(m, mem, mg)
  PROVE  /\ Shape(m, mem, mg)
         /\ member'[m] \notin {"absent", "queued"}
         /\ \/ pc'[m] \in {"done", "leaked", "retryWait"} /\ member'[m] \in Terminal
            \/ /\ pc'[m] \in {"ensuring", "mounting"}
               /\ mem[m] \in {"queued", "preparing"} /\ member'[m] = "preparing"
               /\ IsRoot(m) => run[RunOf(m)] \in Early /\ pc'[m] = "ensuring"
               /\ managed' = mg
<1>1. RunOf(m) \in Runs
  BY MemberRun
<1>a. "absent" \notin Terminal /\ "queued" \notin Terminal /\ "preparing" \notin Terminal
  BY DEF Terminal
<1>2. CASE Settle(m, "cancelled", mem, mg) \/ Settle(m, "failed", mem, mg)
  <2>1. "cancelled" \in Errors /\ "failed" \in Errors
    BY DEF Errors
  <2> QED BY <1>2, <1>a, <2>1, SettleShape
<1>3. CASE /\ run[RunOf(m)] # "finalizing" /\ CanTransition(mem[m], "preparing")
           /\ IsRoot(m) => run[RunOf(m)] = "absent" \/ CanTransition(run[RunOf(m)], "preparing")
           /\ member' = [mem EXCEPT ![m] = "preparing"]
           /\ managed' = mg
           /\ UNCHANGED <<cleanup, err>>
           /\ IF IsRoot(m)
              THEN /\ run' = [run EXCEPT ![RunOf(m)] = "preparing"]
                   /\ space' = [space EXCEPT ![RunOf(m)] = "preparing"]
                   /\ pc' = [pc EXCEPT ![m] = "ensuring"]
              ELSE pc' = [pc EXCEPT ![m] = "mounting"] /\ UNCHANGED <<run, space>>
  <2>0. Segment(m, mem, mg)
    BY BeginSegment
  <2>1. mem[m] \in {"queued", "preparing"} /\ (IsRoot(m) => run[RunOf(m)] \in Early)
    BY <1>3 DEF CanTransition, Terminal, Early
  <2>2. /\ member'[m] = "preparing"
        /\ IsRoot(m) => pc'[m] = "ensuring" /\ run'[RunOf(m)] = "preparing"
        /\ ~IsRoot(m) => pc'[m] = "mounting"
        /\ \A q \in Runs : q # RunOf(m) \/ ~IsRoot(m) => space'[q] = space[q]
    BY <1>1, <1>3 DEF OutTypeOK
  <2>3. /\ {"ensuring", "mounting"} \subseteq Busy
        /\ "ensuring" \notin Mounted /\ \A s \in Early : s \notin Later /\ s \notin Terminal
    BY DEF Busy, Preparing, Mounted, Early, Later, Terminal
  <2>4. Shape(m, mem, mg)
    BY <1>a, <2>0, <2>1, <2>2, <2>3 DEF Shape, Early
  <2> QED BY <1>3, <2>1, <2>2, <2>4
<1> QED BY <1>2, <1>3 DEF Begin

(* A failed step of the cleanup.                                            *)
LEMMA CleanupFailedShape ==
  ASSUME OutTypeOK, NEW m \in Members, CleanupFailed(m), member[m] \in Started,
         IsRoot(m) => run[RunOf(m)] \in Started, pc[m] \in Cleaning
  PROVE  /\ Shape(m, member, managed) /\ member' = member
         /\ pc'[m] \in {"done", "leaked", "retryWait"}
<1>1. RunOf(m) \in Runs
  BY MemberRun
<1>2. Segment(m, member, managed) /\ pc'[m] \in {"done", "leaked", "retryWait"}
  BY CleanupFailedSegment
<1>3. /\ member' = member /\ space' = space
      /\ IsRoot(m) => \/ run' = run
                      \/ run[RunOf(m)] \notin Terminal /\ run'[RunOf(m)] = "finalizing"
      /\ IsRoot(m) /\ run[RunOf(m)] \in Terminal => pc'[m] = "leaked"
  BY <1>1 DEF CleanupFailed, OutTypeOK
<1>4. pc'[m] \notin Mounted /\ pc'[m] \notin Busy /\ pc'[m] # "ensuring"
  BY <1>2 DEF Mounted, Busy, Preparing, Cleaning
<1>5. "finalizing" \in Later /\ "finalizing" \notin Terminal /\ "finalizing" # "running"
  BY DEF Later, Terminal
<1> QED BY <1>2, <1>3, <1>4, <1>5 DEF Shape, InFlight

(* The first part of finalizeMember.                                        *)
LEMMA FinalizeShape ==
  ASSUME OutTypeOK, NEW m \in Members, NEW e \in Errors, NEW thr \in Phase, NEW ru,
         Finalize(m, e, thr, ru), member[m] \in Started, InFlight(m),
         IsRoot(m) => run[RunOf(m)] \in Started,
         \/ ru = run
         \/ /\ IsRoot(m) /\ run[RunOf(m)] = "preparing" /\ pc[m] = "creating"
            /\ ru = [run EXCEPT ![RunOf(m)] = "running"]
  PROVE  /\ Shape(m, member, managed)
         /\ \/ /\ member[m] \in Terminal /\ member'[m] = member[m]
               /\ pc'[m] \in {"done", "leaked", "retryWait"} /\ thread' = [thread EXCEPT ![m] = thr]
            \/ /\ member[m] \notin Terminal /\ member'[m] = "finalizing"
               /\ pc'[m] \in {"disposing", "closing"}
<1>1. RunOf(m) \in Runs
  BY MemberRun
<1>2. CASE member[m] \in Terminal
  <2>1. Settle(m, e, member, managed) /\ thread' = [thread EXCEPT ![m] = thr]
    BY <1>2 DEF Finalize
  <2>2. /\ Shape(m, member, managed) /\ pc'[m] \in {"done", "leaked", "retryWait"}
    BY <2>1, SettleShape DEF OutTypeOK
  <2>3. member'[m] = member[m]
    BY <1>2, <2>2 DEF Shape, Segment
  <2> QED BY <1>2, <2>1, <2>2, <2>3
<1>3. CASE member[m] \notin Terminal
  <2>0. Segment(m, member, managed)
    BY FinalizeSegment
  <2>1. /\ member'[m] = "finalizing" /\ pc'[m] \in {"disposing", "closing"}
        /\ managed' = managed /\ run' = ru /\ space' = space
    BY <1>3 DEF Finalize, OutTypeOK
  <2>2. IsRoot(m) => \/ run' = run
                     \/ /\ run[RunOf(m)] = "preparing" /\ pc[m] = "creating"
                        /\ run'[RunOf(m)] = "running"
    BY <1>1, <2>1 DEF OutTypeOK
  <2>3. /\ {"disposing", "closing"} \subseteq Busy
        /\ "disposing" \notin Mounted /\ "closing" \notin Mounted /\ "finalizing" \notin Terminal
        /\ "running" \in Later /\ "running" \notin Terminal
    BY DEF Busy, Cleaning, Mounted, Terminal, Later
  <2>4. Shape(m, member, managed)
    BY <2>0, <2>1, <2>2, <2>3 DEF Shape
  <2> QED BY <1>3, <2>1, <2>4
<1> QED BY <1>2, <1>3

(* Every segment of executeMember and finalizeMember after its first await. *)
LEMMA ExecuteShape ==
  ASSUME SafetyInv, RootEnsures, NEW m \in Members, Execute(m) \/ Clean(m)
  PROVE  Shape(m, member, managed) /\ InFlight(m) /\ UNCHANGED execFrame
<1>0. TypeOK /\ StatusInv /\ OutTypeOK /\ RestTypeOK
  BY TypeParts DEF SafetyInv
<1>a. /\ pc \in [Members -> Location] /\ thread \in [Members -> Phase] /\ err \in [Members -> Errors]
      /\ member \in [Members -> Status] /\ managed \in SUBSET Runs /\ run \in [Runs -> Status]
      /\ space \in [Runs -> Space] /\ RunOf(m) \in Runs
  BY <1>0, MemberRun DEF OutTypeOK, RestTypeOK
<1>b. InFlight(m) /\ UNCHANGED execFrame
  BY DEF Execute, EnsureDone, MountDone, InjectDone, InstanceCreates, CreateDone, CreateFails,
         PollCompleted, PollFailed, PollCancelled, InFlight, Clean, CloseDone, DisposeStarts,
         DisposeRefused, UnmountDone, RetryFire
<1> SUFFICES Shape(m, member, managed)
  BY <1>b
<1>c. member[m] \in Started /\ (IsRoot(m) => run[RunOf(m)] \in Started)
  BY <1>0, <1>b, FlightStarted
<1>d. err[m] \in Errors /\ thread[m] \in Phase
  BY <1>a
<1>e. "failed" \in Errors /\ "cancelled" \in Errors /\ "none" \in Errors
      /\ "ready" \in Phase /\ "none" \in Phase
  BY DEF Errors, Phase
<1>s. ASSUME NEW e \in Errors, Settle(m, e, member, managed)
      PROVE  Shape(m, member, managed)
  BY <1>0, <1>a, <1>s, SettleShape
<1>f. ASSUME NEW e \in Errors, NEW thr \in Phase, Finalize(m, e, thr, run)
      PROVE  Shape(m, member, managed)
  BY <1>0, <1>b, <1>c, <1>f, FinalizeShape
<1>q. ASSUME UNCHANGED <<run, member, managed>>, \A x \in Members \ {m} : pc'[x] = pc[x],
             pc[m] \in Busy, pc'[m] \in Busy \ {"ensuring"},
             \/ UNCHANGED space /\ (pc'[m] \in Mounted => pc[m] \in Mounted)
             \/ IsRoot(m) /\ space' = [space EXCEPT ![RunOf(m)] = "active"]
      PROVE  Shape(m, member, managed)
  <2>1. Segment(m, member, managed)
    BY <1>c, <1>q, QuietSegment
  <2>2. pc'[m] # "retryWait"
    BY <1>q DEF Busy, Preparing, Cleaning
  <2>3. "active" \in Made
    BY DEF Made
  <2> QED BY <1>a, <1>b, <1>q, <2>1, <2>2, <2>3 DEF Shape
<1>p. /\ {"ensuring", "mounting", "injecting", "creating", "polling", "closing", "disposing", "unmounting"} \subseteq Busy
      /\ {"mounting", "injecting", "creating"} \subseteq Mounted
      /\ "ensuring" \notin Mounted /\ "disposing" \notin Mounted /\ "unmounting" \notin Mounted /\ "polling" \notin Mounted
      /\ {"closing", "disposing", "unmounting"} = Cleaning
  BY DEF Busy, Preparing, Cleaning, Mounted
<1>k. ASSUME CleanupFailed(m), pc[m] \in {"closing", "disposing", "unmounting"}
      PROVE  Shape(m, member, managed)
  BY <1>0, <1>c, <1>k, <1>p, CleanupFailedShape
<1>2. CASE MountDone(m) \/ InjectDone(m)
  <2>1. ASSUME ~(Settle(m, "failed", member, managed)) PROVE Shape(m, member, managed)
    <3>1. /\ UNCHANGED <<run, member, managed, space>> /\ pc[m] \in {"mounting", "injecting"}
          /\ \/ pc' = [pc EXCEPT ![m] = "injecting"]
             \/ pc' = [pc EXCEPT ![m] = "creating"]
      BY <1>2, <2>1 DEF MountDone, InjectDone
    <3>2. (\A x \in Members \ {m} : pc'[x] = pc[x]) /\ pc'[m] \in {"injecting", "creating"}
      BY <1>a, <3>1
    <3> QED BY <1>p, <1>q, <3>1, <3>2
  <2> QED BY <1>e, <1>s, <2>1
<1>4. CASE InstanceCreates(m)
  <2>1. UNCHANGED <<run, member, managed, space, pc>> /\ pc[m] = "creating"
    BY <1>4 DEF InstanceCreates, outVars
  <2> QED BY <1>p, <1>q, <2>1
<1>5. CASE CreateDone(m)
  <2> DEFINE started == IF IsRoot(m) THEN [run EXCEPT ![RunOf(m)] = "running"] ELSE run
             refused == member[m] # "preparing" \/ (IsRoot(m) /\ run[RunOf(m)] # "preparing")
  <2>0. pc[m] = "creating"
    BY <1>5 DEF CreateDone
  <2>1. CASE /\ ~refused
             /\ member' = [member EXCEPT ![m] = "running"]
             /\ run' = started
             /\ pc' = [pc EXCEPT ![m] = "polling"]
             /\ UNCHANGED <<cleanup, space, managed, err>>
    <3>1. Segment(m, member, managed)
      BY <1>a, <1>c, <2>1 DEF Segment, Started, Terminal
    <3>2. /\ pc'[m] = "polling" /\ member'[m] = "running"
          /\ IsRoot(m) => run[RunOf(m)] = "preparing" /\ run'[RunOf(m)] = "running"
      BY <1>a, <2>1
    <3>3. "running" \notin Terminal /\ "preparing" \notin Terminal /\ "running" \in Later
      BY DEF Terminal, Later
    <3> QED BY <1>p, <2>0, <2>1, <3>1, <3>2, <3>3 DEF Shape
  <2>2. CASE Finalize(m, "failed", "ready", run)
    BY <1>e, <1>f, <2>2
  <2>3. CASE ~refused /\ Finalize(m, "cancelled", "ready", started)
    BY <1>0, <1>b, <1>c, <1>e, <2>0, <2>3, FinalizeShape
  <2> QED BY <1>5, <2>1, <2>2, <2>3 DEF CreateDone
<1>6. CASE CreateFails(m) \/ PollCompleted(m) \/ PollFailed(m) \/ PollCancelled(m) \/ RetryFire(m)
  BY <1>6, <1>d, <1>e, <1>f DEF CreateFails, PollCompleted, PollFailed, PollCancelled, RetryFire
<1>7. CASE CloseDone(m) \/ DisposeStarts(m)
  <2>1. ASSUME ~CleanupFailed(m) PROVE Shape(m, member, managed)
    <3>1. /\ UNCHANGED <<run, member, managed, space>> /\ pc[m] \in {"closing", "disposing"}
          /\ \/ pc' = [pc EXCEPT ![m] = "disposing"]
             \/ pc' = [pc EXCEPT ![m] = "unmounting"]
      BY <1>7, <2>1 DEF CloseDone, DisposeStarts
    <3>2. (\A x \in Members \ {m} : pc'[x] = pc[x]) /\ pc'[m] \in {"disposing", "unmounting"}
      BY <1>a, <3>1
    <3> QED BY <1>p, <1>q, <3>1, <3>2
  <2>2. pc[m] \in {"closing", "disposing", "unmounting"}
    BY <1>7 DEF CloseDone, DisposeStarts
  <2> QED BY <1>k, <2>1, <2>2
<1>8. CASE DisposeRefused(m) \/ UnmountDone(m)
  BY <1>8, <1>d, <1>k, <1>s DEF DisposeRefused, UnmountDone
<1>1. CASE EnsureDone(m)
  <2>1. CASE Settle(m, "failed", member, managed)
    BY <1>e, <1>s, <2>1
  <2>2. CASE ~Settle(m, "failed", member, managed)
    <3>1. /\ UNCHANGED <<run, member, managed>> /\ pc[m] = "ensuring"
          /\ space' = [space EXCEPT ![RunOf(m)] = "active"] /\ pc' = [pc EXCEPT ![m] = "mounting"]
      BY <1>1, <2>2 DEF EnsureDone
    <3>2. (\A x \in Members \ {m} : pc'[x] = pc[x]) /\ pc'[m] = "mounting"
      BY <1>a, <3>1
    <3>3. IsRoot(m)
      BY <3>1 DEF RootEnsures
    <3> QED BY <1>p, <1>q, <3>1, <3>2, <3>3
  <2> QED BY <2>1, <2>2
<1> QED BY <1>1, <1>2, <1>4, <1>5, <1>6, <1>7, <1>8, <1>b DEF Execute, Clean

-----------------------------------------------------------------------------
(* Nothing accepted is forgotten: the invariant                            *)

\* A run invokes callees only after its shared space was made.
SpaceOK ==
  /\ \A m \in Members : ~IsRoot(m) /\ member[m] # "absent" =>
       run[RunOf(m)] \in Later /\ space[RunOf(m)] \in Made
  /\ \A r \in Runs : run[r] = "running" => space[r] \in Made
  /\ \A r \in Runs : pc[Root(r)] \in Mounted => space[r] \in Made

\* Who holds or waits for a member slot of a run.
ActiveOK ==
  \A r \in Runs : \A m \in active[r] : RunOf(m) = r /\ member[m] \notin {"absent", "queued"}
WaitingOK ==
  \A r \in Runs : \A i \in DOMAIN memQueue[r] : member[memQueue[r][i]] # "absent"

NoCallees(r) == \A m \in Members : RunOf(m) = r /\ ~IsRoot(m) => member[m] = "absent"

\* A run that waits for a slot has invoked nobody.
QueueFresh == \A i \in DOMAIN runQueue : NoCallees(runQueue[i])

\* The part of SlotsRespected about the member scheduler.
MemberSlots ==
  \A r \in Runs : /\ IsFiniteSet(active[r]) /\ Cardinality(active[r]) <= MaxConcurrency
                  /\ memQueue[r] # <<>> => Cardinality(active[r]) = MaxConcurrency

\* Where accepted runs and callees wait.
InRunQueue(r) == \E i \in DOMAIN runQueue : runQueue[i] = r
InMemQueue(m) == \E i \in DOMAIN memQueue[RunOf(m)] : memQueue[RunOf(m)][i] = m

RunsKept    == \A r \in managed : member[Root(r)] = "queued" => InRunQueue(r)
CalleesKept == \A m \in Members : ~IsRoot(m) /\ member[m] = "queued" /\ RunOf(m) \in managed
                                    => InMemQueue(m)

AcceptInv ==
  /\ RootEnsures /\ SpaceOK /\ ActiveOK /\ WaitingOK /\ QueueFresh
  /\ RunsKept /\ CalleesKept /\ MemberSlots

(* What every step does to runs, spaces and members: a run goes forward, its *)
(* space is made before anything is mounted in it, a callee is invoked by a  *)
(* running run, and what has started has started.                            *)
Forward ==
  /\ \A r \in Runs :
       /\ run[r] \in Later => run'[r] \in Later
       /\ run'[r] = "running" => run[r] = "running" \/ pc[Root(r)] = "creating"
       /\ \/ space'[r] = space[r] \/ space'[r] \in Made
          \/ run[r] \in Early /\ run'[r] = "preparing" /\ pc'[Root(r)] = "ensuring"
       /\ pc'[Root(r)] \in Mounted =>
            space'[r] \in Made \/ (pc[Root(r)] \in Mounted /\ space'[r] = space[r])
  /\ \A m \in Members :
       /\ member[m] = "absent" /\ member'[m] # "absent" /\ ~IsRoot(m) =>
            run[RunOf(m)] = "running" /\ run'[RunOf(m)] = "running"
       /\ member[m] \notin {"absent", "queued"} => member'[m] \notin {"absent", "queued"}
       /\ member[m] # "absent" => member'[m] # "absent"
       /\ pc'[m] = "ensuring" => pc[m] = "ensuring" \/ IsRoot(m)

(* Such a step keeps the facts about spaces.                                *)
LEMMA ForwardKeeps ==
  ASSUME SpaceOK, RootEnsures, Forward
  PROVE  SpaceOK' /\ RootEnsures'
<1>1. /\ \A s \in Early : s \notin Later
      /\ "running" \in Later /\ "preparing" # "running" /\ "ensuring" \notin Mounted /\ "creating" \in Mounted
  BY DEF Early, Later, Terminal, Mounted
<1>2. \A m \in Members : RunOf(m) \in Runs
  BY MemberRun
<1>3. ASSUME NEW m \in Members, ~IsRoot(m), member'[m] # "absent"
      PROVE  run'[RunOf(m)] \in Later /\ space'[RunOf(m)] \in Made
  <2>1. run[RunOf(m)] \in Later /\ space[RunOf(m)] \in Made
    BY <1>1, <1>2, <1>3 DEF SpaceOK, Forward
  <2> QED BY <1>1, <1>2, <2>1 DEF Forward
<1>4. ASSUME NEW r \in Runs, run'[r] = "running" PROVE space'[r] \in Made
  <2>1. space[r] \in Made
    BY <1>1, <1>4 DEF SpaceOK, Forward
  <2> QED BY <1>1, <1>4, <2>1 DEF Forward
<1>5. ASSUME NEW r \in Runs, pc'[Root(r)] \in Mounted PROVE space'[r] \in Made
  BY <1>5 DEF SpaceOK, Forward
<1>6. SpaceOK'
  BY <1>3, <1>4, <1>5 DEF SpaceOK
<1>7. RootEnsures'
  BY DEF RootEnsures, Forward
<1> QED BY <1>6, <1>7

\* The member statuses mem that a segment of m finds: m may just have been
\* recorded, and entries of other members may just have been settled.
Found(m, mem) ==
  /\ mem \in [Members -> Status]
  /\ \A x \in Members \ {m} :
       mem[x] = member[x] \/ (member[x] = "finalizing" /\ mem[x] \in Terminal)
  /\ \/ mem[m] = member[m] /\ member[m] # "absent"
     \/ /\ member[m] = "absent" /\ mem[m] = "queued"
        /\ ~IsRoot(m) => run[RunOf(m)] = "running"

(* A segment goes forward.                                                  *)
LEMMA ShapeForward ==
  ASSUME NEW m \in Members, NEW mem, NEW mg, Found(m, mem), Shape(m, mem, mg)
  PROVE  Forward /\ member'[m] \notin {"absent", "queued"}
<1>0. /\ \A x \in Members : RunOf(x) \in Runs
      /\ \A q \in Runs : Root(q) \in Members /\ RunOf(Root(q)) = q /\ IsRoot(Root(q))
      /\ IsRoot(m) => m = Root(RunOf(m))
  BY MemberRun, RootIsRoot
<1>1. "absent" \notin Terminal /\ "queued" \notin Terminal /\ "absent" \notin Started /\ "queued" \notin Started
      /\ "finalizing" # "absent" /\ "finalizing" # "queued"
  BY DEF Terminal, Started
<1>2. /\ \A x \in Members \ {m} : member'[x] = mem[x] /\ pc'[x] = pc[x]
      /\ IF mem[m] \in Terminal THEN member'[m] = mem[m] ELSE member'[m] \in Started
      /\ \A q \in Runs : q # RunOf(m) \/ ~IsRoot(m) => run'[q] = run[q] /\ space'[q] = space[q]
  BY DEF Shape, Segment
<1>3. member'[m] \notin {"absent", "queued"}
  BY <1>1, <1>2
<1>4. \A x \in Members :
        /\ member[x] = "absent" /\ member'[x] # "absent" /\ ~IsRoot(x) =>
             run[RunOf(x)] = "running" /\ run'[RunOf(x)] = "running"
        /\ member[x] \notin {"absent", "queued"} => member'[x] \notin {"absent", "queued"}
        /\ member[x] # "absent" => member'[x] # "absent"
        /\ pc'[x] = "ensuring" => pc[x] = "ensuring" \/ IsRoot(x)
  <2> SUFFICES ASSUME NEW x \in Members
               PROVE  /\ member[x] = "absent" /\ member'[x] # "absent" /\ ~IsRoot(x) =>
                           run[RunOf(x)] = "running" /\ run'[RunOf(x)] = "running"
                      /\ member[x] \notin {"absent", "queued"} => member'[x] \notin {"absent", "queued"}
                      /\ member[x] # "absent" => member'[x] # "absent"
                      /\ pc'[x] = "ensuring" => pc[x] = "ensuring" \/ IsRoot(x)
    OBVIOUS
  <2>1. CASE x = m
    <3>1. pc'[m] = "ensuring" => IsRoot(m)
      BY DEF Shape
    <3>2. ~IsRoot(m) /\ member[m] = "absent" => run[RunOf(m)] = "running"
      BY DEF Found
    <3> QED BY <1>0, <1>2, <1>3, <2>1, <3>1, <3>2
  <2>2. CASE x # m
    BY <1>1, <1>2, <2>2 DEF Found
  <2> QED BY <2>1, <2>2
<1>5. ASSUME NEW r \in Runs
      PROVE  /\ run[r] \in Later => run'[r] \in Later
             /\ run'[r] = "running" => run[r] = "running" \/ pc[Root(r)] = "creating"
             /\ \/ space'[r] = space[r] \/ space'[r] \in Made
                \/ run[r] \in Early /\ run'[r] = "preparing" /\ pc'[Root(r)] = "ensuring"
             /\ pc'[Root(r)] \in Mounted =>
                  space'[r] \in Made \/ (pc[Root(r)] \in Mounted /\ space'[r] = space[r])
  <2>1. CASE r = RunOf(m) /\ IsRoot(m)
    <3>1. m = Root(r)
      BY <1>0, <2>1
    <3> QED BY <2>1, <3>1 DEF Shape
  <2>2. CASE r # RunOf(m) \/ ~IsRoot(m)
    <3>1. Root(r) # m
      BY <1>0, <2>2
    <3> QED BY <1>0, <1>2, <2>2, <3>1
  <2> QED BY <2>1, <2>2
<1> QED BY <1>3, <1>4, <1>5 DEF Forward

-----------------------------------------------------------------------------
(* Nothing accepted is forgotten: step by step                             *)

(* A run that waits for a slot still has invoked nobody.                    *)
LEMMA FreshKept ==
  ASSUME RunQueueOK, QueueFresh, Forward, NEW r \in Runs, InRunQueue(r)
  PROVE  NoCallees(r)'
<1>1. run[r] # "running"
  BY DEF RunQueueOK, Terminal, InRunQueue
<1>2. NoCallees(r)
  BY DEF QueueFresh, InRunQueue
<1> QED BY <1>1, <1>2 DEF NoCallees, Forward

(* A step that leaves the schedulers alone, accepts no run and queues no    *)
(* member loses nothing.                                                    *)
LEMMA AcceptKept ==
  ASSUME TypeOK, RunQueueOK, AcceptInv, Forward, managed' \subseteq managed,
         UNCHANGED <<runQueue, memQueue, active>>,
         \A m \in Members : member'[m] = "queued" => member[m] = "queued"
  PROVE  AcceptInv'
<1>1. SpaceOK' /\ RootEnsures'
  BY ForwardKeeps DEF AcceptInv
<1>2. /\ \A r \in Runs : Root(r) \in Members /\ active[r] \subseteq Members
      /\ \A r \in Runs : \A i \in DOMAIN memQueue[r] : memQueue[r][i] \in Members
      /\ managed \subseteq Runs
  BY MemberRun DEF TypeOK
<1>3. ActiveOK' /\ WaitingOK'
  BY <1>2 DEF AcceptInv, ActiveOK, WaitingOK, Forward
<1>4. QueueFresh'
  <2>1. ASSUME NEW r \in Runs, InRunQueue(r) PROVE NoCallees(r)'
    BY <2>1, FreshKept DEF AcceptInv
  <2>2. \A i \in DOMAIN runQueue : runQueue[i] \in Runs /\ InRunQueue(runQueue[i])
    BY DEF TypeOK, InRunQueue
  <2> QED BY <2>1, <2>2 DEF QueueFresh, NoCallees
<1>5. RunsKept'
  BY <1>2 DEF AcceptInv, RunsKept, InRunQueue
<1>6. CalleesKept'
  BY DEF AcceptInv, CalleesKept, InMemQueue
<1>7. MemberSlots'
  BY DEF AcceptInv, MemberSlots
<1> QED BY <1>1, <1>3, <1>4, <1>5, <1>6, <1>7 DEF AcceptInv

(* The steps of an execution.                                               *)
LEMMA ExecuteAccept ==
  ASSUME SafetyInv, AcceptInv, NEW m \in Members, Execute(m) \/ Clean(m)
  PROVE  AcceptInv'
<1>1. TypeOK /\ RunQueueOK /\ StatusInv /\ member \in [Members -> Status]
  BY DEF SafetyInv, QueueInv, TypeOK
<1>2. Shape(m, member, managed) /\ InFlight(m) /\ UNCHANGED execFrame
  BY ExecuteShape DEF AcceptInv
<1>3. member[m] \notin {"absent", "queued"}
  BY <1>1, <1>2 DEF StatusInv, StartedFirst
<1>4. Found(m, member)
  BY <1>1, <1>3 DEF Found
<1>5. Forward /\ member'[m] \notin {"absent", "queued"}
  BY <1>2, <1>4, ShapeForward
<1>6. /\ \A x \in Members \ {m} : member'[x] = member[x]
      /\ managed' \subseteq managed
  BY <1>2 DEF Shape, Segment
<1>7. UNCHANGED <<runQueue, memQueue, active>>
  BY <1>2 DEF execFrame, schedVars
<1> QED BY <1>1, <1>5, <1>6, <1>7, AcceptKept

(* A run that has invoked nobody has no callee that runs or waits.          *)
LEMMA AloneSlots ==
  ASSUME TypeOK, CalleesQueued, AcceptInv, NEW r \in Runs, NoCallees(r)
  PROVE  /\ active[r] \subseteq {Root(r)} /\ memQueue[r] = <<>>
<1>1. memQueue[r] \in Seq(Members) /\ active[r] \subseteq Members
  BY DEF TypeOK
<1>2. \A m \in active[r] : m = Root(r)
  BY <1>1, RootIsRoot DEF AcceptInv, ActiveOK, NoCallees
<1>3. \A i \in DOMAIN memQueue[r] : FALSE
  BY <1>1 DEF AcceptInv, WaitingOK, CalleesQueued, NoCallees
<1>4. memQueue[r] = <<>>
  <2>1. Len(memQueue[r]) \in Nat /\ DOMAIN memQueue[r] = 1..Len(memQueue[r])
    BY <1>1
  <2>2. Len(memQueue[r]) = 0
    <3>1. Len(memQueue[r]) > 0 => 1 \in DOMAIN memQueue[r]
      BY <2>1
    <3> QED BY <1>3, <2>1, <3>1
  <2> QED BY <1>1, <2>2
<1> QED BY <1>2, <1>4

(* The root of such a run starts: it alone holds a slot of its run.         *)
LEMMA BeginRootAccept ==
  ASSUME TypeOK, CalleesQueued, RunQueueOK, AcceptInv, NEW r \in Runs, NoCallees(r),
         NEW mem, NEW mg \in SUBSET Runs, Found(Root(r), mem),
         \A x \in Members \ {Root(r)} : mem[x] = member[x],
         BeginRoot(r, mem, mg), mg \subseteq managed \cup {r}, memQueue' = memQueue,
         \A i \in DOMAIN runQueue' : \E j \in DOMAIN runQueue : runQueue'[i] = runQueue[j],
         \A q \in Runs \ {r} : InRunQueue(q) => InRunQueue(q)'
  PROVE  AcceptInv'
<1> DEFINE m == Root(r)
<1>0. OutTypeOK
  BY TypeParts
<1>1. m \in Members /\ IsRoot(m) /\ RunOf(m) = r /\ \A q \in Runs : Root(q) \in Members /\ (Root(q) = m => q = r)
  BY MemberRun
<1>2. /\ mem \in [Members -> Status] /\ Begin(m, mem, mg)
      /\ active' = [active EXCEPT ![r] = @ \cup {m}]
  BY DEF Found, BeginRoot
<1>3. Shape(m, mem, mg)
  BY <1>0, <1>1, <1>2, BeginShape
<1> HIDE DEF m
<1>4. Forward /\ member'[m] \notin {"absent", "queued"}
  BY <1>1, <1>3, ShapeForward DEF m
<1>5. /\ \A x \in Members \ {m} : member'[x] = member[x]
      /\ managed' \subseteq managed \cup {r}
  BY <1>3 DEF Shape, Segment, m
<1>6. SpaceOK' /\ RootEnsures'
  BY <1>4, ForwardKeeps DEF AcceptInv
<1>7. active[r] \subseteq {m} /\ memQueue[r] = <<>>
  BY AloneSlots DEF m
<1>8. /\ active \in [Runs -> SUBSET Members] /\ memQueue \in [Runs -> Seq(Members)]
      /\ \A q \in Runs : \A i \in DOMAIN memQueue[q] : memQueue[q][i] \in Members
      /\ managed \subseteq Runs /\ \A j \in DOMAIN runQueue : runQueue[j] \in Runs
  BY DEF TypeOK
<1>9. active'[r] = {m} /\ \A q \in Runs \ {r} : active'[q] = active[q]
  BY <1>2, <1>7, <1>8
<1>10. ActiveOK'
  BY <1>1, <1>4, <1>8, <1>9 DEF AcceptInv, ActiveOK, Forward
<1>11. WaitingOK'
  BY <1>4, <1>8 DEF AcceptInv, WaitingOK, Forward
<1>12. QueueFresh'
  <2>1. ASSUME NEW q \in Runs, InRunQueue(q) PROVE NoCallees(q)'
    BY <1>4, <2>1, FreshKept DEF AcceptInv
  <2>2. \A i \in DOMAIN runQueue : runQueue[i] \in Runs /\ InRunQueue(runQueue[i])
    BY <1>8 DEF InRunQueue
  <2> QED BY <2>1, <2>2 DEF QueueFresh, NoCallees
<1>13. RunsKept'
  <2> SUFFICES ASSUME NEW q \in managed', member'[Root(q)] = "queued" PROVE InRunQueue(q)'
    BY DEF RunsKept
  <2>1. q # r /\ q \in managed
    BY <1>4, <1>5 DEF m
  <2>2. member[Root(q)] = "queued"
    BY <1>1, <1>5, <1>8, <2>1
  <2> QED BY <1>8, <2>1, <2>2 DEF AcceptInv, RunsKept
<1>14. CalleesKept'
  <2> SUFFICES ASSUME NEW x \in Members, ~IsRoot(x), member'[x] = "queued", RunOf(x) \in managed'
               PROVE  InMemQueue(x)'
    BY DEF CalleesKept
  <2>1. x # m /\ member[x] = "queued"
    BY <1>4, <1>5
  <2>2. RunOf(x) # r
    BY <2>1 DEF NoCallees
  <2>3. InMemQueue(x)
    BY <1>5, <2>1, <2>2 DEF AcceptInv, CalleesKept
  <2> QED BY <2>3 DEF InMemQueue
<1>15. MemberSlots'
  <2>1. IsFiniteSet({m}) /\ Cardinality({m}) = 1
    BY FS_Singleton
  <2>2. 1 <= MaxConcurrency
    BY AgentRunAssumption
  <2> QED BY <1>7, <1>9, <2>1, <2>2 DEF AcceptInv, MemberSlots
<1> QED BY <1>6, <1>10, <1>11, <1>12, <1>13, <1>14, <1>15 DEF AcceptInv

(* accept of a run that has invoked nobody.                                 *)
LEMMA AcceptRootAccept ==
  ASSUME TypeOK, CalleesQueued, RunQueueOK, StatusInv, AcceptInv, NEW r \in Runs, NoCallees(r),
         NEW mem \in [Members -> Status], AcceptRoot(r, mem),
         \/ run[r] = "absent" /\ mem = [member EXCEPT ![Root(r)] = "queued"]
         \/ run[r] # "absent" /\ mem = member
  PROVE  AcceptInv'
<1> DEFINE m == Root(r)
<1>1. m \in Members /\ IsRoot(m) /\ RunOf(m) = r /\ \A q \in Runs : Root(q) \in Members /\ (Root(q) = m => q = r)
  BY MemberRun
<1>2. /\ run \in [Runs -> Status] /\ member \in [Members -> Status] /\ managed \in SUBSET Runs
      /\ runQueue \in Seq(Runs) /\ memQueue \in [Runs -> Seq(Members)]
  BY DEF TypeOK
<1>3. /\ \A x \in Members \ {m} : mem[x] = member[x]
      /\ \/ mem[m] = member[m] /\ member[m] # "absent"
         \/ member[m] = "absent" /\ mem[m] = "queued"
  BY <1>1, <1>2 DEF StatusInv, RootRecorded
<1>4. Found(m, mem)
  BY <1>1, <1>3 DEF Found
<1> HIDE DEF m
<1>5. CASE FailQueuedRoot(r, mem, managed) /\ UNCHANGED schedVars
  <2>1. /\ UNCHANGED <<space, pc, runQueue, memQueue, active>> /\ managed' \subseteq managed
        /\ run' = run \/ run' = [run EXCEPT ![r] = "failed"]
        /\ member' = IF mem[m] = "queued" THEN [mem EXCEPT ![m] = "failed"] ELSE mem
    BY <1>5 DEF FailQueuedRoot, schedVars, m
  <2>2. \A q \in Runs : run'[q] = run[q] \/ run'[q] = "failed"
    BY <1>2, <2>1
  <2>3. /\ \A x \in Members \ {m} : member'[x] = member[x]
        /\ member'[m] \notin {"absent", "queued"}
    BY <1>1, <1>3, <2>1
  <2>4. Forward
    BY <1>1, <2>1, <2>2, <2>3 DEF Forward, Later, Terminal
  <2> QED BY <2>1, <2>3, <2>4, AcceptKept
<1>6. CASE BeginRoot(r, mem, managed \cup {r}) /\ UNCHANGED <<runQueue, memQueue>>
  <2>1. /\ \A i \in DOMAIN runQueue' : \E j \in DOMAIN runQueue : runQueue'[i] = runQueue[j]
        /\ \A q \in Runs \ {r} : InRunQueue(q) => InRunQueue(q)'
        /\ managed \cup {r} \in SUBSET Runs
    BY <1>2, <1>6 DEF InRunQueue
  <2> QED BY <1>3, <1>4, <1>6, <2>1, BeginRootAccept DEF m
<1>7. CASE /\ runQueue' = Append(runQueue, r)
           /\ managed' = managed \cup {r}
           /\ member' = mem
           /\ run' = [run EXCEPT ![r] = IF @ = "absent" THEN "queued" ELSE @]
           /\ UNCHANGED <<space, pc, memQueue, active>>
  <2>1. \A q \in Runs : run'[q] = run[q] \/ (run[q] = "absent" /\ run'[q] = "queued")
    BY <1>2, <1>7
  <2>2. Forward
    BY <1>1, <1>3, <1>7, <2>1 DEF Forward, Later, Terminal
  <2>3. SpaceOK' /\ RootEnsures'
    BY <2>2, ForwardKeeps DEF AcceptInv
  <2>4. /\ \A q \in Runs : active[q] \subseteq Members
        /\ \A q \in Runs : \A i \in DOMAIN memQueue[q] : memQueue[q][i] \in Members
    BY DEF TypeOK
  <2>5. ActiveOK' /\ WaitingOK' /\ MemberSlots'
    BY <1>7, <2>2, <2>4 DEF AcceptInv, ActiveOK, WaitingOK, MemberSlots, Forward
  <2>6. NoCallees(r)'
    BY <1>1, <1>3, <1>7 DEF NoCallees
  <2>7. /\ DOMAIN runQueue' = 1..(Len(runQueue) + 1) /\ runQueue'[Len(runQueue) + 1] = r
        /\ DOMAIN runQueue = 1..Len(runQueue) /\ Len(runQueue) \in Nat
        /\ \A i \in DOMAIN runQueue : runQueue'[i] = runQueue[i] /\ runQueue[i] \in Runs
    BY <1>2, <1>7
  <2>8. QueueFresh'
    <3>1. ASSUME NEW q \in Runs, InRunQueue(q) PROVE NoCallees(q)'
      BY <2>2, <3>1, FreshKept DEF AcceptInv
    <3>2. \A i \in DOMAIN runQueue' : runQueue'[i] = r \/ (runQueue'[i] \in Runs /\ InRunQueue(runQueue'[i]))
      BY <2>7 DEF InRunQueue
    <3>3. \A i \in DOMAIN runQueue' : NoCallees(runQueue[i])'
      BY <2>6, <3>1, <3>2 DEF NoCallees
    <3> QED BY <3>3 DEF QueueFresh
  <2>9. RunsKept'
    <3> SUFFICES ASSUME NEW q \in managed', member'[Root(q)] = "queued" PROVE InRunQueue(q)'
      BY DEF RunsKept
    <3>1. CASE q = r
      BY <2>7, <3>1 DEF InRunQueue
    <3>2. CASE q # r
      <4>1. q \in managed /\ q \in Runs /\ member[Root(q)] = "queued"
        BY <1>1, <1>2, <1>3, <1>7, <3>2
      <4>2. InRunQueue(q)
        BY <4>1 DEF AcceptInv, RunsKept
      <4> QED BY <2>7, <4>2 DEF InRunQueue
    <3> QED BY <3>1, <3>2
  <2>10. CalleesKept'
    <3> SUFFICES ASSUME NEW x \in Members, ~IsRoot(x), member'[x] = "queued", RunOf(x) \in managed'
                 PROVE  InMemQueue(x)'
      BY DEF CalleesKept
    <3>1. member[x] = "queued"
      BY <1>1, <1>3, <1>7
    <3>2. RunOf(x) # r
      BY <3>1 DEF NoCallees
    <3>3. InMemQueue(x)
      BY <1>7, <3>1, <3>2 DEF AcceptInv, CalleesKept
    <3> QED BY <1>7, <3>3 DEF InMemQueue
  <2> QED BY <2>3, <2>5, <2>8, <2>9, <2>10 DEF AcceptInv
<1> QED BY <1>5, <1>6, <1>7 DEF AcceptRoot

(* accept of a callee, invoked for the first time or again.                 *)
LEMMA AcceptCalleeAccept ==
  ASSUME TypeOK, CalleesQueued, RunQueueOK, AcceptInv, NEW m \in Members, ~IsRoot(m),
         run[RunOf(m)] = "running", member[m] \in {"absent", "queued"},
         AcceptCallee(m, [member EXCEPT ![m] = "queued"])
  PROVE  AcceptInv'
<1> DEFINE mem == [member EXCEPT ![m] = "queued"]
           r == RunOf(m)
<1>0. OutTypeOK
  BY TypeParts
<1>1. r \in Runs /\ \A q \in Runs : Root(q) \in Members /\ Root(q) # m
  BY MemberRun
<1>2. /\ member \in [Members -> Status] /\ managed \in SUBSET Runs
      /\ memQueue \in [Runs -> Seq(Members)] /\ active \in [Runs -> SUBSET Members]
      /\ \A i \in DOMAIN runQueue : runQueue[i] \in Runs
  BY DEF TypeOK
<1>3. /\ \A x \in Members \ {m} : mem[x] = member[x]
      /\ mem[m] = "queued" /\ mem \in [Members -> Status]
  BY <1>2 DEF Status
<1>4. Found(m, mem)
  BY <1>3 DEF Found
<1>5. m \notin active[r]
  BY <1>1 DEF AcceptInv, ActiveOK
<1>6. IsFiniteSet(active[r]) /\ Cardinality(active[r]) <= MaxConcurrency /\ Cardinality(active[r]) \in Nat
      /\ MaxConcurrency \in Nat
  BY <1>1, FS_CardinalityType, AgentRunAssumption DEF AcceptInv, MemberSlots
<1>f. ASSUME Forward PROVE QueueFresh' \/ runQueue' # runQueue
  <2>1. ASSUME NEW q \in Runs, InRunQueue(q) PROVE NoCallees(q)'
    BY <1>f, <2>1, FreshKept DEF AcceptInv
  <2> QED BY <1>2, <2>1 DEF QueueFresh, NoCallees, InRunQueue
<1>k. ASSUME \A x \in Members \ {m} : member'[x] = member[x],
             managed' \subseteq managed, UNCHANGED runQueue
      PROVE  RunsKept'
  BY <1>1, <1>2, <1>k DEF AcceptInv, RunsKept, InRunQueue
<1> HIDE DEF mem, r
<1>7. CASE /\ member' = [mem EXCEPT ![m] = "failed"]
           /\ UNCHANGED <<run, space, managed, pc, schedVars>>
  <2>1. member'[m] = "failed" /\ \A x \in Members \ {m} : member'[x] = member[x]
    BY <1>3, <1>7
  <2>2. Forward
    BY <1>7, <2>1 DEF Forward
  <2> QED BY <1>7, <2>1, <2>2, AcceptKept DEF schedVars
<1>8. CASE /\ MemberSlotFree(r)
           /\ active' = [active EXCEPT ![r] = @ \cup {m}]
           /\ Begin(m, mem, managed)
           /\ UNCHANGED <<runQueue, memQueue>>
  <2>1. Shape(m, mem, managed)
    BY <1>0, <1>2, <1>3, <1>8, BeginShape
  <2>2. Forward /\ member'[m] \notin {"absent", "queued"}
    BY <1>4, <2>1, ShapeForward
  <2>3. (\A x \in Members \ {m} : member'[x] = member[x]) /\ managed' \subseteq managed
    BY <1>3, <2>1 DEF Shape, Segment
  <2>4. SpaceOK' /\ RootEnsures'
    BY <2>2, ForwardKeeps DEF AcceptInv
  <2>5. active'[r] = active[r] \cup {m} /\ \A q \in Runs \ {r} : active'[q] = active[q]
    BY <1>1, <1>2, <1>8
  <2>6. ActiveOK'
    BY <1>2, <2>2, <2>5 DEF AcceptInv, ActiveOK, Forward, r
  <2>7. WaitingOK'
    BY <1>2, <1>8, <2>2 DEF AcceptInv, WaitingOK, Forward
  <2>8. QueueFresh' /\ RunsKept'
    BY <1>8, <1>f, <1>k, <2>2, <2>3
  <2>9. CalleesKept'
    BY <1>8, <2>2, <2>3 DEF AcceptInv, CalleesKept, InMemQueue
  <2>10. MemberSlots'
    <3>1. IsFiniteSet(active'[r]) /\ Cardinality(active'[r]) = Cardinality(active[r]) + 1
      BY <1>5, <1>6, <2>5, FS_AddElement
    <3>2. Cardinality(active[r]) < MaxConcurrency
      BY <1>8 DEF MemberSlotFree
    <3>3. memQueue[r] = <<>>
      <4>1. memQueue[r] # <<>> => Cardinality(active[r]) = MaxConcurrency
        BY <1>1 DEF AcceptInv, MemberSlots
      <4> QED BY <1>6, <3>2, <4>1
    <3>4. Cardinality(active'[r]) <= MaxConcurrency
      BY <1>6, <3>1, <3>2
    <3> QED BY <1>8, <2>5, <3>1, <3>3, <3>4 DEF AcceptInv, MemberSlots
  <2> QED BY <2>4, <2>6, <2>7, <2>8, <2>9, <2>10 DEF AcceptInv
<1>9. CASE /\ ~MemberSlotFree(r)
           /\ memQueue' = [memQueue EXCEPT ![r] = Append(@, m)]
           /\ member' = mem
           /\ UNCHANGED <<run, space, managed, pc, runQueue, active>>
  <2>1. (\A x \in Members \ {m} : member'[x] = member[x]) /\ member'[m] = "queued"
    BY <1>3, <1>9
  <2>2. Forward
    BY <1>9, <2>1 DEF Forward
  <2>3. SpaceOK' /\ RootEnsures'
    BY <2>2, ForwardKeeps DEF AcceptInv
  <2>4. /\ \A q \in Runs \ {r} : memQueue'[q] = memQueue[q]
        /\ memQueue'[r] = Append(memQueue[r], m) /\ memQueue[r] \in Seq(Members)
    BY <1>1, <1>2, <1>9
  <2>5. /\ DOMAIN memQueue'[r] = 1..(Len(memQueue[r]) + 1) /\ memQueue'[r][Len(memQueue[r]) + 1] = m
        /\ DOMAIN memQueue[r] = 1..Len(memQueue[r]) /\ Len(memQueue[r]) \in Nat
        /\ \A i \in DOMAIN memQueue[r] : memQueue'[r][i] = memQueue[r][i] /\ memQueue[r][i] \in Members
    BY <2>4
  <2>6. ActiveOK'
    BY <1>2, <1>9, <2>2 DEF AcceptInv, ActiveOK, Forward
  <2>7. WaitingOK'
    <3>1. \A i \in DOMAIN memQueue'[r] : memQueue'[r][i] = m \/ (i \in DOMAIN memQueue[r] /\ memQueue'[r][i] = memQueue[r][i])
      BY <2>5
    <3>2. \A i \in DOMAIN memQueue'[r] : member'[memQueue'[r][i]] # "absent"
      BY <1>1, <2>1, <2>2, <2>5, <3>1 DEF AcceptInv, WaitingOK, Forward
    <3>3. \A q \in Runs \ {r} : \A i \in DOMAIN memQueue'[q] :
            memQueue[q][i] \in Members /\ member[memQueue[q][i]] # "absent"
      BY <1>2, <2>4 DEF AcceptInv, WaitingOK
    <3>4. \A q \in Runs \ {r} : \A i \in DOMAIN memQueue'[q] : member'[memQueue'[q][i]] # "absent"
      BY <2>2, <2>4, <3>3 DEF Forward
    <3> QED BY <3>2, <3>4 DEF WaitingOK
  <2>8. QueueFresh' /\ RunsKept'
    BY <1>9, <1>f, <1>k, <2>1, <2>2
  <2>9. CalleesKept'
    <3> SUFFICES ASSUME NEW x \in Members, ~IsRoot(x), member'[x] = "queued", RunOf(x) \in managed'
                 PROVE  InMemQueue(x)'
      BY DEF CalleesKept
    <3>1. CASE x = m
      BY <2>5, <3>1 DEF InMemQueue, r
    <3>2. CASE x # m
      <4>1. InMemQueue(x)
        BY <1>9, <2>1, <3>2 DEF AcceptInv, CalleesKept
      <4>2. RunOf(x) \in Runs
        BY MemberRun
      <4> QED BY <2>4, <2>5, <4>1, <4>2 DEF InMemQueue
    <3> QED BY <3>1, <3>2
  <2>10. MemberSlots'
    <3>1. Cardinality(active[r]) = MaxConcurrency
      BY <1>6, <1>9 DEF MemberSlotFree
    <3> QED BY <1>9, <2>4, <3>1 DEF AcceptInv, MemberSlots
  <2> QED BY <2>3, <2>6, <2>7, <2>8, <2>9, <2>10 DEF AcceptInv
<1> QED BY <1>7, <1>8, <1>9 DEF AcceptCallee, mem, r

(* create, addMember and its repetition, the tool timeout and cancel.       *)
LEMMA RequestAccept ==
  ASSUME SafetyInv, AcceptInv, Request \/ \E m \in Members : ToolTimeout(m)
  PROVE  AcceptInv'
<1>0. /\ TypeOK /\ StatusInv /\ CalleesQueued /\ RunQueueOK
      /\ member \in [Members -> Status] /\ run \in [Runs -> Status]
      /\ memQueue \in [Runs -> Seq(Members)]
  BY DEF SafetyInv, QueueInv, TypeOK
<1>1. ASSUME NEW r \in Runs, Create(r) PROVE AcceptInv'
  <2>1. run[r] = "absent" /\ AcceptRoot(r, [member EXCEPT ![Root(r)] = "queued"])
    BY <1>1 DEF Create
  <2>2. NoCallees(r)
    BY <2>1 DEF AcceptInv, SpaceOK, NoCallees, Later, Terminal
  <2>3. [member EXCEPT ![Root(r)] = "queued"] \in [Members -> Status]
    BY <1>0 DEF Status
  <2> QED BY <1>0, <2>1, <2>2, <2>3, AcceptRootAccept
<1>2. ASSUME NEW p \in Members, NEW m \in Members, AddMember(p, m) PROVE AcceptInv'
  <2>1. /\ member[m] = "absent" /\ run[RunOf(m)] = "running"
        /\ AcceptCallee(m, [member EXCEPT ![m] = "queued"])
    BY <1>2 DEF AddMember
  <2>2. ~IsRoot(m)
    <3>1. RunOf(m) \in Runs
      BY MemberRun
    <3>2. member[Root(RunOf(m))] # "absent"
      BY <1>0, <2>1, <3>1 DEF StatusInv, RootRecorded
    <3> QED BY <2>1, <3>2, RootIsRoot
  <2> QED BY <1>0, <2>1, <2>2, AcceptCalleeAccept
<1>3. ASSUME NEW m \in Members, RetryInvoke(m) PROVE AcceptInv'
  <2>1. /\ member[m] = "queued" /\ ~IsRoot(m) /\ run[RunOf(m)] = "running" /\ AcceptCallee(m, member)
    BY <1>3 DEF RetryInvoke
  <2>2. member = [member EXCEPT ![m] = "queued"]
    BY <1>0, <2>1
  <2>3. AcceptCallee(m, [member EXCEPT ![m] = "queued"])
    BY <2>1, <2>2
  <2> QED BY <1>0, <2>1, <2>3, AcceptCalleeAccept
<1>4. ASSUME NEW m \in Members, ToolTimeout(m) PROVE AcceptInv'
  <2>1. UNCHANGED <<run, member, space, managed, pc, runQueue, memQueue, active>>
    BY <1>4 DEF ToolTimeout, outVars, schedVars
  <2>2. Forward
    BY <2>1 DEF Forward
  <2> QED BY <1>0, <2>1, <2>2, AcceptKept
<1>5. ASSUME NEW r \in Runs, Cancel(r) PROVE AcceptInv'
  <2>1. /\ run[r] \in {"queued", "preparing", "running"}
        /\ run' = [run EXCEPT ![r] = "finalizing"]
        /\ member' = FailQueuedIn(memQueue[r], member)
        /\ memQueue' = [memQueue EXCEPT ![r] = <<>>]
        /\ UNCHANGED <<managed, pc, space, runQueue, active>>
    BY <1>5 DEF Cancel, Cancellable
  <2>2. \A q \in Runs : run'[q] = run[q] \/ run'[q] = "finalizing"
    BY <1>0, <2>1
  <2>3. \A x \in Members :
          \/ member'[x] = member[x] /\ ~(member[x] = "queued" /\ \E i \in DOMAIN memQueue[r] : memQueue[r][i] = x)
          \/ member[x] = "queued" /\ member'[x] = "failed" /\ ~IsRoot(x)
    BY <1>0, <2>1 DEF FailQueuedIn, CalleesQueued
  <2>4. Forward
    BY <2>1, <2>2, <2>3 DEF Forward, Later
  <2>5. SpaceOK' /\ RootEnsures'
    BY <2>4, ForwardKeeps DEF AcceptInv
  <2>6. /\ memQueue'[r] = <<>> /\ \A q \in Runs \ {r} : memQueue'[q] = memQueue[q]
        /\ \A q \in Runs : active[q] \subseteq Members
        /\ \A q \in Runs : \A i \in DOMAIN memQueue[q] : memQueue[q][i] \in Members
        /\ \A i \in DOMAIN runQueue : runQueue[i] \in Runs
        /\ managed \subseteq Runs
    BY <1>0, <2>1 DEF TypeOK
  <2>7. ActiveOK' /\ WaitingOK'
    BY <2>1, <2>4, <2>6 DEF AcceptInv, ActiveOK, WaitingOK, Forward
  <2>8. QueueFresh'
    <3>1. ASSUME NEW q \in Runs, InRunQueue(q) PROVE NoCallees(q)'
      BY <1>0, <2>4, <3>1, FreshKept DEF AcceptInv
    <3> QED BY <2>1, <2>6, <3>1 DEF QueueFresh, NoCallees, InRunQueue
  <2>9. RunsKept'
    BY <2>1, <2>3, <2>6, MemberRun DEF AcceptInv, RunsKept, InRunQueue
  <2>10. CalleesKept'
    <3> SUFFICES ASSUME NEW x \in Members, ~IsRoot(x), member'[x] = "queued", RunOf(x) \in managed'
                 PROVE  InMemQueue(x)'
      BY DEF CalleesKept
    <3>1. member[x] = "queued" /\ ~\E i \in DOMAIN memQueue[r] : memQueue[r][i] = x
      BY <2>3
    <3>2. InMemQueue(x)
      BY <2>1, <3>1 DEF AcceptInv, CalleesKept
    <3>3. RunOf(x) # r /\ RunOf(x) \in Runs
      BY <3>1, <3>2, MemberRun DEF InMemQueue
    <3> QED BY <2>6, <3>2, <3>3 DEF InMemQueue
  <2>11. MemberSlots'
    BY <2>1, <2>6 DEF AcceptInv, MemberSlots
  <2> QED BY <2>5, <2>7, <2>8, <2>9, <2>10, <2>11 DEF AcceptInv
<1> QED BY <1>1, <1>2, <1>3, <1>4, <1>5 DEF Request

(* The schedulers: the entry that starts takes the slot that is given up.   *)
LEMMA ReleaseMemberAccept ==
  ASSUME SafetyInv, AcceptInv, NEW m \in Members, ReleaseMember(m)
  PROVE  AcceptInv'
<1> DEFINE r == RunOf(m)
           q == memQueue[r]
<1>0. /\ TypeOK /\ StatusInv /\ CalleesQueued /\ RunQueueOK /\ OutTypeOK
      /\ member \in [Members -> Status] /\ run \in [Runs -> Status] /\ managed \in SUBSET Runs
      /\ memQueue \in [Runs -> Seq(Members)] /\ active \in [Runs -> SUBSET Members]
      /\ \A i \in DOMAIN runQueue : runQueue[i] \in Runs
      /\ \A k \in Runs : \A i \in DOMAIN memQueue[k] : memQueue[k][i] \in Members
  BY TypeParts, SMTT(30) DEF SafetyInv, QueueInv, TypeOK
<1>1. r \in Runs /\ q \in Seq(Members) /\ \A k \in Runs : Root(k) \in Members
  BY <1>0, MemberRun
<1>2. PICK n \in 0..Len(q) :
        /\ Drained(q, n)
        /\ \/ /\ n = Len(q)
              /\ active' = [active EXCEPT ![r] = @ \ {m}]
              /\ memQueue' = [memQueue EXCEPT ![r] = <<>>]
              /\ member' = VoidEffect(r, q, n)
              /\ UNCHANGED <<run, cleanup, space, managed, err, pc>>
           \/ /\ n < Len(q)
              /\ active' = [active EXCEPT ![r] = (@ \ {m}) \cup {q[n + 1]}]
              /\ memQueue' = [memQueue EXCEPT ![r] = SubSeq(q, n + 2, Len(q))]
              /\ Begin(q[n + 1], VoidEffect(r, q, n), managed)
  BY DEF ReleaseMember
<1> DEFINE mem == VoidEffect(r, q, n)
<1>3. n \in Nat /\ Len(q) \in Nat /\ DOMAIN q = 1..Len(q)
  BY <1>1
<1>4. m \in active[r] /\ UNCHANGED runQueue
  BY DEF ReleaseMember
<1>5. /\ mem \in [Members -> Status]
      /\ \A x \in Members :
           mem[x] = member[x] \/ (member[x] = "finalizing" /\ mem[x] \in Terminal)
  <2>1. Outcome(r, "cancelled") \in Terminal /\ Terminal \subseteq Status
    BY DEF Outcome, Status, Terminal
  <2> HIDE DEF r, q
  <2> QED BY <1>0, <2>1 DEF VoidEffect
<1>6. /\ IsFiniteSet(active[r]) /\ Cardinality(active[r]) <= MaxConcurrency
      /\ q # <<>> => Cardinality(active[r]) = MaxConcurrency
      /\ Cardinality(active[r]) \in Nat /\ MaxConcurrency \in Nat
      /\ IsFiniteSet(active[r] \ {m}) /\ Cardinality(active[r] \ {m}) = Cardinality(active[r]) - 1
  <2>1. IsFiniteSet(active[r]) /\ Cardinality(active[r]) <= MaxConcurrency
        /\ (q # <<>> => Cardinality(active[r]) = MaxConcurrency)
    BY <1>1 DEF AcceptInv, MemberSlots
  <2> QED BY <1>4, <2>1, FS_CardinalityType, FS_RemoveElement, AgentRunAssumption
<1>d. \A i \in 1..n : member[q[i]] # "queued"
  BY <1>2 DEF Drained, Void
<1>f. ASSUME Forward PROVE QueueFresh'
  <2>1. ASSUME NEW k \in Runs, InRunQueue(k) PROVE NoCallees(k)'
    BY <1>0, <1>f, <2>1, FreshKept DEF AcceptInv
  <2> QED BY <1>0, <1>4, <2>1 DEF QueueFresh, NoCallees, InRunQueue
<1>k. ASSUME \A x \in Members : member'[x] = "queued" => member[x] = "queued",
             managed' \subseteq managed
      PROVE  RunsKept'
  BY <1>0, <1>1, <1>4, <1>k DEF AcceptInv, RunsKept, InRunQueue
<1> HIDE DEF r, q, mem
<1>7. CASE /\ n = Len(q)
           /\ active' = [active EXCEPT ![r] = @ \ {m}]
           /\ memQueue' = [memQueue EXCEPT ![r] = <<>>]
           /\ member' = mem
           /\ UNCHANGED <<run, cleanup, space, managed, err, pc>>
  <2>1. \A x \in Members :
          member'[x] = member[x] \/ (member[x] = "finalizing" /\ member'[x] \in Terminal)
    BY <1>5, <1>7
  <2>2. Forward
    BY <1>7, <2>1 DEF Forward, Terminal
  <2>3. SpaceOK' /\ RootEnsures'
    BY <2>2, ForwardKeeps DEF AcceptInv
  <2>4. /\ active'[r] = active[r] \ {m} /\ memQueue'[r] = <<>>
        /\ \A k \in Runs \ {r} : active'[k] = active[k] /\ memQueue'[k] = memQueue[k]
    BY <1>0, <1>1, <1>7
  <2>5. ActiveOK'
    BY <1>0, <2>2, <2>4 DEF AcceptInv, ActiveOK, Forward
  <2>6. WaitingOK'
    BY <1>0, <2>2, <2>4 DEF AcceptInv, WaitingOK, Forward
  <2>7. QueueFresh' /\ RunsKept'
    BY <1>7, <1>f, <1>k, <2>1, <2>2 DEF Terminal
  <2>8. CalleesKept'
    <3> SUFFICES ASSUME NEW x \in Members, ~IsRoot(x), member'[x] = "queued", RunOf(x) \in managed'
                 PROVE  InMemQueue(x)'
      BY DEF CalleesKept
    <3>1. member[x] = "queued" /\ InMemQueue(x)
      BY <1>7, <2>1 DEF AcceptInv, CalleesKept, Terminal
    <3>2. RunOf(x) # r
      BY <1>3, <1>7, <1>d, <3>1 DEF InMemQueue, q
    <3> QED BY <2>4, <3>1, <3>2, MemberRun DEF InMemQueue
  <2>9. MemberSlots'
    <3>1. Cardinality(active[r] \ {m}) <= MaxConcurrency
      BY <1>6
    <3> QED BY <1>6, <2>4, <3>1 DEF AcceptInv, MemberSlots
  <2> QED BY <2>3, <2>5, <2>6, <2>7, <2>8, <2>9 DEF AcceptInv
<1>8. CASE /\ n < Len(q)
           /\ active' = [active EXCEPT ![r] = (@ \ {m}) \cup {q[n + 1]}]
           /\ memQueue' = [memQueue EXCEPT ![r] = SubSeq(q, n + 2, Len(q))]
           /\ Begin(q[n + 1], mem, managed)
  <2> DEFINE x == q[n + 1]
             t == SubSeq(q, n + 2, Len(q))
  <2>1. n + 1 \in DOMAIN q
    BY <1>3, <1>8
  <2>2. x \in Members /\ RunOf(x) = r /\ ~IsRoot(x) /\ member[x] = "queued"
    <3>1. ~Void(x)
      BY <1>2, <1>8 DEF Drained
    <3>2. RunOf(x) = r /\ ~IsRoot(x)
      BY <1>0, <1>1, <2>1 DEF CalleesQueued, q
    <3> QED BY <1>1, <2>1, <3>1, <3>2 DEF Void
  <2>3. /\ \A i \in DOMAIN t : \E j \in DOMAIN q : t[i] = q[j]
        /\ \A j \in DOMAIN q : j > n + 1 => (j - (n + 1)) \in DOMAIN t /\ t[j - (n + 1)] = q[j]
    <3>1. /\ DOMAIN t = 1..(Len(q) - (n + 1))
          /\ \A i \in 1..(Len(q) - (n + 1)) : t[i] = q[i + (n + 1)]
      BY <1>1, <1>3, <1>8
    <3> HIDE DEF t
    <3>2. \A i \in 1..(Len(q) - (n + 1)) : i + (n + 1) \in DOMAIN q
      BY <1>3
    <3>3. \A j \in DOMAIN q : j > n + 1 =>
            (j - (n + 1)) \in 1..(Len(q) - (n + 1)) /\ (j - (n + 1)) + (n + 1) = j
      BY <1>3
    <3> QED BY <3>1, <3>2, <3>3
  <2>4. Begin(x, mem, managed)
    BY <1>8
  <2>5. q # <<>>
    BY <1>3, <1>8
  <2>6. /\ active'[r] = (active[r] \ {m}) \cup {x} /\ memQueue'[r] = t
        /\ \A k \in Runs \ {r} : active'[k] = active[k] /\ memQueue'[k] = memQueue[k]
    BY <1>0, <1>1, <1>8
  <2>7. \A j \in DOMAIN q : q[j] # x /\ member[q[j]] = "queued" => j > n + 1
    <3>1. \A j \in DOMAIN q : j \in 1..n \/ j = n + 1 \/ j > n + 1
      BY <1>3
    <3> QED BY <1>d, <3>1
  <2> HIDE DEF x, t
  <2>8. mem[x] = member[x]
    BY <1>5, <2>2
  <2>9. Found(x, mem)
    BY <1>5, <2>2, <2>8 DEF Found
  <2>10. Shape(x, mem, managed)
    BY <1>0, <1>5, <2>2, <2>4, BeginShape
  <2>11. Forward /\ member'[x] \notin {"absent", "queued"}
    BY <2>2, <2>9, <2>10, ShapeForward
  <2>12. (\A y \in Members \ {x} : member'[y] = mem[y]) /\ managed' \subseteq managed
    BY <2>10 DEF Shape, Segment
  <2>13. \A y \in Members : member'[y] = "queued" => y # x /\ member[y] = "queued"
    BY <1>5, <2>11, <2>12 DEF Terminal
  <2>14. SpaceOK' /\ RootEnsures'
    BY <2>11, ForwardKeeps DEF AcceptInv
  <2>15. ActiveOK'
    BY <1>0, <2>2, <2>6, <2>11 DEF AcceptInv, ActiveOK, Forward
  <2>16. WaitingOK'
    <3>1. \A i \in DOMAIN q : q[i] \in Members /\ member[q[i]] # "absent"
      BY <1>0, <1>1 DEF AcceptInv, WaitingOK, q
    <3>2. \A i \in DOMAIN t : member'[t[i]] # "absent"
      BY <2>3, <2>11, <3>1 DEF Forward
    <3>3. \A k \in Runs \ {r} : \A i \in DOMAIN memQueue[k] : member'[memQueue[k][i]] # "absent"
      BY <1>0, <2>11 DEF AcceptInv, WaitingOK, Forward
    <3> QED BY <2>6, <3>2, <3>3 DEF WaitingOK
  <2>17. QueueFresh' /\ RunsKept'
    BY <1>f, <1>k, <2>11, <2>12, <2>13
  <2>18. CalleesKept'
    <3> SUFFICES ASSUME NEW y \in Members, ~IsRoot(y), member'[y] = "queued", RunOf(y) \in managed'
                 PROVE  InMemQueue(y)'
      BY DEF CalleesKept
    <3>1. y # x /\ member[y] = "queued" /\ InMemQueue(y) /\ RunOf(y) \in Runs
      BY <2>12, <2>13, MemberRun DEF AcceptInv, CalleesKept
    <3>2. CASE RunOf(y) # r
      BY <2>6, <3>1, <3>2 DEF InMemQueue
    <3>3. CASE RunOf(y) = r
      <4>1. PICK j \in DOMAIN q : q[j] = y
        BY <3>1, <3>3 DEF InMemQueue, q
      <4>2. (j - (n + 1)) \in DOMAIN t /\ t[j - (n + 1)] = y
        BY <2>3, <2>7, <3>1, <4>1
      <4> QED BY <2>6, <3>3, <4>2 DEF InMemQueue
    <3> QED BY <3>2, <3>3
  <2>19. MemberSlots'
    <3>1. x \notin active[r] \ {m}
      BY <1>1, <2>2 DEF AcceptInv, ActiveOK
    <3>2. /\ IsFiniteSet(active'[r])
          /\ Cardinality(active'[r]) = Cardinality(active[r] \ {m}) + 1
      <4> DEFINE S == active[r] \ {m}
      <4>1. IsFiniteSet(S) /\ x \notin S /\ active'[r] = S \cup {x}
        BY <1>6, <2>6, <3>1
      <4> HIDE DEF S
      <4>2. IsFiniteSet(active'[r]) /\ Cardinality(active'[r]) = Cardinality(S) + 1
        BY <4>1, FS_AddElement
      <4> QED BY <4>2 DEF S
    <3>3. Cardinality(active'[r]) = MaxConcurrency /\ MaxConcurrency <= MaxConcurrency
      BY <1>6, <2>5, <3>2
    <3> QED BY <2>6, <3>2, <3>3 DEF AcceptInv, MemberSlots
  <2> QED BY <2>14, <2>15, <2>16, <2>17, <2>18, <2>19 DEF AcceptInv
<1> QED BY <1>2, <1>7, <1>8 DEF mem

(* The run that starts leaves the queue it has waited in.                   *)
LEMMA ReleaseRunAccept ==
  ASSUME SafetyInv, AcceptInv, NEW r \in Runs, ReleaseRun(r)
  PROVE  AcceptInv'
<1>0. /\ TypeOK /\ StatusInv /\ CalleesQueued /\ RunQueueOK /\ member \in [Members -> Status]
      /\ runQueue \in Seq(Runs) /\ managed \in SUBSET Runs
  BY DEF SafetyInv, QueueInv, TypeOK
<1>1. memQueue' = memQueue
  BY DEF ReleaseRun
<1>2. CASE runQueue = <<>>
  <2>1. UNCHANGED <<run, member, space, managed, pc, runQueue, memQueue, active>>
    BY <1>1, <1>2 DEF ReleaseRun, outVars
  <2>2. Forward
    BY <2>1 DEF Forward
  <2> QED BY <1>0, <2>1, <2>2, AcceptKept
<1>3. CASE runQueue # <<>>
  <2> DEFINE h == Head(runQueue)
  <2>1. /\ h \in Runs /\ 1 \in DOMAIN runQueue /\ runQueue[1] = h
        /\ runQueue' = Tail(runQueue) /\ BeginRoot(h, member, managed)
    BY <1>0, <1>3 DEF ReleaseRun
  <2>2. /\ \A i \in DOMAIN Tail(runQueue) : \E j \in DOMAIN runQueue : Tail(runQueue)[i] = runQueue[j]
        /\ \A j \in DOMAIN runQueue : j # 1 => (j - 1) \in DOMAIN Tail(runQueue) /\ Tail(runQueue)[j - 1] = runQueue[j]
    BY <1>0, <1>3
  <2> HIDE DEF h
  <2>3. \A k \in Runs \ {h} : InRunQueue(k) => InRunQueue(k)'
    BY <2>1, <2>2 DEF InRunQueue
  <2>4. Root(h) \in Members /\ RunOf(Root(h)) = h /\ IsRoot(Root(h))
    BY <2>1, MemberRun
  <2>5. NoCallees(h)
    BY <2>1 DEF AcceptInv, QueueFresh
  <2>6. run[h] # "absent"
    BY <1>0, <2>1 DEF RunQueueOK, Terminal
  <2>7. member[Root(h)] # "absent"
    BY <1>0, <2>1, <2>6 DEF StatusInv, RootRecorded
  <2>8. Found(Root(h), member)
    BY <1>0, <2>7 DEF Found
  <2>9. \A i \in DOMAIN runQueue' : \E j \in DOMAIN runQueue : runQueue'[i] = runQueue[j]
    BY <2>1, <2>2
  <2>10. managed \subseteq managed \cup {h}
    OBVIOUS
  <2> QED BY <1>0, <1>1, <2>1, <2>3, <2>5, <2>8, <2>9, <2>10, BeginRootAccept
<1> QED BY <1>2, <1>3

(* A step that touches no status, space, queue or slot.                     *)
LEMMA QuietAccept ==
  ASSUME TypeOK, RunQueueOK, AcceptInv, managed' \subseteq managed,
         UNCHANGED <<run, member, space, pc, runQueue, memQueue, active>>
  PROVE  AcceptInv'
<1>1. Forward
  BY DEF Forward
<1> QED BY <1>1, AcceptKept

(* A pass that takes over or ends the members of a run.                     *)
LEMMA TakeOverAccept ==
  ASSUME TypeOK, RunQueueOK, AcceptInv, NEW r \in Runs,
         \A q \in Runs : run'[q] = run[q] \/ run'[q] \in {"finalizing"} \cup Terminal,
         NEW w \in {"finalizing", "failed"},
         member' = [m \in Members |->
                      IF m \in MembersOf(r) /\ member[m] \notin Terminal \cup {"absent"}
                      THEN w ELSE member[m]],
         UNCHANGED <<space, managed, pc, runQueue, memQueue, active>>
  PROVE  AcceptInv'
<1>1. \A x \in Members :
         /\ member'[x] = "absent" <=> member[x] = "absent"
         /\ member'[x] = "queued" => member[x] = "queued"
  BY DEF Terminal
<1>2. "running" \notin {"finalizing"} \cup Terminal
  BY DEF Terminal
<1>3. Forward
  BY <1>1, <1>2 DEF Forward, Later
<1> QED BY <1>1, <1>3, AcceptKept

(* Every step of a reconcile pass.  A queued run it accepts has no shared   *)
(* space, so it has invoked nobody.                                         *)
LEMMA ReconcileAccept ==
  ASSUME SafetyInv, AcceptInv, NEW c \in Reconcilers, Reconcile(c)
  PROVE  AcceptInv'
<1>0. /\ TypeOK /\ StatusInv /\ CalleesQueued /\ RunQueueOK /\ PassOK
      /\ run \in [Runs -> Status] /\ member \in [Members -> Status]
      /\ recon[c].run \in Runs
  BY DEF SafetyInv, QueueInv, TypeOK, PassSet
<1>1. CASE \/ Tick(c)
           \/ \E m \in Members : ReconClose(c, m) \/ ReconDispose(c, m)
           \/ \E i \in Instances : ReconSweep(c, i)
  <2>1. UNCHANGED <<run, member, space, managed, pc, runQueue, memQueue, active>>
    BY <1>1 DEF Tick, ReconClose, ReconDispose, ReconSweep, outVars, schedVars
  <2> QED BY <1>0, <2>1, QuietAccept
<1>2. ASSUME NEW r \in Runs, ReconSkip(c, r) PROVE AcceptInv'
  <2>1. /\ UNCHANGED <<run, member, space, pc, runQueue, memQueue, active>>
        /\ managed' \subseteq managed
    BY <1>2 DEF ReconSkip, schedVars
  <2> QED BY <1>0, <2>1, QuietAccept
<1>3. ASSUME NEW r \in Runs, ReconAccept(c, r) PROVE AcceptInv'
  <2>1. /\ AcceptRoot(r, member) /\ r \in recon[c].todo /\ ~HasResources(r)
    BY <1>3 DEF ReconAccept, Newest
  <2>2. run[r] # "absent"
    BY <1>0, <2>1 DEF PassOK
  <2>3. NoCallees(r)
    BY <2>1 DEF AcceptInv, SpaceOK, HasResources, NoCallees, Made
  <2> QED BY <1>0, <2>1, <2>2, <2>3, AcceptRootAccept
<1>4. ASSUME NEW r \in Runs, ReconClaim(c, r) PROVE AcceptInv'
  <2>1. UNCHANGED <<space, managed, pc, runQueue, memQueue, active>>
    BY <1>4 DEF ReconClaim, schedVars
  <2>2. CASE run[r] \in Terminal
    <3>1. UNCHANGED <<run, member>>
      BY <1>4, <2>2 DEF ReconClaim
    <3> QED BY <1>0, <2>1, <3>1, QuietAccept
  <2>3. CASE run[r] \notin Terminal
    <3>1. /\ run' = [run EXCEPT ![r] = "finalizing"]
          /\ member' = [m \in Members |->
               IF m \in MembersOf(r) /\ member[m] \notin Terminal \cup {"absent"}
               THEN "finalizing" ELSE member[m]]
      BY <1>4, <2>3 DEF ReconClaim
    <3>2. \A q \in Runs : run'[q] = run[q] \/ run'[q] \in {"finalizing"} \cup Terminal
      BY <1>0, <3>1
    <3> QED BY <1>0, <2>1, <3>1, <3>2, TakeOverAccept
  <2> QED BY <2>2, <2>3
<1>5. CASE ReconFinish(c)
  <2> DEFINE r == recon[c].run
  <2>1. UNCHANGED <<space, managed, pc, runQueue, memQueue, active>>
    BY <1>5 DEF ReconFinish, schedVars
  <2>2. \/ UNCHANGED <<run, member>>
        \/ /\ member' = [m \in Members |->
                IF m \in MembersOf(r) /\ member[m] \notin Terminal \cup {"absent"}
                THEN "failed" ELSE member[m]]
           /\ run' = [run EXCEPT ![r] = "failed"] \/ run' = run
    BY <1>5 DEF ReconFinish
  <2>3. \A q \in Runs : run'[q] = run[q] \/ run'[q] \in {"finalizing"} \cup Terminal
    BY <1>0, <2>2 DEF Terminal
  <2>4. r \in Runs
    BY <1>0
  <2> HIDE DEF r
  <2> QED BY <1>0, <2>1, <2>2, <2>3, <2>4, QuietAccept, TakeOverAccept
<1>6. ASSUME NEW r \in Runs, ReconFail(c, r) PROVE AcceptInv'
  <2>1. UNCHANGED <<space, managed, pc, runQueue, memQueue, active>>
    BY <1>6 DEF ReconFail, schedVars
  <2>2. \/ UNCHANGED <<run, member>>
        \/ /\ member' = [m \in Members |->
                IF m \in MembersOf(r) /\ member[m] \notin Terminal \cup {"absent"}
                THEN "failed" ELSE member[m]]
           /\ run' = [run EXCEPT ![r] = "failed"]
    BY <1>6 DEF ReconFail
  <2>3. \A q \in Runs : run'[q] = run[q] \/ run'[q] \in {"finalizing"} \cup Terminal
    BY <1>0, <2>2 DEF Terminal
  <2> QED BY <1>0, <2>1, <2>2, <2>3, QuietAccept, TakeOverAccept
<1> QED BY <1>1, <1>2, <1>3, <1>4, <1>5, <1>6 DEF Reconcile

(* stop() fails everything that waits; a new process starts with nothing    *)
(* accepted.                                                                *)
LEMMA ProcessAccept ==
  ASSUME SafetyInv, AcceptInv, Stop \/ Restart \/ Listen
  PROVE  AcceptInv'
<1>0. TypeOK /\ RunQueueOK /\ managed \in SUBSET Runs
  BY DEF SafetyInv, QueueInv, TypeOK
<1>a. \A r \in Runs : Root(r) \in Members /\ RunOf(Root(r)) = r /\ IsRoot(Root(r))
  BY MemberRun
<1>b. \A r \in Runs : active[r] \subseteq Members
  BY <1>0 DEF TypeOK
<1>1. CASE Stop
  <2> DEFINE ended == {r \in Runs : /\ InRunQueue(r) /\ member[Root(r)] = "queued"
                                    /\ run[r] \notin Terminal}
  <2>1. /\ run' = [r \in Runs |-> IF r \in ended THEN "failed" ELSE run[r]]
        /\ member' = [m \in Members |->
             IF member[m] = "queued" /\ (InMemQueue(m) \/ (IsRoot(m) /\ InRunQueue(RunOf(m))))
             THEN "failed" ELSE member[m]]
        /\ managed' = managed \ ended
        /\ runQueue' = <<>> /\ memQueue' = [r \in Runs |-> <<>>]
        /\ pc' = [m \in Members |-> IF pc[m] = "retryWait" THEN "done" ELSE pc[m]]
        /\ UNCHANGED <<space, active>>
    BY <1>1 DEF Stop, InRunQueue, InMemQueue
  <2> HIDE DEF ended
  <2>2. \A m \in Members : member'[m] = member[m] \/ (member[m] = "queued" /\ member'[m] = "failed")
    BY <2>1
  <2>3. \A r \in Runs : run'[r] = run[r] \/ run'[r] = "failed"
    BY <2>1
  <2>4. \A m \in Members : pc'[m] = pc[m] \/ pc'[m] = "done"
    BY <2>1
  <2>5. Forward
    BY <1>a, <2>1, <2>2, <2>3, <2>4 DEF Forward, Later, Terminal, Mounted
  <2>6. SpaceOK' /\ RootEnsures'
    BY <2>5, ForwardKeeps DEF AcceptInv
  <2>7. ActiveOK'
    BY <1>b, <2>1, <2>5 DEF AcceptInv, ActiveOK, Forward
  <2>8. WaitingOK' /\ QueueFresh' /\ MemberSlots'
    BY <2>1 DEF AcceptInv, WaitingOK, QueueFresh, MemberSlots
  <2>9. RunsKept'
    <3> SUFFICES ASSUME NEW r \in managed', member'[Root(r)] = "queued" PROVE FALSE
      BY DEF RunsKept
    <3>1. r \in managed /\ r \in Runs
      BY <1>0, <2>1
    <3>2. member[Root(r)] = "queued" /\ ~InRunQueue(r)
      BY <1>a, <2>1, <3>1
    <3> QED BY <3>1, <3>2 DEF AcceptInv, RunsKept
  <2>10. CalleesKept'
    <3> SUFFICES ASSUME NEW m \in Members, ~IsRoot(m), member'[m] = "queued", RunOf(m) \in managed'
                 PROVE  FALSE
      BY DEF CalleesKept
    <3>1. RunOf(m) \in managed /\ member[m] = "queued" /\ ~InMemQueue(m)
      BY <2>1
    <3> QED BY <3>1 DEF AcceptInv, CalleesKept
  <2> QED BY <2>6, <2>7, <2>8, <2>9, <2>10 DEF AcceptInv
<1>2. CASE Restart
  <2>1. /\ UNCHANGED <<run, member, space>> /\ managed' = {}
        /\ runQueue' = <<>> /\ memQueue' = [r \in Runs |-> <<>>]
        /\ active' = [r \in Runs |-> {}]
        /\ pc' = [m \in Members |-> "idle"]
    BY <1>2 DEF Restart, dbVars
  <2>2. SpaceOK' /\ RootEnsures'
    BY <1>a, <2>1 DEF AcceptInv, SpaceOK, RootEnsures, Mounted
  <2>3. ActiveOK' /\ WaitingOK' /\ QueueFresh' /\ RunsKept' /\ CalleesKept'
    BY <2>1 DEF ActiveOK, WaitingOK, QueueFresh, RunsKept, CalleesKept
  <2>4. MemberSlots'
    <3>1. IsFiniteSet({}) /\ Cardinality({}) = 0 /\ 0 <= MaxConcurrency
      BY FS_EmptySet, AgentRunAssumption
    <3> QED BY <2>1, <3>1 DEF MemberSlots
  <2> QED BY <2>2, <2>3, <2>4 DEF AcceptInv
<1>3. CASE Listen
  <2>1. UNCHANGED <<run, member, space, managed, pc, runQueue, memQueue, active>>
    BY <1>3 DEF Listen, dbVars, schedVars
  <2> QED BY <1>0, <2>1, QuietAccept
<1> QED BY <1>1, <1>2, <1>3

(* AcceptInv is an invariant of the specification.                          *)
THEOREM AcceptInvariant == Spec => []AcceptInv
<1>1. Init => AcceptInv
  <2> SUFFICES ASSUME Init PROVE AcceptInv
    OBVIOUS
  <2>1. RootEnsures /\ SpaceOK
    BY MemberRun DEF Init, RootEnsures, SpaceOK, Mounted
  <2>2. ActiveOK /\ WaitingOK /\ QueueFresh /\ RunsKept /\ CalleesKept
    BY DEF Init, ActiveOK, WaitingOK, QueueFresh, RunsKept, CalleesKept
  <2>3. IsFiniteSet({}) /\ Cardinality({}) = 0 /\ 0 <= MaxConcurrency
    BY FS_EmptySet, AgentRunAssumption
  <2>4. MemberSlots
    BY <2>3 DEF Init, MemberSlots
  <2> QED BY <2>1, <2>2, <2>4 DEF AcceptInv
<1>2. SafetyInv /\ AcceptInv /\ [Next]_vars => AcceptInv'
  <2> SUFFICES ASSUME SafetyInv, AcceptInv, [Next]_vars PROVE AcceptInv'
    OBVIOUS
  <2>1. TypeOK /\ RunQueueOK
    BY DEF SafetyInv, QueueInv
  <2>2. CASE Request \/ \E m \in Members : ToolTimeout(m)
    BY <2>2, RequestAccept
  <2>3. CASE Release
    BY <2>3, ReleaseMemberAccept, ReleaseRunAccept DEF Release
  <2>4. CASE \E m \in Members : Execute(m) \/ Clean(m)
    BY <2>4, ExecuteAccept
  <2>5. CASE (\E m \in Members : LateCreate(m)) \/ UNCHANGED vars
    <3>1. UNCHANGED <<run, member, space, managed, pc, runQueue, memQueue, active>>
      BY <2>5 DEF LateCreate, outVars, execFrame, vars, dbVars, schedVars
    <3> QED BY <2>1, <3>1, QuietAccept
  <2>6. CASE \E c \in Reconcilers : Reconcile(c)
    BY <2>6, ReconcileAccept
  <2>7. CASE Stop \/ Restart \/ Listen
    BY <2>7, ProcessAccept
  <2> QED BY <2>2, <2>3, <2>4, <2>5, <2>6, <2>7 DEF Next
<1> QED BY <1>1, <1>2, SafetyInvariant, PTL DEF Spec

(* A queued run this process owns is in the run queue, and a queued callee  *)
(* of an owned run in the queue of its member scheduler: through accepting, *)
(* repeated invocations, cancel, drain, stop() and reconcile passes that    *)
(* overlap, no accepted work is forgotten.                                  *)
THEOREM AcceptedWorkIsKept == Spec => []NothingQueuedIsLost
<1>1. AcceptInv => NothingQueuedIsLost
  BY DEF AcceptInv, RunsKept, CalleesKept, InRunQueue, InMemQueue, NothingQueuedIsLost
<1> QED BY <1>1, AcceptInvariant, PTL

-----------------------------------------------------------------------------
(* One owner per run, however many reconcile passes overlap                *)

\* A root executes, or waits for a cleanup retry, only for a run that this
\* process owns and that has not ended.
OwnedRoot(r) == InFlight(Root(r)) => r \in managed /\ run[r] \notin Terminal

\* A pass tears down what is not owned, and what has resources: the others end
\* in the segment that claims them.
PassOwned ==
  \A c \in Reconcilers : recon[c].pc = "work" =>
     recon[c].run \notin managed /\ HasResources(recon[c].run)

OwnInv == (\A r \in Runs : OwnedRoot(r)) /\ PassOwned

\* A step leaves alone what OwnedRoot says of r.
SameRun(r) ==
  /\ run'[r] = run[r] /\ pc'[Root(r)] = pc[Root(r)]
  /\ r \in managed' <=> r \in managed

(* Then it still holds.                                                     *)
LEMMA OwnedSame ==
  ASSUME NEW r \in Runs, OwnedRoot(r), SameRun(r)
  PROVE  OwnedRoot(r)'
BY DEF OwnedRoot, SameRun, InFlight

(* A segment of the root of a run that is owned or has ended leaves the run *)
(* owned or ends it; the root of an ended run does not go on.               *)
LEMMA RootSegmentOwned ==
  ASSUME NEW r \in Runs, NEW mem, NEW mg, Shape(Root(r), mem, mg), OwnedRoot(r),
         r \in mg \/ run[r] \in Terminal
  PROVE  OwnedRoot(r)'
<1>1. Root(r) \in Members /\ IsRoot(Root(r)) /\ RunOf(Root(r)) = r
  BY MemberRun
<1>2. CASE run[r] \in Terminal
  BY <1>1, <1>2 DEF Shape, OwnedRoot
<1>3. CASE run[r] \notin Terminal
  <2>1. run'[r] \in Terminal => pc'[Root(r)] = "done"
    BY <1>1, <1>3 DEF Shape
  <2>2. run'[r] \notin Terminal => r \in managed'
    BY <1>1, <1>3 DEF Shape, Segment
  <2> QED BY <2>1, <2>2 DEF OwnedRoot, InFlight
<1> QED BY <1>2, <1>3

(* What a segment leaves alone.                                             *)
LEMMA SegmentOthers ==
  ASSUME NEW m \in Members, NEW mem, NEW mg, Shape(m, mem, mg), NEW q \in Runs,
         q # RunOf(m) \/ ~IsRoot(m), q \in mg <=> q \in managed
  PROVE  SameRun(q) /\ space'[q] = space[q]
<1>1. Root(q) \in Members \ {m}
  BY MemberRun
<1>2. run'[q] = run[q] /\ space'[q] = space[q] /\ pc'[Root(q)] = pc[Root(q)]
  BY <1>1 DEF Shape, Segment
<1>3. q \in managed' <=> q \in mg
  BY DEF Shape, Segment
<1> QED BY <1>2, <1>3 DEF SameRun

(* No record of a resource goes away.                                       *)
LEMMA ResourcesKept ==
  ASSUME NEW r \in Runs, HasResources(r),
         space'[r] = space[r] \/ space'[r] \in Made,
         \A m \in MembersOf(r) : /\ thread[m] # "none" => thread'[m] # "none"
                                 /\ overlay[m] # "none" => overlay'[m] # "none"
  PROVE  HasResources(r)'
BY DEF HasResources, Made

(* A step that takes over no run with resources leaves the passes right, if *)
(* those it moves do not start on an owned run.                             *)
LEMMA PassOwnedKept ==
  ASSUME TypeOK, PassOK, PassOwned,
         \A c \in Reconcilers :
            \/ recon'[c] = recon[c] \/ recon'[c].pc # "work"
            \/ recon'[c].run = recon[c].run /\ recon[c].pc = "work"
            \/ \E r \in Runs : recon'[c].run = r /\ r \notin managed' /\ HasResources(r)',
         \A q \in Runs : q \notin managed /\ run[q] # "absent" /\ HasResources(q)
                           => q \notin managed' /\ HasResources(q)'
  PROVE  PassOwned'
<1>1. ASSUME NEW c \in Reconcilers, recon'[c].pc = "work"
      PROVE  \E r \in Runs : recon'[c].run = r /\ r \notin managed' /\ HasResources(r)'
  <2>1. CASE recon[c].pc = "work" /\ recon'[c].run = recon[c].run
    <3>1. PICK r \in Runs : r = recon[c].run
      BY DEF TypeOK, PassSet
    <3>2. r \notin managed /\ run[r] # "absent" /\ HasResources(r)
      BY <2>1, <3>1 DEF PassOwned, PassOK, Terminal
    <3> QED BY <2>1, <3>1, <3>2
  <2> QED BY <1>1, <2>1
<1>2. ASSUME NEW c \in Reconcilers, recon'[c].pc = "work"
      PROVE  recon'[c].run \notin managed' /\ HasResources(recon[c].run)'
  <2>1. PICK r \in Runs : recon'[c].run = r /\ r \notin managed' /\ HasResources(r)'
    BY <1>1, <1>2
  <2> QED BY <2>1 DEF HasResources
<1> QED BY <1>2 DEF PassOwned

(* An execution touches only its own member's resources.                    *)
LEMMA ExecuteResources ==
  ASSUME TypeOK, NEW m \in Members, Execute(m) \/ Clean(m)
  PROVE  \A x \in Members \ {m} : thread'[x] = thread[x] /\ overlay'[x] = overlay[x]
<1>1. thread \in [Members -> Phase] /\ overlay \in [Members -> Phase]
  BY DEF TypeOK
<1>2. CASE EnsureDone(m) \/ MountDone(m) \/ InjectDone(m) \/ InstanceCreates(m)
  BY <1>1, <1>2 DEF EnsureDone, MountDone, InjectDone, InstanceCreates
<1>3. ASSUME NEW e, NEW thr, NEW ru, Finalize(m, e, thr, ru), overlay' = overlay
      PROVE  \A x \in Members \ {m} : thread'[x] = thread[x] /\ overlay'[x] = overlay[x]
  BY <1>1, <1>3 DEF Finalize
<1>4. CASE CreateDone(m)
  <2>1. overlay' = overlay
    BY <1>4 DEF CreateDone
  <2>2. CASE thread' = [thread EXCEPT ![m] = "ready"]
    BY <1>1, <2>1, <2>2
  <2> QED BY <1>3, <1>4, <2>1, <2>2 DEF CreateDone
<1>5. CASE CreateFails(m) \/ PollCompleted(m) \/ PollFailed(m) \/ PollCancelled(m) \/ RetryFire(m)
  BY <1>3, <1>5 DEF CreateFails, PollCompleted, PollFailed, PollCancelled, RetryFire
<1>6. CASE CloseDone(m) \/ DisposeStarts(m) \/ DisposeRefused(m) \/ UnmountDone(m)
  BY <1>1, <1>6 DEF CloseDone, DisposeStarts, DisposeRefused, UnmountDone
<1> QED BY <1>2, <1>4, <1>5, <1>6 DEF Execute, Clean

(* The steps of an execution.  A run with an executing callee has a shared  *)
(* space; a run with an executing root is owned, so no pass works on it.    *)
LEMMA ExecuteOwned ==
  ASSUME SafetyInv, AcceptInv, OwnInv, NEW m \in Members, Execute(m) \/ Clean(m)
  PROVE  OwnInv'
<1>0. TypeOK /\ PassOK /\ StatusInv /\ SpaceOK /\ RunOf(m) \in Runs
  BY MemberRun DEF SafetyInv, QueueInv, AcceptInv
<1>1. Shape(m, member, managed) /\ InFlight(m) /\ recon' = recon
  BY ExecuteShape DEF AcceptInv, execFrame
<1>2. ASSUME NEW q \in Runs, q # RunOf(m) \/ ~IsRoot(m)
      PROVE  SameRun(q) /\ space'[q] = space[q]
  BY <1>1, <1>2, SegmentOthers
<1>3. ASSUME IsRoot(m)
      PROVE  OwnedRoot(RunOf(m))' /\ RunOf(m) \in managed
  <2>1. m = Root(RunOf(m))
    BY <1>3, RootIsRoot
  <2>2. OwnedRoot(RunOf(m)) /\ RunOf(m) \in managed
    BY <1>0, <1>1, <2>1 DEF OwnInv, OwnedRoot
  <2> QED BY <1>0, <1>1, <2>1, <2>2, RootSegmentOwned
<1>4. \A q \in Runs : OwnedRoot(q)'
  BY <1>0, <1>2, <1>3, OwnedSame DEF OwnInv
<1>5. ASSUME NEW q \in Runs, q \notin managed, run[q] # "absent", HasResources(q)
      PROVE  q \notin managed' /\ HasResources(q)'
  <2>1. q # RunOf(m) \/ ~IsRoot(m)
    BY <1>3, <1>5
  <2>2. q \notin managed' /\ space'[q] = space[q]
    BY <1>2, <1>5, <2>1 DEF SameRun
  <2>3. CASE q = RunOf(m)
    <3>1. member[m] # "absent"
      BY <1>0, <1>1 DEF StatusInv, StartedFirst
    <3>2. space'[q] \in Made
      BY <1>0, <2>1, <2>2, <2>3, <3>1 DEF SpaceOK
    <3> QED BY <2>2, <3>2 DEF HasResources, Made
  <2>4. CASE q # RunOf(m)
    <3>1. \A x \in MembersOf(q) : x \in Members \ {m}
      BY <2>4, MemberRun DEF MembersOf, RunOf
    <3>2. \A x \in MembersOf(q) : thread'[x] = thread[x] /\ overlay'[x] = overlay[x]
      BY <1>0, <3>1, ExecuteResources
    <3> QED BY <1>5, <2>2, <3>2, ResourcesKept
  <2> QED BY <2>3, <2>4
<1>6. PassOwned'
  BY <1>0, <1>1, <1>5, PassOwnedKept DEF OwnInv
<1> QED BY <1>4, <1>6 DEF OwnInv

(* A step that leaves runs, their spaces and their owners alone and moves   *)
(* no pass.                                                                 *)
LEMMA QuietOwned ==
  ASSUME TypeOK, PassOK, OwnInv, UNCHANGED <<thread, overlay, recon>>,
         \A q \in Runs : SameRun(q) /\ space'[q] = space[q]
  PROVE  OwnInv'
<1>1. \A q \in Runs : OwnedRoot(q)'
  BY OwnedSame DEF OwnInv
<1>2. ASSUME NEW q \in Runs, q \notin managed, HasResources(q)
      PROVE  q \notin managed' /\ HasResources(q)'
  BY <1>2, ResourcesKept DEF SameRun
<1>3. PassOwned'
  BY <1>2, PassOwnedKept DEF OwnInv
<1> QED BY <1>1, <1>3 DEF OwnInv

(* accept of a run whose root is not executing: it fails, or it is owned    *)
(* and starts, throws because it has ended, or waits.                       *)
LEMMA AcceptRootOwned ==
  ASSUME TypeOK, OwnInv, NEW r \in Runs, NEW mem \in [Members -> Status],
         AcceptRoot(r, mem), ~InFlight(Root(r))
  PROVE  /\ OwnedRoot(r)'
         /\ \A q \in Runs \ {r} : SameRun(q) /\ space'[q] = space[q]
<1> DEFINE m == Root(r)
<1>0. OutTypeOK /\ OwnedRoot(r) /\ ~InFlight(m)
  BY TypeParts DEF OwnInv
<1>1. /\ m \in Members /\ IsRoot(m) /\ RunOf(m) = r
      /\ \A q \in Runs : Root(q) \in Members /\ (Root(q) = m => q = r)
  BY MemberRun
<1>2. run \in [Runs -> Status] /\ managed \in SUBSET Runs
  BY DEF TypeOK
<1>3. CASE \/ FailQueuedRoot(r, mem, managed)
           \/ /\ run' = [run EXCEPT ![r] = IF @ = "absent" THEN "queued" ELSE @]
              /\ managed' = managed \cup {r} /\ UNCHANGED <<space, pc>>
  <2>1. /\ UNCHANGED <<space, pc>>
        /\ \A q \in Runs \ {r} : run'[q] = run[q] /\ (q \in managed' <=> q \in managed)
    BY <1>2, <1>3 DEF FailQueuedRoot
  <2> QED BY <1>0, <2>1 DEF SameRun, OwnedRoot, InFlight
<1>4. CASE BeginRoot(r, mem, managed \cup {r})
  <2>1. Shape(m, mem, managed \cup {r})
    <3>1. Begin(m, mem, managed \cup {r}) /\ managed \cup {r} \in SUBSET Runs
      BY <1>2, <1>4 DEF BeginRoot
    <3> QED BY <1>0, <1>1, <3>1, BeginShape
  <2>2. OwnedRoot(r)'
    BY <1>0, <2>1, RootSegmentOwned
  <2>3. ASSUME NEW q \in Runs \ {r} PROVE SameRun(q) /\ space'[q] = space[q]
    <3>1. q # RunOf(m) /\ (q \in managed \cup {r} <=> q \in managed)
      BY <1>1
    <3> HIDE DEF m
    <3> QED BY <1>1, <2>1, <3>1, SegmentOthers
  <2> QED BY <2>2, <2>3
<1> QED BY <1>3, <1>4 DEF AcceptRoot

(* A callee's start changes nothing about runs and who owns them.           *)
LEMMA BeginCalleeOwned ==
  ASSUME TypeOK, NEW m \in Members, ~IsRoot(m), NEW mem \in [Members -> Status],
         Begin(m, mem, managed)
  PROVE  \A q \in Runs : SameRun(q) /\ space'[q] = space[q]
<1>1. Shape(m, mem, managed)
  <2>1. OutTypeOK /\ managed \in SUBSET Runs
    BY TypeParts DEF TypeOK
  <2> QED BY <2>1, BeginShape
<1> QED BY <1>1, SegmentOthers

(* The steps of requests and of the member scheduler about callees.         *)
LEMMA CalleeOwned ==
  ASSUME SafetyInv, OwnInv,
         \/ \E p, m \in Members : AddMember(p, m)
         \/ \E m \in Members : RetryInvoke(m) \/ ReleaseMember(m)
  PROVE  OwnInv'
<1>0. /\ TypeOK /\ StatusInv /\ CalleesQueued /\ PassOK
      /\ member \in [Members -> Status] /\ run \in [Runs -> Status]
      /\ memQueue \in [Runs -> Seq(Members)]
  BY DEF SafetyInv, QueueInv, TypeOK
<1>g. ASSUME UNCHANGED <<thread, overlay, recon>>,
             \/ UNCHANGED <<run, space, managed, pc>>
             \/ \A q \in Runs : SameRun(q) /\ space'[q] = space[q]
      PROVE  OwnInv'
  <2>1. \A q \in Runs : SameRun(q) /\ space'[q] = space[q]
    BY <1>g DEF SameRun
  <2> QED BY <1>0, <1>g, <2>1, QuietOwned
<1>a. ASSUME NEW m \in Members, ~IsRoot(m), NEW mem \in [Members -> Status], AcceptCallee(m, mem),
             UNCHANGED <<thread, overlay, recon>>
      PROVE  OwnInv'
  <2>1. UNCHANGED <<run, space, managed, pc>> \/ Begin(m, mem, managed)
    BY <1>a DEF AcceptCallee
  <2> QED BY <1>0, <1>a, <1>g, <2>1, BeginCalleeOwned
<1>1. ASSUME NEW p \in Members, NEW m \in Members, AddMember(p, m) PROVE OwnInv'
  <2>1. /\ member[m] = "absent" /\ run[RunOf(m)] = "running" /\ UNCHANGED <<thread, overlay, recon>>
        /\ AcceptCallee(m, [member EXCEPT ![m] = "queued"])
    BY <1>1 DEF AddMember
  <2>2. ~IsRoot(m)
    <3>1. RunOf(m) \in Runs
      BY MemberRun
    <3>2. member[Root(RunOf(m))] # "absent"
      BY <1>0, <2>1, <3>1 DEF StatusInv, RootRecorded
    <3> QED BY <2>1, <3>2, RootIsRoot
  <2>3. [member EXCEPT ![m] = "queued"] \in [Members -> Status]
    BY <1>0 DEF Status
  <2> QED BY <1>a, <2>1, <2>2, <2>3
<1>2. ASSUME NEW m \in Members, RetryInvoke(m) PROVE OwnInv'
  <2>1. ~IsRoot(m) /\ AcceptCallee(m, member) /\ UNCHANGED <<thread, overlay, recon>>
    BY <1>2 DEF RetryInvoke
  <2> QED BY <1>0, <1>a, <2>1
<1>3. ASSUME NEW m \in Members, ReleaseMember(m) PROVE OwnInv'
  <2> DEFINE r == RunOf(m)
             q == memQueue[r]
  <2>1. UNCHANGED <<thread, overlay, recon>>
    BY <1>3 DEF ReleaseMember, fixVars
  <2>2. PICK n \in 0..Len(q) :
          \/ UNCHANGED <<run, cleanup, space, managed, err, pc>>
          \/ n < Len(q) /\ Begin(q[n + 1], VoidEffect(r, q, n), managed)
    BY <1>3 DEF ReleaseMember
  <2>3. r \in Runs /\ q \in Seq(Members) /\ n \in Nat
    BY <1>0, MemberRun
  <2>4. CASE UNCHANGED <<run, cleanup, space, managed, err, pc>>
    BY <1>g, <2>1, <2>4
  <2>5. CASE n < Len(q) /\ Begin(q[n + 1], VoidEffect(r, q, n), managed)
    <3>1. n + 1 \in DOMAIN q
      BY <2>3, <2>5
    <3>2. q[n + 1] \in Members /\ ~IsRoot(q[n + 1])
      BY <1>0, <2>3, <3>1 DEF CalleesQueued
    <3>3. VoidEffect(r, q, n) \in [Members -> Status]
      <4>1. Outcome(r, "cancelled") \in Status
        BY DEF Outcome, Status, Terminal
      <4> HIDE DEF r, q
      <4> QED BY <1>0, <4>1 DEF VoidEffect
    <3> HIDE DEF r, q
    <3> QED BY <1>0, <1>g, <2>1, <2>5, <3>2, <3>3, BeginCalleeOwned
  <2> QED BY <2>2, <2>4, <2>5
<1> QED BY <1>1, <1>2, <1>3

(* create, cancel and the steps that change nothing about runs.             *)
LEMMA RequestOwned ==
  ASSUME SafetyInv, OwnInv,
         \/ \E r \in Runs : Create(r) \/ Cancel(r)
         \/ \E m \in Members : ToolTimeout(m) \/ LateCreate(m)
         \/ Listen \/ UNCHANGED vars
  PROVE  OwnInv'
<1>0. /\ TypeOK /\ StatusInv /\ RunQueueOK /\ PassOK
      /\ member \in [Members -> Status] /\ run \in [Runs -> Status] /\ managed \in SUBSET Runs
  BY DEF SafetyInv, QueueInv, TypeOK
<1>1. ASSUME NEW r \in Runs, Create(r) PROVE OwnInv'
  <2> DEFINE mem == [member EXCEPT ![Root(r)] = "queued"]
  <2>1. run[r] = "absent" /\ AcceptRoot(r, mem) /\ UNCHANGED <<thread, overlay, recon>>
    BY <1>1 DEF Create, fixVars
  <2>2. mem \in [Members -> Status]
    BY <1>0 DEF Status
  <2>0. ~InFlight(Root(r))
    BY <1>0, <2>1, MemberRun DEF StatusInv, StartedFirst
  <2> HIDE DEF mem
  <2>3. OwnedRoot(r)' /\ \A q \in Runs \ {r} : SameRun(q) /\ space'[q] = space[q]
    BY <1>0, <2>0, <2>1, <2>2, AcceptRootOwned
  <2>4. \A q \in Runs : OwnedRoot(q)'
    BY <2>3, OwnedSame DEF OwnInv
  <2>5. ASSUME NEW q \in Runs, q \notin managed, run[q] # "absent", HasResources(q)
        PROVE  q \notin managed' /\ HasResources(q)'
    BY <2>1, <2>3, <2>5, ResourcesKept DEF SameRun
  <2>6. PassOwned'
    BY <1>0, <2>1, <2>5, PassOwnedKept DEF OwnInv
  <2> QED BY <2>4, <2>6 DEF OwnInv
<1>2. ASSUME NEW r \in Runs, Cancel(r) PROVE OwnInv'
  <2>1. /\ run[r] \in {"queued", "preparing", "running"}
        /\ run' = [run EXCEPT ![r] = "finalizing"]
        /\ UNCHANGED <<managed, pc, space, thread, overlay, recon>>
    BY <1>2 DEF Cancel, Cancellable, fixVars
  <2>2. \A q \in Runs : OwnedRoot(q)'
    <3>1. run'[r] \notin Terminal /\ \A q \in Runs \ {r} : run'[q] = run[q]
      BY <1>0, <2>1 DEF Terminal
    <3> QED BY <2>1, <3>1 DEF OwnInv, OwnedRoot, InFlight
  <2>3. PassOwned'
    <3>1. \A q \in Runs : q \notin managed /\ HasResources(q) => q \notin managed' /\ HasResources(q)'
      BY <2>1, ResourcesKept
    <3> QED BY <1>0, <2>1, <3>1, PassOwnedKept DEF OwnInv
  <2> QED BY <2>2, <2>3 DEF OwnInv
<1>3. CASE \/ \E m \in Members : ToolTimeout(m) \/ LateCreate(m)
           \/ Listen \/ UNCHANGED vars
  <2>1. UNCHANGED <<run, managed, space, pc, thread, overlay, recon>>
    BY <1>3 DEF ToolTimeout, LateCreate, Listen, outVars, execFrame, vars, dbVars
  <2>2. \A q \in Runs : SameRun(q) /\ space'[q] = space[q]
    BY <2>1 DEF SameRun
  <2> QED BY <1>0, <2>1, <2>2, QuietOwned
<1> QED BY <1>1, <1>2, <1>3

(* The run that starts is owned, or has ended and its execution throws.     *)
LEMMA ReleaseRunOwned ==
  ASSUME SafetyInv, OwnInv, NEW r \in Runs, ReleaseRun(r)
  PROVE  OwnInv'
<1>0. /\ TypeOK /\ PassOK /\ RunQueueOK /\ OutTypeOK /\ runQueue \in Seq(Runs)
      /\ managed \in SUBSET Runs /\ member \in [Members -> Status]
  BY TypeParts DEF SafetyInv, QueueInv, TypeOK
<1>1. UNCHANGED <<thread, overlay, recon>>
  BY DEF ReleaseRun, fixVars
<1>2. CASE runQueue = <<>>
  <2>1. UNCHANGED <<run, managed, space, pc>>
    BY <1>2 DEF ReleaseRun, outVars
  <2>2. \A q \in Runs : SameRun(q) /\ space'[q] = space[q]
    BY <2>1 DEF SameRun
  <2> QED BY <1>0, <1>1, <2>2, QuietOwned
<1>3. CASE runQueue # <<>>
  <2>1. PICK h \in Runs : h = Head(runQueue)
    BY <1>0, <1>3
  <2>2. 1 \in DOMAIN runQueue /\ runQueue[1] = h /\ Begin(Root(h), member, managed)
    BY <1>0, <1>3, <2>1 DEF ReleaseRun, BeginRoot
  <2>3. h \in managed \/ run[h] \in Terminal
    BY <1>0, <2>2 DEF RunQueueOK
  <2>4. Root(h) \in Members /\ RunOf(Root(h)) = h
    BY MemberRun
  <2>5. Shape(Root(h), member, managed)
    BY <1>0, <2>2, <2>4, BeginShape
  <2>6. OwnedRoot(h)'
    BY <2>3, <2>5, RootSegmentOwned DEF OwnInv
  <2>7. \A q \in Runs \ {h} : SameRun(q) /\ space'[q] = space[q]
    BY <2>4, <2>5, SegmentOthers
  <2>8. \A q \in Runs : OwnedRoot(q)'
    BY <2>6, <2>7, OwnedSame DEF OwnInv
  <2>9. ASSUME NEW q \in Runs, q \notin managed, HasResources(q)
        PROVE  q \notin managed' /\ HasResources(q)'
    <3>1. q \notin managed'
      BY <2>5, <2>9 DEF Shape, Segment
    <3>2. CASE q = h
      <4>1. run[h] \in Terminal /\ run[h] \notin Early
        BY <2>3, <2>9, <3>2 DEF Terminal, Early
      <4>2. space'[q] = space[q] \/ space'[q] \in Made
        BY <2>4, <2>5, <3>2, <4>1, MemberRun DEF Shape
      <4> QED BY <1>1, <2>9, <3>1, <4>2, ResourcesKept
    <3>3. CASE q # h
      BY <1>1, <2>7, <2>9, <3>1, <3>3, ResourcesKept
    <3> QED BY <3>2, <3>3
  <2>10. PassOwned'
    BY <1>0, <1>1, <2>9, PassOwnedKept DEF OwnInv
  <2> QED BY <2>8, <2>10 DEF OwnInv
<1> QED BY <1>2, <1>3

(* A pass writes only runs that are not owned, so never one that executes.  *)
LEMMA PassWrites ==
  ASSUME OwnInv, NEW r \in Runs, r \notin managed,
         \A q \in Runs \ {r} : run'[q] = run[q],
         UNCHANGED <<managed, pc>>
  PROVE  \A q \in Runs : OwnedRoot(q)'
BY DEF OwnInv, OwnedRoot, InFlight

(* Every step of a reconcile pass, whatever the other passes do.            *)
LEMMA ReconcileOwned ==
  ASSUME SafetyInv, OwnInv, NEW c \in Reconcilers, Reconcile(c)
  PROVE  OwnInv'
<1>0. /\ TypeOK /\ StatusInv /\ PassOK /\ PassOwned
      /\ run \in [Runs -> Status] /\ member \in [Members -> Status]
      /\ thread \in [Members -> Phase] /\ overlay \in [Members -> Phase]
      /\ recon[c].run \in Runs /\ recon \in [Reconcilers -> PassSet]
  BY DEF SafetyInv, QueueInv, TypeOK, PassSet, OwnInv
<1>a. \A d \in Reconcilers \ {c} : recon'[d] = recon[d]
  BY <1>0 DEF Reconcile, Tick, ReconSkip, ReconAccept, ReconFail, ReconClaim, ReconClose,
              ReconDispose, ReconSweep, ReconFinish, Advance, Working, Throw
<1>b. /\ recon' = [recon EXCEPT ![c] = NewPass] \/ recon' = Throw(c)
           => recon'[c].pc # "work"
      /\ \A r \in Runs : recon' = Advance(c, r) => recon'[c].pc # "work"
      /\ \A r, ts, is, os : recon' = Working(c, r, ts, is, os) => recon'[c].run = r
  BY <1>0 DEF NewPass, Throw, Advance, Working, IdlePass, Pass
<1>k. ASSUME \/ recon'[c].pc # "work"
             \/ recon'[c].run = recon[c].run /\ recon[c].pc = "work"
             \/ \E r \in Runs : recon'[c].run = r /\ r \notin managed' /\ HasResources(r)',
             \A q \in Runs : q \notin managed /\ run[q] # "absent" /\ HasResources(q)
                               => q \notin managed' /\ HasResources(q)'
      PROVE  PassOwned'
  BY <1>0, <1>a, <1>k, PassOwnedKept
<1>1. CASE Tick(c)
  <2>1. /\ UNCHANGED <<run, managed, space, pc, thread, overlay>>
        /\ recon'[c].pc # "work"
    BY <1>1, <1>b DEF Tick, outVars
  <2>2. \A q \in Runs : HasResources(q) => HasResources(q)'
    BY <2>1, ResourcesKept
  <2>3. \A q \in Runs : OwnedRoot(q)'
    BY <2>1 DEF OwnInv, OwnedRoot, InFlight
  <2> QED BY <1>k, <2>1, <2>2, <2>3 DEF OwnInv
<1>2. CASE \/ \E m \in Members : ReconClose(c, m) \/ ReconDispose(c, m)
           \/ \E i \in Instances : ReconSweep(c, i)
  <2>1. /\ UNCHANGED <<run, managed, space, pc>> /\ recon[c].pc = "work"
        /\ \E ts, is, os : recon' = Working(c, recon[c].run, ts, is, os)
    BY <1>2 DEF ReconClose, ReconDispose, ReconSweep, outVars
  <2>2. \A m \in Members : /\ thread[m] # "none" => thread'[m] # "none"
                           /\ overlay[m] # "none" => overlay'[m] # "none"
    BY <1>0, <1>2 DEF ReconClose, ReconDispose, ReconSweep
  <2>3. \A q \in Runs : HasResources(q) => HasResources(q)'
    BY <2>1, <2>2, MemberRun, ResourcesKept
  <2>4. \A q \in Runs : OwnedRoot(q)'
    BY <2>1 DEF OwnInv, OwnedRoot, InFlight
  <2>5. recon'[c].run = recon[c].run
    BY <1>b, <2>1
  <2> QED BY <1>k, <2>1, <2>3, <2>4, <2>5 DEF OwnInv
<1>3. ASSUME NEW r \in Runs, ReconSkip(c, r) PROVE OwnInv'
  <2>1. /\ UNCHANGED <<run, space, pc, thread, overlay>> /\ recon'[c].pc # "work"
        /\ managed' = managed \/ (managed' = managed \ {r} /\ recon[c].snap[r] = "terminal")
    BY <1>3, <1>b DEF ReconSkip
  <2>2. managed' = managed \/ (managed' = managed \ {r} /\ run[r] \in Terminal)
    BY <1>0, <2>1 DEF PassOK
  <2>3. \A q \in Runs : OwnedRoot(q)'
    BY <2>1, <2>2 DEF OwnInv, OwnedRoot, InFlight
  <2>4. \A q \in Runs : HasResources(q) => HasResources(q)'
    BY <2>1, ResourcesKept
  <2> QED BY <1>k, <2>1, <2>3, <2>4 DEF OwnInv
<1>4. ASSUME NEW r \in Runs, ReconAccept(c, r) PROVE OwnInv'
  <2>1. /\ AcceptRoot(r, member) /\ ~HasResources(r) /\ r \notin managed
        /\ recon' = Advance(c, r) /\ UNCHANGED <<thread, overlay>>
    BY <1>4 DEF ReconAccept, Owned
  <2>2. ~InFlight(Root(r))
    BY <2>1 DEF OwnInv, OwnedRoot
  <2>3. OwnedRoot(r)' /\ \A q \in Runs \ {r} : SameRun(q) /\ space'[q] = space[q]
    BY <1>0, <2>1, <2>2, AcceptRootOwned
  <2>4. \A q \in Runs : OwnedRoot(q)'
    BY <2>3, OwnedSame DEF OwnInv
  <2>5. ASSUME NEW q \in Runs, q \notin managed, HasResources(q)
        PROVE  q \notin managed' /\ HasResources(q)'
    BY <2>1, <2>3, <2>5, ResourcesKept DEF SameRun
  <2> QED BY <1>b, <1>k, <2>1, <2>4, <2>5 DEF OwnInv
<1>5. ASSUME NEW r \in Runs, ReconFail(c, r) PROVE OwnInv'
  <2>1. /\ UNCHANGED <<space, managed, pc, thread, overlay>> /\ r \notin managed
        /\ run' = run \/ run' = [run EXCEPT ![r] = "failed"]
        /\ recon'[c].pc # "work"
    BY <1>5, <1>b DEF ReconFail, Owned
  <2>2. \A q \in Runs : OwnedRoot(q)'
    BY <1>0, <2>1, PassWrites
  <2>3. \A q \in Runs : HasResources(q) => HasResources(q)'
    BY <2>1, ResourcesKept
  <2> QED BY <1>k, <2>1, <2>2, <2>3 DEF OwnInv
<1>6. ASSUME NEW r \in Runs, ReconClaim(c, r) PROVE OwnInv'
  <2>1. /\ UNCHANGED <<space, managed, pc, thread, overlay>> /\ r \notin managed /\ HasResources(r)
        /\ run' = run \/ run' = [run EXCEPT ![r] = "finalizing"]
        /\ recon'[c].pc # "work" \/ recon'[c].run = r
    BY <1>6, <1>b DEF ReconClaim, Owned
  <2>2. \A q \in Runs : OwnedRoot(q)'
    BY <1>0, <2>1, PassWrites
  <2>3. \A q \in Runs : HasResources(q) => HasResources(q)'
    BY <2>1, ResourcesKept
  <2> QED BY <1>k, <2>1, <2>2, <2>3 DEF OwnInv
<1>7. CASE ReconFinish(c)
  <2>1. PICK r \in Runs : r = recon[c].run
    BY <1>0
  <2>2. /\ UNCHANGED <<space, managed, pc, thread, overlay>> /\ recon[c].pc = "work"
        /\ run' = run \/ run' = [run EXCEPT ![r] = "failed"]
        /\ recon'[c].pc # "work"
    BY <1>7, <1>b, <2>1 DEF ReconFinish
  <2>3. r \notin managed
    BY <1>0, <2>1, <2>2 DEF PassOwned
  <2>4. \A q \in Runs : OwnedRoot(q)'
    BY <1>0, <2>2, <2>3, PassWrites
  <2>5. \A q \in Runs : HasResources(q) => HasResources(q)'
    BY <2>2, ResourcesKept
  <2> QED BY <1>k, <2>2, <2>4, <2>5 DEF OwnInv
<1> QED BY <1>1, <1>2, <1>3, <1>4, <1>5, <1>6, <1>7 DEF Reconcile

(* stop() disowns the runs it fails; a new process owns nothing.            *)
LEMMA ProcessOwned ==
  ASSUME SafetyInv, OwnInv, Stop \/ Restart
  PROVE  OwnInv'
<1>0. TypeOK /\ PassOK /\ PassOwned /\ StatusInv
  BY DEF SafetyInv, QueueInv, OwnInv
<1>a. \A r \in Runs : Root(r) \in Members
  BY MemberRun
<1>1. CASE Stop
  <2> DEFINE ended == {r \in Runs : /\ InRunQueue(r) /\ member[Root(r)] = "queued"
                                    /\ run[r] \notin Terminal}
  <2>1. /\ run' = [r \in Runs |-> IF r \in ended THEN "failed" ELSE run[r]]
        /\ managed' = managed \ ended
        /\ pc' = [m \in Members |-> IF pc[m] = "retryWait" THEN "done" ELSE pc[m]]
        /\ UNCHANGED <<space, thread, overlay, recon>>
    BY <1>1 DEF Stop, InRunQueue
  <2>2. \A r \in ended : ~InFlight(Root(r))
    BY <1>0, <1>a DEF StatusInv, StartedFirst
  <2> HIDE DEF ended
  <2>3. \A r \in Runs : InFlight(Root(r))' => InFlight(Root(r))
    BY <1>a, <2>1 DEF InFlight
  <2>4. \A r \in Runs : OwnedRoot(r)'
    BY <2>1, <2>2, <2>3 DEF OwnInv, OwnedRoot
  <2>5. \A q \in Runs : HasResources(q) => HasResources(q)'
    BY <2>1, ResourcesKept
  <2>6. PassOwned'
    BY <1>0, <2>1, <2>5, PassOwnedKept
  <2> QED BY <2>4, <2>6 DEF OwnInv
<1>2. CASE Restart
  <2>1. /\ pc' = [m \in Members |-> "idle"]
        /\ \A d \in Reconcilers : recon'[d] \in {NewPass, IdlePass}
    BY <1>2 DEF Restart
  <2>2. \A r \in Runs : OwnedRoot(r)'
    BY <1>a, <2>1 DEF OwnedRoot, InFlight
  <2>3. \A d \in Reconcilers : recon'[d].pc # "work"
    BY <2>1 DEF NewPass, IdlePass, Pass
  <2> QED BY <2>2, <2>3 DEF OwnInv, PassOwned
<1> QED BY <1>1, <1>2

(* OwnInv is an invariant of the specification.                             *)
THEOREM OwnershipInvariant == Spec => []OwnInv
<1>1. Init => OwnInv
  BY MemberRun DEF Init, OwnInv, OwnedRoot, InFlight, PassOwned, IdlePass, Pass
<1>2. SafetyInv /\ AcceptInv /\ OwnInv /\ [Next]_vars => OwnInv'
  <2> SUFFICES ASSUME SafetyInv, AcceptInv, OwnInv, [Next]_vars PROVE OwnInv'
    OBVIOUS
  <2>1. CASE Request \/ (\E m \in Members : ToolTimeout(m) \/ LateCreate(m)) \/ Listen \/ UNCHANGED vars
    BY <2>1, RequestOwned, CalleeOwned DEF Request
  <2>2. CASE Release
    BY <2>2, CalleeOwned, ReleaseRunOwned DEF Release
  <2>3. CASE \E m \in Members : Execute(m) \/ Clean(m)
    BY <2>3, ExecuteOwned
  <2>4. CASE \E c \in Reconcilers : Reconcile(c)
    BY <2>4, ReconcileOwned
  <2>5. CASE Stop \/ Restart
    BY <2>5, ProcessOwned
  <2> QED BY <2>1, <2>2, <2>3, <2>4, <2>5 DEF Next
<1> QED BY <1>1, <1>2, SafetyInvariant, AcceptInvariant, PTL DEF Spec

(* A run whose root executes or waits for a cleanup retry is owned by this  *)
(* process, and a run that a reconcile pass tears down is not, however many *)
(* passes overlap and however old their snapshots are.                      *)
THEOREM RunsHaveOneOwner == Spec => []ExclusiveOwnership
<1>1. OwnInv => ExclusiveOwnership
  BY DEF OwnInv, OwnedRoot, PassOwned, InFlight, ExclusiveOwnership
<1> QED BY <1>1, OwnershipInvariant, PTL

-----------------------------------------------------------------------------
(* The slots of the run scheduler                                          *)

\* The part of SlotsRespected about the run scheduler: what is under way is
\* counted, the count is limited, and nobody waits beside a free slot.
RunSlotsOK ==
  /\ IsFiniteSet(runActive) /\ Cardinality(runActive) <= runCount
  /\ runCount <= RunSlots
  /\ runQueue # <<>> => runCount = RunSlots

(* A run that starts is counted, even where it was under way already.       *)
LEMMA StartCounted ==
  ASSUME NEW S, NEW n \in Nat, IsFiniteSet(S), Cardinality(S) <= n, NEW r
  PROVE  IsFiniteSet(S \cup {r}) /\ Cardinality(S \cup {r}) <= n + 1
<1>1. CASE r \in S
  <2> DEFINE T == S \cup {r}
  <2>1. T = S /\ Cardinality(S) \in Nat
    BY <1>1, FS_CardinalityType
  <2> HIDE DEF T
  <2>2. IsFiniteSet(T) /\ Cardinality(T) <= n + 1
    BY <2>1
  <2> QED BY <2>2 DEF T
<1>2. CASE r \notin S
  <2>1. IsFiniteSet(S \cup {r}) /\ Cardinality(S \cup {r}) = Cardinality(S) + 1
    BY <1>2, FS_AddElement
  <2>2. Cardinality(S) \in Nat
    BY FS_CardinalityType
  <2> QED BY <2>1, <2>2
<1> QED BY <1>1, <1>2

(* submit: a run starts only below the limit and waits only at it.          *)
LEMMA AcceptRootSlots ==
  ASSUME TypeOK, RunSlotsOK, NEW r \in Runs, NEW mem, AcceptRoot(r, mem)
  PROVE  RunSlotsOK'
<1>0. runCount \in Nat /\ RunSlots \in Nat
  BY AgentRunAssumption DEF TypeOK
<1>1. CASE UNCHANGED schedVars
  BY <1>1 DEF schedVars, RunSlotsOK
<1>2. CASE /\ RunSlotFree /\ runCount' = runCount + 1 /\ runActive' = runActive \cup {r}
           /\ runQueue' = runQueue
  <2>1. IsFiniteSet(runActive') /\ Cardinality(runActive') <= runCount + 1
    BY <1>0, <1>2, StartCounted DEF RunSlotsOK
  <2>2. runCount < RunSlots /\ runQueue = <<>>
    BY <1>0, <1>2 DEF RunSlotFree, RunSlotsOK
  <2>3. runCount' <= RunSlots
    BY <1>0, <1>2, <2>2
  <2> QED BY <1>2, <2>1, <2>2, <2>3 DEF RunSlotsOK
<1>3. CASE ~RunSlotFree /\ UNCHANGED <<runCount, runActive>>
  <2>1. runCount = RunSlots
    BY <1>0, <1>3 DEF RunSlotFree, RunSlotsOK
  <2> QED BY <1>3, <2>1 DEF RunSlotsOK
<1> QED BY <1>1, <1>2, <1>3 DEF AcceptRoot

(* finish and drain: a slot that is given back goes to who waits for it.    *)
LEMMA ReleaseRunSlots ==
  ASSUME TypeOK, RunSlotsOK, NEW r \in Runs, ReleaseRun(r)
  PROVE  RunSlotsOK'
<1>0. runCount \in Nat /\ RunSlots \in Nat \ {0}
  BY AgentRunAssumption DEF TypeOK
<1>1. /\ r \in runActive /\ IsFiniteSet(runActive)
      /\ Cardinality(runActive) <= runCount /\ runCount <= RunSlots
      /\ runQueue # <<>> => runCount = RunSlots
  BY DEF ReleaseRun, RunSlotsOK
<1> DEFINE S == runActive \ {r}
<1>2. IsFiniteSet(S) /\ Cardinality(S) = Cardinality(runActive) - 1
      /\ Cardinality(S) \in Nat /\ Cardinality(runActive) \in Nat
  <2>1. IsFiniteSet(S) /\ Cardinality(S) = Cardinality(runActive) - 1
    BY <1>1, FS_RemoveElement
  <2> QED BY <1>1, <2>1, FS_CardinalityType
<1>3. Finished = runCount - 1 /\ Finished \in Nat
  BY <1>0, <1>1, <1>2 DEF Finished
<1>4. Cardinality(S) <= Finished /\ Finished <= RunSlots
  BY <1>0, <1>1, <1>2, <1>3
<1>5. CASE runQueue = <<>>
  <2>1. runQueue' = runQueue /\ runCount' = Finished /\ runActive' = S
    BY <1>5 DEF ReleaseRun
  <2> QED BY <1>2, <1>4, <1>5, <2>1 DEF RunSlotsOK
<1>6. CASE runQueue # <<>>
  <2>1. runCount' = Finished + 1 /\ runActive' = S \cup {Head(runQueue)}
    BY <1>6 DEF ReleaseRun
  <2> HIDE DEF S
  <2>2. IsFiniteSet(runActive') /\ Cardinality(runActive') <= Finished + 1
    BY <1>2, <1>3, <1>4, <2>1, StartCounted
  <2>3. runCount' = RunSlots /\ RunSlots <= RunSlots
    BY <1>0, <1>1, <1>3, <1>6, <2>1
  <2> QED BY <2>1, <2>2, <2>3 DEF RunSlotsOK
<1> QED BY <1>5, <1>6

(* RunSlotsOK is an invariant of the specification.                         *)
THEOREM RunSlotsInvariant == Spec => []RunSlotsOK
<1>0. IsFiniteSet({}) /\ Cardinality({}) = 0 /\ 0 <= 0 /\ 0 <= RunSlots
  BY FS_EmptySet, AgentRunAssumption
<1>1. Init => RunSlotsOK
  BY <1>0 DEF Init, RunSlotsOK
<1>2. TypeOK /\ RunSlotsOK /\ [Next]_vars => RunSlotsOK'
  <2> SUFFICES ASSUME TypeOK, RunSlotsOK, [Next]_vars PROVE RunSlotsOK'
    OBVIOUS
  <2>g. UNCHANGED <<runQueue, runCount, runActive>> => RunSlotsOK'
    BY DEF RunSlotsOK
  <2>1. CASE Request
    <3>1. ASSUME NEW r \in Runs, Create(r) PROVE RunSlotsOK'
      BY <3>1, AcceptRootSlots DEF Create
    <3>2. ASSUME NEW r \in Runs, Cancel(r) PROVE RunSlotsOK'
      BY <2>g, <3>2 DEF Cancel
    <3>3. ASSUME NEW p \in Members, NEW m \in Members, AddMember(p, m) PROVE RunSlotsOK'
      BY <2>g, <3>3 DEF AddMember, AcceptCallee, schedVars
    <3>4. ASSUME NEW m \in Members, RetryInvoke(m) PROVE RunSlotsOK'
      BY <2>g, <3>4 DEF RetryInvoke, AcceptCallee, schedVars
    <3> QED BY <2>1, <3>1, <3>2, <3>3, <3>4 DEF Request
  <2>2. CASE Release
    <3>1. ASSUME NEW m \in Members, ReleaseMember(m) PROVE RunSlotsOK'
      BY <2>g, <3>1 DEF ReleaseMember
    <3> QED BY <2>2, <3>1, ReleaseRunSlots DEF Release
  <2>3. ASSUME NEW m \in Members, Execute(m) \/ Clean(m) PROVE RunSlotsOK'
    BY <2>g, <2>3 DEF Execute, EnsureDone, MountDone, InjectDone, InstanceCreates, CreateDone,
       CreateFails, PollCompleted, PollFailed, PollCancelled, Clean, CloseDone, DisposeStarts,
       DisposeRefused, UnmountDone, RetryFire, execFrame, schedVars
  <2>4. ASSUME NEW c \in Reconcilers, Reconcile(c) PROVE RunSlotsOK'
    <3>1. ASSUME NEW r \in Runs, ReconAccept(c, r) PROVE RunSlotsOK'
      BY <3>1, AcceptRootSlots DEF ReconAccept
    <3>2. CASE \A r \in Runs : ~ReconAccept(c, r)
      BY <2>g, <2>4, <3>2 DEF Reconcile, Tick, ReconSkip, ReconFail, ReconClaim, ReconClose,
         ReconDispose, ReconSweep, ReconFinish, schedVars
    <3> QED BY <3>1, <3>2
  <2>5. CASE Stop
    BY <2>5 DEF Stop, RunSlotsOK
  <2>6. CASE Restart
    BY <1>0, <2>6 DEF Restart, RunSlotsOK
  <2>7. CASE (\E m \in Members : ToolTimeout(m) \/ LateCreate(m)) \/ Listen \/ UNCHANGED vars
    BY <2>g, <2>7 DEF ToolTimeout, LateCreate, Listen, execFrame, schedVars, vars
  <2> QED BY <2>1, <2>2, <2>3, <2>4, <2>5, <2>6, <2>7 DEF Next
<1> QED BY <1>1, <1>2, TypeCorrect, PTL DEF Spec

(* No more runs and no more members of a run hold a slot than their limits  *)
(* allow, and nobody waits while a slot is free, through repeated           *)
(* invocations, overlapping reconcile passes, stop() and restarts.          *)
THEOREM SlotLimitsHold == Spec => []SlotsRespected
<1>1. RunSlotsOK /\ AcceptInv => SlotsRespected
  BY DEF RunSlotsOK, AcceptInv, MemberSlots, SlotsRespected
<1> QED BY <1>1, RunSlotsInvariant, AcceptInvariant, PTL
=============================================================================
