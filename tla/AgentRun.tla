------------------------------ MODULE AgentRun ------------------------------
(***************************************************************************)
(* Execution of Agent Runs by the Node Agent: AgentRunService (create,     *)
(* addMember, cancel), AgentRunCoordinator (accept, executeMember,         *)
(* finalizeMember, cleanup retries, reconcile, stop), the two              *)
(* SchedulerExecutionRuntime queues it submits to, and the SQLite records  *)
(* of runs, members, runtime resources and shared spaces.                  *)
(*                                                                         *)
(* One action is one synchronous segment of the Node.js event loop: it     *)
(* ends where the code awaits.  Payloads (prompts, results, paths) are     *)
(* left out; an error is kept only as "cancelled" (code                    *)
(* AGENT_RUN_CANCELLED) or "failed" (any other code).                      *)
(***************************************************************************)
EXTENDS Naturals, Sequences, FiniteSets

CONSTANTS
  NumRuns,         \* runs that may be created; ids in creation order
  MaxMembers,      \* run.budget.maxMembers
  MaxDepth,        \* run.budget.maxDepth
  MaxConcurrency,  \* run.budget.maxConcurrency
  RunSlots,        \* concurrent runs of one initiator (2 in the code)
  QueueLimit,      \* maxQueuedPerJob (100 in the code)
  Instances,       \* controlled instances of this node
  InstanceOf,      \* the instance each member runs in
  Reconcilers,     \* reconcile() calls that may overlap
  MaxFaults,       \* bound: failed close / dispose calls injected
  MaxCrashes,      \* bound: restarts of the Node Agent
  MaxRetries       \* bound: repeated addMember requests

Runs    == 1..NumRuns
Members == Runs \X (0..(MaxMembers - 1))

ASSUME AgentRunAssumption ==
  /\ NumRuns \in Nat \ {0}
  /\ MaxMembers \in Nat \ {0}
  /\ MaxDepth \in Nat
  /\ MaxConcurrency \in Nat \ {0}
  /\ RunSlots \in Nat \ {0}
  /\ QueueLimit \in Nat
  /\ InstanceOf \in [Members -> Instances]
  /\ MaxFaults \in Nat
  /\ MaxCrashes \in Nat
  /\ MaxRetries \in Nat

VARIABLES
  \* ---- SQLite: survives a restart of the Node Agent
  run,        \* status of each run ("absent" before create)
  cleanup,    \* cleanup diagnostic of each run
  member,     \* status of each member
  parent,     \* index of the member that invoked it
  depth,      \* call depth of each member
  thread,     \* phase of the member's provider-thread resource
  overlay,    \* phase of the member's overlay-mount resource
  space,      \* state of the run's shared space record
  \* ---- the controlled instance: the member's provider session
  session,
  \* ---- memory of the Node Agent process
  mode,       \* "booting", "up" or "stopping" (accepting = FALSE)
  managed,    \* managedRunIds
  runQueue,   \* queue of the run scheduler
  runCount,   \* its running count
  runActive,  \* runs whose submitRootMember has not returned (completionWaiters)
  memQueue,   \* queue of the member scheduler, per run
  active,     \* members holding a member-scheduler slot, per run
  pc,         \* where executeMember / finalizeMember awaits
  err,        \* terminalError of the execution
  aborted,    \* members whose AbortController fired
  abandoned,  \* callees whose caller stopped waiting for the tool result
  recon,      \* the reconcile() passes
  \* ---- bounds
  faults, crashes, retries

dbVars    == <<run, cleanup, member, parent, depth, thread, overlay, space>>
schedVars == <<runQueue, runCount, runActive, memQueue, active>>
boundVars == <<faults, crashes, retries>>
vars == <<dbVars, session, mode, managed, schedVars, pc, err, aborted, abandoned,
          recon, boundVars>>

-----------------------------------------------------------------------------
Terminal == {"completed", "failed", "cancelled"}
Status   == {"absent", "queued", "preparing", "running", "finalizing"} \cup Terminal
Errors   == {"none", "cancelled", "failed"}
Phase    == {"none", "preparing", "ready", "deleting", "delete-retrying",
             "deleted", "manual-intervention"}
Space    == {"none", "preparing", "active", "retained"}

\* Await points of executeMember and finalizeMember.
Ended     == {"done", "retryWait"}
Preparing == {"ensuring", "mounting", "injecting", "creating"}
Cleaning  == {"closing", "disposing", "unmounting"}
Location  == {"idle", "polling", "leaked"} \cup Ended \cup Preparing \cup Cleaning

RunOf(m)     == m[1]
Root(r)      == <<r, 0>>
IsRoot(m)    == m[2] = 0
MembersOf(r) == {r} \X (0..(MaxMembers - 1))

\* canTransitionAgentRunStatus; a refused transition throws.
CanTransition(from, to) ==
  \/ from = to
  \/ from = "queued"     /\ to \in {"preparing", "finalizing"}
  \/ from = "preparing"  /\ to \in {"running", "finalizing"}
  \/ from = "running"    /\ to = "finalizing"
  \/ from = "finalizing" /\ to \in Terminal

\* controllers.has(key): the first execution of m has not returned.
Controller(m) == m \in active[RunOf(m)] /\ pc[m] \notin Ended

\* An invocation whose caller still waits for the callee's result.
Blocked(m) ==
  \E c \in MembersOf(RunOf(m)) :
     /\ ~IsRoot(c) /\ parent[c] = m[2] /\ member[c] \notin Terminal \cup {"absent"}
     /\ c \notin abandoned

\* What reconcile() reads of the status in its snapshot of a run.
SnapStatus == {"terminal", "queued", "started"}
Snapshot(r) ==
  IF run[r] \in Terminal THEN "terminal"
  ELSE IF run[r] = "queued" THEN "queued" ELSE "started"

PassSet == [pc : {"idle", "next", "work"}, todo : SUBSET Runs, snap : [Runs -> SnapStatus],
            run : Runs, threads : SUBSET Members, insts : SUBSET Instances,
            overlays : SUBSET Members]

(* One reconcile() call: runs left of its snapshot, and the run it tears    *)
(* down with the sessions, instances and overlays still to be handled.      *)
Pass(at, todo, snap, r, threads, insts, overlays) ==
  [pc |-> at, todo |-> todo, snap |-> snap, run |-> r,
   threads |-> threads, insts |-> insts, overlays |-> overlays]

NoSnap   == [r \in Runs |-> "started"]
IdlePass == Pass("idle", {}, NoSnap, 1, {}, {}, {})

TypeOK ==
  /\ run \in [Runs -> Status]
  /\ cleanup \in [Runs -> {"none", "retrying", "completed", "manual-intervention"}]
  /\ member \in [Members -> Status]
  /\ parent \in [Members -> 0..(MaxMembers - 1)]
  /\ depth \in [Members -> Nat]
  /\ thread \in [Members -> Phase]
  /\ overlay \in [Members -> Phase]
  /\ space \in [Runs -> Space]
  /\ session \in [Members -> {"none", "live", "closed"}]
  /\ mode \in {"booting", "up", "stopping"}
  /\ managed \in SUBSET Runs
  /\ runQueue \in Seq(Runs)
  /\ runCount \in Nat
  /\ runActive \in SUBSET Runs
  /\ memQueue \in [Runs -> Seq(Members)]
  /\ active \in [Runs -> SUBSET Members]
  /\ pc \in [Members -> Location]
  /\ err \in [Members -> Errors]
  /\ aborted \in SUBSET Members
  /\ abandoned \in SUBSET Members
  /\ recon \in [Reconcilers -> PassSet]
  /\ faults \in 0..MaxFaults
  /\ crashes \in 0..MaxCrashes
  /\ retries \in 0..MaxRetries

Init ==
  /\ run = [r \in Runs |-> "absent"]
  /\ cleanup = [r \in Runs |-> "none"]
  /\ member = [m \in Members |-> "absent"]
  /\ parent = [m \in Members |-> 0]
  /\ depth = [m \in Members |-> 0]
  /\ thread = [m \in Members |-> "none"]
  /\ overlay = [m \in Members |-> "none"]
  /\ space = [r \in Runs |-> "none"]
  /\ session = [m \in Members |-> "none"]
  /\ mode = "up"
  /\ managed = {}
  /\ runQueue = <<>>
  /\ runCount = 0
  /\ runActive = {}
  /\ memQueue = [r \in Runs |-> <<>>]
  /\ active = [r \in Runs |-> {}]
  /\ pc = [m \in Members |-> "idle"]
  /\ err = [m \in Members |-> "none"]
  /\ aborted = {}
  /\ abandoned = {}
  /\ recon = [c \in Reconcilers |-> IdlePass]
  /\ faults = 0 /\ crashes = 0 /\ retries = 0

-----------------------------------------------------------------------------
(* finalizeMember: what one execution leaves in the records                *)

\* The variables that an execution's outcome is written to.
outVars  == <<run, cleanup, member, space, managed, err, pc>>
\* ... and those no outcome touches.
fixVars  == <<parent, depth, mode, abandoned, recon, boundVars>>

\* Variant: the error code written where a status belongs.
OutcomeFromCode(r, e) == IF e = "none" THEN "completed" ELSE "error"

Outcome(r, e) ==
  IF e = "none" THEN "completed"
  ELSE IF e = "cancelled" /\ run[r] = "finalizing" THEN "cancelled" ELSE "failed"

\* Variant: a failed cleanup is not scheduled again.
NoRetryPc == "done"

\* scheduleCleanupRetry sets no timer once the coordinator stops accepting.
RetryPc == IF mode = "stopping" THEN "done" ELSE "retryWait"

\* The member status finalizeMember leaves; a terminal one is kept.
SettledMember(m, e, mem) ==
  IF mem[m] \in Terminal THEN mem ELSE [mem EXCEPT ![m] = Outcome(RunOf(m), e)]

(* The part of finalizeMember after the resources are gone.  mem and mg are *)
(* the member statuses and managedRunIds at this point of the segment.      *)
(* sharedSpaces.retain throws when the run has no shared space record.  A   *)
(* root whose run is already terminal throws out of finalizeMember: nothing *)
(* is scheduled again and complete() is not reached.                        *)
Settle(m, e, mem, mg) ==
  LET r == RunOf(m) IN
  /\ err' = [err EXCEPT ![m] = e]
  /\ member' = SettledMember(m, e, mem)
  /\ \/ /\ ~IsRoot(m)
        /\ pc' = [pc EXCEPT ![m] = "done"]
        /\ managed' = mg
        /\ UNCHANGED <<run, cleanup, space>>
     \/ /\ IsRoot(m) /\ run[r] \in Terminal
        /\ pc' = [pc EXCEPT ![m] = "leaked"]
        /\ managed' = mg
        /\ UNCHANGED <<run, cleanup, space>>
     \/ /\ IsRoot(m) /\ run[r] \notin Terminal /\ space[r] = "none"
        /\ run' = [run EXCEPT ![r] = "finalizing"]
        /\ cleanup' = [cleanup EXCEPT ![r] = "retrying"]
        /\ pc' = [pc EXCEPT ![m] = RetryPc]
        /\ managed' = mg
        /\ UNCHANGED space
     \/ /\ IsRoot(m) /\ run[r] \notin Terminal /\ space[r] # "none"
        /\ run' = [run EXCEPT ![r] = Outcome(r, e)]
        /\ cleanup' = [cleanup EXCEPT ![r] = "completed"]
        /\ space' = [space EXCEPT ![r] = "retained"]
        /\ managed' = mg \ {r}
        /\ pc' = [pc EXCEPT ![m] = "done"]

\* Variant: a failed cleanup is taken for a finished one.
CleanupGivenUp(m) == Settle(m, "failed", member, managed)

(* A step of the cleanup threw: the member stays finalizing and a retry is  *)
(* scheduled; only the root's failure is written to the run.  Where a       *)
(* reconcile pass has ended the member or the run, writing that throws.     *)
CleanupFailed(m) ==
  LET r == RunOf(m) IN
  /\ UNCHANGED <<member, space, managed, err>>
  /\ IF member[m] \in Terminal \/ (IsRoot(m) /\ run[r] \in Terminal)
     THEN pc' = [pc EXCEPT ![m] = "leaked"] /\ UNCHANGED <<run, cleanup>>
     ELSE /\ pc' = [pc EXCEPT ![m] = RetryPc]
          /\ run' = IF IsRoot(m) THEN [run EXCEPT ![r] = "finalizing"] ELSE run
          /\ cleanup' = IF IsRoot(m) THEN [cleanup EXCEPT ![r] = "retrying"] ELSE cleanup

(* finalizeMember up to its first await, for a member whose workspace was   *)
(* prepared; thr is the phase of its provider-thread resource and ru the run *)
(* statuses at this point of the segment.                                   *)
Finalize(m, e, thr, ru) ==
  \/ /\ member[m] \in Terminal
     /\ Settle(m, e, member, managed)
     /\ thread' = [thread EXCEPT ![m] = thr]
  \/ /\ member[m] \notin Terminal
     /\ member' = [member EXCEPT ![m] = "finalizing"]
     /\ err' = [err EXCEPT ![m] = e]
     /\ pc' = [pc EXCEPT ![m] = IF thr = "none" THEN "disposing" ELSE "closing"]
     /\ thread' = [thread EXCEPT ![m] = IF thr = "none" THEN "none" ELSE "deleting"]
     /\ run' = ru
     /\ UNCHANGED <<cleanup, space, managed>>

-----------------------------------------------------------------------------
(* executeMember up to its first await, inside scheduler.begin             *)

(* The instance, its runtime, the folder or the quota may be gone by now,   *)
(* or a transition is refused: the second disjunct.                         *)
Begin(m, mem, mg) ==
  LET r == RunOf(m) IN
  \/ run[r] = "finalizing" /\ Settle(m, "cancelled", mem, mg)
  \/ run[r] # "finalizing" /\ Settle(m, "failed", mem, mg)
  \/ /\ run[r] # "finalizing" /\ CanTransition(mem[m], "preparing")
     /\ IsRoot(m) => run[r] = "absent" \/ CanTransition(run[r], "preparing")
     /\ member' = [mem EXCEPT ![m] = "preparing"]
     /\ managed' = mg
     /\ UNCHANGED <<cleanup, err>>
     /\ IF IsRoot(m)
        THEN /\ run' = [run EXCEPT ![r] = "preparing"]
             /\ space' = [space EXCEPT ![r] = "preparing"]
             /\ pc' = [pc EXCEPT ![m] = "ensuring"]
        ELSE pc' = [pc EXCEPT ![m] = "mounting"] /\ UNCHANGED <<run, space>>

BeginRoot(r, mem, mg) ==
  /\ active' = [active EXCEPT ![r] = @ \cup {Root(r)}]
  /\ Begin(Root(r), mem, mg)

\* failQueued for a root.
FailQueuedRoot(r, mem, mg) ==
  /\ member' = IF mem[Root(r)] = "queued" THEN [mem EXCEPT ![Root(r)] = "failed"] ELSE mem
  /\ IF mem[Root(r)] = "queued" /\ run[r] \notin Terminal
     THEN /\ run' = [run EXCEPT ![r] = "failed"]
          /\ cleanup' = [cleanup EXCEPT ![r] = "completed"]
          /\ managed' = mg \ {r}
     ELSE managed' = mg /\ UNCHANGED <<run, cleanup>>
  /\ UNCHANGED <<space, err, pc>>

RunSlotFree == runCount < RunSlots

\* Variant: the limit compared with the running count before this member.
MemberSlotLax(r) == Cardinality(active[r]) <= MaxConcurrency

MemberSlotFree(r) == Cardinality(active[r]) < MaxConcurrency

(* accept(run, root): submit to the run scheduler.  A root always finds a   *)
(* free member slot: its run has no callee yet.                             *)
AcceptRoot(r, mem) ==
  \/ /\ mode = "stopping" \/ (~RunSlotFree /\ Len(runQueue) >= QueueLimit)
     /\ FailQueuedRoot(r, mem, managed)
     /\ UNCHANGED schedVars
  \/ /\ mode # "stopping" /\ RunSlotFree
     /\ runCount' = runCount + 1
     /\ runActive' = runActive \cup {r}
     /\ BeginRoot(r, mem, managed \cup {r})
     /\ UNCHANGED <<runQueue, memQueue>>
  \/ /\ mode # "stopping" /\ ~RunSlotFree /\ Len(runQueue) < QueueLimit
     /\ runQueue' = Append(runQueue, r)
     /\ managed' = managed \cup {r}
     /\ member' = mem
     /\ run' = [run EXCEPT ![r] = IF @ = "absent" THEN "queued" ELSE @]
     /\ UNCHANGED <<cleanup, space, err, pc, runCount, runActive, memQueue, active>>

\* accept(run, callee): submit to the run's member scheduler.
AcceptCallee(m, mem) ==
  LET r == RunOf(m) IN
  \/ /\ mode = "stopping" \/ (~MemberSlotFree(r) /\ Len(memQueue[r]) >= QueueLimit)
     /\ member' = [mem EXCEPT ![m] = "failed"]
     /\ UNCHANGED <<run, cleanup, space, managed, err, pc, schedVars>>
  \/ /\ mode # "stopping" /\ MemberSlotFree(r)
     /\ active' = [active EXCEPT ![r] = @ \cup {m}]
     /\ Begin(m, mem, managed)
     /\ UNCHANGED <<runQueue, runCount, runActive, memQueue>>
  \/ /\ mode # "stopping" /\ ~MemberSlotFree(r) /\ Len(memQueue[r]) < QueueLimit
     /\ memQueue' = [memQueue EXCEPT ![r] = Append(@, m)]
     /\ member' = mem
     /\ UNCHANGED <<run, cleanup, space, managed, err, pc, runQueue, runCount, runActive, active>>

-----------------------------------------------------------------------------
(* Requests of the HTTP routes                                             *)

Serving == mode # "booting"

\* AgentRunService.create
Create(r) ==
  /\ Serving /\ run[r] = "absent"
  /\ \A q \in 1..(r - 1) : run[q] # "absent"
  /\ AcceptRoot(r, [member EXCEPT ![Root(r)] = "queued"])
  /\ UNCHANGED <<thread, overlay, session, aborted, fixVars>>

\* AgentRunService.addMember, called by the live session of the running member
\* p; m is the next member as long as the run has fewer than maxMembers.
AddMember(p, m) ==
  LET r == RunOf(p) IN
  /\ Serving /\ run[r] = "running" /\ member[p] = "running" /\ session[p] = "live"
  /\ RunOf(m) = r /\ member[m] = "absent"
  /\ \A k \in 0..(m[2] - 1) : member[<<r, k>>] # "absent"
  /\ depth[p] + 1 <= MaxDepth
  /\ parent' = [parent EXCEPT ![m] = p[2]]
  /\ depth' = [depth EXCEPT ![m] = depth[p] + 1]
  /\ abandoned' = abandoned \ {m}
  /\ AcceptCallee(m, [member EXCEPT ![m] = "queued"])
  /\ UNCHANGED <<thread, overlay, session, aborted, mode, recon, boundVars>>

\* addMember again with the same clientRequestId, the member still queued.
RetryInvoke(m) ==
  LET r == RunOf(m)
      p == <<r, parent[m]>>
  IN
  /\ Serving /\ retries < MaxRetries /\ ~IsRoot(m) /\ member[m] = "queued"
  /\ run[r] = "running" /\ member[p] = "running" /\ session[p] = "live"
  /\ retries' = retries + 1
  /\ abandoned' = abandoned \ {m}
  /\ AcceptCallee(m, member)
  /\ UNCHANGED <<parent, depth, thread, overlay, session, aborted, mode, recon, faults, crashes>>

\* waitForMemberToolResult gives up: its 30 minutes are over or the request aborted.
ToolTimeout(m) ==
  /\ ~IsRoot(m) /\ m \notin abandoned /\ member[m] \notin Terminal \cup {"absent"}
  /\ abandoned' = abandoned \cup {m}
  /\ UNCHANGED <<outVars, parent, depth, thread, overlay, session, mode, schedVars,
                 aborted, recon, boundVars>>

\* Variant: the queue is cleared without failing its members.
ForgetQueued(q, mem) == mem

\* failQueued for every queued callee in q.
FailQueuedIn(q, mem) ==
  [m \in Members |-> IF mem[m] = "queued" /\ \E i \in DOMAIN q : q[i] = m
                     THEN "failed" ELSE mem[m]]

\* Variant: the terminal check of cancel is missing.
NotFinalizing(r) == run[r] \notin {"absent", "finalizing"}

\* A finalizing run is returned as it is, a terminal one refused.
Cancellable(r) == run[r] \in {"queued", "preparing", "running"}

\* AgentRunService.cancel, then AgentRunCoordinator.cancel
Cancel(r) ==
  /\ Serving /\ Cancellable(r)
  /\ run' = [run EXCEPT ![r] = "finalizing"]
  /\ member' = FailQueuedIn(memQueue[r], member)
  /\ memQueue' = [memQueue EXCEPT ![r] = <<>>]
  /\ aborted' = aborted \cup {m \in MembersOf(r) : Controller(m)}
  /\ UNCHANGED <<cleanup, space, managed, err, pc, thread, overlay, session, runQueue,
                 runCount, runActive, active, fixVars>>

-----------------------------------------------------------------------------
(* The schedulers: finish and drain                                        *)

\* A queued entry whose member has been started (or failed) before its turn.
Void(m) == member[m] # "queued"

\* drain runs through n such entries before one that starts, or to the end.
Drained(q, n) ==
  /\ \A i \in 1..n : Void(q[i])
  /\ n < Len(q) => ~Void(q[n + 1])

(* executeMember of such an entry returns at once while the first execution *)
(* holds its controller, and otherwise settles a finalizing member.         *)
VoidEffect(r, q, n) ==
  [m \in Members |->
     IF /\ member[m] = "finalizing" /\ ~Controller(m)
        /\ \E i \in 1..n : q[i] = m
     THEN Outcome(r, "cancelled") ELSE member[m]]

ReleaseMember(m) ==
  LET r == RunOf(m)
      q == memQueue[r]
  IN
  /\ m \in active[r] /\ pc[m] \in Ended \cup {"leaked"}
  /\ \E n \in 0..Len(q) :
       /\ Drained(q, n)
       /\ \/ /\ n = Len(q)
             /\ active' = [active EXCEPT ![r] = @ \ {m}]
             /\ memQueue' = [memQueue EXCEPT ![r] = <<>>]
             /\ member' = VoidEffect(r, q, n)
             /\ UNCHANGED <<run, cleanup, space, managed, err, pc>>
          \/ /\ n < Len(q)
             /\ active' = [active EXCEPT ![r] = (@ \ {m}) \cup {q[n + 1]}]
             /\ memQueue' = [memQueue EXCEPT ![r] = SubSeq(q, n + 2, Len(q))]
             /\ Begin(q[n + 1], VoidEffect(r, q, n), managed)
  /\ UNCHANGED <<thread, overlay, session, runQueue, runCount, runActive, aborted, fixVars>>

\* The running count that finish() leaves.
Finished == IF runCount = 0 THEN 0 ELSE runCount - 1

\* submitRootMember returned: complete() resolved the run's waiter.
ReleaseRun(r) ==
  /\ r \in runActive /\ pc[Root(r)] \in Ended
  /\ \/ /\ runQueue = <<>>
        /\ runCount' = Finished
        /\ runActive' = runActive \ {r}
        /\ UNCHANGED <<outVars, runQueue, active>>
     \/ /\ runQueue # <<>>
        /\ runCount' = Finished + 1
        /\ runActive' = (runActive \ {r}) \cup {Head(runQueue)}
        /\ runQueue' = Tail(runQueue)
        /\ BeginRoot(Head(runQueue), member, managed)
  /\ UNCHANGED <<thread, overlay, session, memQueue, aborted, fixVars>>

-----------------------------------------------------------------------------
(* executeMember after each of its awaits                                  *)

execFrame == <<parent, depth, mode, schedVars, aborted, abandoned, recon, crashes, retries>>

MayFault == faults < MaxFaults /\ faults' = faults + 1

\* sharedSpaces.ensure; on failure the record stays and is retained at once.
EnsureDone(m) ==
  /\ pc[m] = "ensuring"
  /\ \/ /\ space' = [space EXCEPT ![RunOf(m)] = "active"]
        /\ pc' = [pc EXCEPT ![m] = "mounting"]
        /\ UNCHANGED <<run, cleanup, member, managed, err>>
     \/ Settle(m, "failed", member, managed)
  /\ UNCHANGED <<thread, overlay, session, execFrame, faults>>

\* materializer.prepare up to the helper call that injects the overlay.
MountDone(m) ==
  /\ pc[m] = "mounting"
  /\ \/ /\ overlay' = [overlay EXCEPT ![m] = "preparing"]
        /\ pc' = [pc EXCEPT ![m] = "injecting"]
        /\ UNCHANGED <<run, cleanup, member, space, managed, err>>
     \/ Settle(m, "failed", member, managed) /\ UNCHANGED overlay
  /\ UNCHANGED <<thread, session, execFrame, faults>>

\* The injection succeeded, or was rolled back, or could not be rolled back.
InjectDone(m) ==
  /\ pc[m] = "injecting"
  /\ \/ /\ overlay' = [overlay EXCEPT ![m] = "ready"]
        /\ pc' = [pc EXCEPT ![m] = "creating"]
        /\ UNCHANGED <<run, cleanup, member, space, managed, err, faults>>
     \/ /\ overlay' = [overlay EXCEPT ![m] = "deleted"]
        /\ Settle(m, "failed", member, managed)
        /\ UNCHANGED faults
     \/ /\ MayFault
        /\ overlay' = [overlay EXCEPT ![m] = "delete-retrying"]
        /\ Settle(m, "failed", member, managed)
  /\ UNCHANGED <<thread, session, execFrame>>

\* The controlled instance binds the member and creates its session.
InstanceCreates(m) ==
  /\ pc[m] = "creating" /\ session[m] = "none"
  /\ session' = [session EXCEPT ![m] = "live"]
  /\ UNCHANGED <<outVars, thread, overlay, execFrame, faults>>

(* A create request whose answer the node no longer waits for (the call     *)
(* failed, or the node restarted) is still carried out by the instance.     *)
LateCreate(m) ==
  /\ pc[m] # "creating" /\ session[m] = "none" /\ overlay[m] = "ready"
  /\ session' = [session EXCEPT ![m] = "live"]
  /\ UNCHANGED <<outVars, thread, overlay, execFrame, faults>>

(* sessions.create answered: the thread is registered, then the member and  *)
(* (for a root) the run become running unless the transition is refused;    *)
(* the polling loop is not entered when the run is already being cancelled. *)
CreateDone(m) ==
  LET r == RunOf(m)
      refused == member[m] # "preparing" \/ (IsRoot(m) /\ run[r] # "preparing")
      cancelled == m \in aborted \/ run[r] = "finalizing"
      started == IF IsRoot(m) THEN [run EXCEPT ![r] = "running"] ELSE run
  IN
  /\ pc[m] = "creating" /\ session[m] # "none"
  /\ \/ /\ ~refused /\ ~cancelled
        /\ thread' = [thread EXCEPT ![m] = "ready"]
        /\ member' = [member EXCEPT ![m] = "running"]
        /\ run' = started
        /\ pc' = [pc EXCEPT ![m] = "polling"]
        /\ UNCHANGED <<cleanup, space, managed, err>>
     \/ refused /\ Finalize(m, "failed", "ready", run)
     \/ ~refused /\ cancelled /\ Finalize(m, "cancelled", "ready", started)
  /\ UNCHANGED <<overlay, session, execFrame, faults>>

\* sessions.create failed, whether or not the instance created the session.
CreateFails(m) ==
  /\ pc[m] = "creating"
  /\ Finalize(m, "failed", "none", run)
  /\ UNCHANGED <<overlay, session, execFrame, faults>>

\* The session reports its result; a session that waits for a callee cannot.
PollCompleted(m) ==
  /\ pc[m] = "polling" /\ session[m] = "live" /\ ~Blocked(m)
  /\ Finalize(m, "none", thread[m], run)
  /\ UNCHANGED <<overlay, session, execFrame, faults>>

\* The session reports an error, or the status call or the usage refresh throws.
PollFailed(m) ==
  /\ pc[m] = "polling"
  /\ Finalize(m, "failed", thread[m], run)
  /\ UNCHANGED <<overlay, session, execFrame, faults>>

PollCancelled(m) ==
  /\ pc[m] = "polling" /\ (m \in aborted \/ run[RunOf(m)] = "finalizing")
  /\ Finalize(m, "cancelled", thread[m], run)
  /\ UNCHANGED <<overlay, session, execFrame, faults>>

-----------------------------------------------------------------------------
(* finalizeMember after each of its awaits                                 *)

(* sessions.close: the instance answers 404 when it never bound the member, *)
(* and closing a closed session succeeds.                                   *)
CloseSession(m) == session[m] # "none" /\ session' = [session EXCEPT ![m] = "closed"]

\* Variant: the workspace is removed without asking for the close again.
TerminateSkipped(m) == session[m] # "none" /\ UNCHANGED session

\* dispose closes the session before it touches the workspace.
TerminateMemberThread(m) == CloseSession(m)

\* A close whose answer is lost may or may not have taken effect.
CloseFails(m) ==
  /\ MayFault
  /\ \/ UNCHANGED session
     \/ session[m] = "live" /\ CloseSession(m)

CloseDone(m) ==
  /\ pc[m] = "closing"
  /\ \/ /\ CloseSession(m)
        /\ thread' = [thread EXCEPT ![m] = "deleted"]
        /\ pc' = [pc EXCEPT ![m] = "disposing"]
        /\ UNCHANGED <<run, cleanup, member, space, managed, err, faults>>
     \/ /\ CloseFails(m)
        /\ thread' = [thread EXCEPT ![m] = "delete-retrying"]
        /\ CleanupFailed(m)
  /\ UNCHANGED <<overlay, execFrame>>

\* dispose: prove ownership, then terminateMemberThread, then start the unmount.
DisposeStarts(m) ==
  /\ pc[m] = "disposing"
  /\ TerminateMemberThread(m)
  /\ overlay' = [overlay EXCEPT ![m] = "deleting"]
  /\ pc' = [pc EXCEPT ![m] = "unmounting"]
  /\ UNCHANGED <<run, cleanup, member, space, managed, err, thread, execFrame, faults>>

DisposeRefused(m) ==
  /\ pc[m] = "disposing"
  /\ \/ session[m] = "none" /\ UNCHANGED <<session, overlay, faults>>
     \/ CloseFails(m) /\ UNCHANGED overlay
     \/ /\ MayFault
        /\ overlay' = [overlay EXCEPT ![m] = "manual-intervention"]
        /\ UNCHANGED session
  /\ CleanupFailed(m)
  /\ UNCHANGED <<thread, execFrame>>

UnmountDone(m) ==
  /\ pc[m] = "unmounting"
  /\ \/ /\ overlay' = [overlay EXCEPT ![m] = "deleted"]
        /\ Settle(m, err[m], member, managed)
        /\ UNCHANGED faults
     \/ /\ MayFault
        /\ overlay' = [overlay EXCEPT ![m] = "delete-retrying"]
        /\ CleanupFailed(m)
  /\ UNCHANGED <<thread, session, execFrame>>

(* The cleanup retry timer: finalizeMember again.  The schedulers' slots    *)
(* were released in the microtasks that followed the failed attempt.        *)
RetryFire(m) ==
  /\ pc[m] = "retryWait" /\ mode = "up"
  /\ m \notin active[RunOf(m)] /\ (IsRoot(m) => RunOf(m) \notin runActive)
  /\ Finalize(m, err[m], thread[m], run)
  /\ UNCHANGED <<overlay, session, execFrame, faults>>

\* AgentRunCoordinator.stop, from the app's onClose hook.
Stop ==
  LET inRunQueue(r) == \E i \in DOMAIN runQueue : runQueue[i] = r
      inMemQueue(m) == \E i \in DOMAIN memQueue[RunOf(m)] : memQueue[RunOf(m)][i] = m
      ended == {r \in Runs : /\ inRunQueue(r) /\ member[Root(r)] = "queued"
                             /\ run[r] \notin Terminal}
  IN
  /\ mode = "up" /\ crashes < MaxCrashes
  /\ mode' = "stopping"
  /\ run' = [r \in Runs |-> IF r \in ended THEN "failed" ELSE run[r]]
  /\ cleanup' = [r \in Runs |-> IF r \in ended THEN "completed" ELSE cleanup[r]]
  /\ member' = [m \in Members |->
       IF member[m] = "queued" /\ (inMemQueue(m) \/ (IsRoot(m) /\ inRunQueue(RunOf(m))))
       THEN "failed" ELSE member[m]]
  /\ managed' = managed \ ended
  /\ runQueue' = <<>>
  /\ memQueue' = [r \in Runs |-> <<>>]
  /\ aborted' = aborted \cup {m \in Members : Controller(m)}
  /\ pc' = [m \in Members |-> IF pc[m] = "retryWait" THEN "done" ELSE pc[m]]
  /\ UNCHANGED <<space, err, parent, depth, thread, overlay, session, runCount, runActive,
                 active, abandoned, recon, boundVars>>

-----------------------------------------------------------------------------
(* reconcile(): the startup pass and the passes of the 5 s timer           *)

Live(p) == p \notin {"none", "deleted"}

HasResources(r) ==
  \/ \E m \in MembersOf(r) : thread[m] # "none" \/ overlay[m] # "none"
  \/ space[r] \in {"active", "retained"}

ResourceInstances(r) ==
  {InstanceOf[m] : m \in {x \in MembersOf(r) : \/ thread[x] # "none" \/ overlay[x] # "none"
                                               \/ IsRoot(x) /\ space[r] \in {"active", "retained"}}}

NewPass ==
  LET known == {r \in Runs : run[r] # "absent"} IN
  Pass(IF known = {} THEN "idle" ELSE "next", known, [r \in Runs |-> Snapshot(r)], 1, {}, {}, {})

\* list() is ordered newest first.
Newest(c, r) == r \in recon[c].todo /\ \A q \in recon[c].todo : q <= r

\* The pass is done with the run r.
Advance(c, r) ==
  LET rest == recon[c].todo \ {r} IN
  [recon EXCEPT ![c] = IF rest = {} THEN IdlePass
                       ELSE Pass("next", rest, [@.snap EXCEPT ![r] = "started"],
                                 1, {}, {}, {})]

\* The pass goes on with the run r and what is left to handle of it.
Working(c, r, threads, insts, overlays) ==
  [recon EXCEPT ![c] = Pass("work", @.todo, @.snap, r, threads, insts, overlays)]

Throw(c) == [recon EXCEPT ![c] = IdlePass]

reconFrame == <<parent, depth, mode, abandoned, crashes, retries>>

Tick(c) ==
  /\ mode = "up" /\ recon[c].pc = "idle"
  /\ \E r \in Runs : run[r] # "absent"
  /\ recon' = [recon EXCEPT ![c] = NewPass]
  /\ UNCHANGED <<outVars, thread, overlay, session, schedVars, aborted, reconFrame, faults>>

\* Variant: ownership decided from the snapshot alone.
OwnedBySnapshot(c, r) == recon[c].snap[r] = "terminal"

Owned(c, r) == recon[c].snap[r] = "terminal" \/ r \in managed

ReconSkip(c, r) ==
  /\ recon[c].pc = "next" /\ Newest(c, r) /\ Owned(c, r)
  /\ managed' = IF recon[c].snap[r] = "terminal" THEN managed \ {r} ELSE managed
  /\ recon' = Advance(c, r)
  /\ UNCHANGED <<run, cleanup, member, space, err, pc, thread, overlay, session, schedVars,
                 aborted, reconFrame, faults>>

\* A queued run that never started is submitted again.
ReconAccept(c, r) ==
  /\ recon[c].pc = "next" /\ Newest(c, r) /\ ~Owned(c, r)
  /\ recon[c].snap[r] = "queued" /\ ~HasResources(r)
  /\ AcceptRoot(r, member)
  /\ recon' = Advance(c, r)
  /\ UNCHANGED <<thread, overlay, session, aborted, reconFrame, faults>>

\* reconcileInterruptedRun of a run without resources awaits nothing.
ReconFail(c, r) ==
  /\ recon[c].pc = "next" /\ Newest(c, r) /\ ~Owned(c, r)
  /\ recon[c].snap[r] # "queued" /\ ~HasResources(r)
  /\ IF run[r] \in Terminal
     THEN recon' = Throw(c) /\ UNCHANGED <<run, cleanup, member>>
     ELSE /\ run' = [run EXCEPT ![r] = "failed"]
          /\ cleanup' = [cleanup EXCEPT ![r] = "completed"]
          /\ member' = [m \in Members |->
               IF m \in MembersOf(r) /\ member[m] \notin Terminal \cup {"absent"}
               THEN "failed" ELSE member[m]]
          /\ recon' = Advance(c, r)
  /\ UNCHANGED <<space, managed, err, pc, thread, overlay, session, schedVars, aborted,
                 reconFrame, faults>>

\* reconcileInterruptedRun up to its first await.
ReconClaim(c, r) ==
  /\ recon[c].pc = "next" /\ Newest(c, r) /\ ~Owned(c, r) /\ HasResources(r)
  /\ IF run[r] \in Terminal
     THEN recon' = Throw(c) /\ UNCHANGED <<run, member>>
     ELSE /\ run' = [run EXCEPT ![r] = "finalizing"]
          /\ member' = [m \in Members |->
               IF m \in MembersOf(r) /\ member[m] \notin Terminal \cup {"absent"}
               THEN "finalizing" ELSE member[m]]
          /\ recon' = Working(c, r, {m \in MembersOf(r) : Live(thread[m])},
                             ResourceInstances(r), {})
  /\ UNCHANGED <<cleanup, space, managed, err, pc, thread, overlay, session, schedVars,
                 aborted, reconFrame, faults>>

ReconClose(c, m) ==
  /\ Serving /\ recon[c].pc = "work" /\ m \in recon[c].threads
  /\ \/ /\ CloseSession(m)
        /\ thread' = [thread EXCEPT ![m] = "deleted"]
        /\ UNCHANGED faults
     \/ /\ CloseFails(m)
        /\ thread' = [thread EXCEPT ![m] = "delete-retrying"]
  /\ recon' = Working(c, recon[c].run, recon[c].threads \ {m}, recon[c].insts,
                     recon[c].overlays)
  /\ UNCHANGED <<outVars, overlay, schedVars, aborted, reconFrame>>

\* listActiveForInstance: every overlay of the instance, whichever run owns it.
ReconSweep(c, i) ==
  /\ Serving /\ recon[c].pc = "work" /\ recon[c].threads = {} /\ recon[c].overlays = {}
  /\ i \in recon[c].insts
  /\ recon' = Working(c, recon[c].run, {}, recon[c].insts \ {i},
                     {m \in Members : /\ InstanceOf[m] = i
                                      /\ Live(overlay[m]) /\ overlay[m] # "manual-intervention"})
  /\ UNCHANGED <<outVars, thread, overlay, session, schedVars, aborted, reconFrame, faults>>

\* reconcileInstance: dispose one overlay; an error is reported and passed over.
ReconDispose(c, m) ==
  /\ recon[c].pc = "work" /\ m \in recon[c].overlays
  /\ \/ /\ TerminateMemberThread(m)
        /\ overlay' = [overlay EXCEPT ![m] = "deleted"]
        /\ UNCHANGED faults
     \/ /\ TerminateMemberThread(m) /\ MayFault
        /\ overlay' = [overlay EXCEPT ![m] = "delete-retrying"]
     \/ session[m] = "none" /\ UNCHANGED <<session, overlay, faults>>
     \/ CloseFails(m) /\ UNCHANGED overlay
     \/ /\ MayFault
        /\ overlay' = [overlay EXCEPT ![m] = "manual-intervention"]
        /\ UNCHANGED session
  /\ recon' = Working(c, recon[c].run, recon[c].threads, recon[c].insts,
                     recon[c].overlays \ {m})
  /\ UNCHANGED <<outVars, thread, schedVars, aborted, reconFrame>>

ReconFinish(c) ==
  LET r == recon[c].run
      pending == \E m \in MembersOf(r) :
                   \/ Live(thread[m])
                   \/ Live(overlay[m]) /\ overlay[m] # "manual-intervention"
      manual == \E m \in MembersOf(r) : overlay[m] = "manual-intervention"
  IN
  /\ recon[c].pc = "work"
  /\ recon[c].threads = {} /\ recon[c].insts = {} /\ recon[c].overlays = {}
  /\ \/ /\ pending /\ run[r] = "finalizing"
        /\ cleanup' = [cleanup EXCEPT ![r] = "retrying"]
        /\ recon' = Advance(c, r)
        /\ UNCHANGED <<run, member>>
     \/ /\ ~pending
        /\ member' = [m \in Members |->
             IF m \in MembersOf(r) /\ member[m] \notin Terminal \cup {"absent"}
             THEN "failed" ELSE member[m]]
        /\ \/ /\ run[r] \in {"finalizing", "failed"}
              /\ run' = [run EXCEPT ![r] = "failed"]
              /\ cleanup' = [cleanup EXCEPT ![r] =
                               IF manual THEN "manual-intervention" ELSE "completed"]
              /\ recon' = Advance(c, r)
           \/ /\ run[r] \notin {"finalizing", "failed"}
              /\ recon' = Throw(c)
              /\ UNCHANGED <<run, cleanup>>
     \/ /\ pending /\ run[r] # "finalizing"
        /\ recon' = Throw(c)
        /\ UNCHANGED <<run, cleanup, member>>
  /\ UNCHANGED <<space, managed, err, pc, thread, overlay, session, schedVars, aborted,
                 reconFrame, faults>>

\* The process ends, at any point, and a new one starts with a startup pass.
Restart ==
  /\ mode # "booting" /\ crashes < MaxCrashes
  /\ crashes' = crashes + 1
  /\ mode' = "booting"
  /\ managed' = {} /\ aborted' = {} /\ abandoned' = Members
  /\ runQueue' = <<>> /\ runCount' = 0 /\ runActive' = {}
  /\ memQueue' = [r \in Runs |-> <<>>]
  /\ active' = [r \in Runs |-> {}]
  /\ pc' = [m \in Members |-> "idle"]
  /\ err' = [m \in Members |-> "none"]
  /\ \E c \in Reconcilers :
       recon' = [q \in Reconcilers |-> IF q = c THEN NewPass ELSE IdlePass]
  /\ UNCHANGED <<dbVars, session, faults, retries>>

\* Requests are served once the startup pass has reached its first await.
Listen ==
  /\ mode = "booting"
  /\ \A c \in Reconcilers :
       \/ recon[c].pc = "idle"
       \/ recon[c].pc = "work" /\ recon[c].threads \cup recon[c].overlays # {}
       \/ recon[c].pc = "work" /\ recon[c].insts # {}
  /\ mode' = "up"
  /\ UNCHANGED <<dbVars, session, managed, schedVars, pc, err, aborted, abandoned, recon,
                 boundVars>>

-----------------------------------------------------------------------------
Request ==
  \/ \E r \in Runs : Create(r) \/ Cancel(r)
  \/ \E p, m \in Members : AddMember(p, m)
  \/ \E m \in Members : RetryInvoke(m)

Release == (\E m \in Members : ReleaseMember(m)) \/ (\E r \in Runs : ReleaseRun(r))

Execute(m) ==
  \/ EnsureDone(m) \/ MountDone(m) \/ InjectDone(m)
  \/ InstanceCreates(m) \/ CreateDone(m) \/ CreateFails(m)
  \/ PollCompleted(m) \/ PollFailed(m) \/ PollCancelled(m)

Clean(m) ==
  \/ CloseDone(m) \/ DisposeStarts(m) \/ DisposeRefused(m) \/ UnmountDone(m)
  \/ RetryFire(m)

Reconcile(c) ==
  \/ Tick(c)
  \/ \E r \in Runs : ReconSkip(c, r) \/ ReconAccept(c, r) \/ ReconFail(c, r)
                     \/ ReconClaim(c, r)
  \/ \E m \in Members : ReconClose(c, m) \/ ReconDispose(c, m)
  \/ \E i \in Instances : ReconSweep(c, i)
  \/ ReconFinish(c)

Next ==
  \/ Request
  \/ Release
  \/ \E m \in Members : Execute(m) \/ Clean(m) \/ ToolTimeout(m) \/ LateCreate(m)
  \/ \E c \in Reconcilers : Reconcile(c)
  \/ Stop \/ Restart \/ Listen

Spec == Init /\ [][Next]_vars

(* Every step the process takes on its own is eventually taken: the awaited *)
(* calls answer or time out, the session of a member ends, the tool call    *)
(* times out, timers fire, and a stopped agent is started again.            *)
Fairness ==
  /\ WF_vars(Release)
  /\ \A m \in Members : /\ WF_vars(Execute(m)) /\ WF_vars(Clean(m))
                        /\ WF_vars(ToolTimeout(m))
  /\ \A c \in Reconcilers : WF_vars(Reconcile(c))
  /\ WF_vars(mode = "stopping" /\ Restart)
  /\ WF_vars(Listen)

FairSpec == Spec /\ Fairness
-----------------------------------------------------------------------------
(* Properties                                                              *)

(* No more members than the run's frozen maxConcurrency hold a slot, no     *)
(* more runs than the initiator may have are under way or counted, and      *)
(* nobody waits in a queue while a slot is free (scheduler submit, finish   *)
(* and drain).  A slot that is never given back stays counted.              *)
SlotsRespected ==
  /\ Cardinality(runActive) <= runCount /\ runCount <= RunSlots
  /\ runQueue # <<>> => runCount = RunSlots
  /\ \A r \in Runs : /\ Cardinality(active[r]) <= MaxConcurrency
                     /\ memQueue[r] # <<>> => Cardinality(active[r]) = MaxConcurrency

(* A run whose root executes or waits for a cleanup retry is owned by this  *)
(* process, and a run that a reconcile pass is tearing down is not: startup *)
(* recovery only claims persisted orphans (managedRunIds).                  *)
ExclusiveOwnership ==
  /\ \A r \in Runs : pc[Root(r)] \notin {"idle", "done", "leaked"} => r \in managed
  /\ \A c \in Reconcilers : recon[c].pc = "work" => recon[c].run \notin managed

(* The provider session is closed before its workspace is unmounted         *)
(* (finalizeMember and dispose close first; reconcileInstance too).         *)
ClosedBeforeUnmount ==
  \A m \in Members : overlay[m] \in {"deleting", "deleted"} => session[m] # "live"

(* A finished member leaves no session that still runs, except where its    *)
(* workspace could not be proven to belong to it and needs an operator.     *)
TerminalMemberClosed ==
  \A m \in Members : member[m] \in Terminal /\ session[m] = "live"
                        => overlay[m] = "manual-intervention" /\ thread[m] = "none"

(* A queued run this process owns is in the run queue, and a queued callee  *)
(* of a run it owns is in the member queue: no accepted work is forgotten.  *)
NothingQueuedIsLost ==
  /\ \A r \in managed : member[Root(r)] = "queued" => \E i \in DOMAIN runQueue : runQueue[i] = r
  /\ \A m \in Members : /\ ~IsRoot(m) /\ member[m] = "queued" /\ RunOf(m) \in managed
                        => \E i \in DOMAIN memQueue[RunOf(m)] : memQueue[RunOf(m)][i] = m

(* No step, of an execution, a retry, a cancel or a reconcile pass, changes *)
(* the outcome of a finished run or member.                                 *)
TerminalIsFinal ==
  [][/\ \A r \in Runs : run[r] \in Terminal => run'[r] = run[r]
     /\ \A m \in Members : member[m] \in Terminal => member'[m] = member[m]]_vars

(* The two ways a run is known not to converge: no shared space to retain,  *)
(* or a workspace whose session was never created.                          *)
Unreclaimable(r) ==
  \/ run[r] = "finalizing" /\ space[r] = "none"
  \/ \E m \in MembersOf(r) : session[m] = "none" /\ Live(overlay[m])

(* Every created run ends, through queueing, cancellation, failed cleanups, *)
(* shutdown and restart, unless it is one of the unreclaimable ones.        *)
EveryRunEnds ==
  \A r \in Runs : run[r] # "absent" ~> (run[r] \in Terminal \/ Unreclaimable(r))

-----------------------------------------------------------------------------
(* What comments and tests say, and the code does not do                   *)

(* "Startup recovery must only claim persisted orphans": the workspaces a   *)
(* reconcile pass is about to dispose belong to runs this process does not  *)
(* own.                                                                     *)
SweepsOnlyOrphans ==
  \A c \in Reconcilers : \A m \in recon[c].overlays : RunOf(m) \notin managed

=============================================================================
