-------------------------- MODULE InstanceLifecycle --------------------------
(***************************************************************************)
(* One local instance of a node: the start, stop, restart and delete       *)
(* requests of instances/lifecycle-routes.ts, the InstanceOperationGate    *)
(* they and the recovery queue up in, NodeAgentRecoverySupervisor, the     *)
(* child process of local-adapter.ts and local-process-supervisor.ts, the  *)
(* status reducer of instance-lifecycle-state.ts and the reports of the    *)
(* process that state.ts stores.                                           *)
(*                                                                         *)
(* Abstractions: delays are reduced to whether a retry is due; health,     *)
(* target and version fields are left out; a local instance has no image,  *)
(* Git or convergence work.  A process is a number, reused when it is dead *)
(* and the row does not name it.                                           *)
(***************************************************************************)
EXTENDS Naturals, FiniteSets, SequencesExt

CONSTANTS Procs,        \* process numbers
          MaxCommands,  \* bound: requests of the user
          MaxExits,     \* bound: exits nobody asked for
          MaxFaults,    \* bound: processes that survive SIGKILL too long
          MaxLate,      \* bound: reports handled after the death of their sender
          MaxCrashes    \* bound: ends of the node agent

ASSUME InstanceAssumption ==
  /\ Procs \subseteq Nat \ {0} /\ IsFiniteSet(Procs)
  /\ MaxCommands \in Nat /\ MaxExits \in Nat /\ MaxFaults \in Nat
  /\ MaxLate \in Nat /\ MaxCrashes \in Nat

VARIABLES
  status,      \* the status of the row, "gone" when there is none
  known,       \* the process whose port and nonce the row has, or 0
  inc,         \* the process whose incarnation id the row has, or 0
  proc,        \* processes: "new", "booting", "serving", "dying" (signalled), "dead"
  enrolled,    \* processes whose registration was accepted
  child,       \* the child the process supervisor tracks, or 0
  ready,       \* it is in readyChildren: its exit is reported
  gate,        \* operations of the gate, the first one is running
  op,          \* where the running operation stands
  suppressed,  \* suppressedInstances
  pending,     \* pendingUnexpectedExits
  restored,    \* restoredInstances
  retry,       \* restoreErrors: "none", "waiting" or "due"
  mode,        \* the agent: "up", "stopping" or "down"
  last,        \* history: the last request of the user
  moot,        \* history: it failed, or died with the agent
  reported,    \* history: a report was stored after it was done, when it was a stop
  used         \* the counters of the bounds

row == <<status, known, inc>>
procs == <<proc, enrolled, child, ready>>
recovery == <<suppressed, pending, restored, retry>>
history == <<last, moot, reported>>
vars == <<status, known, inc, proc, enrolled, child, ready, gate, op, suppressed, pending, restored, retry,
          mode, last, moot, reported, used>>

Restorable == {"provisioning", "starting", "registering", "registered", "running"}
Ended == {"failed", "stopping", "stopped", "deleting"}
Commands == {"start", "stop", "restart", "delete"}
Starts == {"start", "restart", "restore"}

Alive == {n \in Procs : proc[n] \notin {"new", "dead"}}
Serving == {n \in Procs : proc[n] = "serving"}
Head1 == gate[1]
UserOps == {i \in DOMAIN gate : gate[i].kind # "restore"}

\* base, inc: what the operation may put back.  seen: what revised the row since its
\* baseline.  exited: restoreErrors has changed.  aim: the process it waits for.  asked:
\* that one is no child of the agent and was asked over its port to shut down.
NoOp ==
  [pc |-> "idle", base |-> "created", inc |-> 0, seen |-> "none", exited |-> FALSE, aim |-> 0, asked |-> FALSE]

Init ==
  /\ status = "created" /\ known = 0 /\ inc = 0
  /\ proc = [n \in Procs |-> "new"] /\ enrolled = {} /\ child = 0 /\ ready = FALSE
  /\ gate = <<>> /\ op = NoOp
  /\ suppressed = FALSE /\ pending = FALSE /\ restored = FALSE /\ retry = "none"
  /\ mode = "up" /\ last = "none" /\ moot = FALSE /\ reported = FALSE
  /\ used = [commands |-> 0, exits |-> 0, faults |-> 0, late |-> 0, crashes |-> 0]

-----------------------------------------------------------------------------
(* The gate.                                                               *)

\* Stop and delete invalidate the intents of the operations requested before.
Invalidated(ops) == [i \in DOMAIN ops |-> [ops[i] EXCEPT !.valid = FALSE]]

Request(c) ==
  /\ mode = "up" /\ status # "gone" /\ used.commands < MaxCommands
  /\ gate' = Append(IF c \in {"stop", "delete"} THEN Invalidated(gate) ELSE gate,
                    [kind |-> c, valid |-> TRUE])
  /\ last' = c /\ moot' = FALSE /\ reported' = FALSE
  /\ used' = [used EXCEPT !.commands = @ + 1]
  /\ UNCHANGED <<row, procs, op, recovery, mode>>

\* Variant: the gate is not released when the operation throws.
ReleaseOnReturn(threw) ==
  /\ gate' = IF threw THEN gate ELSE Tail(gate)
  /\ op' = IF threw THEN [NoOp EXCEPT !.pc = "thrown"] ELSE NoOp
  /\ UNCHANGED moot

\* The running operation returns or throws, and the gate lets the next one in.  The
\* flag tells whether the last request of the user has failed.
Release(threw) ==
  /\ gate' = Tail(gate)
  /\ op' = NoOp
  /\ moot' = (moot \/ (threw /\ Head1.kind # "restore" /\ UserOps = {1}))

At(pc, kinds) == mode # "down" /\ gate # <<>> /\ op.pc = pc /\ Head1.kind \in kinds

Goto(pc) == op' = [op EXCEPT !.pc = pc] /\ UNCHANGED <<gate, moot>>

-----------------------------------------------------------------------------
(* NodeAgentRecoverySupervisor.                                            *)

\* Variant: an instance that was stopped is not suppressed.
CandidateUnsuppressed == ~restored /\ retry # "waiting" /\ status \in Restorable \cup {"failed"}

\* Variant: a failed local instance is no candidate.
CandidateRunning == ~restored /\ ~suppressed /\ retry # "waiting" /\ status \in Restorable

\* isRestoreCandidate
Candidate ==
  /\ ~restored /\ ~suppressed /\ retry # "waiting"
  /\ status \in Restorable \cup {"failed"}

\* Variant: the instance stays in restoredInstances.
ApplyExitRestored == status' = "failed" /\ retry' \in {"waiting", "due"} /\ UNCHANGED restored

\* applyUnexpectedLocalExit: the first exit is retried at once, the next ones later.
ApplyExit == status' = "failed" /\ restored' = FALSE /\ retry' \in {"waiting", "due"}

\* allowRecovery, when the status would become s.
AllowRecovery(s) ==
  /\ suppressed' = FALSE /\ pending' = FALSE
  /\ IF pending THEN ApplyExit ELSE status' = s /\ UNCHANGED <<restored, retry>>

\* markRestored
Recoverable(s) == s \notin {"failed", "stopping", "stopped"}
MarkRestored(s) ==
  /\ restored' = (restored \/ Recoverable(s))
  /\ retry' = IF Recoverable(s) THEN "none" ELSE retry

\* One cycle at a time waits for its restore; a cycle without a candidate does nothing.
Cycle ==
  /\ mode = "up" /\ Candidate
  /\ \A i \in DOMAIN gate : gate[i].kind # "restore"
  /\ gate' = Append(gate, [kind |-> "restore", valid |-> TRUE])
  /\ UNCHANGED <<row, procs, op, recovery, mode, history, used>>

RetryDue ==
  /\ retry = "waiting" /\ mode # "down"
  /\ retry' = "due"
  /\ UNCHANGED <<row, procs, gate, op, suppressed, pending, restored, mode, history, used>>

-----------------------------------------------------------------------------
(* Stopping the process, the first part of every operation.                *)

\* Variant: the child is signalled and not waited for.
SignalOnly(o) ==
  /\ child' = 0 /\ ready' = FALSE
  /\ proc' = IF child = 0 THEN proc ELSE [proc EXCEPT ![child] = "dying"]
  /\ op' = [o EXCEPT !.pc = "quiesce"]

\* Variant: the child stays in readyChildren, and its exit counts as unexpected.
SignalUnexpected(o) ==
  /\ proc' = IF child = 0 THEN proc ELSE [proc EXCEPT ![child] = "dying"]
  /\ op' = [o EXCEPT !.aim = child, !.pc = IF child = 0 THEN "ask" ELSE "quiesce"]
  /\ UNCHANGED <<child, ready>>

\* LocalProcessSupervisor.stop up to its first await: a tracked child is signalled and
\* no longer tracked.
SignalChild(o) ==
  /\ child' = 0 /\ ready' = FALSE
  /\ proc' = IF child = 0 THEN proc ELSE [proc EXCEPT ![child] = "dying"]
  /\ op' = [o EXCEPT !.aim = child, !.pc = IF child = 0 THEN "ask" ELSE "quiesce"]

\* The first step of the running operation.
BeginStart ==
  /\ At("idle", {"start", "restart"})
  /\ Head1.valid
  /\ suppressed' = FALSE /\ pending' = FALSE
  /\ restored' = (restored /\ ~pending)
  /\ retry' \in IF pending THEN {"waiting", "due"} ELSE {retry}
  /\ status' = IF Head1.kind = "start" THEN "starting" ELSE IF pending THEN "failed" ELSE status
  /\ SignalChild(NoOp)
  /\ UNCHANGED <<known, inc, enrolled, gate, mode, history, used>>

\* INSTANCE_OPERATION_SUPERSEDED, or the instance is gone by now.
Supersede ==
  /\ \/ At("idle", {"start", "restart"}) /\ ~Head1.valid
     \/ At("idle", {"stop", "delete"}) /\ status = "gone"
  /\ Release(TRUE)
  /\ UNCHANGED <<row, procs, recovery, mode, last, reported, used>>

\* Variant: the restore trusts what the cycle saw before the gate.
BeginRestoreAnyway ==
  /\ At("idle", {"restore"})
  /\ SignalChild(NoOp) /\ status' = "starting"
  /\ UNCHANGED <<known, inc, enrolled, gate, recovery, mode, history, used>>

\* The restore looks at the row again; when the agent stops it returns.
BeginRestore ==
  /\ At("idle", {"restore"})
  /\ IF mode = "up" /\ Candidate
     THEN SignalChild(NoOp) /\ status' = "starting" /\ UNCHANGED <<gate, moot>>
     ELSE Release(FALSE) /\ UNCHANGED <<proc, child, ready, status>>
  /\ UNCHANGED <<known, inc, enrolled, recovery, mode, last, reported, used>>

\* stop-requested and suppressRecovery; no restore can be active behind the gate.
BeginStop ==
  /\ At("idle", {"stop", "delete"}) /\ status # "gone"
  /\ suppressed' = TRUE
  /\ status' = IF Head1.kind = "delete" /\ status = "deleting" THEN status ELSE "stopping"
  /\ op' = [NoOp EXCEPT !.pc = "halt", !.base = status, !.inc = inc]
  /\ UNCHANGED <<known, inc, procs, gate, pending, restored, retry, mode, history, used>>

Halt ==
  /\ At("halt", {"stop", "delete"})
  /\ status' = IF Head1.kind = "delete" THEN "deleting" ELSE status
  /\ SignalChild(op)
  /\ UNCHANGED <<known, inc, enrolled, gate, recovery, mode, history, used>>

\* The end of an operation that throws, by kind; a delete puts the whole row back.
OpFails ==
  /\ Release(TRUE)
  /\ inc' = IF Head1.kind = "delete" THEN op.inc ELSE inc
  /\ CASE Head1.kind = "start" -> status' = "failed" /\ UNCHANGED recovery
       [] Head1.kind = "restart" -> UNCHANGED <<status, recovery>>
       [] Head1.kind = "restore" ->
            IF mode = "up" /\ ~suppressed
            THEN status' = "failed" /\ retry' = "waiting" /\ UNCHANGED <<suppressed, pending, restored>>
            ELSE UNCHANGED <<status, recovery>>
       [] Head1.kind = "stop" -> AllowRecovery(IF status = "stopping" THEN op.base ELSE status)
       [] Head1.kind = "delete" -> AllowRecovery(op.base)

\* No tracked child: the process the row knows is asked to shut down, another one that
\* serves this instance is terminated by its pid, or stays unverified and the stop
\* throws.  A process that does not serve yet is not noticed.
Ask ==
  /\ At("ask", Commands \cup Starts)
  /\ \/ /\ Serving = {}
        /\ Goto("quiesce") /\ UNCHANGED <<proc, row, recovery>>
     \/ \E n \in Serving :
          /\ proc' = [proc EXCEPT ![n] = "dying"]
          /\ op' = [op EXCEPT !.pc = "quiesce", !.aim = n, !.asked = (n = known)]
          /\ UNCHANGED <<gate, moot, row, recovery>>
     \/ /\ Serving # {}
        /\ OpFails /\ UNCHANGED <<proc, known>>
  /\ UNCHANGED <<enrolled, child, ready, mode, last, reported, used>>

\* The process is gone, or its port no longer answers, which is all that is awaited of one
\* that was asked.
Quiet == op.aim \notin Alive \/ op.asked

\* The process did not exit after SIGKILL, or still answers when the time is over.
Unconfirmed ==
  /\ At("quiesce", Commands \cup Starts) \/ At("reap", Starts)
  /\ op.aim \in Alive /\ used.faults < MaxFaults
  /\ used' = [used EXCEPT !.faults = @ + 1]
  /\ OpFails
  /\ UNCHANGED <<known, procs, mode, last, reported>>

\* stop-completed and completeSuppressedOperation; recovery stays suppressed.
StopCompleted ==
  /\ At("quiesce", {"stop"}) /\ Quiet
  /\ status' = "stopped"
  /\ pending' = FALSE /\ restored' = FALSE /\ retry' = "none"
  /\ Release(FALSE)
  /\ UNCHANGED <<known, inc, procs, suppressed, mode, last, reported, used>>

\* The row goes, with all that recovery knows and the intent of what is still queued.
DeleteCompleted ==
  /\ At("quiesce", {"delete"}) /\ Quiet
  /\ status' = "gone" /\ known' = 0 /\ inc' = 0
  /\ suppressed' = FALSE /\ pending' = FALSE /\ restored' = FALSE /\ retry' = "none"
  /\ gate' = Invalidated(Tail(gate)) /\ op' = NoOp
  /\ UNCHANGED <<procs, mode, history, used>>

-----------------------------------------------------------------------------
(* Starting it.                                                            *)

Unused == Procs \ (Alive \cup {known, inc})

\* spawn and track, or a port in use, or a command that cannot be started.
Spawn ==
  /\ At("quiesce", Starts) /\ Quiet
  /\ \/ /\ Unused # {}
        /\ LET n == Min(Unused) IN
             /\ proc' = [proc EXCEPT ![n] = "booting"]
             /\ child' = n /\ enrolled' = enrolled \ {n}
             /\ op' = [op EXCEPT !.pc = "boot", !.aim = n, !.asked = FALSE]
        /\ UNCHANGED <<row, recovery, gate, moot>>
     \/ /\ OpFails
        /\ UNCHANGED <<proc, enrolled, child, known>>
  /\ UNCHANGED <<ready, mode, last, reported, used>>

\* runtime-lifecycle-completed: an end recorded meanwhile stays, a report wins over the
\* observation of the adapter.
CompletedStatus ==
  IF (op.seen # "none" /\ status \in Ended) \/ op.seen = "report" THEN status ELSE "registering"

Superseded == op.seen # "none" /\ status \in Ended

Complete ==
  /\ status' = CompletedStatus
  /\ known' = IF Superseded THEN known ELSE op.aim
  /\ UNCHANGED inc

\* waitUntilHealthy and markReady; a restart completes at once, the others probe first.
BecomeReady ==
  /\ At("boot", Starts)
  /\ proc[op.aim] = "serving" /\ child = op.aim
  /\ ready' = TRUE
  /\ IF Head1.kind = "restart"
     THEN Complete /\ MarkRestored(CompletedStatus) /\ Goto("import")
     ELSE Goto("probe") /\ UNCHANGED <<row, restored, retry>>
  /\ UNCHANGED <<proc, enrolled, child, suppressed, pending, mode, last, reported, used>>

\* The time is over, the process has exited, or another one answers on its port.
NotReady ==
  /\ At("boot", Starts)
  /\ child' = 0
  /\ proc' = IF proc[op.aim] = "dead" THEN proc ELSE [proc EXCEPT ![op.aim] = "dying"]
  /\ Goto("reap")
  /\ UNCHANGED <<row, enrolled, ready, recovery, mode, last, reported, used>>

Reap ==
  /\ At("reap", Starts) /\ Quiet
  /\ OpFails
  /\ UNCHANGED <<known, procs, mode, last, reported, used>>

\* A start that a stop has overtaken leaves the rest to it.
Probe ==
  /\ At("probe", {"start", "restore"})
  /\ Complete
  /\ IF Head1.kind = "start" /\ ~Head1.valid THEN Release(FALSE) /\ UNCHANGED <<restored, retry>>
     ELSE /\ Goto("import")
          /\ IF Head1.kind = "start" THEN MarkRestored(CompletedStatus) ELSE UNCHANGED <<restored, retry>>
  /\ UNCHANGED <<procs, suppressed, pending, mode, last, reported, used>>

\* After autoImport: a restart checks its intent once more, a restore is marked unless
\* an exit was reported meanwhile, and fails when the instance does not run.
Import ==
  /\ At("import", Starts)
  /\ IF Head1.kind # "restore"
     THEN Release(Head1.kind = "restart" /\ ~Head1.valid) /\ UNCHANGED <<status, inc, recovery>>
     ELSE IF mode = "up" /\ ~op.exited /\ ~Recoverable(status) THEN OpFails
     ELSE /\ Release(FALSE)
          /\ IF mode = "up" /\ ~op.exited THEN MarkRestored(status) ELSE UNCHANGED <<restored, retry>>
          /\ UNCHANGED <<status, inc, suppressed, pending>>
  /\ UNCHANGED <<known, procs, mode, last, reported, used>>

-----------------------------------------------------------------------------
(* The process.                                                            *)

\* One process per host user holds the singleton lock and serves.
Serve(n) ==
  /\ proc[n] = "booting" /\ Serving = {}
  /\ proc' = [proc EXCEPT ![n] = "serving"]
  /\ UNCHANGED <<row, enrolled, child, ready, gate, op, recovery, mode, history, used>>

\* The exit event; handleUnexpectedLocalExit if the child was ready and not signalled.
Exit(n) ==
  /\ n \in Alive
  /\ proc[n] # "dying" => used.exits < MaxExits
  /\ used' = IF proc[n] = "dying" THEN used ELSE [used EXCEPT !.exits = @ + 1]
  /\ proc' = [proc EXCEPT ![n] = "dead"]
  /\ child' = IF child = n THEN 0 ELSE child
  /\ ready' = (ready /\ child # n)
  /\ IF ~(child = n /\ ready /\ mode = "up") THEN UNCHANGED <<status, op, recovery>>
     ELSE IF suppressed
     THEN pending' = TRUE /\ UNCHANGED <<status, op, suppressed, restored, retry>>
     ELSE /\ ApplyExit
          /\ op' = IF op.pc = "idle" THEN op ELSE [op EXCEPT !.seen = "exit", !.exited = TRUE]
          /\ UNCHANGED <<suppressed, pending>>
  /\ UNCHANGED <<known, inc, enrolled, gate, mode, history>>

\* registerInstance of a process that is not registered yet, or heartbeatInstance, which
\* refuses another incarnation than the one of the row: the status of the report is
\* stored whatever the row says.
Report(n) ==
  /\ mode # "down" /\ status # "gone"
  /\ \/ proc[n] \in {"serving", "dying"} /\ UNCHANGED used
     \/ proc[n] = "dead" /\ used.late < MaxLate /\ used' = [used EXCEPT !.late = @ + 1]
  /\ n \in enrolled => inc \in {0, n}
  /\ status' = IF n \in enrolled THEN "running" ELSE "registered"
  /\ inc' = n /\ enrolled' = enrolled \cup {n}
  /\ op' = IF op.pc = "idle" THEN op ELSE [op EXCEPT !.seen = "report"]
  /\ reported' = (reported \/ (last = "stop" /\ UserOps = {}))
  /\ UNCHANGED <<known, proc, child, ready, gate, recovery, mode, last, moot>>

-----------------------------------------------------------------------------
(* The node agent.                                                         *)

\* The agent stops: no new requests.  The ones that came over HTTP are answered first, the
\* ones from IPC, the reverse tunnel and the cloud relay are not waited for.
Shutdown ==
  /\ mode = "up" /\ used.crashes < MaxCrashes
  /\ mode' = "stopping"
  /\ UNCHANGED <<row, procs, gate, op, recovery, history, used>>

\* The memory of the agent: its children, the gate and the recovery supervisor.
Forgotten ==
  /\ child' = 0 /\ ready' = FALSE /\ gate' = <<>> /\ op' = NoOp
  /\ suppressed' = FALSE /\ pending' = FALSE /\ restored' = FALSE /\ retry' = "none"
  /\ mode' = "down"
  /\ used' = [used EXCEPT !.crashes = @ + 1]

\* A request of the user died with the agent.
Unknowable == moot' = (moot \/ UserOps # {})

\* stop() has waited for the active cycle and stops the tracked child.
StopAll ==
  /\ mode = "stopping" /\ \A i \in DOMAIN gate : gate[i].kind # "restore"
  /\ proc' = IF child = 0 THEN proc ELSE [proc EXCEPT ![child] = "dead"]
  /\ Forgotten
  /\ Unknowable
  /\ UNCHANGED <<row, enrolled, last, reported>>

\* The agent dies; the instance may outlive it.
Crash ==
  /\ mode # "down" /\ used.crashes < MaxCrashes
  /\ Forgotten
  /\ Unknowable
  /\ UNCHANGED <<row, proc, enrolled, last, reported>>

Start ==
  /\ mode = "down"
  /\ mode' = "up"
  /\ UNCHANGED <<row, procs, gate, op, recovery, history, used>>

-----------------------------------------------------------------------------
OpStep ==
  \/ BeginStart \/ Supersede \/ BeginRestore \/ BeginStop \/ Halt \/ Ask \/ Unconfirmed
  \/ StopCompleted \/ DeleteCompleted \/ Spawn \/ BecomeReady \/ NotReady \/ Reap \/ Probe \/ Import

Next ==
  \/ \E c \in Commands : Request(c)
  \/ \E n \in Procs : Serve(n) \/ Exit(n) \/ Report(n)
  \/ OpStep \/ Cycle \/ RetryDue \/ Shutdown \/ StopAll \/ Crash \/ Start

Spec == Init /\ [][Next]_vars

\* Fairness: the running operation goes on (every wait of it has a time limit), a
\* signalled process exits, the recovery timer fires, and a stopped agent is started.
FairSpec ==
  /\ Spec
  /\ WF_vars(OpStep) /\ WF_vars(Cycle) /\ WF_vars(RetryDue) /\ WF_vars(StopAll) /\ WF_vars(Start)
  /\ \A n \in Procs : WF_vars(proc[n] = "dying" /\ Exit(n))

-----------------------------------------------------------------------------
\* The type of every variable; a child is marked ready only while it is tracked and alive.
TypeOK ==
  /\ status \in Restorable \cup Ended \cup {"created", "gone"}
  /\ known \in Procs \cup {0} /\ inc \in Procs \cup {0} /\ child \in Procs \cup {0}
  /\ proc \in [Procs -> {"new", "booting", "serving", "dying", "dead"}]
  /\ enrolled \subseteq Procs
  /\ ready \in BOOLEAN /\ (ready => child # 0 /\ proc[child] = "serving")
  /\ \A i \in DOMAIN gate : gate[i] \in [kind : Commands \cup {"restore"}, valid : BOOLEAN]
  /\ op.pc \in {"idle", "halt", "ask", "quiesce", "boot", "reap", "probe", "import"}
  /\ op.aim \in Procs \cup {0} /\ op.asked \in BOOLEAN
  /\ suppressed \in BOOLEAN /\ pending \in BOOLEAN /\ restored \in BOOLEAN
  /\ retry \in {"none", "waiting", "due"} /\ mode \in {"up", "stopping", "down"}

\* The gate and the stop that precedes every spawn: two processes of the instance never
\* run side by side, unless the agent died or a process outlived its SIGKILL.
SingleProcess == used.crashes = 0 /\ used.faults = 0 => Cardinality(Alive) <= 1

\* When the gate is empty, the row and the process are what the last request asked for,
\* whatever was queued before it, superseded by it or started by recovery in between
\* (unless the request failed).  A late report may still rewrite the status.
LastCommandWins ==
  mode = "up" /\ UserOps = {} /\ ~moot /\ used.late + used.crashes + used.faults = 0 =>
    /\ last = "stop" => status = "stopped" /\ Alive = {}
    /\ last = "delete" => status = "gone" /\ Alive = {}
    /\ last \in {"start", "restart"} => status \notin {"created", "stopping", "stopped", "deleting", "gone"}

\* Recovery does not start an instance that was stopped last: not by a restore that was
\* queued before the stop, not by a late report that stores "running" while the agent of
\* the stop is up, and not after a restart of the agent.  One case is left out because the
\* code does start the instance there: a report was stored after the stop, before or after
\* a restart of the agent, and recovery is no longer suppressed.  suppressedInstances is
\* memory, and the row, which says "running" by then, is all the next agent has.
StoppedStaysStopped ==
  last = "stop" /\ ~moot /\ UserOps = {} /\ gate # <<>> /\ (suppressed \/ ~reported) => op.pc = "idle"

\* An instance that should run and has no process is one that recovery will restore,
\* unless a start or restart of the user was the last to fail, or a report of a dead
\* process or of one an earlier agent left behind was believed.
NotForgotten ==
  /\ mode = "up" /\ gate = <<>> /\ Alive = {} /\ status \in Restorable \cup {"failed"}
  /\ used.late + used.faults + used.crashes = 0 /\ ~moot /\ last # "stop"
  => ~restored /\ ~suppressed

\* InstanceOperationGate.run: however operations fail, the gate becomes free again and
\* again.
GateDrains == []<>(gate = <<>>)

\* An unexpected exit or a failed restore is followed by another attempt, or by a request
\* of the user, or by the end of the agent.
RecoveryAttempted ==
  (mode = "up" /\ status = "failed" /\ retry # "none") ~>
     (op.pc \in {"ask", "quiesce"} \/ restored \/ status \in {"stopping", "deleting"} \/ mode # "up")
=============================================================================
