# Task Handoff: a verification project

Task Handoff runs coding agents on many machines. A **Control Plane** serves users; a
**Node Agent** on each machine owns the machine's controlled instances, its Stories and its
Agent Runs; a **Controlled Instance** is the container or host environment in which the
provider sessions (Codex, Claude, OpenCode) live. This directory holds TLA+ modules for the
parts in which ordering, failure and restart decide whether the system is correct, TLC
configurations that check them on small instances, and TLAPS proofs of what was worth
proving for every instance. Source paths below are relative to the repository root.

## Inventory

| Component | State | Operations | Hard behaviour | What makes it correct |
|---|---|---|---|---|
| Agent Run coordinator (`packages/node-agent/src/agents/run-coordinator.ts`) | managed run ids, abort controllers, retry timers, completion waiters | accept, cancel, stop, reconcile, execute and finalize a member | every method awaits; reconcile passes overlap; restart at any point | close before unmount, final outcomes, every run ends, one owner per run |
| Agent Run service and repositories (`run-service.ts`, `persistence/agent-run-*.ts`) | SQLite rows of runs, members, resources, shared spaces | create, addMember, cancel, transitions | repeated requests, refused transitions | budgets respected, no outcome overwritten |
| Scheduler runtime (`packages/core/src/core/scheduler-runtime.ts`) | running counts and queues per key | submit, finish, drain, clearQueued, stop | limits; entries whose work is already done | slots never exceeded, nobody waits beside a free slot |
| Workspace storage and shared spaces (`docker-agent-run-storage.ts`, `agent-run-shared-space.ts`) | overlay mounts, directories | prepare, rollback, dispose, reconcileInstance, ensure, retain, expire | partial failure, ownership that cannot be proven | nothing removed under a live session, nothing left behind |
| Member sessions (`member-session-client.ts`, `controlled-instance/src/web/server.ts`) | binding of a member to its session | create, status, close | lost answers | closed sessions stay closed |
| Process singleton lock (`packages/core/src/core/process-singleton-lock.ts`) | lock directory with owner, initialization and recovery files | acquire, updateDetails, release | contenders race by single file system calls; processes die anywhere | at most one holder |
| Story store (`node-agent/src/stories/store.ts`, `command-service.ts`, `operation-coordinator.ts`) | document files, index rows, intent rows, one lock per Story | write, move, delete, read, list, archive, delete the Story, recover | files and SQLite cannot change together; death between any two steps; readers without the lock | a request happens once, as a whole or not at all; nothing is left over |
| Story scheduler (`stories/scheduler.ts`, `automation-store.ts`, `action-execution-service.ts`) | run rows, running counts, queues, completions | create, submit, execute, skip, conclude, resume | callers overlap at every await; sessions end elsewhere | limit and order, no queued run forgotten, slots given back |
| Instance lifecycle (`recovery-supervisor.ts`, `instances/`, `instance-lifecycle-state.ts`, `runtimes/local-*.ts`) | instance row, child process, gate, recovery memory | start, stop, restart, delete, restore | recovery against requests; exits and reports at any time; processes that outlive the agent | one process, the last request wins, a crashed instance comes back and a stopped one does not |
| AI session queue (`ai-session-runtime/src`, `controlled-instance/src/web/server.ts`) | queue items, pause, session status, attachments | enqueue, dispatch, steer, retry, remove, edit, reorder, pause, interrupt | answers and events of the provider in any order; lost answers; restart | no message lost, none sent twice by itself, stop means stop |
| Connections (`runtime-shared/src/transport`, `cloud-relay`) | socket, generation, backoff | connect, close, frames | late events of an old socket | only the current generation acts |
| Control Plane (`packages/control-plane`) | users, nodes, projections, chat gateway, approvals | HTTP and event routing | delivery to disconnected nodes | projections follow the nodes |

The user interfaces, the client library, the Rust port of the Controlled Instance, images and
scripts, model relay, updates and protocol schemas carry presentation, data or I/O; they are
listed in `PROJECT.json` with the reason they are not modelled.

The parts interact as follows. A route of the Node Agent (a Story tool, the Control Plane or
the session of a running member) calls the Agent Run service, which writes SQLite and calls
the coordinator. The coordinator submits the run to the run scheduler (two runs per
initiator) and the root and its callees to the member scheduler (`maxConcurrency` per run).
An execution prepares the shared space and the overlay workspace through Docker, creates the
provider session in the Controlled Instance by HTTP, and polls it. Its end closes the
session, disposes the workspace, and writes the outcome. A pass of `reconcile()` runs at
startup and every five seconds and takes over runs that no living coordinator owns.

A Story automation fires in the Node Agent's Story scheduler, which shares the scheduler
runtime with the coordinator and dispatches an AI session to a Controlled Instance over HTTP;
heartbeats of the instance tell it how the session ended. Local instances are child processes
of the Node Agent; the process registers and reports over HTTP, takes the singleton lock, and
serves the AI sessions whose message queues it drains.

## Plan

1. `AgentRun`: the coordinator with everything it drives. Done.
2. `SingletonLock`: one Node Agent per data directory, on which 1 rests. Done.
3. Proofs of `AgentRun`: type correctness and the two safety results. Done.
4. `DocumentStore`, what the files of a Story promise, and `StoryStore`, shown to implement it
   through failures and deaths. Done.
5. `StoryScheduler`: the scheduler runtime with policies, over the rows of the runs. Done.
6. `InstanceLifecycle`: operation gate, recovery supervisor, child process. Done for local
   instances; Docker instances with provisioning and `runtime-convergence.ts` are left.
7. `MessageQueue`: the queue of an AI session and its dispatch. Done.
8. `RelayChannel`: the multiplexed channel of the cloud relay (`node-relay-session.ts`,
   `cloud-relay/channel.ts`): pause and resume per stream, control frames overtaking data, and
   close against data still queued; then `ConnectionSupervisor`. Next.
9. `SharedSpaceExpiry`: retained spaces, their expiry and its retries, composed with `AgentRun`.
10. Proofs of the components. Done for the safety properties of every module, the refinement of
    4 included, except `TerminalMemberClosed` of `AgentRun`, which is not true in general.

## Modules

* `AgentRun`: the model; `MCAgentRun` gives TLC the assignments of members to instances
  and the symmetry of overlapping reconcile passes.
* `AgentRunProofs`: type correctness, the inductive invariant, closing before unmounting, and
  final outcomes. `AgentRunOwnershipProofs`: accepted work, ownership of
  runs, and slots.
* `SingletonLock`: the model; `MCSingletonLock` adds the symmetry of processes;
  `SingletonLockProofs`: types, and what the files of the lock directory say.
* `DocumentStore`: the abstract specification of a Story's files; `StoryStore`: the code, with
  the refinement mapping at its end; `MCStoryStore`; `StoryStoreProofs`: types and `NoLitter`;
  `StoryRefinementProofs`: the refinement and the two invariants that come with it.
* `StoryScheduler` with `MCStoryScheduler` (two policies) and `StorySchedulerProofs`,
  `InstanceLifecycle` with `MCInstanceLifecycle` and `InstanceLifecycleProofs`, `MessageQueue`
  with `MCMessageQueue` and `MessageQueueProofs`.

A definition whose comment begins with "Variant:" is not part of a specification. It is a
mistake one could make in the definition after it, and is used to see that a property notices.

### AgentRun

One action is one synchronous segment of the Node.js event loop: it begins where an await
returns (or a request or timer arrives) and ends at the next await, and it contains every
write that segment makes. SQLite rows (`run`, `member`, `parent`, `depth`, `cleanup`,
`thread`, `overlay`, `space`) survive `Restart`; everything else of the process is lost.
`session` is the state of the Controlled Instance.

* A member is `<<run, k>>`; `k = 0` is the root. Runs are numbered in creation order, which is
  the order of `created_at`. All runs have one initiator: initiators do not share anything.
* `pc` names the await an execution is in: `ensuring`, `mounting`, `injecting`, `creating`,
  `polling`, then `closing`, `disposing`, `unmounting` of `finalizeMember`, `retryWait` for the
  cleanup timer, `done`, and `leaked` for an exception that leaves `finalizeMember`.
* `Settle` is the end of `finalizeMember`, `CleanupFailed` its error path, `Finalize` its part
  up to the first await, `Begin` the first segment of `executeMember`.
* An error is "cancelled" or "failed". Prompts, results, timelines and events are left out.
* A session answers close with 404 when it was never created. A close whose answer is lost may
  or may not have been carried out.
* `InstanceCreates` is the create route while the node waits for the answer, `LateCreate` the
  same route for a request the node has given up (a broken connection, a restart): nothing
  recalls it, so it may still be carried out at any time, or never (no fairness).
* Definition and orchestration checks only refuse requests and are left out; that the instance,
  its folder or the quota may be gone when a member starts is the second disjunct of `Begin`.
* The passes of `reconcile()` are processes of their own (`Reconcilers`); `ReconClose` and
  `ReconDispose` join the two writes around one awaited call. A run without resources awaits
  nothing on its way through `reconcileInterruptedRun`: `ReconFail` claims and ends it in one
  segment. A snapshot keeps of a status only what the code reads from it: terminal, queued or
  started.
* `runCount` is the running count of the run scheduler, `runActive` the set of runs whose
  `submitRootMember` has not returned. They differ when a pass with a stale snapshot accepts a
  run that has ended: nothing gives its slot back.
* `Blocked`: a session that waits for a callee's tool result cannot finish before the callee
  is terminal or the call is given up (`ToolTimeout`).
* Not modelled here: expiry of retained shared spaces, usage accounting, revisions.

### SingletonLock

One action is one file system call of one process. An owner token is the process; a recovery
token is the process and its attempt. `recovering.json` exists empty between the open and the
write of `writeFileSync`. `initializing.json` is written in one step: a reader treats an empty
one as a recent lock and waits, as it does for a live initializer. `Touch` is the modification
time of the directory, from which the age of an incomplete lock is taken. `Age` lets two
seconds pass only when no live process is in the middle of an attempt. Removing the directory
is one step. A killed process never comes back, and its identity is not reused
(the code compares start identities).

### StoryStore and DocumentStore

The Story directory (`root`), the directory a deletion moved away (`trash`) and the SQLite rows
(`index`, `story`, `intents`, `del`) survive `Crash`. One action is one database write or one
file system call, because a death can come between any two; `Sync` keeps other callers out
where no await separates two file system calls, so that only a death can come between them.
`op` is the operation that holds the lock of `operation-coordinator.ts`.

* `writeContent`: `Accept`, `InsertIntent`, `Receive`, `Prepare`, `MoveAside` (an overwrite),
  `MoveFile`, `RecordStaged`, `Commit`, `RemoveBackup`, `RecordCleanup`, `DeleteIntent`,
  `Answer`. `updateDocument` and `deleteDocument` share these steps, without the upload.
  Errors go through `Fail`, `RollBackPart`, `RollBack` and `DeleteIntent`, or end in `Abandon`,
  which leaves the intent to the next start.
* `deleteCoordinated`: the `Drop` actions. Start: `RecoverPart`, `RecoverFiles`,
  `RecoverIntent` for each mutation row in order, then `RecoverDrop`.
* `list` and `get` take no lock: `List` reads the rows, `Look` opens file after file, and
  `RemoveMissing` is the transaction that removes a row without a file, with the `get` after it,
  which projects the Story again. `readContent` (`Read`) gives the lock back before it removes the
  row of a missing file, and the answers of archive and restore project too. `Unlocked` counts
  these calls; `RowsKept` is about behaviours without them.
* `Close` is the beginning of a shutdown: every database write fails from then on, while
  operations already running go on until they fail.

`DocumentStore` has four variables: the documents, the request in progress with whether it
took effect, the documents without an index row, and the paths whose file a call without the lock
did not find. Its steps are the begin, the single effect and the end of a request, and the two
halves of such a call. `Docs` in `StoryStore` maps them as follows: the documents are what
recovery would leave of the directory if it ran now (`Directory`); a request has taken effect
once its transaction has committed; orphans are files without a row. The refinement therefore
says at once that rollback, recovery and the normal path agree about every intermediate state.
`DocumentStore` grants two exceptions, stated at its head, which the code needs. An interrupted
deletion of the whole Story may take the documents with it. And a call without the lock can miss
the file of a document (`Miss`) while a request is at work, then take its row away (`Forget`), and
a document without a row may be lost (`LoseOrphans`) when a request ends or the process dies or
recovers. A document that has its row cannot: neither a rollback nor a recovery removes it.

### StoryScheduler

One automation. The rows (`status`) and the sessions of the instance (`sess`) survive `Crash`.
A submission to the runtime has a ticket whose number is its place in the order of arrival, and
`ticket[n].pc` names the await of `executeRun` it is in. `Request`, `CreateRun` and `Submit` are
the segments of `handleTimer` and `manualRun`; a second request with the same execution key can
come before the first has created the row. `Finish` is the end of an execution with the drain
of the runtime, in one segment as in the code. `Conclude` and `Resolve` are the two sides of the
await in `reconcileInstances`. `Load` can find any status because rows change while a ticket
waits. `Cool` is the end of the cooldown, at any time.

### InstanceLifecycle

One local instance. `gate` is the promise chain of `InstanceOperationGate`, its first element
the running operation; `valid` is whether its intent is current. `op.pc` is where the running
operation stands: `halt` (a stop, after suppressing recovery), `ask` and `quiesce` (stopping
the process), `boot`, `reap`, `probe`, `import`. Processes are numbers with a state of their own;
`known` and `inc` are what the row knows of them (port and nonce, incarnation). `Report` stores
a registration or a heartbeat as `state.ts` does; one that was sent before its process died may
be handled later (`MaxLate`). `Exit` is the exit event with `handleUnexpectedLocalExit`.
`suppressed`, `pending`, `restored` and `retry` are the fields of the recovery supervisor, lost
at the end of the agent. `Shutdown` does not wait for requests under way: those from IPC, the
reverse tunnel and the cloud relay are not awaited when the server closes. Of a process that is not
tracked and was asked to shut down, a stop awaits only that it no longer answers (`Quiet`).
`last`, `moot` and `reported` are history: the last request, whether its outcome can still be
expected (a request that died with the agent), and whether a report was stored after a stop.

### MessageQueue

One session. `items`, `paused`, `status` and `att` are on disk. `Put` is the registry's write
with the listener of the server that runs inside it, which may begin a dispatch (`Drain`), so
one action contains all three. `sending` is the dispatch the drain waits for, `calls` are the
direct and steered messages. The provider takes a message (`Take`, `TakeDispatched`) before it
answers, and the answer may not come. `turn` is the provider's own view of whether it works.

A synchronous function that writes to disk more than once is cut at its writes, because a death can
come between them: an answer saves the session (`Dispatched`, `Answered`), then commits the
uploads (`Commit`), then removes the item (`FinishRemove`); a removal gives the uploads back
(`RemoveQueued`), then removes the item; a start turns staged uploads into drafts (`Restore`),
then lets the items claim theirs (`Claim`). `work` says which write is next, and nothing else runs
until it is done. A message's text is the number of its edit; `att` says what is left of its
uploads: manifests, drafts, or both, or nothing. `Expire` is `gc`, which removes uploads that were
never committed after 24 hours. `latest`, `sent`, `removed`, `raced`, `held`, `lapsed` and
`retries` are history.

## Runs

Passing:

| Run | Instance | Shows |
|---|---|---|
| `core` | 1 run, root and callee, 1 failing cleanup call, 2 restarts, fairness | `TypeOK`; `ClosedBeforeUnmount`; `TerminalMemberClosed`; `TerminalIsFinal`; `EveryRunEnds` |
| `callees` | root and 2 callees on 2 slots, queue of 1, 1 repeated invocation, 1 restart, 2 overlapping passes | `SlotsRespected`, `NothingQueuedIsLost`, `ClosedBeforeUnmount`, `TerminalIsFinal` |
| `orphans` | 2 runs of 2 members, 1 run slot, 1 member slot, own instance each, 1 restart | `ExclusiveOwnership`, `SlotsRespected`, `NothingQueuedIsLost` |
| `recover` | 3 processes, 3 attempts each, death anywhere except during initialization | `MutualExclusion`, `HolderOnDisk`, `TypeOK` |
| `stories` | 2 documents, 2 contents, 2 operations, 1 list, 1 fault, 2 deaths, fairness | `Refines` (`DocumentStore`), `Settled`, `NoLitter`, `RowsKept`, `LockReleased`, `TypeOK` |
| `scheduler` | 2 runs, 3 submissions, queue of 1, 1 repeated request, 1 restart, fairness; limit 1 with queue, limit 2 with skip and cooldown | `FifoSlots`, `QueuedIsOwned`, `SkippedNeverDispatched`, `RunningHoldsSlot`, `QueuedDecided`, `TypeOK` |
| `instance` | 2 requests, 2 processes, 1 exit, 1 process that survives SIGKILL, 1 late report, 1 end of the agent, fairness | `SingleProcess`, `LastCommandWins`, `StoppedStaysStopped`, `NotForgotten`, `GateDrains`, `RecoveryAttempted`, `TypeOK` |
| `queue` | 3 messages, queue of 2, 2 operations, 1 fault or expired upload, 1 restart, fairness | `NothingLost`, `SentOnce`, `AttachmentsHeld`, `StopHolds`, `QueueMoves`, `TypeOK` |

Violated, each against a sentence of the repository (`findings` in `PROJECT.json`):

| Run | What happens |
|---|---|
| `sweep` | a restarted node accepts a run, and the recovery of an orphan on the same instance disposes the new run's workspace too |
| `claims` | the holder is dead; one contender reads another's claim while it is empty and moves it away, a third claims in the gap, and two processes remove and take the lock |
| `story_delete` | the process dies after the deletion of a Story moved its directory and before the intent names the trash directory; the Story row stays and all its files are unreachable |
| `slots` | the session of a run ends while `publishRun` is awaited; the completion is resolved before anybody waits for it, and the slot is never given back |

**Further disagreements met while modelling.** These were found with earlier instances of the
same modules and have no run of their own; `Unreclaimable` in `AgentRun` and the conditions of
`recover` keep them out of the passing runs.

* `protocol/src/agent-runs.ts:330`, "A run leaves finalizing only after its root member and
  cleanup have both converged.": the root can end while a callee it stopped waiting for still
  runs, and the run is terminal with cleanup completed beside a live session and overlay.
* `agent-run-coordinator.test.ts:298`, "Story-level Run scheduling is FIFO ...": after a restart
  `reconcile()` accepts queued runs in the order of `list()`, newest first.
* `agent-run-coordinator.test.ts:160`, "coordinator cancellation converges through finalizing
  ...": a run cancelled before its root started has no shared space, `retain` throws at every
  retry, and the run stays finalizing.
* `agent-run-coordinator.test.ts:197`, "coordinator keeps cleanup failures in finalizing and
  retries until convergence": when creating the session failed, each close answers 404, and the
  overlay is never disposed.
* A finished member can have a live session where `core` does not look. With a repeated
  invocation, a second entry of a callee stays in the queue; the cleanup of its first execution
  fails, the entry is drained and `executeMember` settles the finalizing member, and the retry
  then closes nothing. With two runs, the session of an orphaned run calls `addMember` while the
  startup pass is busy with a newer run (`run-service.ts:238` does not ask who owns the run): the
  callee executes, the pass fails its member, and its session is created afterwards.
* `src/test/control-plane.test.js:3326`, "process lock allows exactly one concurrent
  child-process owner": also violated when a process dies while it initializes the lock, because
  without an owner the comparison of owner tokens is skipped.
* `node-agent-story-database.test.ts:314`, "... without losing committed content": a `list()`
  during a staged move or delete that is then rolled back leaves the document without its row.
* `process-singleton-lock.ts:234`: `recoverAbandonedClaim` links a claim back that it moved away
  by mistake. Its maker may have noticed meanwhile and gone on to its next attempt; the claim then
  names a live process that will not remove it, and keeps every contender out until it ends.
* A stop suppresses recovery in memory (`recovery-supervisor.ts:126`). A heartbeat that is
  handled after the stop stores "running" (`state.ts:945-985`); when the agent then restarts,
  `isRestoreCandidate` holds and recovery starts the stopped instance. The same happens with a
  report that arrives after the restart. `StoppedStaysStopped` leaves both out by name (`reported`).
* Uploads of a queued message are lost in two ways. `rollbackMessage` removes their manifests before
  `removeQueuedMessage` writes the session; a death in between leaves the item, whose
  `claimMessageAttachments` fails from then on, and the uploads as drafts. And `gc` removes staged
  manifests after 24 hours, also those of a message that still waits. The message is later sent
  without them, without an error. `AttachmentsHeld` leaves both out by name (`lapsed`).
* With three runs and two passes, a run that was cancelled while queued and ended by one pass can be
  accepted by the other from its snapshot; its execution throws, and its slot is not given back.
* With two failing calls, a move whose intent could not be removed is undone by the next start
  although the same move was repeated and succeeded, or a later upload has used its old path.

**Bounds.** `recover` is restricted where the lock does not hold: with a death during
initialization three processes break it, and with a dead holder three contenders do (four
processes in all). Three attempts (five in the code) let a process lose an attempt to a live claim, lose
one to a directory that vanished, and still acquire the lock. For Agent Runs, one restart makes every kind of
orphan and the second one of `core` also interrupts the recovery from the first; one injected fault lets each
cleanup step fail and the retry run; a queue of one and one slot less than members make both the full queue and the
blocked callee happen; two passes are the overlap the five second timer produces.
Two operations on a Story are enough for one to meet what the other left, the second death
interrupts the recovery from the first, and two paths make a move collide with an upload. Three
submissions fill one slot and a queue of one and leave one to be refused; a restart needs a
ticket per unfinished row. Two requests to an instance are a command and the one that
supersedes it, with recovery as the third party; two processes are an old and a new one. A queue
of two with three messages is full, reorderable, and has one message beyond. Constants named
`Max...` are bounds of the models, except `MaxMembers`, `MaxDepth`, `MaxConcurrency` and
`MaxQueued`, which are limits of the code.

Larger instances were run by hand with the same results: three operations on a Story with one
death (417 thousand states), four submissions (556 thousand), and `orphans` with two passes and one
member per run (292 thousand). So was `core` with one slot (20 thousand), where a root waits for a
callee that waits for its slot until the tool call times out.

**Fairness.** `FairSpec` assumes weak fairness of what the process does on its own: released
slots drain, each awaited call of a member answers or fails (`Execute(m)`, `Clean(m)`; HTTP and
helper calls end, the provider session ends), the tool call times out, the reconcile timer
fires, a stopped node is started again, and a started one serves. Nothing is assumed of
requests, of faults and of restarts without a stop. `EveryRunEnds` exempts two states
(`Unreclaimable`): a finalizing run without a shared space, and a workspace whose session was
never created, both described above.
In the Story store a started operation and a started recovery go on (an upload completes or is
aborted, a stream is closed). In the Story scheduler what the event loop has begun goes on, a
dispatch is answered or given up, and heartbeats keep coming; that sessions end is not assumed.
For instances the running operation goes on, since each of its waits has a time limit, a
signalled process exits, the recovery timer fires and a stopped agent is started. In the queue
a provider call is answered or fails, a turn ends or is found to have ended, and writes that
have begun are finished; nothing is assumed of users. That a turn is found to have ended rests on
the snapshots of the provider (`Reconcile`, `reduceAiSessionSnapshot`), not on its events, which
are ignored while the active turn is pending.

`CHECK_DEADLOCK FALSE` is used where the system may come to rest: every contender for the lock
has failed, died or released; and in the four newer modules, whose requests are bounded, nothing
is left to do. In Agent Runs the reconcile timer never stops.

Each property of a passing run has a mutant in `PROJECT.json`, a variant of a definition that
a plausible mistake in the code would produce and under which TLC reports the property.

## Proofs

Every theorem rests on the named assumption of its module (positive numbers, finite sets, values
of the right type) and holds for every value of the constants, so for any number of processes,
runs, faults and restarts. Hypotheses beyond that are part of the theorem's statement and are
explained here.

### Agent Runs

* `TypeCorrect`: `Spec => []TypeOK`. `TypeOK` is inductive; the proof has one lemma per action.
* `SafetyInvariant`: `Spec => []SafetyInv`.
* `NoLiveSessionUnmounted`: `Spec => []ClosedBeforeUnmount`.
* `OutcomesAreFinal`: `Spec => TerminalIsFinal`.

`ClosedBeforeUnmount` is not inductive. An execution in `creating` may make its session live,
so its overlay must be known not to be going away then; that the overlay is not, depends on
the statuses and queues: a member is started once, because an entry left in a queue is either
still queued or void, and a void entry never begins an execution. `SafetyInv` adds to `TypeOK`

* `StatusInv`: a run is recorded exactly when its root is; a queued run has a queued root; a
  member (and for a root its run) in execution has left "queued"; a member that has not started
  has no session and no ready workspace, so no create request of its own under way;
* `QueueInv`: member queues hold callees of their own run; a run in the run queue is owned and
  there once, unless it has ended; a reconcile pass holds only recorded runs, its snapshot is
  stale only in ways that do no harm, and the run it tears down is finalizing or terminal;
* `SessionOK`: `ClosedBeforeUnmount` with what is known at each await: no live session and no
  ready workspace before `creating` (a late create cannot overtake a new start), no vanishing overlay while a session may still be created, a closed session in
  `unmounting`.

Every execution step is shown to be a `Segment`: it writes only its member and, for a root, its
run, never a finished one, and it gives up a run only when it ends it. Finality then follows per
segment; steps of reconcile passes are handled one by one, with the statuses re-read by the code
after each await as the reason they cannot overwrite an outcome. `SafetyInv` was checked with
TLC on the instances of `core`, `callees` and `orphans` before it was proved.

* `AcceptedWorkIsKept`: `Spec => []NothingQueuedIsLost`.
* `RunsHaveOneOwner`, `SlotLimitsHold`: `Spec => []ExclusiveOwnership` and
  `Spec => []SlotsRespected`.

What is queued is not lost because nobody else empties a queue: `AcceptInv` says that a callee
exists only after its run's shared space was made (`SpaceOK`; so `reconcile()`, which accepts
runs without resources, never accepts one with callees, and a root always finds a free slot of
its run), that slots are held by started members only (`ActiveOK`), that a run in the queue has
invoked nobody (`QueueFresh`), and that a member queue is empty while a slot is free
(`MemberSlots`, the member part of `SlotsRespected`). Each step is
shown to go `Forward`, and each execution step to have a `Shape` that refines `Segment` by what
it does to the shared space and the await point.

The last two hold for any number of overlapping passes, each with its stale snapshot. A pass that
ends a run without resources awaits nothing, so it never tears one down that another pass has
accepted; and resources are read when a run's turn comes and not from the snapshot, so no pass
accepts a run with resources. `OwnInv` says, of each run (`OwnedRoot`): its execution is owned and
has not ended; and of each pass (`PassOwned`): what it tears down has resources and is not owned. For slots,
`RunSlotsOK` relates the three records the code keeps of a run in the scheduler: the runs whose
`submitRootMember` has not returned are at most as many as the running count, which is at most the
limit, and nothing waits while the count is below it. The count can be the larger one: a
slot given to a run that had ended stays counted.

### Singleton lock

* `TypeCorrect`: `Spec => []TypeOK`.
* `RefusalsNameAHolder`: `Spec => []RefusedByHolder`, `LiveFilesInUse`:
  `Spec => []NothingLeftByLiving`.

Mutual exclusion is not true for every number of processes and every point of death (`claims`, and
the disagreements above), so no theorem states it or `HolderOnDisk`; they are checked in the instance
of `recover`. What does hold in general, whoever dies wherever and however many recover the lock at
once, is that its files are truthful: the live process because of which a contender is refused
took the lock and has not released it, although its directory may have been replaced and its
owner file overwritten; a live initializer for which contenders wait is still initializing; and a
process that failed has left no temporary and no quarantined file. `FilesTruthful` says of each
file where its process stands, for dead processes too, and `ClaimInside` that a directory that is
gone has no claim. `recovering.json` is no part of it: a claim can outlive its attempt (see
above). TLC checked the invariant first with three processes that die anywhere (162 thousand
states).

### Story scheduler

* `SchedulerTypes`, `SlotsAreFifo`, `QueuedRunsAreOwned`, `SkippedRunsHaveNoSession`,
  `RunningRunsHoldSlots`: `Spec => []P` for `TypeOK`, `FifoSlots`, `QueuedIsOwned`,
  `SkippedNeverDispatched` and `RunningHoldsSlot`.

`FifoSlots` needs that tickets in the queue are in the order of their submission and differ
from those that have a slot (`TicketsOK`, `QueueOK`); ownership of queued rows needs to know, at
each await of each caller, whose turn it is to submit, execute or skip the row (`OwnedOK`), and
what a startup pass has still to look at (`ModeOK`); `SlotsOK` ties slots to executions. The
conjunction with the facts about rows (`RowsOK`) is `SchedulerInv`.

### Instance lifecycle

* `InstanceTypes`, `OneProcessAtATime`, `LastRequestWins`, `RecoveryRespectsStop`,
  `RecoveryForgetsNothing`: `Spec => []P` for `TypeOK`, `SingleProcess`, `LastCommandWins`,
  `StoppedStaysStopped` and `NotForgotten`.

None of these is inductive. `InstanceInv` adds where the running operation stands and what it
then knows of the child (`OpOK`); that a live process is the tracked child or the one the
operation waits for (`Owned`); that the newest request in the gate is the last one accepted and
can only be superseded by a deletion (`NewestOK`); what suppresses recovery and until when
(`SuppressOK`, `Quelled`); that a start under way belongs to a request or to a restore
(`StartsOK`); `LastOK`, the property in every mode of the agent; and what has been restored
(`RestoredOK`).

### Message queue

* `TypeCorrect`, `NoMessageIsLost`, `NoMessageIsRepeated`, `UploadsStayHeld`: `Spec => []P` for
  `TypeOK`, `NothingLost`, `SentOnce` and `AttachmentsHeld`.
* `StopIsRespected`: `Spec => StopHolds`.

The items are a sequence that the code filters, sorts and patches, so the first lemmas say what
these operations return. `Selected` is a recursive function; `SelectedEmbeds` shows, from the
least counterexample, that it exists and returns the entries in question, each once and in order.
`NormalizedFacts`, `PatchedFacts`, `WithoutFacts`, `RetriedFacts` and `ReorderedFacts` (by the
pigeonhole principle) follow. The lemmas named `...Effect` then give, for each action, what becomes
of the set of messages in the queue (`Ids`), of those that wait (`Queued`) and of the dispatch;
only `Resume`, `TurnCompleted` and `Reconcile` can begin one, because the listener has always
seen the last status (`ListenerInv`). `QueueInv` adds to the properties: `FreshInv`, a message that
has not arrived is known to nobody; `AcceptInv`, direct sends and the queue share no message, so a
failed direct send takes no uploads from the queue; `AttInv`, what is left of the uploads of a
queued message at each write of an answer, a removal and a start; `WorkInv`, that the writes of an answer are about a message the provider has;
`TextInv`, a text under way is
the latest or was outrun by an edit, and a taken one has reached the provider; `BudgetInv`,
dispatches done, under way and due together stay within the number of times the user queued the
message (`SentOnce` counts the first only); `HeldInv`, the queue is paused while something is held.
TLC checked `QueueInv` before it was proved.

### Story store

* `TypeCorrect`: `Spec => []TypeOK`, with no hypothesis. `TypeOK` says that neither a document nor
  a backup holds an incomplete upload, which needs to know at which points of an upload the
  temporary file is complete (`UploadOK`), which points belong to which kind of operation
  (`OpOK`), and that rows name paths (`NamesOK`).
* `NothingLeftAside`: `Spec => []NoLitter` under `OneFailure`, at most one failing call of the
  database or the file system, with any number of operations, shutdowns and deaths.
* `StoryFilesAreDocuments`: `Spec => Refines`, the refinement of `DocumentStore`;
  `NothingUndoneLater`: `Spec => []Settled`; `DocumentsKeepRows`: `Spec => []RowsKept`; all three
  under `OneFailure`.

The hypothesis is needed. With two failures TLC finds a counterexample to `NoLitter` (two faults,
five operations and one death): a move fails and is undone, the removal of its row fails too, and
the row stays. A later deletion sets the document aside and the process dies; the next start takes
the old move back first, which fills the place the backup belongs to, and the backup is neither
restored nor removed. With one failure an open move leaves no row behind while the process goes on
(`MoveGoing`, by `MoveFailed`), and at shutdown it can, but then nothing is set aside (`MoveClean`).
The rest of `CleanInv` says what the row and the files know of each other: `RowOK`, the row tells
the kind and whether the transaction committed; `AsideOK`, at most one operation has files set
aside, its row leads to them, and in a running process it is the one that holds the lock;
`DeleteOK`, the place of what a deletion set aside is free, so that rollback and recovery put it
back; `WriteOK`, an upload that has a backup replaced a file; `RecoveryOK`, a row goes after its
files. `RolledBackFacts` and `RecoveredFacts` say what the rollback and the recovery of one
operation do to a directory; `LeastNumber` shows that there is an oldest row. TLC checked the
invariant first (two paths, three operations, one fault, two deaths, 40 thousand states).

The refinement maps the documents to `Directory`, the result of recovering every row in turn, so
each step has to be followed through all rows that are there. `RefInv` makes that possible. It
says that at most one row still matters (`HotOK`): the others are `Inert`, recovery finds nothing
to do for them, and in a running process the one that matters is that of the operation holding
the lock. `DirectoryIsRoot` and `DirectoryIsRecovered` conclude that `Directory` is the recovery of that one
row (`ReplayedIs` ties the recursive function to its values). For it `RefInv` says, at every point
of the operation, what the row records (`OpRowOK`) and where the old and the new file are
(`OpFilesOK`): a first upload has neither row nor file until it is in place, an overwrite has the
old file in place or aside, a move has its file at one of the two paths; and of the directories
(`DirsOK`), that one set aside belongs to the deletion going on or has a deletion row. `BackOK`
adds that a move taken back by recovery is not moved again. `Views` sums up what `Directory` is in
every mode; then each action has a lemma saying which step of `DocumentStore` it is: `Accept`
begins, `Commit` and `DropCommit` take effect, `Answer`, the end of a rollback and `Crash` end,
a `Look` or `Read` that finds no file misses it, `RemoveMissing` forgets, and recovery passes; all
others are not seen. That a call misses a file only while a request is at work rests on the
directory being complete whenever the lock is free. `Settled`
is a case of `Views`. `RowsKept` follows because without such callers no step adds to the
documents without a row (`Fine`, `ListedOK`).

Here too `OneFailure` is needed: with two failing calls TLC violates all three (three operations
on two paths). A move fails, the removal of its row fails too, the same move is
repeated and succeeds; the next start finds the old row first and takes the move back. With one
failure a row that matters is not left behind while the process runs (`MoveFailed`,
`WriteFailed`); a shutdown may leave one, but then no operation follows it before recovery. TLC
checked `RefInv` and `BackOK` first on the instance of `stories` and on larger ones.

### Only model-checked

Liveness under fairness is out of the prover's reach: `EveryRunEnds`, `LockReleased`,
`QueuedDecided`, `SlotReleased` (which `slots` refutes), `GateDrains`, `RecoveryAttempted` and `QueueMoves` stay with
TLC. `TerminalMemberClosed` of `AgentRun` is true of the instance of `core` and not of every
instance (see the disagreements above), so no theorem states it. Every other invariant, action
property and refinement of a passing run is stated by a theorem, except the two properties of the
lock (`MutualExclusion`, `HolderOnDisk`); those of the Story's files, except its types, with the
hypothesis given above. `orphans` does not repeat `TerminalIsFinal`, which `OutcomesAreFinal` proves for
every instance.

## Not modelled, and why

See `PROJECT.json` for the list. The user interfaces, the client library, the protocol schemas,
images and scripts make up most of the repository's lines; they hold no state whose order or
failure the other parts depend on. The Control Plane routes requests and projects what nodes
report; the relay and the connection supervisor are the next candidates (see the plan).

Known gaps within the modelled parts: a lock contender suspended for more than two seconds within an attempt; a lock
directory observed half removed; expiry of shared spaces; revisions and titles of documents;
edits of an automation while its runs wait; Docker and WSL instances; edits of a queued
message's attachments; which of several providers' reports corrects a session's status
(`Reconcile` in `MessageQueue` is any of them).
