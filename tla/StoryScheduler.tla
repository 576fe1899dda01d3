--------------------------- MODULE StoryScheduler ---------------------------
(***************************************************************************)
(* The runs of one Story automation: StoryScheduler                        *)
(* (node-agent/src/stories/scheduler.ts) over SchedulerExecutionRuntime    *)
(* (core/src/core/scheduler-runtime.ts), the rows of automation-store.ts   *)
(* and the dispatch of action-execution-service.ts.  A timer or a request  *)
(* creates a run row and submits it; the runtime starts it, queues it or   *)
(* skips it; executeRun dispatches an AI session and keeps the slot until  *)
(* reconcileInstances has seen the session end.                            *)
(*                                                                         *)
(* A submission has a ticket: its number is its place in the order of      *)
(* arrival.  Abstractions: the policy of an automation is not edited; the  *)
(* clock is reduced to whether the cooldown has passed; terminal rows are  *)
(* not trimmed; a database call does not fail.                             *)
(***************************************************************************)
EXTENDS Naturals, FiniteSets, SequencesExt

CONSTANTS Runs,        \* run ids, numbers in the order of creation
          Policies,    \* policies an automation can have
          MaxQueued,   \* maxQueuedPerJob
          MaxTickets,  \* bound: submissions to the runtime
          MaxRepeats,  \* bound: requests sent a second time
          MaxCrashes   \* bound: ends of the process

ASSUME SchedulerAssumption ==
  /\ Runs \subseteq Nat /\ IsFiniteSet(Runs)
  /\ Policies \subseteq [limit : Nat \ {0}, whenBusy : {"skip", "queue"}, cooldown : BOOLEAN]
  /\ MaxQueued \in Nat /\ MaxTickets \in Nat /\ MaxRepeats \in Nat /\ MaxCrashes \in Nat

Tickets == 1..MaxTickets

VARIABLES
  status,     \* run rows
  sess,       \* AI sessions of the target instance, one per execution key
  mode,       \* "down", "starting", "up" or "stopping"
  policy,     \* the policy of the automation
  looked,     \* requests that found no row for their execution key
  callers,    \* callers between createRun and submit
  todo,       \* runs start() has still to resume
  ticket,     \* submissions: the run and where its execution stands
  queue,      \* tickets the runtime keeps waiting
  recent,     \* the last start is less than cooldownMs ago
  skips,      \* skipRun calls under way
  resolving,  \* runs reconcileInstances has concluded and not yet resolved
  used        \* the counters of the bounds

memory == <<looked, callers, todo, ticket, queue, recent, skips, resolving>>
vars == <<status, sess, mode, policy, memory, used>>

Terminal == {"completed", "failed", "skipped"}
allowedTransitions ==
  [new |-> {}, queued |-> {"dispatching", "skipped"}, dispatching |-> {"running", "failed"},
   running |-> {"completed", "failed"}, completed |-> {}, failed |-> {}, skipped |-> {}]

\* transition(): refused (it throws) unless the row has the status or may take it.
CanBecome(r, s) == status[r] = s \/ s \in allowedTransitions[status[r]]
Become(r, s) == status' = [status EXCEPT ![r] = s]

Accepting == mode \in {"starting", "up"}
Executing == {"load", "claim", "dispatch", "record", "fail", "publish", "wait"}
Active == {n \in Tickets : ticket[n].pc \in Executing}
Free == [run |-> 0, pc |-> "free"]
Pending == {r \in Runs : status[r] \notin Terminal \cup {"new"}}

\* The bound on tickets: there is one left for each of the given number of submissions.
TicketsFor(k) ==
  used.tickets + FoldSet(LAMBDA r, sum : looked[r] + callers[r] + sum, 0, Runs) + k <= MaxTickets

Init ==
  /\ status = [r \in Runs |-> "new"] /\ sess = [r \in Runs |-> "none"]
  /\ mode = "up" /\ policy \in Policies
  /\ looked = [r \in Runs |-> 0] /\ callers = [r \in Runs |-> 0] /\ todo = <<>>
  /\ ticket = [n \in Tickets |-> Free] /\ queue = <<>> /\ recent = FALSE
  /\ skips = {} /\ resolving = {}
  /\ used = [tickets |-> 0, repeats |-> 0, crashes |-> 0]

-----------------------------------------------------------------------------
(* A run is created and submitted.                                         *)

\* A timer fires, or manualRun looks its execution key up; the same request may arrive
\* twice before the first one has created the row.
Request(r) ==
  /\ mode = "up" /\ status[r] = "new" /\ TicketsFor(1)
  /\ \A s \in Runs : s < r => status[s] # "new" \/ looked[s] > 0
  /\ \/ looked[r] = 0 /\ UNCHANGED used
     \/ looked[r] = 1 /\ used.repeats < MaxRepeats /\ used' = [used EXCEPT !.repeats = @ + 1]
  /\ looked' = [looked EXCEPT ![r] = @ + 1]
  /\ UNCHANGED <<status, sess, mode, policy, callers, todo, ticket, queue, recent, skips, resolving>>

\* Variant: the request goes on after its run was created.
CreateRunAgain(r) ==
  /\ looked[r] > 0 /\ callers[r] < 3
  /\ callers' = [callers EXCEPT ![r] = @ + 1]
  /\ IF status[r] = "new" THEN Become(r, "queued") ELSE UNCHANGED status
  /\ UNCHANGED <<looked, sess, mode, policy, todo, ticket, queue, recent, skips, resolving, used>>

\* createRun: a row with this execution key is returned as it is.  The preparation
\* throws when the Story or the Action is gone or archived.
CreateRun(r) ==
  /\ looked[r] > 0
  /\ looked' = [looked EXCEPT ![r] = @ - 1]
  /\ \/ /\ callers' = [callers EXCEPT ![r] = @ + 1]
        /\ IF status[r] = "new" THEN Become(r, "queued") ELSE UNCHANGED status
     \/ UNCHANGED <<callers, status>>
  /\ UNCHANGED <<sess, mode, policy, todo, ticket, queue, recent, skips, resolving, used>>

\* Variant: a job is busy only above its limit, and the queue has no limit.
SubmissionLax(r) ==
  LET n == used.tickets + 1
      busy == Cardinality(Active) > policy.limit
      Place(pc) == ticket' = [ticket EXCEPT ![n] = [run |-> r, pc |-> pc]]
  IN /\ n \in Tickets /\ used' = [used EXCEPT !.tickets = n]
     /\ IF busy THEN Place("queued") /\ queue' = Append(queue, n) ELSE Place("load") /\ UNCHANGED queue
     /\ UNCHANGED <<skips, recent>>

\* runtime.submit
Submission(r) ==
  LET n == used.tickets + 1
      Place(pc) == ticket' = [ticket EXCEPT ![n] = [run |-> r, pc |-> pc]]
      cooling == policy.cooldown /\ recent
      busy == Cardinality(Active) >= policy.limit
      full == policy.whenBusy = "skip" \/ Len(queue) >= MaxQueued
  IN /\ n \in Tickets /\ used' = [used EXCEPT !.tickets = n]
     /\ \/ /\ ~Accepting \/ cooling \/ (busy /\ full)
           /\ Place("skipped") /\ skips' = skips \cup {r} /\ UNCHANGED <<queue, recent>>
        \/ /\ Accepting /\ ~cooling /\ busy /\ ~full
           /\ Place("queued") /\ queue' = Append(queue, n) /\ UNCHANGED <<skips, recent>>
        \/ /\ Accepting /\ ~cooling /\ ~busy
           /\ Place("load") /\ recent' = policy.cooldown /\ UNCHANGED <<skips, queue>>

Submit(r) ==
  /\ callers[r] > 0
  /\ callers' = [callers EXCEPT ![r] = @ - 1]
  /\ Submission(r)
  /\ UNCHANGED <<status, sess, mode, policy, looked, todo, resolving>>

\* Variant: the status of the row is not looked at.
SkipRunAnyway(r) ==
  /\ r \in skips
  /\ skips' = skips \ {r}
  /\ Become(r, "skipped")
  /\ UNCHANGED <<sess, mode, policy, looked, callers, todo, ticket, queue, recent, resolving, used>>

\* skipRun: the row becomes skipped if it is still queued.
SkipRun(r) ==
  /\ r \in skips
  /\ skips' = skips \ {r}
  /\ IF status[r] = "queued" THEN Become(r, "skipped") ELSE UNCHANGED status
  /\ UNCHANGED <<sess, mode, policy, looked, callers, todo, ticket, queue, recent, resolving, used>>

-----------------------------------------------------------------------------
(* executeRun, and the finish of the runtime that starts the next ticket.  *)

\* Variant: a finish does not drain the queue.
FinishOnly(over) ==
  /\ ticket' = [n \in Tickets |-> IF n \in over THEN [ticket[n] EXCEPT !.pc = "done"] ELSE ticket[n]]
  /\ UNCHANGED <<queue, recent>>

\* Each finish gives back a slot and starts at most one waiting ticket.
Finish(over) ==
  LET free == policy.limit - Cardinality(Active \ over)
      k == IF Accepting THEN Min({Cardinality(over), Len(queue), free}) ELSE 0
      next == {queue[i] : i \in 1..k}
  IN /\ ticket' = [n \in Tickets |->
                     IF n \in over THEN [ticket[n] EXCEPT !.pc = "done"]
                     ELSE IF n \in next THEN [ticket[n] EXCEPT !.pc = "load"]
                     ELSE ticket[n]]
     /\ queue' = SubSeq(queue, k + 1, Len(queue))
     /\ recent' = (recent \/ (k > 0 /\ policy.cooldown))

Goto(n, pc) == ticket' = [ticket EXCEPT ![n].pc = pc] /\ UNCHANGED <<queue, recent>>

At(n, pc) == mode # "down" /\ ticket[n].pc = pc

\* The row is read; a run that is already running goes straight to its completion.
Load(n) ==
  /\ At(n, "load")
  /\ LET s == status[ticket[n].run] IN
       \/ s = "queued" /\ Goto(n, "claim")
       \/ s = "dispatching" /\ Goto(n, "dispatch")
       \/ s = "running" /\ Goto(n, "wait")
       \/ s \in Terminal /\ Finish({n})
  /\ UNCHANGED <<status, sess, mode, policy, looked, callers, todo, skips, resolving, used>>

Claim(n) ==
  /\ At(n, "claim")
  /\ IF CanBecome(ticket[n].run, "dispatching")
     THEN Become(ticket[n].run, "dispatching") /\ Goto(n, "dispatch")
     ELSE Finish({n}) /\ UNCHANGED status
  /\ UNCHANGED <<sess, mode, policy, looked, callers, todo, skips, resolving, used>>

\* The request reaches the instance or not; the instance answers a repeated execution
\* key with the session it has.  No answer is retryable and ends the execution, the row
\* stays dispatching; a refusal or an answer cut short makes the run fail.
Dispatch(n) ==
  /\ At(n, "dispatch")
  /\ LET r == ticket[n].run
         created == [sess EXCEPT ![r] = IF @ = "none" THEN "active" ELSE @]
     IN \/ sess' = created /\ Goto(n, "record")
        \/ sess' \in {sess, created} /\ Finish({n})
        \/ sess' \in {sess, created} /\ Goto(n, "fail")
  /\ UNCHANGED <<status, mode, policy, looked, callers, todo, skips, resolving, used>>

Record(n) ==
  /\ At(n, "record")
  /\ IF CanBecome(ticket[n].run, "running")
     THEN Become(ticket[n].run, "running") /\ Goto(n, "publish")
     ELSE Goto(n, "fail") /\ UNCHANGED status
  /\ UNCHANGED <<sess, mode, policy, looked, callers, todo, skips, resolving, used>>

RecordFailure(n) ==
  /\ At(n, "fail")
  /\ IF CanBecome(ticket[n].run, "failed") THEN Become(ticket[n].run, "failed") ELSE UNCHANGED status
  /\ Finish({n})
  /\ UNCHANGED <<sess, mode, policy, looked, callers, todo, skips, resolving, used>>

\* Variant: the execution ends without waiting for the session.
AwaitNothing(n) ==
  /\ At(n, "publish")
  /\ Finish({n})
  /\ UNCHANGED <<status, sess, mode, policy, looked, callers, todo, skips, resolving, used>>

\* publishRun is awaited before the execution registers for its completion.
AwaitCompletion(n) ==
  /\ At(n, "publish")
  /\ Goto(n, "wait")
  /\ UNCHANGED <<status, sess, mode, policy, looked, callers, todo, skips, resolving, used>>

-----------------------------------------------------------------------------
(* reconcileInstances, on every report of an instance.                     *)

\* The transition of a running run whose session is idle, failed or closed.
Conclude(r) ==
  /\ mode \in {"up", "stopping"}
  /\ status[r] = "running" /\ sess[r] = "ended"
  /\ \E s \in {"completed", "failed"} : Become(r, s)
  /\ resolving' = resolving \cup {r}
  /\ UNCHANGED <<sess, mode, policy, looked, callers, todo, ticket, queue, recent, skips, used>>

\* resolveCompletion wakes who is registered now, and nobody later.
Resolve(r) ==
  /\ r \in resolving
  /\ resolving' = resolving \ {r}
  /\ Finish({n \in Tickets : ticket[n].run = r /\ ticket[n].pc = "wait"})
  /\ UNCHANGED <<status, sess, mode, policy, looked, callers, todo, skips, used>>

SessionEnds(r) ==
  /\ sess[r] = "active"
  /\ sess' = [sess EXCEPT ![r] = "ended"]
  /\ UNCHANGED <<status, mode, policy, memory, used>>

-----------------------------------------------------------------------------
(* refresh, stop, the end of the process and start.                        *)

Cool ==
  /\ recent
  /\ recent' = FALSE
  /\ UNCHANGED <<status, sess, mode, policy, looked, callers, todo, ticket, queue, skips, resolving, used>>

\* Variant: cleared submissions are not reported as skipped.
ClearSilently ==
  /\ ticket' = [n \in Tickets |->
                  IF n \in Range(queue) THEN [ticket[n] EXCEPT !.pc = "skipped"] ELSE ticket[n]]
  /\ queue' = <<>> /\ UNCHANGED skips

\* runtime.clearQueued, with the skipRun of every submission.
ClearQueued ==
  /\ ticket' = [n \in Tickets |->
                  IF n \in Range(queue) THEN [ticket[n] EXCEPT !.pc = "skipped"] ELSE ticket[n]]
  /\ skips' = skips \cup {ticket[n].run : n \in Range(queue)}
  /\ queue' = <<>>

\* refresh or clearStory: the automation was disabled, or its Story archived or deleted.
Disable ==
  /\ mode = "up" /\ queue # <<>>
  /\ ClearQueued
  /\ UNCHANGED <<status, sess, mode, policy, looked, callers, todo, recent, resolving, used>>

Stop ==
  /\ mode = "up" /\ used.crashes < MaxCrashes
  /\ mode' = "stopping"
  /\ ClearQueued
  /\ UNCHANGED <<status, sess, policy, looked, callers, todo, recent, resolving, used>>

Crash ==
  /\ mode # "down" /\ used.crashes < MaxCrashes
  /\ used.tickets + Cardinality(Pending) <= MaxTickets
  /\ mode' = "down"
  /\ looked' = [r \in Runs |-> 0] /\ callers' = [r \in Runs |-> 0] /\ todo' = <<>>
  /\ ticket' = [n \in Tickets |-> IF n \in Active \cup Range(queue) THEN [ticket[n] EXCEPT !.pc = "done"]
                                  ELSE ticket[n]]
  /\ queue' = <<>> /\ recent' = FALSE /\ skips' = {} /\ resolving' = {}
  /\ used' = [used EXCEPT !.crashes = @ + 1]
  /\ UNCHANGED <<status, sess, policy>>

Start ==
  /\ mode = "down"
  /\ mode' = "starting"
  /\ todo' \in {s \in SetToSeqs(Pending) : \A i, j \in DOMAIN s : i < j => s[i] < s[j]}
  /\ UNCHANGED <<status, sess, policy, looked, callers, ticket, queue, recent, skips, resolving, used>>

Resume ==
  /\ mode = "starting" /\ todo # <<>>
  /\ todo' = Tail(todo)
  /\ Submission(Head(todo))
  /\ UNCHANGED <<status, sess, mode, policy, looked, callers, resolving>>

Ready ==
  /\ mode = "starting" /\ todo = <<>>
  /\ mode' = "up"
  /\ UNCHANGED <<status, sess, policy, memory, used>>

-----------------------------------------------------------------------------
ExecuteRun(n) ==
  Load(n) \/ Claim(n) \/ Dispatch(n) \/ Record(n) \/ RecordFailure(n) \/ AwaitCompletion(n)

Next ==
  \/ \E r \in Runs : \/ Request(r) \/ CreateRun(r) \/ Submit(r) \/ SkipRun(r)
                     \/ Conclude(r) \/ Resolve(r) \/ SessionEnds(r)
  \/ \E n \in Tickets : ExecuteRun(n)
  \/ Cool \/ Disable \/ Stop \/ Crash \/ Start \/ Resume \/ Ready

Spec == Init /\ [][Next]_vars

\* Fairness: what the event loop has started goes on, a dispatch is answered or given up
\* by fetch, and heartbeats keep reconcileInstances going.  Sessions need not end.
FairSpec ==
  /\ Spec
  /\ \A r \in Runs : WF_vars(CreateRun(r)) /\ WF_vars(Submit(r)) /\ WF_vars(SkipRun(r))
                     /\ WF_vars(Conclude(r)) /\ WF_vars(Resolve(r))
  /\ \A n \in Tickets : WF_vars(ExecuteRun(n))
  /\ WF_vars(Start \/ Resume \/ Ready)

-----------------------------------------------------------------------------
\* The type of every variable.
TypeOK ==
  /\ status \in [Runs -> DOMAIN allowedTransitions]
  /\ sess \in [Runs -> {"none", "active", "ended"}]
  /\ mode \in {"down", "starting", "up", "stopping"} /\ policy \in Policies
  /\ looked \in [Runs -> 0..2] /\ callers \in [Runs -> 0..2] /\ Range(todo) \subseteq Runs
  /\ ticket \in [Tickets -> [run : Runs \cup {0}, pc : Executing \cup {"free", "queued", "skipped", "done"}]]
  /\ Range(queue) \subseteq Tickets /\ recent \in BOOLEAN
  /\ skips \subseteq Runs /\ resolving \subseteq Runs

\* A waiting submission is overtaken by none that came later, and no slot is idle beside
\* it: submit starts at once only when nobody waits, because every finish drains.
FifoSlots ==
  /\ Cardinality(Active) <= policy.limit
  /\ Accepting /\ queue # <<>> => Cardinality(Active) = policy.limit
  /\ \A n, m \in Tickets :
       n < m /\ ticket[n].pc = "queued" => ticket[m].pc \in {"free", "queued", "skipped"}

\* No queued row is forgotten: while the scheduler is up somebody will submit it, run it
\* or skip it, whatever was queued, cleared, repeated or restarted before.
QueuedIsOwned ==
  mode = "up" => \A r \in Runs : status[r] = "queued" =>
    \/ callers[r] > 0 \/ r \in skips
    \/ \E n \in Tickets : ticket[n].run = r /\ ticket[n].pc \in {"queued", "load", "claim"}

\* skipRun races executeRun for the row: a run reported as skipped never reached the
\* instance, and a run that has a session id has a session.
SkippedNeverDispatched ==
  \A r \in Runs : /\ status[r] = "skipped" => sess[r] = "none"
                  /\ status[r] \in {"running", "completed"} => sess[r] # "none"

\* Until a restart every running run occupies a slot, so that maxConcurrentRuns counts it
\* (a restart may find the slots taken or the queue full, or clear the queue).
RunningHoldsSlot ==
  mode = "up" /\ used.crashes = 0 =>
    \A r \in Runs : status[r] = "running" =>
      \E n \in Tickets : ticket[n].run = r /\ ticket[n].pc \in {"publish", "wait"}

\* An execution that waits for a completion nobody will report again.
Leaked == \E n \in Tickets : ticket[n].pc \in {"publish", "wait"} /\ status[ticket[n].run] \in Terminal

\* A queued run is eventually dispatched or skipped, unless a session that still runs,
\* or a leaked slot, keeps it waiting for ever.
QueuedDecided ==
  \A r \in Runs :
    status[r] = "queued" ~> (status[r] # "queued" \/ Leaked \/ \E s \in Runs : sess[s] = "active")

\* The test "Story Scheduler releases concurrency on Session terminal state and drains
\* FIFO": the slot of a run that has ended is given back.
SlotReleased ==
  \A n \in Tickets :
    (ticket[n].pc \in Executing /\ status[ticket[n].run] \in Terminal) ~> ticket[n].pc \notin Executing
=============================================================================
