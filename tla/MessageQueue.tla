---------------------------- MODULE MessageQueue ----------------------------
(***************************************************************************)
(* The message queue of one AI session: AiSessionQueueService              *)
(* (ai-session-runtime/src/ai-session/queue-service.ts), the operations of *)
(* AiSessionController on it (ai-session-control.ts), and the automatic    *)
(* dispatch of the Controlled Instance's server (drainAiSessionQueue and   *)
(* the onChange listener of controlled-instance/src/web/server.ts).  A     *)
(* message sent to a busy session waits in the queue; when the turn ends   *)
(* the next one is dispatched.  Meanwhile the user steers, edits, retries, *)
(* removes and reorders messages, pauses the queue and interrupts the      *)
(* turn, and the provider's answers and events arrive when they like.      *)
(*                                                                         *)
(* Abstractions: a message is one client request, whose repetitions        *)
(* sendMessage answers from memory; its attachments are uploads, and edits *)
(* change the text only; edits and reorders with an outdated revision are  *)
(* refused and left out; "waiting" is "running"; a provider that takes a   *)
(* message during a turn adds it to that turn.                             *)
(***************************************************************************)
EXTENDS Naturals, FiniteSets, SequencesExt

CONSTANTS Messages,    \* messages of the clients, numbered in the order of arrival
          QueueLimit,  \* items a queue can hold (100 in the code)
          MaxOps,      \* bound: operations of the users on the queue
          MaxFaults,   \* bound: provider calls that fail, and uploads that become too old
          MaxCrashes   \* bound: deaths of the process

ASSUME QueueAssumption ==
  /\ Messages \subseteq Nat \ {0} /\ IsFiniteSet(Messages)
  /\ QueueLimit \in Nat \ {0} /\ MaxOps \in Nat /\ MaxFaults \in Nat /\ MaxCrashes \in Nat

VARIABLES
  items,      \* session.queue.items, on disk
  paused,     \* session.queue.paused, on disk
  status,     \* the session: "idle", "running" or "failed", on disk
  att,        \* uploads of a message, on disk: "none" (not sent yet), "staged" (its manifests),
              \* "committed", "draft" (manifests and drafts), "released" (drafts only) or "gone"
  seen,       \* aiSessionLifecycleById: the status the listener saw last
  sending,    \* the dispatch that drainAiSessionQueue waits for
  calls,      \* provider calls of direct sends and of steered items
  work,       \* the writes the server is in the middle of: of which message, and the next one
  turn,       \* the provider is in a turn
  mode,       \* "up", "down" or "starting"
  latest,     \* text of a queued message the user saw accepted last
  sent,       \* texts of a queued message the provider took, and how often by itself
  removed,    \* messages the user removed
  raced,      \* messages edited while a provider call had their earlier text
  held,       \* messages that were waiting when the user pressed stop
  lapsed,     \* messages whose removal a death cut short, or whose uploads became too old
  retries,    \* how often the user retried a message
  used        \* the counters of the bounds

queue == <<items, paused, status, seen, sending>>
history == <<latest, sent, removed, raced, held, lapsed, retries>>
vars == <<items, paused, status, att, seen, sending, calls, work, turn, mode, history, used>>

NoMessage == 0
NoCall == [id |-> NoMessage, text |-> 0, taken |-> FALSE]

\* The uploads of a message the provider has become committed ("commit"), and its item goes
\* ("settle", then "drop"); or an item goes whose uploads were given back ("discard").
Writes == {"commit", "settle", "drop", "discard"}
NoWork == [id |-> NoMessage, next |-> "none"]

Statuses == {"sending", "queued", "failed"}
Item == [id : Messages, status : Statuses]
Call == [n : Nat, kind : {"direct", "steer"}, id : Messages, text : Nat, taken : BOOLEAN]

Ids(it) == {it[i].id : i \in DOMAIN it}

\* The entries of it that keep holds, in their order.
Selected(it, keep) ==
  LET upTo[i \in 0..Len(it)] ==
        IF i = 0 THEN <<>> ELSE IF it[i] \in keep THEN Append(upTo[i - 1], it[i]) ELSE upTo[i - 1]
  IN upTo[Len(it)]

With(it, s) == Selected(it, [id : Messages, status : {s}])

\* normalizeAiSessionQueueItems: a stable sort by the rank of the status.
Normalized(it) == With(it, "sending") \o With(it, "queued") \o With(it, "failed")

\* patchQueuedMessage
Patched(it, m, s) ==
  Normalized([i \in DOMAIN it |-> IF it[i].id = m THEN [it[i] EXCEPT !.status = s] ELSE it[i]])

Without(it, m) == Selected(it, [id : Messages \ {m}, status : Statuses])

\* nextQueuedMessage, and pendingCount > 0.
HasQueued(it) == With(it, "queued") # <<>>
NextQueued(it) == With(it, "queued")[1].id
HasPending(it) == HasQueued(it) \/ With(it, "sending") # <<>>

Up == mode = "up" /\ work = NoWork
Busy == status = "running"

Init ==
  /\ items = <<>> /\ paused = FALSE /\ status \in {"idle", "running"} /\ turn = (status = "running")
  /\ att = [m \in Messages |-> "none"]
  /\ seen = status /\ sending = NoCall /\ calls = {} /\ work = NoWork /\ mode = "up"
  /\ latest = [m \in Messages |-> 0] /\ sent = [m \in Messages |-> [texts |-> {}, auto |-> 0]]
  /\ removed = {} /\ raced = {} /\ held = {} /\ lapsed = {} /\ retries = [m \in Messages |-> 0]
  /\ used = [ops |-> 0, faults |-> 0, crashes |-> 0]

UseOp == used.ops < MaxOps /\ used' = [used EXCEPT !.ops = @ + 1]

-----------------------------------------------------------------------------
(* The registry's write, its listener and the drain that it may begin.     *)

\* Variant: the item keeps its status while it is sent.
DispatchUnmarked(it) ==
  /\ items' = it
  /\ sending' = [id |-> NextQueued(it), text |-> latest[NextQueued(it)], taken |-> FALSE]

\* sendNextQueuedMessage up to its first await.
Dispatch(it) ==
  /\ items' = Patched(it, NextQueued(it), "sending")
  /\ sending' = [id |-> NextQueued(it), text |-> latest[NextQueued(it)], taken |-> FALSE]

\* drainAiSessionQueue
Drain(it, pz, st) ==
  IF sending = NoCall /\ ~pz /\ st = "idle" /\ HasQueued(it)
  THEN Dispatch(it)
  ELSE items' = it /\ UNCHANGED sending

\* Variant: the listener compares with the status it has just stored.
BecameIdleAfter(st) == seen' \notin {"none", "idle"} /\ st = "idle"

\* The listener drains when it has seen the session in another status before.
BecameIdle(st) == seen \notin {"none", "idle"} /\ st = "idle"

\* put: the session is saved and the listener runs.
Put(it, pz, st) ==
  /\ paused' = pz /\ status' = st /\ seen' = st
  /\ IF BecameIdle(st) /\ HasPending(it) THEN Drain(it, pz, st) ELSE items' = it /\ UNCHANGED sending

\* Variant: a change of the items forgets the pause.
PutItemsResumed(it) == Put(it, FALSE, status)

\* withQueue keeps the pause.
PutItems(it) == Put(it, paused, status)

-----------------------------------------------------------------------------
(* Sending.                                                                *)

Arrives(m) == att[m] = "none" /\ \A k \in Messages : k < m => att[k] # "none"
Stage(m) == att' = [att EXCEPT ![m] = "staged"]

\* sendMessageOnce: mode "queue", or "auto" while the session is busy.  A full queue
\* refuses the message after its attachments were staged.
Enqueue(m) ==
  /\ Up /\ Arrives(m)
  /\ Stage(m)
  /\ IF Len(items) < QueueLimit
     THEN /\ PutItems(Normalized(Append(items, [id |-> m, status |-> "queued"])))
          /\ latest' = [latest EXCEPT ![m] = 1]
     ELSE UNCHANGED <<queue, latest>>
  /\ UNCHANGED <<calls, work, turn, mode, sent, removed, lapsed, raced, held, retries, used>>

\* Mode "steer" at any time, the others while the session is not busy.
SendNow(m) ==
  /\ Up /\ Arrives(m) /\ UseOp
  /\ Stage(m)
  /\ calls' = calls \cup {[n |-> used.ops, kind |-> "direct", id |-> m, text |-> 1, taken |-> FALSE]}
  /\ UNCHANGED <<queue, work, turn, mode, history>>

\* steerQueuedMessage: the item, whatever its status, stays as it is until the answer.
Steer(m) ==
  /\ Up /\ m \in Ids(items) /\ UseOp
  /\ calls' = calls \cup {[n |-> used.ops, kind |-> "steer", id |-> m, text |-> latest[m], taken |-> FALSE]}
  /\ held' = held \ {m}
  /\ UNCHANGED <<queue, att, work, turn, mode, latest, sent, removed, lapsed, raced, retries>>

\* The provider has the message of the drain, or of another call.
TakeDispatched ==
  /\ Up /\ sending # NoCall /\ ~sending.taken
  /\ sending' = [sending EXCEPT !.taken = TRUE]
  /\ sent' = [sent EXCEPT ![sending.id] = [texts |-> @.texts \cup {sending.text}, auto |-> @.auto + 1]]
  /\ turn' = TRUE
  /\ UNCHANGED <<items, paused, status, att, seen, calls, work, mode, latest, removed, lapsed, raced, held,
                 retries, used>>

Take(c) ==
  /\ Up /\ ~c.taken
  /\ calls' = (calls \ {c}) \cup {[c EXCEPT !.taken = TRUE]}
  /\ sent' = IF c.kind = "direct" THEN sent ELSE [sent EXCEPT ![c.id].texts = @ \cup {c.text}]
  /\ turn' = TRUE
  /\ UNCHANGED <<queue, att, work, mode, latest, removed, lapsed, raced, held, retries, used>>

\* The answer to the drain: send-ack is saved first, the other writes follow.
Dispatched ==
  /\ Up /\ sending.taken
  /\ status' = "running" /\ seen' = "running"
  /\ work' = [id |-> sending.id, next |-> "settle"] /\ sending' = NoCall
  /\ UNCHANGED <<items, paused, att, calls, turn, mode, history, used>>

Answered(c) ==
  /\ Up /\ c.taken
  /\ Put(items, paused, "running")
  /\ work' = [id |-> c.id, next |-> IF c.kind = "steer" THEN "settle" ELSE "commit"]
  /\ calls' = calls \ {c}
  /\ UNCHANGED <<att, turn, mode, history, used>>

\* commitMessageAttachments
Commit ==
  /\ mode = "up" /\ work.next \in {"commit", "settle"}
  /\ att' = [att EXCEPT ![work.id] = IF @ \in {"staged", "draft"} THEN "committed" ELSE @]
  /\ work' = IF work.next = "settle" THEN [work EXCEPT !.next = "drop"] ELSE NoWork
  /\ UNCHANGED <<queue, calls, turn, mode, history, used>>

\* rollbackMessage: the uploads become drafts again, their manifests go.
RolledBack(m) == [att EXCEPT ![m] = IF @ = "staged" THEN "released" ELSE @]

\* Variant: the item is removed whether or not it could be sent.
NotDispatchedRemoved ==
  /\ items' = Without(items, sending.id) /\ sending' = NoCall
  /\ UNCHANGED att

\* markQueuedMessageFailed, if the item is still there; the attachments stay staged.
NotDispatched ==
  /\ items' = Patched(items, sending.id, "failed") /\ sending' = NoCall
  /\ UNCHANGED att

\* The call fails, before or after the provider took the message.
DispatchFails ==
  /\ Up /\ sending # NoCall /\ used.faults < MaxFaults
  /\ used' = [used EXCEPT !.faults = @ + 1]
  /\ NotDispatched
  /\ seen' = status
  /\ UNCHANGED <<paused, status, calls, work, turn, mode, history>>

\* A steered item stays; a direct send gives its attachments back.  Without a turn there
\* may be nothing to steer.
CallFails(c) ==
  /\ Up
  /\ \/ ~turn /\ ~c.taken /\ UNCHANGED used
     \/ used.faults < MaxFaults /\ used' = [used EXCEPT !.faults = @ + 1]
  /\ calls' = calls \ {c}
  /\ att' = IF c.kind = "direct" THEN RolledBack(c.id) ELSE att
  /\ UNCHANGED <<queue, work, turn, mode, history>>

-----------------------------------------------------------------------------
(* Operations of the users on the queue.                                   *)

\* Variant: the old entry of the item stays in the queue.
RetriedTwice(m) == Normalized(Append(items, [id |-> m, status |-> "queued"]))

\* retryQueuedMessage puts the item, whatever its status, at the end.
Retried(m) == Normalized(Append(Without(items, m), [id |-> m, status |-> "queued"]))

Retry(m) ==
  /\ Up /\ m \in Ids(items) /\ UseOp
  /\ PutItems(Retried(m))
  /\ retries' = [retries EXCEPT ![m] = @ + 1]
  /\ UNCHANGED <<att, calls, work, turn, mode, latest, sent, removed, lapsed, raced, held>>

\* removeQueuedMessage of the registry: the attachments go back first, then the item.
RemoveQueued(m) ==
  /\ Up /\ m \in Ids(items) /\ UseOp
  /\ att' = RolledBack(m)
  /\ work' = [id |-> m, next |-> "discard"]
  /\ UNCHANGED <<queue, calls, turn, mode, history>>

\* The item goes.  After an answer there is nothing to roll back.
FinishRemove ==
  /\ mode = "up" /\ work.next \in {"drop", "discard"}
  /\ PutItems(Without(items, work.id))
  /\ removed' = IF work.next = "discard" THEN removed \cup {work.id} ELSE removed
  /\ work' = NoWork
  /\ UNCHANGED <<att, calls, turn, mode, latest, sent, raced, held, lapsed, retries, used>>

\* Provider calls that carry a text of message m.
InFlight(m) == sending.id = m \/ \E c \in calls : c.id = m

Edit(m) ==
  /\ Up /\ m \in Ids(With(items, "queued")) /\ UseOp
  /\ latest' = [latest EXCEPT ![m] = @ + 1]
  /\ raced' = IF InFlight(m) THEN raced \cup {m} ELSE raced
  /\ PutItems(items)
  /\ UNCHANGED <<att, calls, work, turn, mode, sent, removed, lapsed, held, retries>>

\* reorderQueuedMessages: any order of the queued items.
Reorder ==
  /\ Up /\ UseOp
  /\ \E perm \in SetToSeqs(Range(With(items, "queued"))) :
       /\ perm # With(items, "queued")
       /\ PutItems(Normalized(With(items, "sending") \o With(items, "failed") \o perm))
  /\ UNCHANGED <<att, calls, work, turn, mode, history>>

Pause ==
  /\ Up /\ ~paused /\ UseOp
  /\ Put(items, TRUE, status)
  /\ UNCHANGED <<att, calls, work, turn, mode, history>>

\* The pause route with paused = false drains, also when nothing was paused.
Resume ==
  /\ Up /\ UseOp
  /\ paused' = FALSE
  /\ seen' = IF paused THEN status ELSE seen
  /\ Drain(items, FALSE, status)
  /\ held' = {}
  /\ UNCHANGED <<status, att, calls, work, turn, mode, latest, sent, removed, lapsed, raced, retries>>

\* interrupt: a queue with pending items is paused before the provider is called.
Interrupt ==
  /\ Up /\ Busy /\ UseOp
  /\ held' = IF HasPending(items) THEN held \cup Ids(With(items, "queued")) ELSE held
  /\ IF HasPending(items) /\ ~paused THEN Put(items, TRUE, status) ELSE UNCHANGED queue
  /\ UNCHANGED <<att, calls, work, turn, mode, latest, sent, removed, lapsed, raced, retries>>

-----------------------------------------------------------------------------
(* Events of the provider, the end of the process and its start.           *)

TurnStarted ==
  /\ Up /\ turn /\ ~Busy
  /\ Put(items, paused, "running")
  /\ UNCHANGED <<att, calls, work, turn, mode, history, used>>

\* turn-completed, also of an interrupted or a failed turn.
TurnCompleted ==
  /\ Up /\ turn
  /\ turn' = FALSE
  /\ \E st \in {"idle", "failed"} : Put(items, paused, st)
  /\ UNCHANGED <<att, calls, work, mode, history, used>>

\* A snapshot of the provider corrects a session whose turn ended before the answer to
\* the call that began it, or while the process was down.  A snapshot that misses the
\* pending turn changes nothing; the one that has the turn, ended, does.
Reconcile ==
  /\ Up /\ Busy /\ ~turn
  /\ Put(items, paused, "idle")
  /\ UNCHANGED <<att, calls, work, turn, mode, history, used>>

\* gc, which staging, committing, reading and starting call: uploads that were never
\* committed are removed 24 hours after they came, those of a waiting message included.
Expire(m) ==
  /\ Up \/ mode = "starting"
  /\ m \in Ids(items) /\ att[m] \in {"staged", "draft", "released"}
  /\ used.faults < MaxFaults /\ used' = [used EXCEPT !.faults = @ + 1]
  /\ att' = [att EXCEPT ![m] = "gone"]
  /\ lapsed' = lapsed \cup {m}
  /\ UNCHANGED <<queue, calls, work, turn, mode, latest, sent, removed, raced, held, retries>>

\* A death between Restore and Claim is not counted.
Crash ==
  /\ \/ mode = "starting"
     \/ mode = "up" /\ used.crashes < MaxCrashes
  /\ mode' = "down"
  /\ seen' = "none" /\ sending' = NoCall /\ calls' = {} /\ work' = NoWork
  /\ lapsed' = IF work.next = "discard" THEN lapsed \cup {work.id} ELSE lapsed
  /\ turn' \in {turn, FALSE}
  /\ used' = IF mode = "up" THEN [used EXCEPT !.crashes = @ + 1] ELSE used
  /\ UNCHANGED <<items, paused, status, att, latest, sent, removed, raced, held, retries>>

\* The attachment store starts: what is staged becomes a draft, and keeps its manifests.
Restore ==
  /\ mode = "down"
  /\ mode' = "starting"
  /\ att' = [m \in Messages |-> IF att[m] = "staged" THEN "draft" ELSE att[m]]
  /\ UNCHANGED <<queue, calls, work, turn, history, used>>

\* Variant: the items that wait are claimed, and not the ones that failed or were under way.
ClaimWaiting ==
  /\ mode = "starting"
  /\ mode' = "up"
  /\ att' = [m \in Messages |-> IF m \in Ids(With(items, "queued")) /\ att[m] = "draft" THEN "staged" ELSE att[m]]
  /\ UNCHANGED <<queue, calls, work, turn, history, used>>

\* The registry starts: the items claim their uploads again, as far as manifests are there.
Claim ==
  /\ mode = "starting"
  /\ mode' = "up"
  /\ att' = [m \in Messages |-> IF m \in Ids(items) /\ att[m] = "draft" THEN "staged" ELSE att[m]]
  /\ UNCHANGED <<queue, calls, work, turn, history, used>>

-----------------------------------------------------------------------------
DrainStep == TakeDispatched \/ Dispatched \/ DispatchFails
CallStep == \E c \in calls : Take(c) \/ Answered(c) \/ CallFails(c)
UserStep ==
  \/ \E m \in Messages : Enqueue(m) \/ SendNow(m) \/ Steer(m) \/ Retry(m) \/ RemoveQueued(m) \/ Edit(m)
  \/ Reorder \/ Pause \/ Resume \/ Interrupt
TurnStep == TurnCompleted \/ Reconcile
WriteStep == Commit \/ FinishRemove
RestartStep == Crash \/ Restore \/ Claim \/ \E m \in Messages : Expire(m)

Next == DrainStep \/ CallStep \/ UserStep \/ TurnStep \/ TurnStarted \/ WriteStep \/ RestartStep

Spec == Init /\ [][Next]_vars

\* Fairness: writes that have begun end, provider calls are answered or time out, and turns
\* end or are found to have ended by the next snapshot of the provider.
FairSpec == Spec /\ WF_vars(DrainStep) /\ WF_vars(TurnStep) /\ WF_vars(WriteStep)

-----------------------------------------------------------------------------
\* The type of every variable.  Retry, enqueue and patch never leave two entries of one
\* message, and normalizeAiSessionQueueItems keeps what is being sent in front.
TypeOK ==
  /\ items \in Seq(Item)
  /\ \A i, j \in DOMAIN items :
       i < j => items[i].id # items[j].id /\ (items[j].status = "sending" => items[i].status = "sending")
  /\ paused \in BOOLEAN /\ status \in {"idle", "running", "failed"}
  /\ seen \in {"none", "idle", "running", "failed"}
  /\ att \in [Messages -> {"none", "staged", "committed", "draft", "released", "gone"}]
  /\ sending \in [id : Messages \cup {NoMessage}, text : Nat, taken : BOOLEAN] /\ calls \subseteq Call
  /\ work \in {NoWork} \cup [id : Messages, next : Writes] /\ turn \in BOOLEAN
  /\ mode \in {"up", "down", "starting"}
  /\ latest \in [Messages -> Nat] /\ sent \in [Messages -> [texts : SUBSET Nat, auto : Nat]]
  /\ removed \subseteq Messages /\ raced \subseteq Messages /\ held \subseteq Messages
  /\ lapsed \subseteq Messages
  /\ retries \in [Messages -> Nat] /\ used \in [ops : Nat, faults : Nat, crashes : Nat]

\* A message that was accepted into the queue stays there until the provider has its
\* latest text, unless the user removed it, or edited it while an earlier text was under
\* way: through failed and unanswered dispatches, steers, retries and restarts.
NothingLost ==
  \A m \in Messages :
    latest[m] > 0 /\ m \notin Ids(items) \cup removed \cup raced => latest[m] \in sent[m].texts

\* drainAiSessionQueue sends a message once for each time the user queued it: an
\* unanswered dispatch is not repeated by itself, not even by the next process.
SentOnce == \A m \in Messages : sent[m].auto <= 1 + retries[m]

\* The uploads of a message in the queue stay with it: a failed dispatch, a steer, a retry,
\* an answer whose writes a death cut short, and restarts, one that dies before the claim
\* included, neither hand them back to the drafts nor commit those of a message the provider
\* never had.  Two cases are left out because the code does lose them: a death between the
\* two writes of a removal, and uploads older than 24 hours.
AttachmentsHeld ==
  \A m \in Ids(items) :
    /\ Up /\ m \notin lapsed => att[m] \in {"staged", "committed"}
    /\ att[m] = "committed" => sent[m].texts # {}

\* What waited when the user pressed stop is not sent by itself until the user resumes
\* the queue, whatever happens to the queue in between, restarts included.
StopHolds == [][\A m \in held : sending'.id = m /\ sending'.id # sending.id => m \notin held']_vars

\* While the process lives, a message that waits for the end of a turn sets a dispatch
\* off when the turn is over: the end is not missed because it came together with an
\* answer, an enqueue or another dispatch.
QueueMoves ==
  (mode = "up" /\ used.crashes = 0 /\ Busy /\ ~paused /\ HasQueued(items)) ~>
     (sending # NoCall \/ ~HasQueued(items) \/ paused \/ status = "failed" \/ mode = "down")
=============================================================================
