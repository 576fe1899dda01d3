------------------------ MODULE StorySchedulerProofs ------------------------
(***************************************************************************)
(* Proofs about StoryScheduler: its invariants hold for any number of runs *)
(* and tickets and for any policies and bounds.                            *)
(***************************************************************************)
EXTENDS StoryScheduler, FiniteSetTheorems, FunctionTheorems, SequenceTheorems, TLAPS

-----------------------------------------------------------------------------
(* The inductive invariant                                                 *)

\* What TypeOK leaves open: counters, and that the two queues are sequences.
MoreTypes ==
  /\ used \in [tickets : 0..MaxTickets, repeats : Nat, crashes : Nat]
  /\ queue \in Seq(Tickets) /\ todo \in Seq(Runs)

\* A request creates its row before it is submitted; at most two requests of one run
\* are under way.  A row that was not dispatched has no session.
RowsOK ==
  \A r \in Runs :
    /\ looked[r] + callers[r] <= 2
    /\ status[r] = "new" => callers[r] = 0 /\ r \notin skips
    /\ status[r] \in {"new", "queued", "skipped"} => sess[r] = "none"
    /\ status[r] \in {"running", "completed"} => sess[r] # "none"
    /\ r \in resolving => status[r] \in {"completed", "failed"}

\* Tickets are given out in order; an execution past its claim has a dispatched row.
TicketsOK ==
  \A n \in Tickets :
    /\ ticket[n].pc = "free" <=> n > used.tickets
    /\ ticket[n].pc # "free" => ticket[n].run \in Runs /\ status[ticket[n].run] # "new"
    /\ ticket[n].pc \in {"dispatch", "record", "fail", "publish", "wait"} =>
         status[ticket[n].run] \notin {"queued", "skipped"}
    /\ ticket[n].pc = "record" => sess[ticket[n].run] # "none"

\* The runtime's queue is in the order of arrival and holds the tickets that wait.
QueueOK ==
  /\ \A i, j \in 1..Len(queue) : i < j => queue[i] < queue[j]
  /\ \A n \in Tickets : ticket[n].pc = "queued" <=> \E i \in 1..Len(queue) : queue[i] = n
  /\ ~Accepting => queue = <<>>

\* What start() has still to resume; a process that was restarted has ended before.
ModeOK ==
  /\ \A i \in 1..Len(todo) : status[todo[i]] # "new"
  /\ mode \in {"down", "starting"} => used.crashes > 0

\* Somebody will submit, run or skip the run.
Owned(r) ==
  \/ callers[r] > 0 \/ r \in skips
  \/ \E n \in Tickets : ticket[n].run = r /\ ticket[n].pc \in {"queued", "load", "claim"}

\* QueuedIsOwned, with the runs that start() has not reached yet.
OwnedOK ==
  \A r \in Runs : status[r] = "queued" /\ Accepting =>
    Owned(r) \/ (mode = "starting" /\ \E i \in 1..Len(todo) : todo[i] = r)

\* RunningHoldsSlot, until the process ends.
SlotsOK ==
  mode \in {"up", "stopping"} /\ used.crashes = 0 =>
    \A r \in Runs : status[r] = "running" =>
      \E n \in Tickets : ticket[n].run = r /\ ticket[n].pc \in {"publish", "wait"}

SchedulerInv == MoreTypes /\ RowsOK /\ TicketsOK /\ QueueOK /\ ModeOK /\ OwnedOK /\ SlotsOK /\ FifoSlots

-----------------------------------------------------------------------------
(* Numbers and sets                                                        *)

(* The least of three numbers, as Finish takes it.                          *)
LEMMA MinOfThree ==
  ASSUME NEW a \in Nat, NEW b \in Nat, NEW c \in Nat
  PROVE  LET m == Min({a, b, c}) IN m \in {a, b, c} /\ m <= a /\ m <= b /\ m <= c
<1>1. \E x \in {a, b, c} : \A y \in {a, b, c} : x <= y
  OBVIOUS
<1>2. PICK x \in {a, b, c} : x = Min({a, b, c}) /\ \A y \in {a, b, c} : x <= y
  BY <1>1 DEF Min
<1> QED BY <1>2

(* The first k entries of a queue without repetitions are k tickets.        *)
LEMMA PrefixSet ==
  ASSUME NEW q \in Seq(Tickets), \A i, j \in 1..Len(q) : i < j => q[i] < q[j],
         NEW k \in 0..Len(q)
  PROVE  LET S == {q[i] : i \in 1..k}
         IN  S \subseteq Tickets /\ IsFiniteSet(S) /\ Cardinality(S) = k
<1> DEFINE S == {q[i] : i \in 1..k}
<1> DEFINE f == [i \in 1..k |-> q[i]]
<1>0. k \in Nat /\ Len(q) \in Nat /\ 1..k \subseteq 1..Len(q)
  OBVIOUS
<1>1. S \subseteq Tickets
  BY <1>0
<1>2. Tickets \subseteq Int
  BY DEF Tickets
<1>3. f \in Surjection(1..k, S)
  BY DEF Surjection
<1>4. f \in Injection(1..k, S)
  <2>1. ASSUME NEW i \in 1..k, NEW j \in 1..k, f[i] = f[j] PROVE i = j
    <3>1. i \in 1..Len(q) /\ j \in 1..Len(q) /\ q[i] = q[j]
      BY <1>0, <2>1
    <3>2. q[i] \in Int /\ q[j] \in Int
      BY <1>1, <1>2
    <3>3. ~(i < j) /\ ~(j < i)
      BY <3>1, <3>2
    <3> QED BY <3>3
  <2>2. f \in [1..k -> S]
    OBVIOUS
  <2> HIDE DEF S, f
  <2> QED BY <2>1, <2>2 DEF Injection, IsInjective
<1>5. IsFiniteSet(1..k) /\ Cardinality(1..k) = k
  BY <1>0, FS_Interval
<1> HIDE DEF S, f
<1>6. IsFiniteSet(S) /\ Cardinality(S) = k
  BY <1>3, <1>4, <1>5, FS_Surjection
<1> QED BY <1>1, <1>6 DEF S

(* The executions are finitely many tickets.                                *)
LEMMA ActiveFinite ==
  /\ Active \subseteq Tickets /\ IsFiniteSet(Active) /\ Cardinality(Active) \in Nat
  /\ \A over \in SUBSET Active : IsFiniteSet(over) /\ Cardinality(over) \in Nat
<1>1. IsFiniteSet(Tickets)
  BY SchedulerAssumption, FS_Interval DEF Tickets
<1>2. Active \subseteq Tickets
  BY DEF Active
<1>3. IsFiniteSet(Active)
  BY <1>1, <1>2, FS_Subset
<1> QED BY <1>2, <1>3, FS_Subset, FS_CardinalityType

(* Ending some executions and starting as many waiting tickets.             *)
LEMMA Exchange ==
  ASSUME NEW A, IsFiniteSet(A), NEW over \in SUBSET A, NEW next, IsFiniteSet(next), next \cap A = {}
  PROVE  /\ IsFiniteSet((A \ over) \cup next)
         /\ Cardinality(A \ over) = Cardinality(A) - Cardinality(over)
         /\ Cardinality((A \ over) \cup next) = Cardinality(A) - Cardinality(over) + Cardinality(next)
         /\ Cardinality(A) \in Nat /\ Cardinality(over) \in Nat /\ Cardinality(next) \in Nat
         /\ Cardinality(A \ over) \in Nat
<1>1. IsFiniteSet(over) /\ IsFiniteSet(A \ over)
  BY FS_Subset
<1>2. (A \ over) \cap over = {} /\ (A \ over) \cup over = A /\ (A \ over) \cap next = {}
  OBVIOUS
<1>3. Cardinality({}) = 0
  BY FS_EmptySet
<1>4. /\ Cardinality(A) \in Nat /\ Cardinality(over) \in Nat /\ Cardinality(next) \in Nat
      /\ Cardinality(A \ over) \in Nat
  BY <1>1, FS_CardinalityType
<1>5. Cardinality(A) = Cardinality(A \ over) + Cardinality(over) - 0
  BY <1>1, <1>2, <1>3, FS_Union
<1>6. /\ IsFiniteSet((A \ over) \cup next)
      /\ Cardinality((A \ over) \cup next) = Cardinality(A \ over) + Cardinality(next) - 0
  BY <1>1, <1>2, <1>3, FS_Union
<1> QED BY <1>4, <1>5, <1>6

-----------------------------------------------------------------------------
(* The runtime: tickets, queue and slots                                   *)

TicketType == [run : Runs \cup {0}, pc : Executing \cup {"free", "queued", "skipped", "done"}]

(* Finish keeps the queue in order, gives the slots to those who wait         *)
(* longest, and otherwise leaves the tickets alone.                          *)
LEMMA FinishSlots ==
  ASSUME TypeOK, MoreTypes, QueueOK, FifoSlots, NEW over \in SUBSET Active, Finish(over),
         UNCHANGED <<mode, policy>>
  PROVE  /\ ticket' \in [Tickets -> TicketType] /\ queue' \in Seq(Tickets) /\ recent' \in BOOLEAN
         /\ QueueOK' /\ FifoSlots'
         /\ \A n \in Tickets :
              /\ ticket'[n].run = ticket[n].run
              /\ n \in over => ticket'[n].pc = "done"
              /\ n \notin over => \/ ticket'[n].pc = ticket[n].pc
                                  \/ ticket[n].pc = "queued" /\ ticket'[n].pc = "load"
<1> DEFINE free == policy.limit - Cardinality(Active \ over)
           k == IF Accepting THEN Min({Cardinality(over), Len(queue), free}) ELSE 0
           next == {queue[i] : i \in 1..k}
<1>0. /\ ticket \in [Tickets -> TicketType] /\ queue \in Seq(Tickets) /\ Len(queue) \in Nat
      /\ policy.limit \in Nat /\ recent \in BOOLEAN /\ policy.cooldown \in BOOLEAN
      /\ Tickets \subseteq Nat
  BY SchedulerAssumption DEF TypeOK, MoreTypes, TicketType, Tickets
<1>1. /\ Cardinality(Active) \in Nat /\ Cardinality(over) \in Nat /\ Cardinality(Active \ over) \in Nat
      /\ Cardinality(Active \ over) = Cardinality(Active) - Cardinality(over)
      /\ IsFiniteSet(Active) /\ Active \subseteq Tickets
  <2>1. IsFiniteSet({}) /\ {} \cap Active = {}
    BY FS_EmptySet
  <2>2. IsFiniteSet(Active) /\ Active \subseteq Tickets
    BY ActiveFinite
  <2> QED BY <2>1, <2>2, Exchange
<1>2. /\ free \in Nat /\ free = policy.limit - Cardinality(Active) + Cardinality(over)
      /\ Cardinality(Active) <= policy.limit
  BY <1>0, <1>1 DEF FifoSlots
<1>3. /\ k \in 0..Len(queue) /\ k <= free /\ k <= Cardinality(over)
      /\ Accepting => k \in {Cardinality(over), Len(queue), free}
  <2>1. CASE ~Accepting
    BY <2>1, <1>0, <1>1, <1>2
  <2>2. CASE Accepting
    <3> HIDE DEF free
    <3>1. k = Min({Cardinality(over), Len(queue), free})
      BY <2>2
    <3> HIDE DEF k
    <3>2. Cardinality(over) \in Nat /\ Len(queue) \in Nat /\ free \in Nat
      BY <1>0, <1>1, <1>2
    <3>3. /\ k \in {Cardinality(over), Len(queue), free}
          /\ k <= Cardinality(over) /\ k <= Len(queue) /\ k <= free
      BY <3>1, <3>2, MinOfThree
    <3> QED BY <3>2, <3>3
  <2> QED BY <2>1, <2>2
<1>4. /\ ticket' = [n \in Tickets |-> IF n \in over THEN [ticket[n] EXCEPT !.pc = "done"]
                                     ELSE IF n \in next THEN [ticket[n] EXCEPT !.pc = "load"]
                                     ELSE ticket[n]]
      /\ queue' = SubSeq(queue, k + 1, Len(queue))
      /\ recent' = (recent \/ (k > 0 /\ policy.cooldown))
  BY DEF Finish
<1> HIDE DEF k, free
<1>5. next \subseteq Tickets /\ IsFiniteSet(next) /\ Cardinality(next) = k
  BY <1>0, <1>3, PrefixSet DEF QueueOK
<1>6. \A n \in next : ticket[n].pc = "queued"
  <2>1. ASSUME NEW i \in 1..k PROVE queue[i] \in Tickets /\ i \in 1..Len(queue)
    BY <1>0, <1>3, <1>5
  <2> QED BY <2>1 DEF QueueOK
<1>7. next \cap Active = {}
  BY <1>6 DEF Active, Executing
<1> HIDE DEF next
<1>8. ticket' \in [Tickets -> TicketType]
  BY <1>0, <1>4 DEF TicketType, Executing
<1>9. \A n \in Tickets :
        /\ ticket'[n].run = ticket[n].run
        /\ n \in over => ticket'[n].pc = "done"
        /\ n \notin over /\ n \in next => ticket[n].pc = "queued" /\ ticket'[n].pc = "load"
        /\ n \notin over /\ n \notin next => ticket'[n].pc = ticket[n].pc
  BY <1>0, <1>4, <1>6 DEF TicketType
<1>10. /\ queue' \in Seq(Tickets) /\ Len(queue') = Len(queue) - k
       /\ \A i \in 1..Len(queue') : i + k \in 1..Len(queue) /\ queue'[i] = queue[i + k]
  <2>1. k \in Int /\ k + 1 \in Int /\ Len(queue) \in Int /\ 0 <= k /\ k <= Len(queue)
    BY <1>0, <1>3
  <2>2. \A i \in (k + 1)..Len(queue) : queue[i] \in Tickets
    BY <1>0, <2>1
  <2>3. /\ queue' \in Seq(Tickets)
        /\ Len(queue') = IF k + 1 <= Len(queue) THEN Len(queue) - (k + 1) + 1 ELSE 0
        /\ \A i \in 1..(Len(queue) - (k + 1) + 1) : queue'[i] = queue[(k + 1) + i - 1]
    BY <1>4, <2>1, <2>2, SubSeqProperties
  <2>4. Len(queue') = Len(queue) - k
    BY <2>1, <2>3
  <2>5. ASSUME NEW i \in 1..Len(queue')
        PROVE  i + k \in 1..Len(queue) /\ queue'[i] = queue[i + k]
    <3>1. i \in Int /\ 1 <= i /\ i <= Len(queue) - k
      BY <2>1, <2>4
    <3>2. i \in 1..(Len(queue) - (k + 1) + 1) /\ (k + 1) + i - 1 = i + k /\ i + k \in 1..Len(queue)
      BY <2>1, <3>1
    <3> QED BY <2>3, <3>2
  <2> QED BY <2>3, <2>4, <2>5
<1>11. \A n \in Tickets : ticket'[n].pc = "queued" <=> ticket[n].pc = "queued" /\ n \notin next
  BY <1>7, <1>9 DEF Active, Executing
<1>12. QueueOK'
  <2>1. \A i, j \in 1..Len(queue') : i < j => queue'[i] < queue'[j]
    BY <1>0, <1>3, <1>10, SMTT(30) DEF QueueOK
  <2>2. ASSUME NEW n \in Tickets
        PROVE  ticket'[n].pc = "queued" <=> \E i \in 1..Len(queue') : queue'[i] = n
    <3>1. ASSUME ticket'[n].pc = "queued" PROVE \E i \in 1..Len(queue') : queue'[i] = n
      <4>1. PICK i \in 1..Len(queue) : queue[i] = n
        BY <1>11, <3>1 DEF QueueOK
      <4>2. i \notin 1..k
        BY <1>11, <3>1, <4>1 DEF next
      <4>3. i - k \in 1..Len(queue') /\ (i - k) + k = i
        BY <1>0, <1>3, <1>10, <4>2
      <4> QED BY <1>10, <4>1, <4>3
    <3>2. ASSUME NEW i \in 1..Len(queue'), queue'[i] = n PROVE ticket'[n].pc = "queued"
      <4>1. i + k \in 1..Len(queue) /\ queue[i + k] = n
        BY <1>10, <3>2
      <4>2. n \notin next
        <5> SUFFICES ASSUME NEW j \in 1..k, queue[j] = n PROVE FALSE
          BY DEF next
        <5>1. j \in 1..Len(queue) /\ j < i + k
          BY <1>0, <1>3, <1>10
        <5>2. queue[j] < queue[i + k]
          BY <4>1, <5>1 DEF QueueOK
        <5> QED BY <1>0, <4>1, <5>2
      <4> QED BY <1>11, <4>1, <4>2 DEF QueueOK
    <3> QED BY <3>1, <3>2
  <2>3. ~Accepting' => queue' = <<>>
    <3>1. Accepting' = Accepting
      BY DEF Accepting
    <3>2. ASSUME ~Accepting' PROVE queue' = <<>>
      <4>1. queue = <<>>
        BY <3>1, <3>2 DEF QueueOK
      <4>2. Len(queue') = 0
        BY <1>3, <1>10, <4>1
      <4> QED BY <1>10, <4>2, EmptySeq
    <3> QED BY <3>2
  <2> QED BY <2>1, <2>2, <2>3 DEF QueueOK
<1>13. Active' = (Active \ over) \cup next
  <2>1. \A n \in Tickets : ticket'[n].pc \in Executing <=> n \in (Active \ over) \cup next
    BY <1>7, <1>9 DEF Active, Executing
  <2> QED BY <1>1, <1>5, <2>1 DEF Active
<1>14. /\ Cardinality(Active') = Cardinality(Active) - Cardinality(over) + k
       /\ Cardinality(Active') \in Nat
  <2>1. Cardinality(Active') = Cardinality(Active) - Cardinality(over) + k
    BY <1>1, <1>5, <1>7, <1>13, Exchange
  <2> QED BY <2>1, <1>1, <1>3
<1>15. FifoSlots'
  <2>1. Cardinality(Active') <= policy'.limit
    BY <1>0, <1>1, <1>2, <1>3, <1>14
  <2>2. ASSUME Accepting', queue' # <<>> PROVE Cardinality(Active') = policy'.limit
    <3>1. Accepting
      BY <2>2 DEF Accepting
    <3>2. Len(queue') > 0 /\ k < Len(queue)
      BY <2>2, <1>0, <1>3, <1>10
    <3>3. queue # <<>>
      BY <3>2, <1>0, <1>3
    <3>4. Cardinality(Active) = policy.limit
      BY <3>1, <3>3 DEF FifoSlots
    <3>5. k = Cardinality(over)
      BY <1>0, <1>1, <1>2, <1>3, <3>1, <3>2, <3>4
    <3> QED BY <1>0, <1>1, <1>14, <3>4, <3>5
  <2>3. ASSUME NEW n \in Tickets, NEW m \in Tickets, n < m, ticket'[n].pc = "queued"
        PROVE  ticket'[m].pc \in {"free", "queued", "skipped"}
    <3>1. ticket[n].pc = "queued" /\ n \notin next
      BY <1>11, <2>3
    <3>2. ticket[m].pc \in {"free", "queued", "skipped"}
      BY <2>3, <3>1 DEF FifoSlots
    <3>3. m \notin over
      BY <3>2 DEF Active, Executing
    <3>4. m \notin next
      <4> SUFFICES ASSUME NEW j \in 1..k, queue[j] = m PROVE FALSE
        BY DEF next
      <4>1. PICK i \in 1..Len(queue) : queue[i] = n
        BY <3>1 DEF QueueOK
      <4>2. i \notin 1..k /\ j \in 1..Len(queue) /\ i \in Int /\ j \in Int
        BY <1>0, <1>3, <3>1, <4>1 DEF next
      <4>3. j < i
        BY <1>3, <4>2
      <4>4. m < n
        BY <4>1, <4>2, <4>3 DEF QueueOK
      <4> QED BY <1>0, <2>3, <4>4
    <3> QED BY <1>9, <3>2, <3>3, <3>4
  <2> QED BY <2>1, <2>2, <2>3 DEF FifoSlots
<1>16. recent' \in BOOLEAN
  BY <1>0, <1>4
<1>17. \A n \in Tickets :
         /\ ticket'[n].run = ticket[n].run
         /\ n \in over => ticket'[n].pc = "done"
         /\ n \notin over => \/ ticket'[n].pc = ticket[n].pc
                             \/ ticket[n].pc = "queued" /\ ticket'[n].pc = "load"
  BY <1>9
<1> QED BY <1>8, <1>10, <1>12, <1>15, <1>16, <1>17

(* A submission takes the next ticket: it is skipped, waits behind the others *)
(* with all slots taken, or starts with nobody waiting.                      *)
LEMMA SubmissionSlots ==
  ASSUME TypeOK, MoreTypes, TicketsOK, QueueOK, FifoSlots, NEW r \in Runs, Submission(r),
         UNCHANGED <<mode, policy>>
  PROVE  /\ used' \in [tickets : 0..MaxTickets, repeats : Nat, crashes : Nat]
         /\ used'.crashes = used.crashes /\ used'.tickets = used.tickets + 1
         /\ ticket' \in [Tickets -> TicketType] /\ queue' \in Seq(Tickets) /\ recent' \in BOOLEAN
         /\ QueueOK' /\ FifoSlots'
         /\ skips \subseteq skips' /\ skips' \subseteq skips \cup {r}
         /\ \E n \in Tickets :
              /\ n = used.tickets + 1 /\ ticket[n].pc = "free" /\ ticket'[n].run = r
              /\ \A m \in Tickets \ {n} : ticket'[m] = ticket[m]
              /\ ticket'[n].pc \in {"skipped", "queued", "load"}
              /\ ticket'[n].pc = "skipped" => r \in skips'
<1> DEFINE n == used.tickets + 1
<1>0. /\ ticket \in [Tickets -> TicketType] /\ queue \in Seq(Tickets) /\ Len(queue) \in Nat
      /\ policy.limit \in Nat /\ recent \in BOOLEAN /\ policy.cooldown \in BOOLEAN
      /\ Tickets = 1..MaxTickets /\ MaxTickets \in Nat
      /\ used \in [tickets : 0..MaxTickets, repeats : Nat, crashes : Nat]
  BY SchedulerAssumption DEF TypeOK, MoreTypes, TicketType, Tickets
<1>1. n \in Tickets /\ used' = [used EXCEPT !.tickets = n]
  BY DEF Submission
<1>2. /\ used' \in [tickets : 0..MaxTickets, repeats : Nat, crashes : Nat]
      /\ used'.crashes = used.crashes /\ used'.tickets = n
  BY <1>0, <1>1
<1>3. ticket[n].pc = "free"
  BY <1>0, <1>1 DEF TicketsOK
<1>4. PICK x \in {"skipped", "queued", "load"} : ticket' = [ticket EXCEPT ![n] = [run |-> r, pc |-> x]]
  BY DEF Submission
<1>5. /\ ticket' \in [Tickets -> TicketType] /\ ticket'[n] = [run |-> r, pc |-> x]
      /\ \A m \in Tickets \ {n} : ticket'[m] = ticket[m]
  BY <1>0, <1>1, <1>4 DEF TicketType, Executing
<1>6. /\ x = "skipped" => skips' = skips \cup {r} /\ UNCHANGED <<queue, recent>>
      /\ x = "queued" => /\ Accepting /\ Cardinality(Active) >= policy.limit
                         /\ queue' = Append(queue, n) /\ UNCHANGED <<skips, recent>>
      /\ x = "load" => /\ Accepting /\ ~(Cardinality(Active) >= policy.limit)
                       /\ recent' = policy.cooldown /\ UNCHANGED <<skips, queue>>
  <2>1. /\ ticket' = [ticket EXCEPT ![n] = [run |-> r, pc |-> "skipped"]] => x = "skipped"
        /\ ticket' = [ticket EXCEPT ![n] = [run |-> r, pc |-> "queued"]] => x = "queued"
        /\ ticket' = [ticket EXCEPT ![n] = [run |-> r, pc |-> "load"]] => x = "load"
    BY <1>0, <1>1, <1>5
  <2> QED BY <2>1 DEF Submission
<1>7. (Accepting' = Accepting) /\ (Active' = IF x = "load" THEN Active \cup {n} ELSE Active)
  <2>1. \A m \in Tickets \ {n} : ticket'[m].pc = ticket[m].pc
    BY <1>5
  <2>2. n \notin Active /\ (n \in Active' <=> x = "load")
    BY <1>1, <1>3, <1>5 DEF Active, Executing
  <2> QED BY <1>1, <2>1, <2>2 DEF Active, Accepting
<1>8. /\ IsFiniteSet(Active) /\ Cardinality(Active) \in Nat /\ Active \subseteq Tickets /\ n \notin Active
      /\ Cardinality(Active \cup {n}) = Cardinality(Active) + 1
  <2>1. IsFiniteSet(Active) /\ Cardinality(Active) \in Nat /\ Active \subseteq Tickets /\ n \notin Active
    BY <1>3, ActiveFinite DEF Active, Executing
  <2> QED BY <2>1, FS_AddElement
<1>9. \A i \in 1..Len(queue) : queue[i] \in Tickets /\ queue[i] < n
  <2> SUFFICES ASSUME NEW i \in 1..Len(queue) PROVE queue[i] \in Tickets /\ queue[i] < n
    OBVIOUS
  <2>1. queue[i] \in Tickets
    BY <1>0
  <2>2. ticket[queue[i]].pc = "queued"
    BY <2>1 DEF QueueOK
  <2>3. ~(queue[i] > used.tickets)
    BY <2>1, <2>2 DEF TicketsOK
  <2> QED BY <1>0, <2>1, <2>3
<1>10. x = "load" => queue = <<>> /\ \A m \in Tickets : ticket[m].pc # "queued"
  <2>1. x = "load" => queue = <<>>
    BY <1>0, <1>6, <1>8 DEF FifoSlots
  <2>2. queue = <<>> => \A m \in Tickets : ticket[m].pc # "queued"
    BY DEF QueueOK
  <2> QED BY <2>1, <2>2
<1>11. CASE x = "queued"
  <2>1. /\ queue' = Append(queue, n) /\ queue' \in Seq(Tickets) /\ Len(queue') = Len(queue) + 1
        /\ queue'[Len(queue) + 1] = n /\ \A i \in 1..Len(queue) : queue'[i] = queue[i]
        /\ UNCHANGED <<skips, recent>>
    <3>1. queue' = Append(queue, n) /\ UNCHANGED <<skips, recent>>
      BY <1>6, <1>11
    <3> HIDE DEF n
    <3> QED BY <1>0, <1>1, <3>1, AppendProperties
  <2>2. QueueOK'
    <3>1. \A i, j \in 1..Len(queue') : i < j => queue'[i] < queue'[j]
      <4> SUFFICES ASSUME NEW i \in 1..Len(queue'), NEW j \in 1..Len(queue'), i < j
                   PROVE  queue'[i] < queue'[j]
        OBVIOUS
      <4>1. i \in 1..Len(queue)
        BY <1>0, <2>1
      <4>2. CASE j = Len(queue) + 1
        BY <1>9, <2>1, <4>1, <4>2
      <4>3. CASE j # Len(queue) + 1
        <5>0. Len(queue') = Len(queue) + 1 /\ Len(queue) \in Nat
          BY <1>0, <2>1
        <5>1. j \in 1..Len(queue)
          BY <4>3, <5>0
        <5>2. \A a, b \in 1..Len(queue) : a < b => queue[a] < queue[b]
          BY DEF QueueOK
        <5>3. queue[i] < queue[j]
          BY <4>1, <5>1, <5>2
        <5> QED BY <2>1, <4>1, <5>1, <5>3
      <4> QED BY <4>2, <4>3
    <3>2. ASSUME NEW m \in Tickets
          PROVE  ticket'[m].pc = "queued" <=> \E i \in 1..Len(queue') : queue'[i] = m
      <4>1. CASE m = n
        <5>1. Len(queue) + 1 \in 1..Len(queue') /\ queue'[Len(queue) + 1] = m
          BY <1>0, <2>1, <4>1
        <5> QED BY <1>5, <1>11, <4>1, <5>1
      <4>2. CASE m # n
        <5>1. ticket'[m].pc = "queued" <=> \E i \in 1..Len(queue) : queue[i] = m
          BY <1>5, <4>2 DEF QueueOK
        <5>2. (\E i \in 1..Len(queue) : queue[i] = m) <=> \E i \in 1..Len(queue') : queue'[i] = m
          BY <1>0, <2>1, <4>2
        <5> QED BY <5>1, <5>2
      <4> QED BY <4>1, <4>2
    <3>3. Accepting'
      BY <1>6, <1>7, <1>11
    <3> QED BY <3>1, <3>2, <3>3 DEF QueueOK
  <2>3. FifoSlots'
    <3>1. Cardinality(Active') = policy'.limit
      BY <1>0, <1>6, <1>7, <1>8, <1>11 DEF FifoSlots
    <3>2. \A l, m \in Tickets : l < m /\ ticket'[l].pc = "queued"
                                => ticket'[m].pc \in {"free", "queued", "skipped"}
      <4> SUFFICES ASSUME NEW l \in Tickets, NEW m \in Tickets, l < m, ticket'[l].pc = "queued", m # n
                   PROVE  ticket'[m].pc \in {"free", "queued", "skipped"}
        BY <1>5, <1>11
      <4>1. CASE l = n
        BY <1>0, <1>1, <1>5, <4>1 DEF TicketsOK
      <4>2. CASE l # n
        BY <1>5, <4>2 DEF FifoSlots
      <4> QED BY <4>1, <4>2
    <3> QED BY <1>0, <3>1, <3>2 DEF FifoSlots
  <2> QED BY <1>0, <1>1, <1>2, <1>3, <1>5, <1>11, <2>1, <2>2, <2>3
<1>12. CASE x # "queued"
  <2>1. /\ queue' = queue /\ recent' \in BOOLEAN /\ skips \subseteq skips' /\ skips' \subseteq skips \cup {r}
        /\ x = "skipped" => r \in skips'
    BY <1>0, <1>6, <1>12
  <2>2. \A m \in Tickets : ticket'[m].pc = "queued" <=> ticket[m].pc = "queued"
    BY <1>3, <1>5, <1>12
  <2>3. QueueOK'
    BY <1>7, <2>1, <2>2 DEF QueueOK
  <2>4. Cardinality(Active') <= policy'.limit
    BY <1>0, <1>6, <1>7, <1>8, <1>12 DEF FifoSlots
  <2>5. Accepting' /\ queue' # <<>> => Cardinality(Active') = policy'.limit
    BY <1>7, <1>10, <1>12, <2>1 DEF FifoSlots
  <2>6. \A l, m \in Tickets : l < m /\ ticket'[l].pc = "queued"
                              => ticket'[m].pc \in {"free", "queued", "skipped"}
    <3> SUFFICES ASSUME NEW l \in Tickets, NEW m \in Tickets, l < m, ticket'[l].pc = "queued"
                 PROVE  ticket'[m].pc \in {"free", "queued", "skipped"}
      OBVIOUS
    <3>1. ticket[l].pc = "queued" /\ x = "skipped"
      BY <1>10, <1>12, <2>2
    <3> QED BY <1>5, <3>1 DEF FifoSlots
  <2>7. FifoSlots'
    BY <2>4, <2>5, <2>6 DEF FifoSlots
  <2> QED BY <1>0, <1>1, <1>2, <1>3, <1>5, <1>12, <2>1, <2>3, <2>7
<1> QED BY <1>11, <1>12

(* An execution that goes on keeps its slot.                                 *)
LEMMA GotoSlots ==
  ASSUME TypeOK, MoreTypes, QueueOK, FifoSlots, NEW n \in Active, NEW x \in Executing, Goto(n, x),
         UNCHANGED <<mode, policy>>
  PROVE  /\ ticket' \in [Tickets -> TicketType] /\ UNCHANGED <<queue, recent>>
         /\ QueueOK' /\ FifoSlots'
         /\ n \in Tickets /\ ticket'[n].run = ticket[n].run /\ ticket'[n].pc = x
         /\ \A m \in Tickets \ {n} : ticket'[m] = ticket[m]
<1>1. n \in Tickets /\ ticket[n].pc \in Executing /\ ticket \in [Tickets -> TicketType]
  BY DEF Active, TypeOK, TicketType
<1>2. /\ ticket' \in [Tickets -> TicketType] /\ UNCHANGED <<queue, recent>>
      /\ ticket'[n].run = ticket[n].run /\ ticket'[n].pc = x
      /\ \A m \in Tickets \ {n} : ticket'[m] = ticket[m]
  BY <1>1 DEF Goto, TicketType
<1>3. /\ \A m \in Tickets : ticket'[m].pc = "queued" <=> ticket[m].pc = "queued"
      /\ \A m \in Tickets : ticket'[m].pc \in Executing <=> ticket[m].pc \in Executing
      /\ \A m \in Tickets : ticket[m].pc \in {"free", "queued", "skipped"} => ticket'[m].pc = ticket[m].pc
  BY <1>1, <1>2 DEF Executing
<1>4. Active' = Active /\ Accepting' = Accepting
  BY <1>3 DEF Active, Accepting
<1>5. QueueOK'
  BY <1>2, <1>3, <1>4 DEF QueueOK
<1>6. FifoSlots'
  <2>1. \A l, m \in Tickets : l < m /\ ticket'[l].pc = "queued"
                              => ticket'[m].pc \in {"free", "queued", "skipped"}
    BY <1>3 DEF FifoSlots
  <2> QED BY <1>2, <1>4, <2>1 DEF FifoSlots
<1> QED BY <1>1, <1>2, <1>5, <1>6

(* clearQueued skips what waits and nothing else.                            *)
LEMMA ClearSlots ==
  ASSUME TypeOK, MoreTypes, TicketsOK, QueueOK, FifoSlots, ClearQueued, UNCHANGED policy
  PROVE  /\ ticket' \in [Tickets -> TicketType] /\ queue' = <<>> /\ queue' \in Seq(Tickets)
         /\ QueueOK' /\ FifoSlots' /\ skips \subseteq skips'
         /\ \A s \in skips' \ skips : s \in Runs /\ status[s] # "new"
         /\ \A n \in Tickets : /\ ticket'[n].run = ticket[n].run
                               /\ ticket[n].pc # "queued" => ticket'[n].pc = ticket[n].pc
                               /\ ticket[n].pc = "queued" => /\ ticket'[n].pc = "skipped"
                                                             /\ ticket[n].run \in skips'
<1>1. /\ ticket \in [Tickets -> TicketType] /\ queue \in Seq(Tickets) /\ queue' = <<>>
      /\ queue' \in Seq(Tickets)
  BY DEF TypeOK, MoreTypes, TicketType, ClearQueued
<1>2. \A n \in Tickets : n \in Range(queue) <=> ticket[n].pc = "queued"
  BY <1>1 DEF QueueOK, Range
<1>3. Range(queue) \subseteq Tickets
  BY DEF TypeOK
<1>4. ticket' \in [Tickets -> TicketType]
  BY <1>1 DEF ClearQueued, TicketType
<1>5. \A n \in Tickets : /\ ticket'[n].run = ticket[n].run
                         /\ ticket[n].pc # "queued" => ticket'[n].pc = ticket[n].pc
                         /\ ticket[n].pc = "queued" => /\ ticket'[n].pc = "skipped"
                                                       /\ ticket[n].run \in skips'
  BY <1>1, <1>2 DEF ClearQueued, TicketType
<1>6. skips \subseteq skips' /\ \A s \in skips' \ skips : s \in Runs /\ status[s] # "new"
  BY <1>2, <1>3 DEF ClearQueued, TicketsOK
<1>7. \A n \in Tickets : ticket'[n].pc # "queued"
  BY <1>5
<1>8. QueueOK'
  BY <1>1, <1>7 DEF QueueOK
<1>9. Active' = Active
  BY <1>5 DEF Active, Executing
<1>10. FifoSlots'
  BY <1>1, <1>7, <1>9 DEF FifoSlots
<1> QED BY <1>1, <1>4, <1>5, <1>6, <1>8, <1>10

(* The end of the process frees every slot.                                  *)
LEMMA CrashSlots ==
  ASSUME TypeOK, MoreTypes, QueueOK, Crash
  PROVE  /\ ticket' \in [Tickets -> TicketType] /\ queue' = <<>> /\ queue' \in Seq(Tickets)
         /\ QueueOK' /\ FifoSlots'
         /\ \A n \in Tickets : /\ ticket'[n].run = ticket[n].run
                               /\ ticket'[n].pc \notin Executing \cup {"queued"}
                               /\ ticket'[n].pc = "free" <=> ticket[n].pc = "free"
<1>1. /\ ticket \in [Tickets -> TicketType] /\ queue \in Seq(Tickets) /\ queue' = <<>>
      /\ queue' \in Seq(Tickets) /\ policy' = policy /\ policy.limit \in Nat
  BY SchedulerAssumption DEF TypeOK, MoreTypes, TicketType, Crash
<1>2. \A n \in Tickets : n \in Active \cup Range(queue) <=> ticket[n].pc \in Executing \cup {"queued"}
  BY <1>1 DEF QueueOK, Range, Active
<1>3. ticket' \in [Tickets -> TicketType]
  BY <1>1 DEF Crash, TicketType
<1>4. \A n \in Tickets : /\ ticket'[n].run = ticket[n].run
                         /\ ticket'[n].pc \notin Executing \cup {"queued"}
                         /\ ticket'[n].pc = "free" <=> ticket[n].pc = "free"
  <2> SUFFICES ASSUME NEW n \in Tickets
               PROVE  /\ ticket'[n].run = ticket[n].run
                      /\ ticket'[n].pc \notin Executing \cup {"queued"}
                      /\ ticket'[n].pc = "free" <=> ticket[n].pc = "free"
    OBVIOUS
  <2>1. CASE ticket[n].pc \in Executing \cup {"queued"}
    <3>1. ticket'[n] = [ticket[n] EXCEPT !.pc = "done"]
      BY <1>2, <2>1 DEF Crash
    <3> QED BY <1>1, <2>1, <3>1 DEF TicketType, Executing
  <2>2. CASE ticket[n].pc \notin Executing \cup {"queued"}
    <3>1. ticket'[n] = ticket[n]
      BY <1>2, <2>2 DEF Crash
    <3> QED BY <2>2, <3>1
  <2> QED BY <2>1, <2>2
<1>5. Active' = {}
  BY <1>4 DEF Active
<1>6. QueueOK'
  BY <1>1, <1>4 DEF QueueOK
<1>7. FifoSlots'
  BY <1>1, <1>4, <1>5, FS_EmptySet DEF FifoSlots
<1> QED BY <1>1, <1>3, <1>4, <1>6, <1>7

-----------------------------------------------------------------------------
(* The rows                                                                *)

(* allowedTransitions of the statuses an execution writes.                   *)
LEMMA Transitions ==
  ASSUME TypeOK, NEW r \in Runs
  PROVE  /\ CanBecome(r, "dispatching") => status[r] \in {"dispatching", "queued"}
         /\ CanBecome(r, "running") => status[r] \in {"running", "dispatching"}
         /\ CanBecome(r, "failed") => status[r] \in {"failed", "dispatching", "running"}
         /\ status[r] \in {"dispatching", "queued"} => CanBecome(r, "dispatching")
         /\ status[r] \in {"new", "queued", "dispatching", "running", "completed", "failed", "skipped"}
<1>1. status[r] \in {"new", "queued", "dispatching", "running", "completed", "failed", "skipped"}
  BY DEF TypeOK, allowedTransitions
<1>2. /\ allowedTransitions["new"] = {} /\ allowedTransitions["queued"] = {"dispatching", "skipped"}
      /\ allowedTransitions["dispatching"] = {"running", "failed"}
      /\ allowedTransitions["running"] = {"completed", "failed"} /\ allowedTransitions["completed"] = {}
      /\ allowedTransitions["failed"] = {} /\ allowedTransitions["skipped"] = {}
  BY DEF allowedTransitions
<1> QED BY <1>1, <1>2 DEF CanBecome

Statuses == {"new", "queued", "dispatching", "running", "completed", "failed", "skipped"}

(* The statuses of a run row.                                                *)
LEMMA StatusDomain == DOMAIN allowedTransitions = Statuses
BY DEF allowedTransitions, Statuses

\* What an execution may write into its row.
Advances(s, t) ==
  \/ t = s
  \/ s = "queued" /\ t = "dispatching"
  \/ s = "dispatching" /\ t \in {"running", "failed"}
  \/ s = "running" /\ t = "failed"

\* The ticket moves to x or is done, and others at most get a slot.
Moves(n, x) ==
  /\ ticket' \in [Tickets -> TicketType] /\ queue' \in Seq(Tickets) /\ recent' \in BOOLEAN
  /\ QueueOK' /\ FifoSlots'
  /\ \A m \in Tickets \ {n} : /\ ticket'[m].run = ticket[m].run
                              /\ \/ ticket'[m].pc = ticket[m].pc
                                 \/ ticket[m].pc = "queued" /\ ticket'[m].pc = "load"
  /\ ticket'[n].run = ticket[n].run /\ ticket'[n].pc = x

(* A step of the execution of ticket n: its row and its session advance, its  *)
(* ticket moves, and other tickets at most get a slot.                       *)
LEMMA ExecutionStep ==
  ASSUME TypeOK, SchedulerInv, NEW n \in Tickets, NEW s \in Statuses,
         ticket[n].pc \in Executing,
         Advances(status[ticket[n].run], s), status' = [status EXCEPT ![ticket[n].run] = s],
         sess' \in [Runs -> {"none", "active", "ended"}],
         \A q \in Runs : q # ticket[n].run => sess'[q] = sess[q],
         sess[ticket[n].run] # "none" => sess'[ticket[n].run] # "none",
         s \in {"queued", "skipped"} => sess'[ticket[n].run] = sess[ticket[n].run],
         s = "running" => sess'[ticket[n].run] # "none",
         UNCHANGED <<mode, policy, looked, callers, todo, skips, resolving, used>>,
         NEW x \in (Executing \ {"load"}) \cup {"done"}, Moves(n, x),
         x \in {"dispatch", "record", "fail", "publish", "wait"} => s \notin {"queued", "skipped"},
         x = "record" => sess'[ticket[n].run] # "none",
         s = "queued" => x = "claim",
         s = "running" /\ (ticket[n].pc \in {"publish", "wait"} \/ status[ticket[n].run] # "running")
           => x \in {"publish", "wait"}
  PROVE  TypeOK' /\ SchedulerInv'
<1> DEFINE r == ticket[n].run
<1> USE DEF Moves
<1>0. /\ r \in Runs /\ status[r] # "new" /\ n <= used.tickets
      /\ status \in [Runs -> Statuses] /\ ticket[n].pc # "free"
      /\ used.tickets \in Int /\ n \in Int
  BY StatusDomain, SchedulerAssumption DEF SchedulerInv, TicketsOK, TypeOK, Executing, MoreTypes, Tickets
<1>1. /\ status' \in [Runs -> Statuses] /\ status'[r] = s
      /\ \A q \in Runs \ {r} : status'[q] = status[q]
      /\ s # "new"
  BY <1>0 DEF Advances
<1>2. TypeOK' /\ MoreTypes'
  <2>1. Range(queue') \subseteq Tickets
    BY DEF Range
  <2> QED BY <1>1, <2>1, StatusDomain DEF TypeOK, MoreTypes, SchedulerInv, TicketType
<1>3. RowsOK'
  <2> SUFFICES ASSUME NEW q \in Runs
               PROVE  /\ looked'[q] + callers'[q] <= 2
                      /\ status'[q] = "new" => callers'[q] = 0 /\ q \notin skips'
                      /\ status'[q] \in {"new", "queued", "skipped"} => sess'[q] = "none"
                      /\ status'[q] \in {"running", "completed"} => sess'[q] # "none"
                      /\ q \in resolving' => status'[q] \in {"completed", "failed"}
    BY DEF RowsOK
  <2>1. CASE q # r
    BY <1>1, <2>1 DEF SchedulerInv, RowsOK
  <2>2. CASE q = r
    BY <1>0, <1>1, <2>2 DEF SchedulerInv, RowsOK, Advances
  <2> QED BY <2>1, <2>2
<1>4. TicketsOK'
  <2> SUFFICES ASSUME NEW m \in Tickets
               PROVE  /\ ticket'[m].pc = "free" <=> m > used'.tickets
                      /\ ticket'[m].pc # "free" => ticket'[m].run \in Runs /\ status'[ticket'[m].run] # "new"
                      /\ ticket'[m].pc \in {"dispatch", "record", "fail", "publish", "wait"} =>
                           status'[ticket'[m].run] \notin {"queued", "skipped"}
                      /\ ticket'[m].pc = "record" => sess'[ticket'[m].run] # "none"
    BY DEF TicketsOK
  <2>1. CASE m = n
    BY <1>0, <1>1, <2>1 DEF Executing
  <2>2. CASE m # n
    <3>1. /\ ticket[m].pc = "free" <=> m > used.tickets
          /\ ticket[m].pc # "free" => ticket[m].run \in Runs /\ status[ticket[m].run] # "new"
          /\ ticket[m].pc \in {"dispatch", "record", "fail", "publish", "wait"} =>
               status[ticket[m].run] \notin {"queued", "skipped"}
          /\ ticket[m].pc = "record" => sess[ticket[m].run] # "none"
      BY DEF SchedulerInv, TicketsOK
    <3>2. /\ ticket'[m].run = ticket[m].run
          /\ ticket'[m].pc = ticket[m].pc \/ (ticket[m].pc = "queued" /\ ticket'[m].pc = "load")
      BY <2>2
    <3>3. ticket[m].run \in Runs => /\ status[ticket[m].run] # "new" => status'[ticket[m].run] # "new"
                                    /\ status[ticket[m].run] \notin {"new", "queued", "skipped"}
                                       => status'[ticket[m].run] \notin {"queued", "skipped"}
                                    /\ sess[ticket[m].run] # "none" => sess'[ticket[m].run] # "none"
      BY <1>1 DEF Advances
    <3> QED BY <3>1, <3>2, <3>3
  <2> QED BY <2>1, <2>2
<1>5. ModeOK'
  <2>1. \A i \in 1..Len(todo) : todo[i] \in Runs
    BY DEF SchedulerInv, MoreTypes
  <2> QED BY <1>1, <2>1 DEF SchedulerInv, ModeOK
<1>6. OwnedOK'
  <2> SUFFICES ASSUME NEW q \in Runs, status'[q] = "queued", Accepting'
               PROVE  Owned(q)' \/ (mode' = "starting" /\ \E i \in 1..Len(todo') : todo'[i] = q)
    BY DEF OwnedOK
  <2>1. status[q] = "queued" /\ Accepting
    BY <1>1 DEF Advances, Accepting
  <2>2. CASE q = r
    BY <1>1, <2>2 DEF Owned
  <2>3. CASE q # r
    <3>1. Owned(q) => Owned(q)'
      <4>1. ASSUME NEW m \in Tickets, ticket[m].run = q, ticket[m].pc \in {"queued", "load", "claim"}
            PROVE  ticket'[m].run = q /\ ticket'[m].pc \in {"queued", "load", "claim"}
        BY <2>3, <4>1
      <4> QED BY <4>1 DEF Owned
    <3> QED BY <2>1, <3>1 DEF SchedulerInv, OwnedOK
  <2> QED BY <2>2, <2>3
<1>7. SlotsOK'
  <2> SUFFICES ASSUME mode' \in {"up", "stopping"}, used'.crashes = 0, NEW q \in Runs, status'[q] = "running"
               PROVE  \E m \in Tickets : ticket'[m].run = q /\ ticket'[m].pc \in {"publish", "wait"}
    BY DEF SlotsOK
  <2>1. CASE q = r /\ status[r] # "running"
    BY <1>1, <2>1
  <2>2. CASE status[q] = "running"
    <3>1. PICK m \in Tickets : ticket[m].run = q /\ ticket[m].pc \in {"publish", "wait"}
      BY <2>2 DEF SchedulerInv, SlotsOK
    <3>2. CASE m # n
      BY <3>1, <3>2
    <3>3. CASE m = n
      BY <1>1, <3>1, <3>3
    <3> QED BY <3>2, <3>3
  <2> QED BY <1>1, <2>1, <2>2
<1> QED BY <1>2, <1>3, <1>4, <1>5, <1>6, <1>7 DEF SchedulerInv

(* A finish or a move of one execution, in the words of ExecutionStep.        *)
LEMMA FinishOrGoto ==
  ASSUME TypeOK, SchedulerInv, NEW n \in Tickets, ticket[n].pc \in Executing, UNCHANGED <<mode, policy>>,
         NEW x \in Executing \cup {"done"},
         \/ x = "done" /\ Finish({n})
         \/ x \in Executing /\ Goto(n, x)
  PROVE  Moves(n, x)
<1>1. n \in Active /\ MoreTypes /\ QueueOK /\ FifoSlots /\ recent \in BOOLEAN /\ queue \in Seq(Tickets)
  BY DEF Active, SchedulerInv, MoreTypes, TypeOK
<1>2. CASE x = "done" /\ Finish({n})
  BY <1>1, <1>2, FinishSlots DEF Moves
<1>3. CASE x \in Executing /\ Goto(n, x)
  BY <1>1, <1>3, GotoSlots DEF Moves
<1> QED BY <1>2, <1>3

(* Every step of executeRun keeps the invariant.                             *)
LEMMA ExecuteRunStep ==
  ASSUME TypeOK, SchedulerInv, NEW n \in Tickets, ExecuteRun(n)
  PROVE  TypeOK' /\ SchedulerInv'
<1> DEFINE r == ticket[n].run
<1>0. /\ ticket[n].pc \in Executing /\ ticket[n].pc # "free"
      /\ UNCHANGED <<mode, policy, looked, callers, todo, skips, resolving, used>>
  BY DEF ExecuteRun, Load, Claim, Dispatch, Record, RecordFailure, AwaitCompletion, At, Executing
<1>1. /\ r \in Runs /\ status \in [Runs -> Statuses] /\ status[r] \in Statuses /\ status[r] # "new"
      /\ sess \in [Runs -> {"none", "active", "ended"}]
      /\ status[r] \in {"running", "completed"} => sess[r] # "none"
      /\ ticket[n].pc \in {"dispatch", "record", "fail", "publish", "wait"} => status[r] \notin {"queued", "skipped"}
      /\ ticket[n].pc = "record" => sess[r] # "none"
  BY <1>0, StatusDomain DEF SchedulerInv, TicketsOK, RowsOK, TypeOK
<1>2. status[r] = "new" \/ status' = status => status' = [status EXCEPT ![r] = status[r]]
  BY <1>1
<1>3. CASE Load(n)
  <2>1. ticket[n].pc = "load" /\ UNCHANGED <<status, sess>>
    BY <1>3 DEF Load, At
  <2>2. PICK x \in {"claim", "dispatch", "wait", "done"} :
          /\ \/ x = "done" /\ Finish({n})
             \/ x \in Executing /\ Goto(n, x)
          /\ x = "claim" <=> status[r] = "queued"
          /\ x = "wait" <=> status[r] = "running"
          /\ x \in {"dispatch", "wait"} => status[r] \notin {"queued", "skipped"}
    BY <1>3 DEF Load, Terminal, Executing
  <2>3. x \in Executing \cup {"done"} /\ x \in (Executing \ {"load"}) \cup {"done"}
    BY DEF Executing
  <2>m. Moves(n, x)
    BY <1>0, <1>1, <1>2, <2>1, <2>2, <2>3, FinishOrGoto
  <2> QED BY <1>0, <1>1, <1>2, <2>1, <2>2, <2>3, <2>m, ExecutionStep DEF Advances
<1>4. CASE Claim(n)
  <2>1. ticket[n].pc = "claim" /\ UNCHANGED sess
    BY <1>4 DEF Claim, At
  <2>2. CASE CanBecome(r, "dispatching")
    <3>1. status' = [status EXCEPT ![r] = "dispatching"] /\ Goto(n, "dispatch")
      BY <1>4, <2>2 DEF Claim, Become
    <3>2. Advances(status[r], "dispatching") /\ "dispatching" \in Statuses /\ "dispatch" \in Executing \ {"load"}
      BY <1>1, <2>2, Transitions DEF Advances, Statuses, Executing
    <3>m. Moves(n, "dispatch")
      BY <1>0, <1>1, <2>1, <3>1, <3>2, FinishOrGoto
    <3> QED BY <1>0, <1>1, <2>1, <3>1, <3>2, <3>m, ExecutionStep
  <2>3. CASE ~CanBecome(r, "dispatching")
    <3>1. UNCHANGED status /\ Finish({n})
      BY <1>4, <2>3 DEF Claim
    <3>2. status[r] # "queued" /\ "done" \in Executing \cup {"done"}
      BY <1>1, <2>3, Transitions
    <3>m. Moves(n, "done")
      BY <1>0, <1>1, <1>2, <2>1, <3>1, <3>2, FinishOrGoto
    <3> QED BY <1>0, <1>1, <1>2, <2>1, <3>1, <3>2, <3>m, ExecutionStep DEF Advances
  <2> QED BY <2>2, <2>3
<1>5. CASE Dispatch(n)
  <2>1. ticket[n].pc = "dispatch" /\ UNCHANGED status
    BY <1>5 DEF Dispatch, At
  <2>2. PICK x \in {"record", "fail", "done"} :
          /\ \/ x = "done" /\ Finish({n})
             \/ x \in Executing /\ Goto(n, x)
          /\ \/ sess' = sess /\ x # "record"
             \/ sess' = [sess EXCEPT ![r] = IF @ = "none" THEN "active" ELSE @]
    BY <1>5 DEF Dispatch, Executing
  <2>3. x \in Executing \cup {"done"} /\ x \in (Executing \ {"load"}) \cup {"done"}
    BY DEF Executing
  <2>4. /\ sess' \in [Runs -> {"none", "active", "ended"}]
        /\ \A q \in Runs : q # r => sess'[q] = sess[q]
        /\ sess[r] # "none" => sess'[r] # "none"
        /\ x = "record" => sess'[r] # "none"
    BY <1>1, <2>2
  <2>5. status[r] \notin {"queued", "skipped"} /\ status' = [status EXCEPT ![r] = status[r]]
    BY <1>1, <1>2, <2>1
  <2>m. Moves(n, x)
    BY <1>0, <1>1, <2>1, <2>2, <2>3, <2>4, <2>5, FinishOrGoto
  <2> QED BY <1>0, <1>1, <2>1, <2>2, <2>3, <2>4, <2>5, <2>m, ExecutionStep DEF Advances
<1>6. CASE Record(n)
  <2>1. ticket[n].pc = "record" /\ UNCHANGED sess
    BY <1>6 DEF Record, At
  <2>2. CASE CanBecome(r, "running")
    <3>1. status' = [status EXCEPT ![r] = "running"] /\ Goto(n, "publish")
      BY <1>6, <2>2 DEF Record, Become
    <3>2. Advances(status[r], "running") /\ "running" \in Statuses /\ "publish" \in Executing \ {"load"}
      BY <1>1, <2>2, Transitions DEF Advances, Statuses, Executing
    <3>m. Moves(n, "publish")
      BY <1>0, <1>1, <2>1, <3>1, <3>2, FinishOrGoto
    <3> QED BY <1>0, <1>1, <2>1, <3>1, <3>2, <3>m, ExecutionStep
  <2>3. CASE ~CanBecome(r, "running")
    <3>1. UNCHANGED status /\ Goto(n, "fail")
      BY <1>6, <2>3 DEF Record
    <3>2. status[r] # "running" /\ "fail" \in Executing \ {"load"}
      BY <2>3 DEF CanBecome, Executing
    <3>3. status[r] \notin {"queued", "skipped"} /\ status' = [status EXCEPT ![r] = status[r]]
      BY <1>1, <1>2, <2>1, <3>1
    <3>m. Moves(n, "fail")
      BY <1>0, <1>1, <2>1, <3>1, <3>2, <3>3, FinishOrGoto
    <3> QED BY <1>0, <1>1, <2>1, <3>1, <3>2, <3>3, <3>m, ExecutionStep DEF Advances
  <2> QED BY <2>2, <2>3
<1>7. CASE RecordFailure(n)
  <2>1. ticket[n].pc = "fail" /\ UNCHANGED sess /\ Finish({n})
    BY <1>7 DEF RecordFailure, At
  <2>2. CASE CanBecome(r, "failed")
    <3>1. status' = [status EXCEPT ![r] = "failed"]
      BY <1>7, <2>2 DEF RecordFailure, Become
    <3>2. Advances(status[r], "failed") /\ "failed" \in Statuses /\ "done" \in Executing \cup {"done"}
      BY <1>1, <2>2, Transitions DEF Advances, Statuses
    <3>m. Moves(n, "done")
      BY <1>0, <1>1, <2>1, <3>1, <3>2, FinishOrGoto
    <3> QED BY <1>0, <1>1, <2>1, <3>1, <3>2, <3>m, ExecutionStep
  <2>3. CASE ~CanBecome(r, "failed")
    <3>1. UNCHANGED status
      BY <1>7, <2>3 DEF RecordFailure
    <3>2. status[r] \notin {"queued", "skipped"} /\ status' = [status EXCEPT ![r] = status[r]]
      BY <1>1, <1>2, <2>1, <3>1
    <3>3. "done" \in Executing \cup {"done"}
      OBVIOUS
    <3>m. Moves(n, "done")
      BY <1>0, <1>1, <2>1, <3>1, <3>2, <3>3, FinishOrGoto
    <3> QED BY <1>0, <1>1, <2>1, <3>1, <3>2, <3>3, <3>m, ExecutionStep DEF Advances
  <2> QED BY <2>2, <2>3
<1>8. CASE AwaitCompletion(n)
  <2>1. ticket[n].pc = "publish" /\ UNCHANGED <<status, sess>> /\ Goto(n, "wait")
    BY <1>8 DEF AwaitCompletion, At
  <2>2. "wait" \in Executing \ {"load"}
    BY DEF Executing
  <2>3. status[r] \notin {"queued", "skipped"} /\ status' = [status EXCEPT ![r] = status[r]]
    BY <1>1, <1>2, <2>1
  <2>m. Moves(n, "wait")
    BY <1>0, <1>1, <2>1, <2>2, <2>3, FinishOrGoto
  <2> QED BY <1>0, <1>1, <2>1, <2>2, <2>3, <2>m, ExecutionStep DEF Advances
<1> QED BY <1>3, <1>4, <1>5, <1>6, <1>7, <1>8 DEF ExecuteRun

(* What depends on tickets, queue and slots only stays when they do.          *)
LEMMA SameSlots ==
  ASSUME QueueOK, FifoSlots, UNCHANGED <<mode, policy, ticket, queue>>
  PROVE  QueueOK' /\ FifoSlots'
<1>1. Active' = Active /\ Accepting' = Accepting
  BY DEF Active, Accepting
<1> QED BY <1>1 DEF QueueOK, FifoSlots

(* Timers and requests: a run is looked up and its row created.               *)
LEMMA RequestStep ==
  ASSUME TypeOK, SchedulerInv, NEW r \in Runs, Request(r) \/ CreateRun(r)
  PROVE  TypeOK' /\ SchedulerInv'
<1>0. /\ UNCHANGED <<sess, mode, policy, todo, ticket, queue, recent, skips, resolving>>
      /\ looked \in [Runs -> 0..2] /\ callers \in [Runs -> 0..2] /\ status \in [Runs -> Statuses]
      /\ used \in [tickets : 0..MaxTickets, repeats : Nat, crashes : Nat]
      /\ \A q \in Runs : looked[q] + callers[q] <= 2 /\ (status[q] = "new" => callers[q] = 0)
  BY StatusDomain DEF Request, CreateRun, TypeOK, SchedulerInv, MoreTypes, RowsOK
<1>1. /\ status' \in [Runs -> Statuses]
      /\ \A q \in Runs : status'[q] = status[q] \/ (status[q] = "new" /\ status'[q] = "queued" /\ callers'[q] > 0)
  BY <1>0 DEF Request, CreateRun, Become, Statuses
<1>2. /\ looked' \in [Runs -> 0..2] /\ callers' \in [Runs -> 0..2]
      /\ \A q \in Runs : looked'[q] + callers'[q] <= 2 /\ callers'[q] >= callers[q]
      /\ \A q \in Runs : status'[q] = "new" => callers'[q] = 0
  <2>1. CASE Request(r)
    <3>1. looked[r] \in {0, 1} /\ callers[r] = 0 /\ looked' = [looked EXCEPT ![r] = @ + 1] /\ UNCHANGED <<callers, status>>
      BY <1>0, <2>1 DEF Request
    <3> QED BY <1>0, <3>1
  <2>2. CASE CreateRun(r)
    <3>1. /\ looked[r] > 0 /\ looked' = [looked EXCEPT ![r] = @ - 1]
          /\ \/ callers' = [callers EXCEPT ![r] = @ + 1] /\ status'[r] # "new"
             \/ UNCHANGED <<callers, status>>
          /\ \A q \in Runs \ {r} : status'[q] = status[q]
      BY <1>0, <2>2 DEF CreateRun, Become
    <3>2. looked[r] \in 0..2 /\ callers[r] \in 0..2 /\ looked[r] + callers[r] <= 2
      BY <1>0
    <3>3. looked' \in [Runs -> 0..2] /\ callers' \in [Runs -> 0..2]
      BY <1>0, <3>1, <3>2
    <3>4. ASSUME NEW q \in Runs
          PROVE  /\ looked'[q] + callers'[q] <= 2 /\ callers'[q] >= callers[q]
                 /\ status'[q] = "new" => callers'[q] = 0
      <4>1. looked[q] \in 0..2 /\ callers[q] \in 0..2 /\ looked[q] + callers[q] <= 2
        BY <1>0
      <4>2. CASE q = r
        BY <1>0, <3>1, <3>2, <4>2
      <4>3. CASE q # r
        BY <1>0, <3>1, <4>1, <4>3
      <4> QED BY <4>2, <4>3
    <3> QED BY <3>3, <3>4
  <2> QED BY <2>1, <2>2
<1>3. used' \in [tickets : 0..MaxTickets, repeats : Nat, crashes : Nat] /\ used'.crashes = used.crashes
      /\ used'.tickets = used.tickets
  BY <1>0 DEF Request, CreateRun
<1>4. TypeOK' /\ MoreTypes'
  BY <1>0, <1>1, <1>2, <1>3, StatusDomain DEF TypeOK, MoreTypes, SchedulerInv
<1>5. RowsOK'
  <2> SUFFICES ASSUME NEW q \in Runs
               PROVE  /\ looked'[q] + callers'[q] <= 2
                      /\ status'[q] = "new" => callers'[q] = 0 /\ q \notin skips'
                      /\ status'[q] \in {"new", "queued", "skipped"} => sess'[q] = "none"
                      /\ status'[q] \in {"running", "completed"} => sess'[q] # "none"
                      /\ q \in resolving' => status'[q] \in {"completed", "failed"}
    BY DEF RowsOK
  <2> QED BY <1>0, <1>1, <1>2 DEF SchedulerInv, RowsOK
<1>6. TicketsOK'
  BY <1>0, <1>1, <1>3 DEF SchedulerInv, TicketsOK
<1>7. ModeOK'
  <2>1. \A i \in 1..Len(todo) : todo[i] \in Runs
    BY DEF SchedulerInv, MoreTypes
  <2> QED BY <1>0, <1>1, <1>3, <2>1 DEF SchedulerInv, ModeOK
<1>8. OwnedOK'
  <2> SUFFICES ASSUME NEW q \in Runs, status'[q] = "queued", Accepting'
               PROVE  Owned(q)' \/ (mode' = "starting" /\ \E i \in 1..Len(todo') : todo'[i] = q)
    BY DEF OwnedOK
  <2>1. CASE status[q] = "queued"
    <3>1. callers[q] \in 0..2 /\ callers'[q] \in 0..2 /\ callers'[q] >= callers[q]
      BY <1>0, <1>2
    <3>2. Owned(q) => Owned(q)'
      BY <1>0, <3>1 DEF Owned
    <3>3. Accepting
      BY <1>0 DEF Accepting
    <3> QED BY <1>0, <2>1, <3>2, <3>3 DEF SchedulerInv, OwnedOK
  <2>2. CASE status[q] # "queued"
    BY <1>1, <2>2 DEF Owned
  <2> QED BY <2>1, <2>2
<1>9. SlotsOK'
  BY <1>0, <1>1, <1>3 DEF SchedulerInv, SlotsOK
<1>10. QueueOK' /\ FifoSlots'
  BY <1>0, SameSlots DEF SchedulerInv
<1> QED BY <1>4, <1>5, <1>6, <1>7, <1>8, <1>9, <1>10 DEF SchedulerInv

(* runtime.submit, called for a request or by start().                       *)
LEMMA SubmissionStep ==
  ASSUME TypeOK, SchedulerInv, NEW r \in Runs, Submission(r), status[r] # "new",
         UNCHANGED <<status, sess, mode, policy, looked, resolving>>,
         callers' \in [Runs -> 0..2], todo' \in Seq(Runs),
         \A q \in Runs : /\ callers'[q] <= callers[q]
                         /\ q # r => callers'[q] = callers[q],
         \A i \in 1..Len(todo') : \E j \in 1..Len(todo) : todo'[i] = todo[j],
         \A i \in 1..Len(todo) : todo[i] # r => \E j \in 1..Len(todo') : todo'[j] = todo[i]
  PROVE  TypeOK' /\ SchedulerInv'
<1>0. /\ used' \in [tickets : 0..MaxTickets, repeats : Nat, crashes : Nat]
      /\ used'.crashes = used.crashes /\ used'.tickets = used.tickets + 1
      /\ ticket' \in [Tickets -> TicketType] /\ queue' \in Seq(Tickets) /\ recent' \in BOOLEAN
      /\ QueueOK' /\ FifoSlots'
      /\ skips \subseteq skips' /\ skips' \subseteq skips \cup {r}
      /\ \E n \in Tickets :
           /\ n = used.tickets + 1 /\ ticket[n].pc = "free" /\ ticket'[n].run = r
           /\ \A m \in Tickets \ {n} : ticket'[m] = ticket[m]
           /\ ticket'[n].pc \in {"skipped", "queued", "load"}
           /\ ticket'[n].pc = "skipped" => r \in skips'
  BY SubmissionSlots DEF SchedulerInv
<1>1. PICK n \in Tickets :
        /\ n = used.tickets + 1 /\ ticket[n].pc = "free" /\ ticket'[n].run = r
        /\ \A m \in Tickets \ {n} : ticket'[m] = ticket[m]
        /\ ticket'[n].pc \in {"skipped", "queued", "load"}
        /\ ticket'[n].pc = "skipped" => r \in skips'
  BY <1>0
<1>2. TypeOK' /\ MoreTypes'
  <2>1. Range(queue') \subseteq Tickets /\ Range(todo') \subseteq Runs
    BY <1>0 DEF Range
  <2> QED BY <1>0, <2>1 DEF TypeOK, MoreTypes, SchedulerInv, TicketType
<1>3. RowsOK'
  <2> SUFFICES ASSUME NEW q \in Runs
               PROVE  /\ looked'[q] + callers'[q] <= 2
                      /\ status'[q] = "new" => callers'[q] = 0 /\ q \notin skips'
                      /\ status'[q] \in {"new", "queued", "skipped"} => sess'[q] = "none"
                      /\ status'[q] \in {"running", "completed"} => sess'[q] # "none"
                      /\ q \in resolving' => status'[q] \in {"completed", "failed"}
    BY DEF RowsOK
  <2>1. /\ looked[q] \in 0..2 /\ callers[q] \in 0..2 /\ callers'[q] \in 0..2 /\ callers'[q] <= callers[q]
        /\ q # r => callers'[q] = callers[q]
    BY DEF TypeOK
  <2> QED BY <1>0, <2>1 DEF SchedulerInv, RowsOK
<1>4. TicketsOK'
  <2> SUFFICES ASSUME NEW m \in Tickets
               PROVE  /\ ticket'[m].pc = "free" <=> m > used'.tickets
                      /\ ticket'[m].pc # "free" => ticket'[m].run \in Runs /\ status'[ticket'[m].run] # "new"
                      /\ ticket'[m].pc \in {"dispatch", "record", "fail", "publish", "wait"} =>
                           status'[ticket'[m].run] \notin {"queued", "skipped"}
                      /\ ticket'[m].pc = "record" => sess'[ticket'[m].run] # "none"
    BY DEF TicketsOK
  <2>1. m \in Int /\ used.tickets \in Int
    BY SchedulerAssumption DEF Tickets, SchedulerInv, MoreTypes
  <2>2. CASE m = n
    BY <1>0, <1>1, <2>1, <2>2
  <2>3. CASE m # n
    <3>1. ticket'[m] = ticket[m] /\ (m > used.tickets <=> m > used'.tickets)
      BY <1>0, <1>1, <2>1, <2>3
    <3> QED BY <3>1 DEF SchedulerInv, TicketsOK
  <2> QED BY <2>2, <2>3
<1>5. ModeOK'
  BY <1>0 DEF SchedulerInv, ModeOK
<1>6. OwnedOK'
  <2> SUFFICES ASSUME NEW q \in Runs, status'[q] = "queued", Accepting'
               PROVE  Owned(q)' \/ (mode' = "starting" /\ \E i \in 1..Len(todo') : todo'[i] = q)
    BY DEF OwnedOK
  <2>1. CASE q = r
    BY <1>1, <2>1 DEF Owned
  <2>2. CASE q # r
    <3>1. Owned(q) => Owned(q)'
      <4>1. ASSUME NEW m \in Tickets, ticket[m].run = q, ticket[m].pc \in {"queued", "load", "claim"}
            PROVE  ticket'[m].run = q /\ ticket'[m].pc \in {"queued", "load", "claim"}
        BY <1>1, <4>1
      <4> QED BY <1>0, <2>2, <4>1 DEF Owned
    <3>2. Accepting
      BY DEF Accepting
    <3> QED BY <2>2, <3>1, <3>2 DEF SchedulerInv, OwnedOK
  <2> QED BY <2>1, <2>2
<1>7. SlotsOK'
  <2>1. \A m \in Tickets : ticket[m].pc \in {"publish", "wait"} => ticket'[m] = ticket[m]
    BY <1>1
  <2> QED BY <1>0, <2>1, SMTT(30) DEF SchedulerInv, SlotsOK
<1> QED BY <1>0, <1>2, <1>3, <1>4, <1>5, <1>6, <1>7 DEF SchedulerInv

(* The two callers of runtime.submit.                                        *)
LEMMA SubmitStep ==
  ASSUME TypeOK, SchedulerInv, Resume \/ \E r \in Runs : Submit(r)
  PROVE  TypeOK' /\ SchedulerInv'
<1>0. callers \in [Runs -> 0..2] /\ todo \in Seq(Runs)
  BY DEF TypeOK, SchedulerInv, MoreTypes
<1>1. ASSUME NEW r \in Runs, Submit(r) PROVE TypeOK' /\ SchedulerInv'
  <2>1. /\ callers[r] > 0 /\ callers' = [callers EXCEPT ![r] = @ - 1] /\ Submission(r)
        /\ UNCHANGED <<status, sess, mode, policy, looked, todo, resolving>>
    BY <1>1 DEF Submit
  <2>2. callers[r] \in 0..2 /\ status[r] # "new"
    BY <1>0, <2>1 DEF SchedulerInv, RowsOK
  <2>3. /\ callers' \in [Runs -> 0..2]
        /\ \A q \in Runs : callers'[q] <= callers[q] /\ (q # r => callers'[q] = callers[q])
    BY <1>0, <2>1, <2>2
  <2> QED BY <1>0, <2>1, <2>2, <2>3, SubmissionStep
<1>2. CASE Resume
  <2>1. /\ todo # <<>> /\ todo' = Tail(todo) /\ Submission(Head(todo))
        /\ UNCHANGED <<status, sess, mode, policy, looked, callers, resolving>>
    BY <1>2 DEF Resume
  <2>2. /\ Head(todo) \in Runs /\ todo' \in Seq(Runs) /\ Len(todo') = Len(todo) - 1
        /\ \A i \in 1..Len(todo') : todo'[i] = todo[i + 1]
    BY <1>0, <2>1, HeadTailProperties
  <2>3. Len(todo) \in Nat /\ Len(todo) > 0 /\ Head(todo) = todo[1]
    BY <1>0, <2>1
  <2>4. status[Head(todo)] # "new"
    BY <2>3 DEF SchedulerInv, ModeOK
  <2>5. \A i \in 1..Len(todo') : \E j \in 1..Len(todo) : todo'[i] = todo[j]
    <3> SUFFICES ASSUME NEW i \in 1..Len(todo') PROVE \E j \in 1..Len(todo) : todo'[i] = todo[j]
      OBVIOUS
    <3>1. i + 1 \in 1..Len(todo)
      BY <2>2, <2>3
    <3> QED BY <2>2, <3>1
  <2>6. \A i \in 1..Len(todo) : todo[i] # Head(todo) => \E j \in 1..Len(todo') : todo'[j] = todo[i]
    <3> SUFFICES ASSUME NEW i \in 1..Len(todo), todo[i] # Head(todo)
                 PROVE  \E j \in 1..Len(todo') : todo'[j] = todo[i]
      OBVIOUS
    <3>1. i - 1 \in 1..Len(todo') /\ (i - 1) + 1 = i
      BY <2>2, <2>3
    <3> QED BY <2>2, <3>1
  <2>7. \A q \in Runs : callers[q] <= callers[q]
    BY <1>0
  <2> QED BY <1>0, <2>1, <2>2, <2>4, <2>5, <2>6, <2>7, SubmissionStep
<1> QED BY <1>1, <1>2

(* A row that changes without a ticket: skipRun, the verdict of                *)
(* reconcileInstances, and the end of a session.                             *)
LEMMA RowStep ==
  ASSUME TypeOK, SchedulerInv, NEW r \in Runs, SkipRun(r) \/ Conclude(r) \/ SessionEnds(r)
  PROVE  TypeOK' /\ SchedulerInv'
<1>0. /\ UNCHANGED <<mode, policy, looked, callers, todo, ticket, queue, recent, used>>
      /\ status \in [Runs -> Statuses] /\ sess \in [Runs -> {"none", "active", "ended"}]
      /\ skips \subseteq Runs /\ resolving \subseteq Runs
  BY StatusDomain DEF SkipRun, Conclude, SessionEnds, TypeOK, memory
<1>1. /\ status' \in [Runs -> Statuses] /\ sess' \in [Runs -> {"none", "active", "ended"}]
      /\ skips' \subseteq skips /\ resolving' \subseteq Runs
      /\ \A q \in Runs : /\ sess'[q] = "none" <=> sess[q] = "none"
                         /\ \/ status'[q] = status[q]
                            \/ status[q] = "queued" /\ status'[q] = "skipped"
                            \/ status[q] = "running" /\ status'[q] \in {"completed", "failed"}
                         /\ status'[q] = "queued" /\ q \in skips => q \in skips'
                         /\ q \in resolving' => q \in resolving \/ status'[q] \in {"completed", "failed"}
  <2>1. CASE SkipRun(r)
    BY <1>0, <2>1 DEF SkipRun, Become, Statuses
  <2>2. CASE Conclude(r)
    BY <1>0, <2>2 DEF Conclude, Become, Statuses
  <2>3. CASE SessionEnds(r)
    BY <1>0, <2>3 DEF SessionEnds, memory
  <2> QED BY <2>1, <2>2, <2>3
<1>2. TypeOK' /\ MoreTypes'
  BY <1>0, <1>1, StatusDomain DEF TypeOK, MoreTypes, SchedulerInv
<1>3. RowsOK'
  <2> SUFFICES ASSUME NEW q \in Runs
               PROVE  /\ looked'[q] + callers'[q] <= 2
                      /\ status'[q] = "new" => callers'[q] = 0 /\ q \notin skips'
                      /\ status'[q] \in {"new", "queued", "skipped"} => sess'[q] = "none"
                      /\ status'[q] \in {"running", "completed"} => sess'[q] # "none"
                      /\ q \in resolving' => status'[q] \in {"completed", "failed"}
    BY DEF RowsOK
  <2> QED BY <1>0, <1>1 DEF SchedulerInv, RowsOK
<1>4. TicketsOK'
  <2> SUFFICES ASSUME NEW m \in Tickets
               PROVE  /\ ticket[m].pc = "free" <=> m > used.tickets
                      /\ ticket[m].pc # "free" => ticket[m].run \in Runs /\ status'[ticket[m].run] # "new"
                      /\ ticket[m].pc \in {"dispatch", "record", "fail", "publish", "wait"} =>
                           status'[ticket[m].run] \notin {"queued", "skipped"}
                      /\ ticket[m].pc = "record" => sess'[ticket[m].run] # "none"
    BY <1>0 DEF TicketsOK
  <2> QED BY <1>1 DEF SchedulerInv, TicketsOK
<1>5. ModeOK'
  <2>1. \A i \in 1..Len(todo) : todo[i] \in Runs
    BY DEF SchedulerInv, MoreTypes
  <2> QED BY <1>0, <1>1, <2>1 DEF SchedulerInv, ModeOK
<1>6. OwnedOK'
  <2> SUFFICES ASSUME NEW q \in Runs, status'[q] = "queued", Accepting'
               PROVE  Owned(q)' \/ (mode' = "starting" /\ \E i \in 1..Len(todo') : todo'[i] = q)
    BY DEF OwnedOK
  <2>1. status[q] = "queued" /\ Accepting
    BY <1>0, <1>1 DEF Accepting
  <2>2. Owned(q) => Owned(q)'
    BY <1>0, <1>1 DEF Owned
  <2> QED BY <1>0, <2>1, <2>2 DEF SchedulerInv, OwnedOK
<1>7. SlotsOK'
  BY <1>0, <1>1 DEF SchedulerInv, SlotsOK
<1>8. QueueOK' /\ FifoSlots'
  BY <1>0, SameSlots DEF SchedulerInv
<1> QED BY <1>2, <1>3, <1>4, <1>5, <1>6, <1>7, <1>8 DEF SchedulerInv

(* resolveCompletion gives back the slots of a run that has ended.            *)
LEMMA ResolveStep ==
  ASSUME TypeOK, SchedulerInv, NEW r \in Runs, Resolve(r)
  PROVE  TypeOK' /\ SchedulerInv'
<1> DEFINE over == {n \in Tickets : ticket[n].run = r /\ ticket[n].pc = "wait"}
<1>0. /\ r \in resolving /\ resolving' = resolving \ {r} /\ Finish(over)
      /\ UNCHANGED <<status, sess, mode, policy, looked, callers, todo, skips, used>>
      /\ status[r] \in {"completed", "failed"}
  BY DEF Resolve, SchedulerInv, RowsOK
<1>1. over \in SUBSET Active
  BY DEF Active, Executing
<1>2. /\ ticket' \in [Tickets -> TicketType] /\ queue' \in Seq(Tickets) /\ recent' \in BOOLEAN
      /\ QueueOK' /\ FifoSlots'
      /\ \A n \in Tickets : /\ ticket'[n].run = ticket[n].run
                            /\ n \in over => ticket'[n].pc = "done"
                            /\ n \notin over => \/ ticket'[n].pc = ticket[n].pc
                                                \/ ticket[n].pc = "queued" /\ ticket'[n].pc = "load"
  <2> HIDE DEF over
  <2> QED BY <1>0, <1>1, FinishSlots DEF SchedulerInv
<1>3. TypeOK' /\ MoreTypes'
  <2>1. Range(queue') \subseteq Tickets
    BY <1>2 DEF Range
  <2> QED BY <1>0, <1>2, <2>1 DEF TypeOK, MoreTypes, SchedulerInv, TicketType
<1>4. RowsOK' /\ ModeOK'
  BY <1>0 DEF SchedulerInv, RowsOK, ModeOK
<1>5. TicketsOK'
  BY <1>0, <1>2 DEF SchedulerInv, TicketsOK
<1>6. OwnedOK'
  <2>1. \A n \in Tickets : ticket[n].pc \in {"queued", "load", "claim"} =>
          ticket'[n].run = ticket[n].run /\ ticket'[n].pc \in {"queued", "load", "claim"}
    BY <1>2
  <2>2. \A q \in Runs : Owned(q) => Owned(q)'
    BY <1>0, <2>1 DEF Owned
  <2> QED BY <1>0, <2>2 DEF SchedulerInv, OwnedOK, Accepting
<1>7. SlotsOK'
  <2>1. \A n \in Tickets : ticket[n].pc \in {"publish", "wait"} /\ ticket[n].run # r =>
          ticket'[n].run = ticket[n].run /\ ticket'[n].pc \in {"publish", "wait"}
    BY <1>2
  <2> QED BY <1>0, <2>1 DEF SchedulerInv, SlotsOK
<1> QED BY <1>2, <1>3, <1>4, <1>5, <1>6, <1>7 DEF SchedulerInv

(* A sequence of all elements of a finite set, each once.                    *)
LEMMA SeqOfSet ==
  ASSUME NEW S, IsFiniteSet(S), NEW f \in SetToSeqs(S)
  PROVE  f \in Seq(S) /\ \A x \in S : \E i \in 1..Len(f) : f[i] = x
<1> DEFINE D == 1..Cardinality(S)
<1>1. Cardinality(S) \in Nat
  BY FS_CardinalityType
<1>2. f \in [D -> S] /\ \A i, j \in D : i # j => f[i] # f[j]
  BY DEF SetToSeqs
<1>3. f \in Seq(S) /\ Len(f) = Cardinality(S)
  BY <1>1, <1>2
<1>4. IsFiniteSet(D) /\ Cardinality(D) = Cardinality(S)
  BY <1>1, FS_Interval
<1>5. f \in Injection(D, S)
  BY <1>2 DEF Injection, IsInjective
<1>6. f \in Surjection(D, S)
  BY <1>4, <1>5, FS_Injection
<1>7. \A x \in S : \E i \in D : f[i] = x
  BY <1>6 DEF Surjection
<1> QED BY <1>3, <1>7

(* The steps that change no row and no ticket: time passes, the process has   *)
(* started.                                                                  *)
LEMMA QuietStep ==
  ASSUME TypeOK, SchedulerInv, Cool \/ Ready \/ UNCHANGED vars
  PROVE  TypeOK' /\ SchedulerInv'
<1>1. /\ UNCHANGED <<status, sess, policy, looked, callers, todo, ticket, queue, skips, resolving, used>>
      /\ recent' \in BOOLEAN
      /\ mode' = mode \/ (mode = "starting" /\ mode' = "up" /\ todo = <<>>)
  BY DEF Cool, Ready, vars, memory, TypeOK
<1>2. Accepting' = Accepting /\ Active' = Active
  BY <1>1 DEF Accepting, Active
<1>3. TypeOK' /\ MoreTypes' /\ RowsOK' /\ TicketsOK'
  BY <1>1 DEF TypeOK, MoreTypes, SchedulerInv, RowsOK, TicketsOK
<1>4. QueueOK' /\ FifoSlots'
  BY <1>1, <1>2 DEF SchedulerInv, QueueOK, FifoSlots
<1>5. ModeOK'
  BY <1>1 DEF SchedulerInv, ModeOK
<1>6. OwnedOK'
  <2>1. \A r \in Runs : Owned(r)' = Owned(r)
    BY <1>1 DEF Owned
  <2>2. todo = <<>> => ~ \E i \in 1..Len(todo) : TRUE
    OBVIOUS
  <2> QED BY <1>1, <1>2, <2>1, <2>2 DEF SchedulerInv, OwnedOK
<1>7. SlotsOK'
  <2>1. CASE mode' = mode
    BY <1>1, <2>1 DEF SchedulerInv, SlotsOK
  <2>2. CASE mode = "starting"
    BY <1>1, <2>2 DEF SchedulerInv, SlotsOK, ModeOK, MoreTypes
  <2> QED BY <1>1, <2>1, <2>2
<1> QED BY <1>3, <1>4, <1>5, <1>6, <1>7 DEF SchedulerInv

(* refresh and stop clear the queue.                                         *)
LEMMA ClearStep ==
  ASSUME TypeOK, SchedulerInv, Disable \/ Stop
  PROVE  TypeOK' /\ SchedulerInv'
<1>1. /\ UNCHANGED <<status, sess, policy, looked, callers, todo, recent, resolving, used>>
      /\ mode = "up" /\ mode' \in {"up", "stopping"} /\ ClearQueued
  BY DEF Disable, Stop
<1>2. /\ ticket' \in [Tickets -> TicketType] /\ queue' = <<>> /\ queue' \in Seq(Tickets)
      /\ QueueOK' /\ FifoSlots' /\ skips \subseteq skips'
      /\ \A s \in skips' \ skips : s \in Runs /\ status[s] # "new"
      /\ \A n \in Tickets : /\ ticket'[n].run = ticket[n].run
                            /\ ticket[n].pc # "queued" => ticket'[n].pc = ticket[n].pc
                            /\ ticket[n].pc = "queued" => /\ ticket'[n].pc = "skipped"
                                                          /\ ticket[n].run \in skips'
  BY <1>1, ClearSlots DEF SchedulerInv
<1>3. TypeOK' /\ MoreTypes'
  <2>1. Range(queue') = {} /\ skips' \subseteq Runs
    BY <1>2 DEF Range, TypeOK
  <2> QED BY <1>1, <1>2, <2>1 DEF TypeOK, MoreTypes, SchedulerInv, TicketType
<1>4. RowsOK' /\ ModeOK'
  BY <1>1, <1>2 DEF SchedulerInv, RowsOK, ModeOK
<1>5. TicketsOK'
  BY <1>1, <1>2 DEF SchedulerInv, TicketsOK
<1>6. OwnedOK'
  <2>1. ASSUME NEW r \in Runs, Owned(r) PROVE Owned(r)'
    <3>1. ASSUME NEW n \in Tickets, ticket[n].run = r, ticket[n].pc \in {"queued", "load", "claim"}
          PROVE  r \in skips' \/ (ticket'[n].run = r /\ ticket'[n].pc \in {"queued", "load", "claim"})
      BY <1>2, <3>1
    <3> QED BY <1>1, <1>2, <2>1, <3>1 DEF Owned
  <2> QED BY <1>1, <2>1 DEF SchedulerInv, OwnedOK, Accepting
<1>7. SlotsOK'
  <2>1. \A n \in Tickets : ticket[n].pc \in {"publish", "wait"} =>
          ticket'[n].run = ticket[n].run /\ ticket'[n].pc = ticket[n].pc
    BY <1>2
  <2> QED BY <1>1, <2>1 DEF SchedulerInv, SlotsOK
<1> QED BY <1>2, <1>3, <1>4, <1>5, <1>6, <1>7 DEF SchedulerInv

(* The end of the process, and start() with the rows it finds.               *)
LEMMA RestartStep ==
  ASSUME TypeOK, SchedulerInv, Crash \/ Start
  PROVE  TypeOK' /\ SchedulerInv'
<1>1. CASE Crash
  <2>1. /\ UNCHANGED <<status, sess, policy>> /\ mode' = "down"
        /\ looked' = [r \in Runs |-> 0] /\ callers' = [r \in Runs |-> 0] /\ todo' = <<>>
        /\ recent' = FALSE /\ skips' = {} /\ resolving' = {}
        /\ used' = [used EXCEPT !.crashes = @ + 1]
    BY <1>1 DEF Crash
  <2>2. /\ used' \in [tickets : 0..MaxTickets, repeats : Nat, crashes : Nat] /\ used'.crashes > 0
        /\ used'.tickets = used.tickets
    BY <2>1 DEF SchedulerInv, MoreTypes
  <2>3. /\ ticket' \in [Tickets -> TicketType] /\ queue' = <<>> /\ queue' \in Seq(Tickets)
        /\ QueueOK' /\ FifoSlots'
        /\ \A n \in Tickets : /\ ticket'[n].run = ticket[n].run
                              /\ ticket'[n].pc \notin Executing \cup {"queued"}
                              /\ ticket'[n].pc = "free" <=> ticket[n].pc = "free"
    BY <1>1, CrashSlots DEF SchedulerInv
  <2>4. TypeOK' /\ MoreTypes'
    <3>1. Range(queue') = {} /\ Range(todo') = {} /\ todo' \in Seq(Runs)
      BY <2>1, <2>3 DEF Range
    <3>2. looked' \in [Runs -> 0..2] /\ callers' \in [Runs -> 0..2]
      BY <2>1
    <3> QED BY <2>1, <2>2, <2>3, <3>1, <3>2 DEF TypeOK, MoreTypes, TicketType
  <2>5. RowsOK' /\ ModeOK'
    BY <2>1, <2>2 DEF SchedulerInv, RowsOK, ModeOK
  <2>6. TicketsOK'
    BY <2>1, <2>2, <2>3 DEF SchedulerInv, TicketsOK, Executing
  <2>7. OwnedOK' /\ SlotsOK'
    BY <2>1 DEF OwnedOK, SlotsOK, Accepting
  <2> QED BY <2>3, <2>4, <2>5, <2>6, <2>7 DEF SchedulerInv
<1>2. CASE Start
  <2>1. /\ UNCHANGED <<status, sess, policy, looked, callers, ticket, queue, recent, skips, resolving, used>>
        /\ mode = "down" /\ mode' = "starting" /\ todo' \in SetToSeqs(Pending)
    BY <1>2 DEF Start
  <2>2. todo' \in Seq(Pending) /\ \A r \in Pending : \E i \in 1..Len(todo') : todo'[i] = r
    <3>1. IsFiniteSet(Pending)
      BY SchedulerAssumption, FS_Subset DEF Pending
    <3> QED BY <2>1, <3>1, SeqOfSet
  <2>3. /\ \A i \in 1..Len(todo') : todo'[i] \in Pending
        /\ todo' \in Seq(Runs) /\ Range(todo') \subseteq Runs
    BY <2>2 DEF Range, Pending
  <2>4. queue = <<>> /\ Active' = Active
    BY <2>1 DEF SchedulerInv, QueueOK, Accepting, Active
  <2>5. TypeOK' /\ MoreTypes' /\ RowsOK' /\ TicketsOK'
    BY <2>1, <2>3 DEF TypeOK, MoreTypes, SchedulerInv, RowsOK, TicketsOK
  <2>6. QueueOK' /\ FifoSlots'
    BY <2>1, <2>4 DEF SchedulerInv, QueueOK, FifoSlots
  <2>7. ModeOK'
    BY <2>1, <2>3 DEF SchedulerInv, ModeOK, Pending
  <2>8. OwnedOK'
    BY <2>1, <2>2 DEF OwnedOK, Pending, Terminal
  <2>9. SlotsOK'
    BY <2>1 DEF SlotsOK
  <2> QED BY <2>5, <2>6, <2>7, <2>8, <2>9 DEF SchedulerInv
<1> QED BY <1>1, <1>2

-----------------------------------------------------------------------------
(* The theorems                                                            *)

(* The invariant holds at the start and after every step.                    *)
LEMMA SchedulerInvariant == Spec => [](TypeOK /\ SchedulerInv)
<1>1. Init => TypeOK /\ SchedulerInv
  <2> SUFFICES ASSUME Init PROVE TypeOK /\ SchedulerInv
    OBVIOUS
  <2>0. Free \in TicketType /\ Free.pc = "free" /\ "new" \in Statuses /\ MaxTickets \in Nat
    BY SchedulerAssumption DEF Free, TicketType, Statuses
  <2>1. /\ Range(queue) = {} /\ Range(todo) = {} /\ queue \in Seq(Tickets) /\ todo \in Seq(Runs)
        /\ queue = <<>> /\ todo = <<>>
    BY DEF Init, Range
  <2>2. TypeOK
    <3>1. ticket \in [Tickets -> TicketType] /\ recent = FALSE
      BY <2>0 DEF Init
    <3>2. /\ status \in [Runs -> Statuses] /\ sess \in [Runs -> {"none", "active", "ended"}] /\ mode = "up"
          /\ policy \in Policies /\ looked \in [Runs -> 0..2] /\ callers \in [Runs -> 0..2]
          /\ skips = {} /\ resolving = {}
      BY <2>0 DEF Init
    <3> QED BY <2>1, <3>1, <3>2, StatusDomain DEF TypeOK, TicketType
  <2>3. MoreTypes /\ RowsOK /\ ModeOK
    BY <2>0, <2>1 DEF Init, MoreTypes, RowsOK, ModeOK
  <2>4. TicketsOK
    BY <2>0 DEF Init, TicketsOK, Tickets
  <2>5. QueueOK /\ OwnedOK /\ SlotsOK
    BY <2>0, <2>1 DEF Init, QueueOK, OwnedOK, SlotsOK
  <2>6. Active = {} /\ policy.limit \in Nat
    BY <2>0, <2>2, SchedulerAssumption DEF Init, Active, Executing, TypeOK
  <2>7. FifoSlots
    BY <2>0, <2>1, <2>6, FS_EmptySet DEF FifoSlots, Init
  <2> QED BY <2>2, <2>3, <2>4, <2>5, <2>7 DEF SchedulerInv
<1>2. TypeOK /\ SchedulerInv /\ [Next]_vars => TypeOK' /\ SchedulerInv'
  BY RequestStep, SubmitStep, RowStep, ResolveStep, ExecuteRunStep, QuietStep, ClearStep, RestartStep DEF Next
<1> QED BY <1>1, <1>2, PTL DEF Spec

(* Every variable of the scheduler keeps its type, for any number of runs,    *)
(* submissions and restarts.                                                 *)
THEOREM SchedulerTypes == Spec => []TypeOK
BY SchedulerInvariant, PTL

(* SchedulerExecutionRuntime: a submission that waits is overtaken by none    *)
(* that came later, no slot is idle beside it, and maxConcurrentRuns is       *)
(* never exceeded, whatever finishes, is cleared or restarted.               *)
THEOREM SlotsAreFifo == Spec => []FifoSlots
<1>1. SchedulerInv => FifoSlots
  BY DEF SchedulerInv
<1> QED BY <1>1, SchedulerInvariant, PTL

(* StoryScheduler: a queued row always has somebody who will submit, run or   *)
(* skip it while the scheduler is up.                                        *)
THEOREM QueuedRunsAreOwned == Spec => []QueuedIsOwned
<1>1. SchedulerInv => QueuedIsOwned
  BY DEF SchedulerInv, OwnedOK, Owned, QueuedIsOwned, Accepting
<1> QED BY <1>1, SchedulerInvariant, PTL

(* skipRun and executeRun: a run reported as skipped never got a session, and *)
(* a run that runs or completed has one.                                     *)
THEOREM SkippedRunsHaveNoSession == Spec => []SkippedNeverDispatched
<1>1. SchedulerInv => SkippedNeverDispatched
  BY DEF SchedulerInv, RowsOK, SkippedNeverDispatched
<1> QED BY <1>1, SchedulerInvariant, PTL

(* executeRun and resolveCompletion: until the process restarts, a running    *)
(* run occupies a slot.                                                      *)
THEOREM RunningRunsHoldSlots == Spec => []RunningHoldsSlot
<1>1. SchedulerInv => RunningHoldsSlot
  BY DEF SchedulerInv, SlotsOK, RunningHoldsSlot
<1> QED BY <1>1, SchedulerInvariant, PTL
=============================================================================
