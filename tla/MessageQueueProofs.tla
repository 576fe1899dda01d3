------------------------- MODULE MessageQueueProofs -------------------------
(***************************************************************************)
(* Proofs about MessageQueue, for any messages and any bounds: its types,  *)
(* that no accepted message is lost or repeated, that the uploads of what  *)
(* is in the queue are held, and that stop is respected.                   *)
(*                                                                         *)
(* First, what Selected computes: the existence of its recursive function  *)
(* and every fact about it come from the least counterexample, a set of    *)
(* numbers, so that no induction rule over predicates is needed.  Then     *)
(* what the operations on the items keep, what each step does to the set   *)
(* of messages in the queue, and the inductive invariant QueueInv.         *)
(***************************************************************************)
EXTENDS MessageQueue, NaturalsInduction, WellFoundedInduction, FiniteSetTheorems, TLAPS

Below == {ss \in Nat \X Nat : ss[1] < ss[2]}

\* A nonempty set of numbers has a least one.
LEMMA LeastNat ==
  ASSUME NEW S, S \subseteq Nat, S # {}
  PROVE  \E x \in S : \A y \in S : x <= y
<1>1. IsWellFoundedOn(Below, Nat)
  BY NatLessThanWellFounded DEF OpToRel, Below
<1>2. PICK x \in S : \A y \in S : ~ (<<y, x>> \in Below)
  BY <1>1, WFMin
<1>3. ASSUME NEW y \in S PROVE x <= y
  <2>1. x \in Nat /\ y \in Nat /\ ~(<<y, x>> \in Below)
    BY <1>2
  <2>2. ~(y < x)
    BY <2>1 DEF Below
  <2> QED BY <2>1, <2>2
<1> QED BY <1>2, <1>3

\* g is the recursive function of Selected on 0..n.
Step(it, keep, g, i) ==
  IF i = 0 THEN <<>> ELSE IF it[i] \in keep THEN Append(g[i - 1], it[i]) ELSE g[i - 1]
Trace(it, keep, n, g) == g = [i \in 0..n |-> Step(it, keep, g, i)]

\* The recursion defines a function.
LEMMA TraceExists ==
  ASSUME NEW it, NEW keep, NEW n \in Nat
  PROVE  \E g : Trace(it, keep, n, g)
<1> DEFINE Bad == {k \in Nat : ~ \E g : Trace(it, keep, k, g)}
<1>1. SUFFICES ASSUME Bad # {} PROVE FALSE
  OBVIOUS
<1>2. PICK k \in Bad : \A y \in Bad : k <= y
  BY <1>1, LeastNat
<1>3. k # 0
  <2>1. Trace(it, keep, 0, [i \in 0..0 |-> <<>>])
    BY DEF Trace, Step
  <2> QED BY <2>1
<1>4. k - 1 \in Nat /\ k - 1 \notin Bad
  BY <1>2, <1>3
<1>5. PICK g : Trace(it, keep, k - 1, g)
  BY <1>4
<1> DEFINE h == [i \in 0..k |-> IF i = k THEN Step(it, keep, g, k) ELSE g[i]]
<1>6. k \in Nat OBVIOUS
<1>7. \A i \in 0..k : h[i] = Step(it, keep, h, i)
  <2> TAKE i \in 0..k
  <2>1. \A j \in 0..(k - 1) : h[j] = g[j]
    BY <1>6
  <2>2. CASE i = k
    <3>1. h[k - 1] = g[k - 1] BY <2>1, <1>4, <1>6
    <3>2. h[k] = Step(it, keep, g, k) BY <1>6
    <3> HIDE DEF h
    <3> QED BY <2>2, <3>1, <3>2, <1>3 DEF Step
  <2>3. CASE i # k
    <3>1. i \in 0..(k - 1) BY <2>3, <1>6
    <3>2. h[i] = g[i] BY <3>1, <2>1
    <3>3. g[i] = Step(it, keep, g, i)
      BY <1>5, <3>1 DEF Trace
    <3>4. i # 0 => h[i - 1] = g[i - 1]
      <4>1. i # 0 => i - 1 \in 0..(k - 1) BY <3>1, <1>6
      <4> QED BY <4>1, <2>1
    <3> HIDE DEF h
    <3> QED BY <3>2, <3>3, <3>4 DEF Step
  <2> QED BY <2>2, <2>3
<1>8. Trace(it, keep, k, h)
  <2>1. h = [i \in 0..k |-> h[i]] OBVIOUS
  <2> HIDE DEF h
  <2> QED BY <1>7, <2>1 DEF Trace
<1> QED BY <1>8

\* Selected returns the last value of that function.
LEMMA SelectedTrace ==
  ASSUME NEW it, NEW keep, Len(it) \in Nat
  PROVE  \E g : Trace(it, keep, Len(it), g) /\ Selected(it, keep) = g[Len(it)]
<1> DEFINE G == CHOOSE g : g = [i \in 0..Len(it) |->
                   IF i = 0 THEN <<>> ELSE IF it[i] \in keep THEN Append(g[i - 1], it[i]) ELSE g[i - 1]]
<1>1. Selected(it, keep) = G[Len(it)]
  BY DEF Selected
<1>2. \E g : g = [i \in 0..Len(it) |->
                   IF i = 0 THEN <<>> ELSE IF it[i] \in keep THEN Append(g[i - 1], it[i]) ELSE g[i - 1]]
  <2>1. PICK g : Trace(it, keep, Len(it), g)
    BY TraceExists
  <2>2. g = [i \in 0..Len(it) |->
               IF i = 0 THEN <<>> ELSE IF it[i] \in keep THEN Append(g[i - 1], it[i]) ELSE g[i - 1]]
    BY <2>1, Zenon DEF Trace, Step
  <2> QED BY <2>2
<1>3. G = [i \in 0..Len(it) |->
             IF i = 0 THEN <<>> ELSE IF it[i] \in keep THEN Append(G[i - 1], it[i]) ELSE G[i - 1]]
  BY <1>2
<1> HIDE DEF G
<1>4. Trace(it, keep, Len(it), G)
  BY <1>3, Zenon DEF Trace, Step
<1> QED BY <1>1, <1>4

\* r is the subsequence of it[1..n] in keep, and h tells where its entries come from.
Embeds(it, keep, n, r, h) ==
  /\ h \in [1..Len(r) -> 1..n]
  /\ \A i \in 1..Len(r) : r[i] = it[h[i]] /\ it[h[i]] \in keep
  /\ \A i, j \in 1..Len(r) : i < j => h[i] < h[j]
  /\ \A j \in 1..n : it[j] \in keep => \E i \in 1..Len(r) : h[i] = j

\* An entry that keep does not hold is passed over.
LEMMA EmbedsSkip ==
  ASSUME NEW it, NEW keep, NEW n \in Nat, NEW r, Len(r) \in Nat, NEW h,
         Embeds(it, keep, n, r, h), it[n + 1] \notin keep
  PROVE  Embeds(it, keep, n + 1, r, h)
<1>1. h \in [1..Len(r) -> 1..(n + 1)]
  BY DEF Embeds
<1>2. ASSUME NEW j \in 1..(n + 1), it[j] \in keep PROVE \E i \in 1..Len(r) : h[i] = j
  <2>1. j \in 1..n
    BY <1>2
  <2> QED BY <2>1, <1>2 DEF Embeds
<1> QED BY <1>1, <1>2 DEF Embeds

\* An entry that keep holds comes last.
LEMMA EmbedsAdd ==
  ASSUME NEW S, NEW it, NEW keep, NEW n \in Nat, NEW r \in Seq(S), NEW h,
         Embeds(it, keep, n, r, h), it[n + 1] \in keep, it[n + 1] \in S
  PROVE  \E k : Embeds(it, keep, n + 1, Append(r, it[n + 1]), k)
<1> DEFINE q == Append(r, it[n + 1])
           k == [i \in 1..(Len(r) + 1) |-> IF i = Len(r) + 1 THEN n + 1 ELSE h[i]]
<1>1. Len(r) \in Nat /\ Len(q) = Len(r) + 1 /\ q[Len(r) + 1] = it[n + 1]
      /\ \A i \in 1..Len(r) : q[i] = r[i]
  OBVIOUS
<1>2. k[Len(r) + 1] = n + 1 /\ \A i \in 1..Len(r) : k[i] = h[i] /\ h[i] \in 1..n
  BY <1>1 DEF Embeds
<1>3. k \in [1..(Len(r) + 1) -> 1..(n + 1)]
  <2>1. ASSUME NEW i \in 1..(Len(r) + 1)
        PROVE  (IF i = Len(r) + 1 THEN n + 1 ELSE h[i]) \in 1..(n + 1)
    <3>1. CASE i = Len(r) + 1
      BY <3>1
    <3>2. CASE i # Len(r) + 1
      <4>1. i \in 1..Len(r)
        BY <3>2, <1>1
      <4>2. h[i] \in 1..n
        BY <4>1 DEF Embeds
      <4> QED BY <3>2, <4>2
    <3> QED BY <3>1, <3>2
  <2> QED BY <2>1
<1> HIDE DEF q, k
<1>4. \A i \in 1..Len(q) : i \in 1..Len(r) \/ i = Len(r) + 1
  BY <1>1
<1>5. \A i \in 1..Len(q) : q[i] = it[k[i]] /\ it[k[i]] \in keep
  BY <1>1, <1>2, <1>4 DEF Embeds
<1>6. \A i, j \in 1..Len(q) : i < j => k[i] < k[j]
  <2> TAKE i, j \in 1..Len(q)
  <2> HAVE i < j
  <2>1. i \in 1..Len(r)
    BY <1>1
  <2>2. CASE j \in 1..Len(r)
    BY <2>1, <2>2, <1>2 DEF Embeds
  <2>3. CASE j = Len(r) + 1
    BY <2>1, <2>3, <1>2
  <2> QED BY <1>4, <2>2, <2>3
<1>7. \A j \in 1..(n + 1) : it[j] \in keep => \E i \in 1..Len(q) : k[i] = j
  <2> TAKE j \in 1..(n + 1)
  <2> HAVE it[j] \in keep
  <2>1. CASE j = n + 1
    BY <2>1, <1>1, <1>2
  <2>2. CASE j \in 1..n
    <3>1. PICK i \in 1..Len(r) : h[i] = j
      BY <2>2 DEF Embeds
    <3>2. i \in 1..Len(q)
      BY <1>1
    <3> QED BY <3>1, <3>2, <1>2
  <2> QED BY <2>1, <2>2
<1> QED BY <1>1, <1>3, <1>5, <1>6, <1>7, SMTT(30) DEF Embeds, q

\* What Selected returns: the entries that keep holds, each once and in their order.
LEMMA SelectedEmbeds ==
  ASSUME NEW S, NEW it \in Seq(S), NEW keep
  PROVE  /\ Selected(it, keep) \in Seq(S)
         /\ \E h : Embeds(it, keep, Len(it), Selected(it, keep), h)
<1>1. PICK g : Trace(it, keep, Len(it), g) /\ Selected(it, keep) = g[Len(it)]
  BY SelectedTrace
<1> DEFINE Good(n) == g[n] \in Seq(S) /\ \E h : Embeds(it, keep, n, g[n], h)
           Bad == {n \in 0..Len(it) : ~Good(n)}
<1>2. SUFFICES ASSUME Bad # {} PROVE FALSE
  BY <1>1
<1>3. PICK n \in Bad : \A y \in Bad : n <= y
  <2>1. Bad \subseteq Nat
    OBVIOUS
  <2> HIDE DEF Bad
  <2> QED BY <2>1, <1>2, LeastNat
<1>4. n \in 0..Len(it) /\ ~Good(n)
  OBVIOUS
<1>5. \A i \in 0..Len(it) : g[i] = Step(it, keep, g, i)
  BY <1>1 DEF Trace
<1>6. n # 0
  <2>1. g[0] = <<>>
    <3>1. 0 \in 0..Len(it)
      OBVIOUS
    <3> QED BY <1>5, <3>1 DEF Step
  <2>2. Embeds(it, keep, 0, <<>>, <<>>)
    BY DEF Embeds
  <2>3. Good(0)
    BY <2>1, <2>2
  <2> QED BY <2>3, <1>4
<1>7. n - 1 \in 0..Len(it) /\ Good(n - 1)
  <2>1. n \in Nat /\ n - 1 \in 0..Len(it) /\ ~(n <= n - 1)
    BY <1>4, <1>6
  <2>2. n - 1 \notin Bad
    <3> HIDE DEF Bad
    <3> QED BY <1>3, <2>1
  <2> QED BY <2>1, <2>2
<1> HIDE DEF Bad
<1>8. PICK h : Embeds(it, keep, n - 1, g[n - 1], h)
  BY <1>7
<1>9. n - 1 \in Nat /\ (n - 1) + 1 = n /\ n \in 1..Len(it) /\ it[n] \in S
  BY <1>4, <1>6
<1>10. Len(g[n - 1]) \in Nat /\ g[n - 1] \in Seq(S)
  BY <1>7
<1>11. CASE it[n] \in keep
  <2>1. g[n] = Append(g[n - 1], it[n])
    BY <1>5, <1>4, <1>6, <1>11 DEF Step
  <2>2. \E k : Embeds(it, keep, n, Append(g[n - 1], it[n]), k)
    <3> DEFINE p == n - 1
    <3>1. p \in Nat /\ p + 1 = n /\ Embeds(it, keep, p, g[p], h) /\ g[p] \in Seq(S)
      BY <1>8, <1>9, <1>10
    <3> HIDE DEF p
    <3>2. \E k : Embeds(it, keep, p + 1, Append(g[p], it[p + 1]), k)
      BY <3>1, <1>9, <1>11, EmbedsAdd
    <3> QED BY <3>1, <3>2 DEF p
  <2>3. g[n] \in Seq(S)
    BY <2>1, <1>9, <1>10
  <2> QED BY <2>1, <2>2, <2>3, <1>4
<1>12. CASE it[n] \notin keep
  <2>1. g[n] = g[n - 1]
    BY <1>5, <1>4, <1>6, <1>12 DEF Step
  <2>2. Embeds(it, keep, n, g[n - 1], h)
    BY <1>8, <1>9, <1>10, <1>12, EmbedsSkip
  <2> QED BY <2>1, <2>2, <1>7, <1>4
<1> QED BY <1>11, <1>12

-----------------------------------------------------------------------------
(* The operations on the items of the queue: which items they keep, and    *)
(* that no two entries belong to one message.                              *)

Unique(it) == \A i, j \in DOMAIN it : i # j => it[i].id # it[j].id
Fronted(it) == \A i, j \in DOMAIN it : i < j /\ it[j].status = "sending" => it[i].status = "sending"
Queue(it) == it \in Seq(Item) /\ Unique(it) /\ Fronted(it)

\* The entries of a sequence as a set.
LEMMA RangeMember ==
  ASSUME NEW it, NEW x
  PROVE  x \in Range(it) <=> \E i \in DOMAIN it : x = it[i]
BY DEF Range

LEMMA IdsOfRange ==
  ASSUME NEW it, NEW m
  PROVE  m \in Ids(it) <=> \E x \in Range(it) : x.id = m
BY DEF Ids, Range

LEMMA RangeItems ==
  ASSUME NEW it \in Seq(Item)
  PROVE  Range(it) \subseteq Item
BY DEF Range

\* Selecting items keeps the order and adds nothing.
LEMMA SelectedFacts ==
  ASSUME NEW it \in Seq(Item), NEW keep
  PROVE  /\ Selected(it, keep) \in Seq(Item)
         /\ Range(Selected(it, keep)) = Range(it) \cap keep
         /\ Unique(it) => Unique(Selected(it, keep))
         /\ Fronted(it) => Fronted(Selected(it, keep))
<1> DEFINE r == Selected(it, keep)
<1>1. r \in Seq(Item)
  BY SelectedEmbeds
<1>2. PICK h : Embeds(it, keep, Len(it), r, h)
  BY SelectedEmbeds
<1> HIDE DEF r
<1>3. DOMAIN r = 1..Len(r) /\ DOMAIN it = 1..Len(it) /\ Len(r) \in Nat /\ Len(it) \in Nat
  BY <1>1
<1>4. \A i \in DOMAIN r : h[i] \in DOMAIN it /\ r[i] = it[h[i]] /\ it[h[i]] \in keep
  BY <1>2, <1>3 DEF Embeds
<1>5. \A i, j \in DOMAIN r : i < j => h[i] < h[j]
  BY <1>2, <1>3 DEF Embeds
<1>6. Range(r) = Range(it) \cap keep
  <2>1. Range(r) \subseteq Range(it) \cap keep
    BY <1>4 DEF Range
  <2>2. ASSUME NEW x \in Range(it), x \in keep PROVE x \in Range(r)
    <3>1. PICK j \in DOMAIN it : x = it[j]
      BY RangeMember
    <3>2. PICK i \in DOMAIN r : h[i] = j
      BY <3>1, <2>2, <1>2, <1>3 DEF Embeds
    <3> QED BY <3>1, <3>2, <1>4 DEF Range
  <2> QED BY <2>1, <2>2
<1>7. Unique(it) => Unique(r)
  <2> SUFFICES ASSUME Unique(it), NEW i \in DOMAIN r, NEW j \in DOMAIN r, i # j
               PROVE  r[i].id # r[j].id
    BY DEF Unique
  <2>1. h[i] # h[j]
    <3>1. h[i] \in Nat /\ h[j] \in Nat /\ i \in Nat /\ j \in Nat
      BY <1>3, <1>4
    <3> QED BY <3>1, <1>5
  <2> QED BY <2>1, <1>4 DEF Unique
<1>8. Fronted(it) => Fronted(r)
  BY <1>4, <1>5 DEF Fronted
<1> QED BY <1>1, <1>6, <1>7, <1>8 DEF r

\* The messages being sent, queued or failed.
LEMMA WithFacts ==
  ASSUME NEW it \in Seq(Item), NEW s \in Statuses
  PROVE  /\ With(it, s) \in Seq(Item)
         /\ Range(With(it, s)) = {x \in Range(it) : x.status = s}
         /\ Unique(it) => Unique(With(it, s))
<1>1. Range(it) \cap [id : Messages, status : {s}] = {x \in Range(it) : x.status = s}
  BY RangeItems DEF Item
<1> QED BY <1>1, SelectedFacts DEF With

\* remove takes the entry of one message out.
LEMMA WithoutFacts ==
  ASSUME NEW it, Queue(it), NEW m
  PROVE  /\ Queue(Without(it, m))
         /\ Range(Without(it, m)) = {x \in Range(it) : x.id # m}
<1>1. Range(it) \cap [id : Messages \ {m}, status : Statuses] = {x \in Range(it) : x.id # m}
  BY RangeItems DEF Item, Queue
<1> QED BY <1>1, SelectedFacts DEF Without, Queue

\* A concatenation has the entries of both parts.
LEMMA ConcatFacts ==
  ASSUME NEW s \in Seq(Item), NEW t \in Seq(Item)
  PROVE  /\ s \o t \in Seq(Item)
         /\ Range(s \o t) = Range(s) \cup Range(t)
         /\ Unique(s) /\ Unique(t) /\ (\A x \in Range(s), y \in Range(t) : x.id # y.id) => Unique(s \o t)
<1> DEFINE u == s \o t
<1>1. u \in Seq(Item) /\ Len(u) = Len(s) + Len(t) /\ Len(s) \in Nat /\ Len(t) \in Nat
  OBVIOUS
<1>2. \A i \in 1..Len(s) : u[i] = s[i]
  OBVIOUS
<1>3. \A i \in 1..Len(t) : u[Len(s) + i] = t[i]
  OBVIOUS
<1>4. DOMAIN u = 1..Len(u) /\ DOMAIN s = 1..Len(s) /\ DOMAIN t = 1..Len(t)
  OBVIOUS
<1> HIDE DEF u
<1>5. \A i \in DOMAIN u : \/ i \in DOMAIN s /\ u[i] = s[i]
                          \/ \E k \in DOMAIN t : i = Len(s) + k /\ u[i] = t[k]
  <2> SUFFICES ASSUME NEW i \in DOMAIN u, i \notin DOMAIN s
               PROVE  i - Len(s) \in DOMAIN t /\ i = Len(s) + (i - Len(s)) /\ u[i] = t[i - Len(s)]
    BY <1>2, <1>4
  <2>1. i - Len(s) \in 1..Len(t) /\ i = Len(s) + (i - Len(s))
    BY <1>1, <1>4
  <2> QED BY <2>1, <1>3, <1>4
<1>6. \A i \in DOMAIN s : i \in DOMAIN u /\ u[i] = s[i]
  BY <1>1, <1>2, <1>4
<1>7. \A k \in DOMAIN t : Len(s) + k \in DOMAIN u /\ u[Len(s) + k] = t[k]
  BY <1>1, <1>3, <1>4
<1>8. Range(u) = Range(s) \cup Range(t)
  BY <1>5, <1>6, <1>7 DEF Range
<1>9. ASSUME Unique(s), Unique(t), \A x \in Range(s), y \in Range(t) : x.id # y.id PROVE Unique(u)
  <2> SUFFICES ASSUME NEW i \in DOMAIN u, NEW j \in DOMAIN u, i # j PROVE u[i].id # u[j].id
    BY DEF Unique
  <2>1. \A a \in DOMAIN s, b \in DOMAIN t : s[a].id # t[b].id
    BY <1>9 DEF Range
  <2>2. CASE i \in DOMAIN s /\ u[i] = s[i]
    BY <2>1, <2>2, <1>5, <1>9 DEF Unique
  <2>3. CASE \E k \in DOMAIN t : i = Len(s) + k /\ u[i] = t[k]
    <3>1. PICK k \in DOMAIN t : i = Len(s) + k /\ u[i] = t[k]
      BY <2>3
    <3>2. CASE j \in DOMAIN s /\ u[j] = s[j]
      BY <3>1, <3>2, <2>1
    <3>3. CASE \E b \in DOMAIN t : j = Len(s) + b /\ u[j] = t[b]
      BY <3>1, <3>3, <1>9 DEF Unique
    <3> QED BY <3>2, <3>3, <1>5
  <2> QED BY <2>2, <2>3, <1>5
<1> QED BY <1>1, <1>8, <1>9 DEF u

\* Only the first part may hold what is being sent.
LEMMA FrontedConcat ==
  ASSUME NEW s \in Seq(Item), NEW t \in Seq(Item), Fronted(s), \A y \in Range(t) : y.status # "sending"
  PROVE  Fronted(s \o t)
<1> SUFFICES ASSUME NEW i \in DOMAIN (s \o t), NEW j \in DOMAIN (s \o t), i < j,
                    (s \o t)[j].status = "sending"
             PROVE  (s \o t)[i].status = "sending"
  BY DEF Fronted
<1>1. i \in 1..(Len(s) + Len(t)) /\ j \in 1..(Len(s) + Len(t)) /\ Len(s) \in Nat /\ Len(t) \in Nat
  OBVIOUS
<1>2. j <= Len(s)
  <2> SUFFICES ASSUME ~(j <= Len(s)) PROVE FALSE
    OBVIOUS
  <2>1. j - Len(s) \in DOMAIN t /\ (s \o t)[j] = t[j - Len(s)]
    BY <1>1
  <2>2. t[j - Len(s)] \in Range(t)
    BY <2>1 DEF Range
  <2> QED BY <2>1, <2>2
<1>3. i \in DOMAIN s /\ j \in DOMAIN s /\ (s \o t)[i] = s[i] /\ (s \o t)[j] = s[j]
  BY <1>1, <1>2
<1> QED BY <1>3 DEF Fronted

\* Two entries of one message are one entry.
LEMMA UniqueRange ==
  ASSUME NEW it, Unique(it), NEW x \in Range(it), NEW y \in Range(it), x.id = y.id
  PROVE  x = y
BY DEF Unique, Range

\* normalizeAiSessionQueueItems reorders the entries and drops none.
LEMMA NormalizedFacts ==
  ASSUME NEW it \in Seq(Item), Unique(it)
  PROVE  Queue(Normalized(it)) /\ Range(Normalized(it)) = Range(it)
<1> DEFINE a == With(it, "sending")
           b == With(it, "queued")
           c == With(it, "failed")
<1>1. /\ a \in Seq(Item) /\ Unique(a) /\ Range(a) = {x \in Range(it) : x.status = "sending"}
      /\ b \in Seq(Item) /\ Unique(b) /\ Range(b) = {x \in Range(it) : x.status = "queued"}
      /\ c \in Seq(Item) /\ Unique(c) /\ Range(c) = {x \in Range(it) : x.status = "failed"}
  BY WithFacts DEF Statuses
<1> HIDE DEF a, b, c
<1>2. /\ a \o b \in Seq(Item) /\ Unique(a \o b)
      /\ Range(a \o b) = {x \in Range(it) : x.status \in {"sending", "queued"}}
  <2>1. \A x \in Range(a), y \in Range(b) : x.id # y.id
    BY <1>1, UniqueRange
  <2>2. Range(a \o b) = Range(a) \cup Range(b) /\ a \o b \in Seq(Item) /\ Unique(a \o b)
    BY <1>1, <2>1, ConcatFacts
  <2> QED BY <1>1, <2>2
<1>3. Fronted(a \o b)
  <2>1. Fronted(a)
    <3>1. \A i \in DOMAIN a : a[i] \in Range(a)
      BY DEF Range
    <3> QED BY <3>1, <1>1 DEF Fronted
  <2> QED BY <2>1, <1>1, FrontedConcat
<1>4. /\ (a \o b) \o c \in Seq(Item) /\ Unique((a \o b) \o c)
      /\ Range((a \o b) \o c) = Range(a \o b) \cup Range(c)
  <2>1. \A x \in Range(a \o b), y \in Range(c) : x.id # y.id
    BY <1>1, <1>2, UniqueRange
  <2> QED BY <1>1, <1>2, <2>1, ConcatFacts
<1>5. Range((a \o b) \o c) = Range(it)
  <2>1. \A x \in Range(it) : x.status \in {"sending", "queued", "failed"}
    BY RangeItems DEF Item, Statuses
  <2> QED BY <2>1, <1>1, <1>2, <1>4
<1>6. Fronted((a \o b) \o c)
  BY <1>1, <1>2, <1>3, FrontedConcat
<1> QED BY <1>4, <1>5, <1>6 DEF Normalized, Queue, a, b, c

\* patchQueuedMessage changes the entry of one message, if there is one.
LEMMA PatchedFacts ==
  ASSUME NEW it, Queue(it), NEW m, NEW s \in Statuses
  PROVE  /\ Queue(Patched(it, m, s))
         /\ Range(Patched(it, m, s)) =
              {x \in Range(it) : x.id # m} \cup {x \in {[id |-> m, status |-> s]} : m \in Ids(it)}
<1> DEFINE p == [i \in DOMAIN it |-> IF it[i].id = m THEN [it[i] EXCEPT !.status = s] ELSE it[i]]
<1>1. it \in Seq(Item) /\ DOMAIN it = 1..Len(it) /\ Len(it) \in Nat
      /\ \A i \in DOMAIN it : it[i] \in Item
  BY DEF Queue
<1>2. DOMAIN p = DOMAIN it
  OBVIOUS
<1>3. \A i \in DOMAIN it : /\ p[i] \in Item /\ p[i].id = it[i].id
                           /\ it[i].id # m => p[i] = it[i]
                           /\ it[i].id = m => p[i] = [id |-> m, status |-> s]
  BY <1>1 DEF Item
<1>4. p \in Seq(Item)
  <2>1. p \in [1..Len(it) -> Item]
    BY <1>1, <1>3
  <2> HIDE DEF p
  <2> QED BY <2>1, <1>1
<1> HIDE DEF p
<1>5. Unique(p)
  BY <1>2, <1>3 DEF Queue, Unique
<1>6. Range(p) = {x \in Range(it) : x.id # m} \cup {x \in {[id |-> m, status |-> s]} : m \in Ids(it)}
  <2>1. ASSUME NEW x \in Range(p)
        PROVE  (x \in Range(it) /\ x.id # m) \/ (x = [id |-> m, status |-> s] /\ m \in Ids(it))
    <3>1. PICK i \in DOMAIN it : x = p[i]
      BY <1>2, RangeMember
    <3>2. it[i] \in Range(it) /\ it[i].id \in Ids(it)
      BY <3>1 DEF Range, Ids
    <3> QED BY <3>1, <3>2, <1>3
  <2>2. ASSUME NEW x \in Range(it), x.id # m PROVE x \in Range(p)
    BY <2>2, <1>2, <1>3 DEF Range
  <2>3. ASSUME m \in Ids(it) PROVE [id |-> m, status |-> s] \in Range(p)
    <3>1. PICK i \in DOMAIN it : it[i].id = m
      BY <2>3 DEF Ids
    <3> QED BY <3>1, <1>2, <1>3 DEF Range
  <2> QED BY <2>1, <2>2, <2>3
<1>7. Patched(it, m, s) = Normalized(p)
  BY DEF Patched, p
<1> QED BY <1>4, <1>5, <1>6, <1>7, NormalizedFacts

\* enqueueMessage adds an entry.
LEMMA AppendedFacts ==
  ASSUME NEW it, Queue(it), NEW m \in Messages, m \notin Ids(it)
  PROVE  /\ Queue(Normalized(Append(it, [id |-> m, status |-> "queued"])))
         /\ Range(Normalized(Append(it, [id |-> m, status |-> "queued"]))) =
              Range(it) \cup {[id |-> m, status |-> "queued"]}
<1> DEFINE e == [id |-> m, status |-> "queued"]
           u == Append(it, e)
<1>1. it \in Seq(Item) /\ e \in Item /\ e.id = m
  BY DEF Queue, Item, Statuses
<1> HIDE DEF e
<1>2. /\ u \in Seq(Item) /\ DOMAIN u = 1..(Len(it) + 1) /\ DOMAIN it = 1..Len(it) /\ Len(it) \in Nat
      /\ u[Len(it) + 1] = e /\ \A i \in 1..Len(it) : u[i] = it[i]
  BY <1>1
<1> HIDE DEF u
<1>3. \A i \in DOMAIN u : (i \in DOMAIN it /\ u[i] = it[i] /\ it[i].id # m) \/ (i = Len(it) + 1 /\ u[i] = e)
  <2>1. \A i \in DOMAIN it : it[i].id # m
    BY DEF Ids
  <2> QED BY <1>2, <2>1
<1>4. Unique(u)
  BY <1>1, <1>3 DEF Unique, Queue
<1>5. Range(u) = Range(it) \cup {e}
  <2>1. Range(u) \subseteq Range(it) \cup {e}
    BY <1>3 DEF Range
  <2>2. \A i \in DOMAIN it : i \in DOMAIN u /\ u[i] = it[i]
    BY <1>2
  <2>3. Len(it) + 1 \in DOMAIN u
    BY <1>2
  <2> QED BY <2>1, <2>2, <2>3, <1>2 DEF Range
<1>6. Queue(Normalized(u)) /\ Range(Normalized(u)) = Range(u)
  BY <1>2, <1>4, NormalizedFacts
<1> QED BY <1>5, <1>6 DEF u, e

\* retry moves the entry of its message to the end, as a queued one.
LEMMA RetriedFacts ==
  ASSUME Queue(items), NEW m \in Messages
  PROVE  /\ Queue(Retried(m))
         /\ Range(Retried(m)) = {x \in Range(items) : x.id # m} \cup {[id |-> m, status |-> "queued"]}
<1> DEFINE w == Without(items, m)
<1>1. Queue(w) /\ Range(w) = {x \in Range(items) : x.id # m}
  BY WithoutFacts
<1> HIDE DEF w
<1>2. m \notin Ids(w)
  BY <1>1, IdsOfRange
<1>3. /\ Queue(Normalized(Append(w, [id |-> m, status |-> "queued"])))
      /\ Range(Normalized(Append(w, [id |-> m, status |-> "queued"]))) =
           Range(w) \cup {[id |-> m, status |-> "queued"]}
  BY <1>1, <1>2, AppendedFacts
<1> QED BY <1>1, <1>3 DEF Retried, w

\* nextQueuedMessage is a message that is queued.
LEMMA NextQueuedFacts ==
  ASSUME NEW it, Queue(it), HasQueued(it)
  PROVE  NextQueued(it) \in Messages /\ [id |-> NextQueued(it), status |-> "queued"] \in Range(it)
<1> DEFINE w == With(it, "queued")
<1>1. w \in Seq(Item) /\ Range(w) = {x \in Range(it) : x.status = "queued"}
  BY WithFacts DEF Queue, Statuses
<1>2. w # <<>> /\ NextQueued(it) = w[1].id
  BY DEF HasQueued, NextQueued
<1> HIDE DEF w
<1>3. 1 \in DOMAIN w
  BY <1>1, <1>2
<1>4. w[1] \in Range(w)
  BY <1>3 DEF Range
<1>5. w[1] \in Range(it) /\ w[1].status = "queued" /\ w[1] \in Item
  BY <1>1, <1>4, RangeItems DEF Queue
<1>6. w[1] = [id |-> w[1].id, status |-> "queued"] /\ w[1].id \in Messages
  BY <1>5 DEF Item
<1> QED BY <1>2, <1>5, <1>6

\* reorderQueuedMessages: an order of the queued items names each of them once.
LEMMA ReorderedFacts ==
  ASSUME NEW it, Queue(it), NEW perm \in SetToSeqs(Range(With(it, "queued")))
  PROVE  /\ Queue(Normalized(With(it, "sending") \o With(it, "failed") \o perm))
         /\ Range(Normalized(With(it, "sending") \o With(it, "failed") \o perm)) = Range(it)
<1> DEFINE a == With(it, "sending")
           b == With(it, "queued")
           c == With(it, "failed")
           n == Cardinality(Range(b))
<1>1. /\ a \in Seq(Item) /\ Unique(a) /\ Range(a) = {x \in Range(it) : x.status = "sending"}
      /\ b \in Seq(Item) /\ Unique(b) /\ Range(b) = {x \in Range(it) : x.status = "queued"}
      /\ c \in Seq(Item) /\ Unique(c) /\ Range(c) = {x \in Range(it) : x.status = "failed"}
  BY WithFacts DEF Queue, Statuses
<1>2. perm \in [1..n -> Range(b)] /\ \A i, j \in 1..n : i # j => perm[i] # perm[j]
  BY DEF SetToSeqs
<1> HIDE DEF a, b, c
<1>3. IsFiniteSet(Range(b)) /\ n \in Nat
  <2>1. b \in [1..Len(b) -> Item] /\ Len(b) \in Nat /\ DOMAIN b = 1..Len(b)
    BY <1>1
  <2>2. IsFiniteSet(1..Len(b))
    BY <2>1, FS_Interval
  <2>3. IsFiniteSet({b[i] : i \in 1..Len(b)})
    <3> DEFINE f == [i \in 1..Len(b) |-> b[i]]
    <3>1. f \in Surjection(1..Len(b), {b[i] : i \in 1..Len(b)})
      BY DEF Surjection
    <3> HIDE DEF f
    <3> QED BY <2>2, <3>1, FS_Surjection
  <2>4. IsFiniteSet(Range(b))
    BY <2>1, <2>3 DEF Range
  <2> QED BY <2>4, FS_CardinalityType
<1>4. Range(perm) = Range(b)
  <2>1. Range(perm) \subseteq Range(b)
    BY <1>2 DEF Range
  <2> SUFFICES ASSUME NEW x \in Range(b), x \notin Range(perm) PROVE FALSE
    BY <2>1
  <2>2. IsFiniteSet(Range(b) \ {x}) /\ Cardinality(Range(b) \ {x}) = n - 1
    BY <1>3, FS_RemoveElement
  <2>3. IsFiniteSet(1..n) /\ Cardinality(1..n) = n
    BY <1>3, FS_Interval
  <2>4. perm \in [1..n -> Range(b) \ {x}]
    <3>1. \A i \in 1..n : perm[i] \in Range(perm)
      BY <1>2 DEF Range
    <3> QED BY <3>1, <1>2
  <2> HIDE DEF n
  <2>5. \E i, j \in 1..n : i # j /\ perm[i] = perm[j]
    BY <1>3, <2>2, <2>3, <2>4, FS_PigeonHole
  <2> QED BY <2>5, <1>2
<1> HIDE DEF n
<1>5. perm \in Seq(Item) /\ Unique(perm)
  <2>1. Range(b) \subseteq Item
    BY <1>1, RangeItems
  <2>2. perm \in [1..n -> Item]
    BY <2>1, <1>2
  <2>3. perm \in Seq(Item) /\ DOMAIN perm = 1..n
    BY <2>2, <1>3
  <2>4. ASSUME NEW i \in 1..n, NEW j \in 1..n, i # j PROVE perm[i].id # perm[j].id
    BY <2>4, <1>1, <1>2, UniqueRange
  <2> QED BY <2>3, <2>4 DEF Unique
<1>6. Unique(it)
  BY DEF Queue
<1>7. /\ a \o c \in Seq(Item) /\ Unique(a \o c)
      /\ Range(a \o c) = Range(a) \cup Range(c)
  <2>1. \A x \in Range(a), y \in Range(c) : x.id # y.id
    BY <1>1, <1>6, UniqueRange
  <2> QED BY <1>1, <2>1, ConcatFacts
<1>8. /\ (a \o c) \o perm \in Seq(Item) /\ Unique((a \o c) \o perm)
      /\ Range((a \o c) \o perm) = Range(a \o c) \cup Range(b)
  <2>1. \A x \in Range(a \o c), y \in Range(perm) : x.id # y.id
    BY <1>1, <1>4, <1>6, <1>7, UniqueRange
  <2> QED BY <1>4, <1>5, <1>7, <2>1, ConcatFacts, ZenonT(30)
<1>9. Range((a \o c) \o perm) = Range(it)
  <2>1. \A x \in Range(it) : x.status \in {"sending", "queued", "failed"}
    BY RangeItems DEF Queue, Item, Statuses
  <2> QED BY <2>1, <1>1, <1>7, <1>8
<1>10. /\ Queue(Normalized((a \o c) \o perm))
       /\ Range(Normalized((a \o c) \o perm)) = Range((a \o c) \o perm)
  BY <1>8, NormalizedFacts
<1> QED BY <1>9, <1>10 DEF a, c

-----------------------------------------------------------------------------
(* Type correctness.                                                       *)

AttValues == {"none", "staged", "committed", "draft", "released", "gone"}

TypeInv ==
  /\ Queue(items)
  /\ paused \in BOOLEAN /\ status \in {"idle", "running", "failed"}
  /\ seen \in {"none", "idle", "running", "failed"}
  /\ att \in [Messages -> AttValues]
  /\ sending \in [id : Messages \cup {NoMessage}, text : Nat, taken : BOOLEAN] /\ calls \subseteq Call
  /\ work \in {NoWork} \cup [id : Messages, next : Writes] /\ turn \in BOOLEAN
  /\ mode \in {"up", "down", "starting"} /\ lapsed \subseteq Messages
  /\ latest \in [Messages -> Nat] /\ sent \in [Messages -> [texts : SUBSET Nat, auto : Nat]]
  /\ removed \subseteq Messages /\ raced \subseteq Messages /\ held \subseteq Messages
  /\ retries \in [Messages -> Nat] /\ used \in [ops : Nat, faults : Nat, crashes : Nat]

LEMMA TypeInvIsType == TypeInv <=> TypeOK
<1> DEFINE Pairs == \A i, j \in DOMAIN items :
             i < j => items[i].id # items[j].id /\ (items[j].status = "sending" => items[i].status = "sending")
<1>1. ASSUME items \in Seq(Item) PROVE Unique(items) /\ Fronted(items) <=> Pairs
  <2>1. \A i, j \in DOMAIN items : i # j => i < j \/ j < i
    BY <1>1
  <2>2. \A i, j \in DOMAIN items : i < j => i # j
    BY <1>1
  <2> QED BY <2>1, <2>2 DEF Unique, Fronted
<1> QED BY <1>1 DEF TypeInv, TypeOK, Queue, AttValues

\* The listener has seen the last status, or nothing since the start.
ListenerInv == seen \in {"none", status}

\* A dispatch takes the first queued message.
Launch(m) ==
  /\ sending = NoCall /\ [id |-> m, status |-> "queued"] \in Range(items)
  /\ items' = Patched(items, m, "sending")
  /\ sending' = [id |-> m, text |-> latest[m], taken |-> FALSE]

LEMMA DrainFacts ==
  ASSUME Queue(items), NEW pz, NEW st, Drain(items, pz, st)
  PROVE  (items' = items /\ sending' = sending) \/ (~pz /\ \E m \in Messages : Launch(m))
<1>1. CASE sending = NoCall /\ ~pz /\ st = "idle" /\ HasQueued(items)
  <2>1. Dispatch(items)
    BY <1>1 DEF Drain
  <2>2. NextQueued(items) \in Messages /\ [id |-> NextQueued(items), status |-> "queued"] \in Range(items)
    BY <1>1, NextQueuedFacts
  <2>3. Launch(NextQueued(items))
    BY <1>1, <2>1, <2>2 DEF Dispatch, Launch
  <2> QED BY <1>1, <2>2, <2>3
<1>2. CASE ~(sending = NoCall /\ ~pz /\ st = "idle" /\ HasQueued(items))
  BY <1>2 DEF Drain
<1> QED BY <1>1, <1>2

\* A write that leaves the status, or does not make it idle, begins no dispatch.
LEMMA PutQuiet ==
  ASSUME ListenerInv, NEW it, NEW pz, NEW st, Put(it, pz, st), st = status \/ st # "idle"
  PROVE  items' = it /\ sending' = sending /\ paused' = pz /\ status' = st /\ seen' = st
<1>1. ~BecameIdle(st)
  BY DEF BecameIdle, ListenerInv
<1> QED BY <1>1 DEF Put

LEMMA PutItemsQuiet ==
  ASSUME ListenerInv, NEW it, PutItems(it)
  PROVE  items' = it /\ sending' = sending /\ paused' = paused /\ status' = status /\ seen' = status
BY PutQuiet DEF PutItems

LEMMA PutSame ==
  ASSUME Queue(items), NEW pz, NEW st, Put(items, pz, st)
  PROVE  /\ paused' = pz /\ status' = st /\ seen' = st
         /\ (items' = items /\ sending' = sending) \/ (~pz /\ \E m \in Messages : Launch(m))
<1>1. paused' = pz /\ status' = st /\ seen' = st
  BY DEF Put
<1>2. CASE BecameIdle(st) /\ HasPending(items)
  BY <1>1, <1>2, DrainFacts DEF Put
<1>3. CASE ~(BecameIdle(st) /\ HasPending(items))
  BY <1>1, <1>3 DEF Put
<1> QED BY <1>2, <1>3

\* Either nothing is dispatched, or the entry of one message changes.
LEMMA LaunchFacts ==
  ASSUME TypeInv, (items' = items /\ sending' = sending) \/ \E m \in Messages : Launch(m)
  PROVE  /\ Queue(items') /\ Ids(items') = Ids(items)
         /\ sending' \in [id : Messages \cup {NoMessage}, text : Nat, taken : BOOLEAN]
<1>1. CASE items' = items /\ sending' = sending
  BY <1>1 DEF TypeInv
<1>2. ASSUME NEW m \in Messages, Launch(m) 
      PROVE  /\ Queue(items') /\ Ids(items') = Ids(items)
             /\ sending' \in [id : Messages \cup {NoMessage}, text : Nat, taken : BOOLEAN]
  <2> DEFINE it == Patched(items, m, "sending")
  <2>1. m \in Ids(items)
    BY <1>2, IdsOfRange DEF Launch
  <2>2. Queue(it) /\ Range(it) = {x \in Range(items) : x.id # m}
                                   \cup {x \in {[id |-> m, status |-> "sending"]} : m \in Ids(items)}
    BY PatchedFacts DEF TypeInv, Statuses
  <2>3. items' = it
    BY <1>2 DEF Launch
  <2> HIDE DEF it
  <2>4. \A k : k \in Ids(it) <=> k \in Ids(items)
    <3> TAKE k
    <3>1. CASE k = m
      <4>1. [id |-> m, status |-> "sending"] \in Range(it) /\ [id |-> m, status |-> "sending"].id = m
        BY <2>1, <2>2
      <4>2. m \in Ids(it)
        BY <4>1, IdsOfRange
      <4> QED BY <2>1, <3>1, <4>2
    <3>2. CASE k # m
      BY <2>2, <3>2, IdsOfRange
    <3> QED BY <3>1, <3>2
  <2>5. Ids(it) = Ids(items)
    BY <2>4 DEF Ids
  <2>6. sending' \in [id : Messages \cup {NoMessage}, text : Nat, taken : BOOLEAN]
    BY <1>2 DEF Launch, TypeInv
  <2>7. Queue(items') /\ Ids(items') = Ids(items)
    BY <2>2, <2>3, <2>5
  <2> QED BY <2>6, <2>7
<1> QED BY <1>1, <1>2

LEMMA TypeInit == Init => TypeInv /\ ListenerInv
<1> SUFFICES ASSUME Init PROVE TypeInv /\ ListenerInv
  OBVIOUS
<1>1. Queue(items)
  BY DEF Init, Queue, Unique, Fronted
<1> QED BY <1>1 DEF Init, TypeInv, ListenerInv, NoCall, NoMessage, Call, AttValues

\* The parts of the type that concern the queue, and the rest of it.
QueueType ==
  /\ Queue(items)
  /\ paused \in BOOLEAN /\ status \in {"idle", "running", "failed"} /\ seen \in {"none", status}
  /\ sending \in [id : Messages \cup {NoMessage}, text : Nat, taken : BOOLEAN]

OtherType ==
  /\ att \in [Messages -> AttValues] /\ calls \subseteq Call
  /\ work \in {NoWork} \cup [id : Messages, next : Writes] /\ turn \in BOOLEAN
  /\ mode \in {"up", "down", "starting"} /\ lapsed \subseteq Messages
  /\ latest \in [Messages -> Nat] /\ sent \in [Messages -> [texts : SUBSET Nat, auto : Nat]]
  /\ removed \subseteq Messages /\ raced \subseteq Messages /\ held \subseteq Messages
  /\ retries \in [Messages -> Nat] /\ used \in [ops : Nat, faults : Nat, crashes : Nat]

LEMMA TypeParts == TypeInv /\ ListenerInv <=> QueueType /\ OtherType
BY DEF TypeInv, ListenerInv, QueueType, OtherType

LEMMA IdsAreMessages ==
  ASSUME NEW it, Queue(it)
  PROVE  Ids(it) \subseteq Messages
<1>1. Range(it) \subseteq Item
  BY RangeItems DEF Queue
<1> QED BY <1>1, IdsOfRange DEF Item

\* The uploads of a message in the queue are staged or committed, except between the two
\* starts of a restart and between the two writes of a removal; they are committed only
\* when the provider has a text of the message.
AttInv ==
  \A m \in Ids(items) :
    /\ att[m] # "none"
    /\ att[m] = "committed" => sent[m].texts # {}
    /\ m \notin lapsed =>
         \/ att[m] \in {"staged", "committed"}
         \/ att[m] = "draft" /\ mode # "up"
         \/ att[m] = "released" /\ work.id = m /\ work.next = "discard"

\* The text that is on its way is the latest one, or was outrun by an edit, and the
\* provider that took it has it.
TextInv ==
  /\ sending # NoCall =>
       /\ sending.id \in Messages
       /\ sending.text = latest[sending.id] \/ sending.id \in raced
       /\ sending.taken => sending.text \in sent[sending.id].texts
  /\ \A c \in calls : c.kind = "steer" =>
       /\ c.text = latest[c.id] \/ c.id \in raced
       /\ c.taken => c.text \in sent[c.id].texts

LEMMA ZeroIsNoMessage == NoMessage \notin Messages /\ NoCall.id \notin Messages /\ ~NoCall.taken
BY QueueAssumption DEF NoMessage, NoCall

\* The steps that set the queue as a whole leave its type.  A message that arrives is not
\* in the queue, because it has no attachments yet.
LEMMA QueueStep ==
  ASSUME TypeInv, ListenerInv, AttInv, Next
  PROVE  QueueType'
<1> USE DEF QueueType
<1>1. QueueType /\ OtherType /\ Queue(items)
  BY TypeParts
<1>2. CASE UNCHANGED queue
  BY <1>1, <1>2 DEF queue
<1>3. ASSUME NEW m \in Messages, Enqueue(m) PROVE QueueType'
  <2>1. CASE Len(items) < QueueLimit
    <3>1. PutItems(Normalized(Append(items, [id |-> m, status |-> "queued"])))
      BY <1>3, <2>1 DEF Enqueue
    <3>2. Queue(Normalized(Append(items, [id |-> m, status |-> "queued"])))
      <4>1. m \notin Ids(items)
        BY <1>3 DEF Enqueue, Arrives, AttInv
      <4> QED BY <1>1, <4>1, AppendedFacts
    <3> QED BY <1>1, <3>1, <3>2, PutItemsQuiet
  <2>2. CASE ~(Len(items) < QueueLimit)
    BY <1>2, <1>3, <2>2 DEF Enqueue
  <2> QED BY <2>1, <2>2
<1>4. ASSUME NEW m \in Messages, Retry(m) PROVE QueueType'
  <2>1. PutItems(Retried(m)) /\ Queue(Retried(m))
    BY <1>1, <1>4, RetriedFacts DEF Retry
  <2> QED BY <1>1, <2>1, PutItemsQuiet
<1>5. ASSUME NEW m \in Messages, Edit(m) PROVE QueueType'
  BY <1>1, <1>5, PutItemsQuiet DEF Edit
<1>6. CASE TakeDispatched
  BY <1>1, <1>6 DEF TakeDispatched
<1>7. CASE Dispatched
  BY <1>1, <1>7 DEF Dispatched, NoCall, NoMessage
<1>8. CASE DispatchFails
  <2>1. Queue(Patched(items, sending.id, "failed"))
    BY <1>1, PatchedFacts DEF Statuses
  <2> QED BY <1>1, <1>8, <2>1 DEF DispatchFails, NotDispatched, NoCall, NoMessage
<1>9. ASSUME NEW c \in calls, Answered(c) PROVE QueueType'
  <2>1. Put(items, paused, "running")
    BY <1>9 DEF Answered
  <2> QED BY <1>1, <2>1, PutQuiet
<1>10. CASE FinishRemove
  <2>1. PutItems(Without(items, work.id)) /\ Queue(Without(items, work.id))
    BY <1>1, <1>10, WithoutFacts DEF FinishRemove
  <2> QED BY <1>1, <2>1, PutItemsQuiet
<1>11. CASE Reorder
  <2>1. PICK perm \in SetToSeqs(Range(With(items, "queued"))) :
          PutItems(Normalized(With(items, "sending") \o With(items, "failed") \o perm))
    BY <1>11 DEF Reorder
  <2>2. Queue(Normalized(With(items, "sending") \o With(items, "failed") \o perm))
    BY <1>1, ReorderedFacts
  <2> QED BY <1>1, <2>1, <2>2, PutItemsQuiet
<1>12. CASE Pause
  BY <1>1, <1>12, PutQuiet DEF Pause
<1>13. CASE Resume
  <2>1. (items' = items /\ sending' = sending) \/ \E m \in Messages : Launch(m)
    BY <1>1, <1>13, DrainFacts DEF Resume
  <2> QED BY <1>1, <1>13, <2>1, LaunchFacts DEF Resume
<1>14. CASE Interrupt
  <2>1. CASE HasPending(items) /\ ~paused
    BY <1>1, <1>14, <2>1, PutQuiet DEF Interrupt
  <2>2. CASE ~(HasPending(items) /\ ~paused)
    BY <1>2, <1>14, <2>2 DEF Interrupt
  <2> QED BY <2>1, <2>2
<1>15. CASE TurnStarted
  BY <1>1, <1>15, PutQuiet DEF TurnStarted
<1>16. CASE TurnCompleted \/ Reconcile
  <2>1. PICK st \in {"idle", "failed"} : Put(items, paused, st)
    BY <1>16 DEF TurnCompleted, Reconcile
  <2>2. /\ paused' = paused /\ status' = st /\ seen' = st
        /\ (items' = items /\ sending' = sending) \/ \E m \in Messages : Launch(m)
    BY <1>1, <2>1, PutSame
  <2> QED BY <1>1, <2>2, LaunchFacts
<1>17. CASE Crash
  BY <1>1, <1>17 DEF Crash, NoCall, NoMessage
<1>18. ASSUME NEW m \in Messages, SendNow(m) \/ Steer(m) \/ RemoveQueued(m) PROVE QueueType'
  BY <1>2, <1>18 DEF SendNow, Steer, RemoveQueued
<1>19. ASSUME NEW c \in calls, Take(c) \/ CallFails(c) PROVE QueueType'
  BY <1>2, <1>19 DEF Take, CallFails
<1>20. CASE Commit \/ Restore \/ Claim \/ \E m \in Messages : Expire(m)
  BY <1>2, <1>20 DEF Commit, Restore, Claim, Expire
<1> QED
  BY <1>3, <1>4, <1>5, <1>6, <1>7, <1>8, <1>9, <1>10, <1>11, <1>12, <1>13, <1>14, <1>15, <1>16, <1>17,
     <1>18, <1>19, <1>20 DEF Next, DrainStep, CallStep, UserStep, TurnStep, WriteStep, RestartStep

\* The other variables keep their types.
LEMMA OtherStep ==
  ASSUME TypeInv, ListenerInv, TextInv, Next
  PROVE  OtherType'
<1> USE DEF OtherType
<1>1. OtherType /\ Queue(items)
  BY TypeParts DEF QueueType
<1>2. {"staged", "committed", "draft", "released", "gone"} \subseteq AttValues
  BY DEF AttValues
<1>3. \A m \in Messages : RolledBack(m) \in [Messages -> AttValues]
  BY <1>1, <1>2 DEF RolledBack
<1>4. UseOp => used' \in [ops : Nat, faults : Nat, crashes : Nat]
  BY <1>1 DEF UseOp
<1>5. used.ops \in Nat /\ \A c \in calls : c \in Call /\ c.id \in Messages
  BY <1>1 DEF Call
<1>6. ASSUME NEW m \in Messages, Enqueue(m) PROVE OtherType'
  <2>1. latest' \in [Messages -> Nat]
    <3>1. CASE Len(items) < QueueLimit
      <4>1. latest' = [latest EXCEPT ![m] = 1]
        BY <1>6, <3>1 DEF Enqueue
      <4> QED BY <1>1, <4>1
    <3>2. CASE ~(Len(items) < QueueLimit)
      BY <1>1, <1>6, <3>2 DEF Enqueue
    <3> QED BY <3>1, <3>2
  <2> QED BY <1>1, <1>2, <1>6, <2>1 DEF Enqueue, Stage
<1>7. ASSUME NEW m \in Messages, SendNow(m) PROVE OtherType'
  <2>1. calls' \subseteq Call
    <3>1. [n |-> used.ops, kind |-> "direct", id |-> m, text |-> 1, taken |-> FALSE] \in Call
      BY <1>5 DEF Call
    <3> QED BY <1>1, <1>7, <3>1 DEF SendNow
  <2> QED BY <1>1, <1>2, <1>4, <1>7, <2>1 DEF SendNow, Stage, history
<1>8. ASSUME NEW m \in Messages, Steer(m) PROVE OtherType'
  <2>1. calls' \subseteq Call
    <3>1. [n |-> used.ops, kind |-> "steer", id |-> m, text |-> latest[m], taken |-> FALSE] \in Call
      BY <1>1, <1>5 DEF Call
    <3> QED BY <1>1, <1>8, <3>1 DEF Steer
  <2> QED BY <1>1, <1>4, <1>8, <2>1 DEF Steer
<1>9. CASE TakeDispatched
  <2>1. sending.text \in Nat
    BY DEF TypeInv
  <2>2. sent' \in [Messages -> [texts : SUBSET Nat, auto : Nat]]
    <3> DEFINE new == [texts |-> sent[sending.id].texts \cup {sending.text}, auto |-> sent[sending.id].auto + 1]
    <3>1. sent' = [sent EXCEPT ![sending.id] = new]
      BY <1>9 DEF TakeDispatched
    <3>2. sending.id \in Messages => new \in [texts : SUBSET Nat, auto : Nat]
      BY <1>1, <2>1
    <3> HIDE DEF new
    <3> QED BY <1>1, <3>1, <3>2
  <2> QED BY <1>1, <1>9, <2>2 DEF TakeDispatched
<1>10. ASSUME NEW c \in calls, Take(c) PROVE OtherType'
  <2>1. calls' \subseteq Call
    BY <1>1, <1>10 DEF Take, Call
  <2>2. sent' \in [Messages -> [texts : SUBSET Nat, auto : Nat]]
    <3>1. c.text \in Nat /\ c.id \in Messages
      BY <1>5 DEF Call
    <3> QED BY <1>1, <1>10, <3>1 DEF Take
  <2> QED BY <1>1, <1>10, <2>1, <2>2 DEF Take
<1>11. CASE Dispatched
  <2>1. sending.id \in Messages
    BY <1>11, ZeroIsNoMessage DEF Dispatched, TypeInv, TextInv
  <2>2. work' \in [id : Messages, next : Writes]
    BY <1>11, <2>1 DEF Dispatched, Writes
  <2> QED BY <1>1, <1>11, <2>2 DEF Dispatched, history
<1>12. ASSUME NEW c \in calls, Answered(c) PROVE OtherType'
  <2>1. work' \in [id : Messages, next : Writes]
    BY <1>5, <1>12 DEF Answered, Writes
  <2> QED BY <1>1, <1>12, <2>1 DEF Answered, history
<1>13. CASE DispatchFails
  BY <1>1, <1>13 DEF DispatchFails, NotDispatched, history
<1>14. ASSUME NEW c \in calls, CallFails(c) PROVE OtherType'
  <2>1. used' \in [ops : Nat, faults : Nat, crashes : Nat]
    BY <1>1, <1>14 DEF CallFails
  <2> QED BY <1>1, <1>3, <1>5, <1>14, <2>1 DEF CallFails, history
<1>15. ASSUME NEW m \in Messages, Retry(m) PROVE OtherType'
  BY <1>1, <1>4, <1>15 DEF Retry
<1>16. ASSUME NEW m \in Messages, RemoveQueued(m) PROVE OtherType'
  <2>1. work' \in [id : Messages, next : Writes]
    BY <1>16 DEF RemoveQueued, Writes
  <2> QED BY <1>1, <1>3, <1>4, <1>16, <2>1 DEF RemoveQueued, history
<1>17. CASE FinishRemove
  <2>1. removed' \subseteq Messages /\ work' = NoWork
    BY <1>1, <1>17 DEF FinishRemove, NoWork
  <2> QED BY <1>1, <1>17, <2>1 DEF FinishRemove
<1>18. ASSUME NEW m \in Messages, Edit(m) PROVE OtherType'
  BY <1>1, <1>4, <1>18 DEF Edit
<1>19. CASE Reorder
  BY <1>1, <1>4, <1>19 DEF Reorder, history
<1>20. CASE Pause
  BY <1>1, <1>4, <1>20 DEF Pause, history
<1>21. CASE Resume
  BY <1>1, <1>4, <1>21 DEF Resume
<1>22. CASE Interrupt
  <2>1. Ids(With(items, "queued")) \subseteq Messages
    <3>1. Range(With(items, "queued")) \subseteq Item
      BY <1>1, WithFacts, RangeItems DEF Queue, Statuses
    <3> QED BY <3>1, IdsOfRange DEF Item
  <2> QED BY <1>1, <1>4, <1>22, <2>1 DEF Interrupt
<1>23. CASE TurnStarted \/ TurnCompleted \/ Reconcile
  BY <1>1, <1>23 DEF TurnStarted, TurnCompleted, Reconcile, history
<1>24. CASE Crash
  <2>1. used' \in [ops : Nat, faults : Nat, crashes : Nat]
    BY <1>1, <1>24 DEF Crash
  <2>2. turn' \in BOOLEAN
    BY <1>1, <1>24, Zenon DEF Crash
  <2>3. lapsed' \subseteq Messages
    BY <1>1, <1>24 DEF Crash, NoWork
  <2> QED BY <1>1, <1>24, <2>1, <2>2, <2>3 DEF Crash
<1>25. CASE Restore \/ Claim
  <2>1. att' \in [Messages -> AttValues]
    BY <1>1, <1>2, <1>25 DEF Restore, Claim
  <2> QED BY <1>1, <1>25, <2>1 DEF Restore, Claim, history
<1>26. ASSUME NEW m \in Messages, Expire(m) PROVE OtherType'
  <2>1. att' \in [Messages -> AttValues] /\ used' \in [ops : Nat, faults : Nat, crashes : Nat]
    BY <1>1, <1>2, <1>26 DEF Expire
  <2> QED BY <1>1, <1>26, <2>1 DEF Expire
<1>27. CASE Commit
  <2>1. att' \in [Messages -> AttValues]
    BY <1>1, <1>2, <1>27 DEF Commit
  <2>2. work' \in {NoWork} \cup [id : Messages, next : Writes]
    BY <1>1, <1>27 DEF Commit, NoWork, Writes
  <2> QED BY <1>1, <1>27, <2>1, <2>2 DEF Commit, history
<1> QED
  BY <1>6, <1>7, <1>8, <1>9, <1>10, <1>11, <1>12, <1>13, <1>14, <1>15, <1>16, <1>17, <1>18, <1>19, <1>20,
     <1>21, <1>22, <1>23, <1>24, <1>25, <1>26, <1>27
     DEF Next, DrainStep, CallStep, UserStep, TurnStep, WriteStep, RestartStep

-----------------------------------------------------------------------------
(* What each step does to the set of messages in the queue, to those that  *)
(* wait for the drain, and to the drain.                                   *)

Queued(it) == {m \in Messages : [id |-> m, status |-> "queued"] \in Range(it)}

\* Nothing happens to them.
Same == Ids(items') = Ids(items) /\ Queued(items') = Queued(items) /\ sending' = sending

\* The drain takes a message that waits.
Launches(m) ==
  /\ sending = NoCall /\ m \in Queued(items)
  /\ Ids(items') = Ids(items) /\ Queued(items') = Queued(items) \ {m}
  /\ sending' = [id |-> m, text |-> latest[m], taken |-> FALSE]

Loses(m) == Ids(items') = Ids(items) \ {m} /\ Queued(items') = Queued(items) \ {m}
Gains(m) == Ids(items') = Ids(items) \cup {m} /\ Queued(items') = Queued(items) \cup {m}

LEMMA QueuedInIds ==
  ASSUME NEW it
  PROVE  Queued(it) \subseteq Ids(it)
<1> SUFFICES ASSUME NEW m \in Queued(it) PROVE m \in Ids(it)
  OBVIOUS
<1>1. [id |-> m, status |-> "queued"] \in Range(it) /\ [id |-> m, status |-> "queued"].id = m
  BY DEF Queued
<1> QED BY <1>1, IdsOfRange

LEMMA WithoutSets ==
  ASSUME NEW it, Queue(it), NEW m
  PROVE  Ids(Without(it, m)) = Ids(it) \ {m} /\ Queued(Without(it, m)) = Queued(it) \ {m}
<1> DEFINE w == Without(it, m)
<1>1. Range(w) = {x \in Range(it) : x.id # m}
  BY WithoutFacts
<1> HIDE DEF w
<1>2. \A k : k \in Ids(w) <=> k \in Ids(it) /\ k # m
  BY <1>1, IdsOfRange
<1>3. Ids(w) = Ids(it) \ {m}
  BY <1>2 DEF Ids
<1>4. Queued(w) = Queued(it) \ {m}
  BY <1>1 DEF Queued
<1> QED BY <1>3, <1>4 DEF w

LEMMA PatchedSets ==
  ASSUME NEW it, Queue(it), NEW m, NEW s \in {"sending", "failed"}
  PROVE  Ids(Patched(it, m, s)) = Ids(it) /\ Queued(Patched(it, m, s)) = Queued(it) \ {m}
<1> DEFINE p == Patched(it, m, s)
           e == [id |-> m, status |-> s]
<1>1. Range(p) = {x \in Range(it) : x.id # m} \cup {x \in {e} : m \in Ids(it)}
  BY PatchedFacts DEF Statuses
<1>2. e.id = m /\ e.status # "queued"
  OBVIOUS
<1>3. \A k : [id |-> k, status |-> "queued"] # e /\ [id |-> k, status |-> "queued"].id = k
  OBVIOUS
<1> HIDE DEF p, e
<1>4. \A k : k \in Ids(p) <=> k \in Ids(it)
  <2> TAKE k
  <2>1. CASE k = m
    <3>1. m \in Ids(it) => e \in Range(p)
      BY <1>1
    <3>2. m \in Ids(p) => m \in Ids(it)
      BY <1>1, IdsOfRange
    <3> QED BY <2>1, <3>1, <3>2, <1>2, IdsOfRange
  <2>2. CASE k # m
    BY <1>1, <1>2, <2>2, IdsOfRange
  <2> QED BY <2>1, <2>2
<1>5. Ids(p) = Ids(it)
  BY <1>4 DEF Ids
<1>6. Queued(p) = Queued(it) \ {m}
  BY <1>1, <1>3 DEF Queued
<1> QED BY <1>5, <1>6 DEF p

LEMMA GrownSets ==
  ASSUME NEW it, NEW new, NEW m \in Messages,
         \/ Range(new) = Range(it) \cup {[id |-> m, status |-> "queued"]}
         \/ Range(new) = {x \in Range(it) : x.id # m} \cup {[id |-> m, status |-> "queued"]}
  PROVE  Ids(new) = Ids(it) \cup {m} /\ Queued(new) = Queued(it) \cup {m}
<1> DEFINE e == [id |-> m, status |-> "queued"]
<1>1. e.id = m /\ e \in Range(new)
  OBVIOUS
<1>2. \A k : [id |-> k, status |-> "queued"] = e <=> k = m
  OBVIOUS
<1>3. \A k : [id |-> k, status |-> "queued"].id = k
  OBVIOUS
<1>4. \A x : x.id # m => (x \in Range(new) <=> x \in Range(it))
  OBVIOUS
<1> HIDE DEF e
<1>5. \A k : k \in Ids(new) <=> k \in Ids(it) \/ k = m
  <2> TAKE k
  <2>1. CASE k = m
    BY <1>1, <2>1, IdsOfRange
  <2>2. CASE k # m
    BY <1>4, <2>2, IdsOfRange
  <2> QED BY <2>1, <2>2
<1>6. Ids(new) = Ids(it) \cup {m}
  BY <1>5 DEF Ids
<1>7. \A k : [id |-> k, status |-> "queued"] \in Range(new)
                 <=> [id |-> k, status |-> "queued"] \in Range(it) \/ k = m
  BY <1>1, <1>2, <1>3, <1>4
<1>8. Queued(new) = Queued(it) \cup {m}
  BY <1>7 DEF Queued
<1> QED BY <1>6, <1>8

LEMMA SameSets ==
  ASSUME NEW it, NEW new, Range(new) = Range(it)
  PROVE  Ids(new) = Ids(it) /\ Queued(new) = Queued(it)
<1>1. \A k : k \in Ids(new) <=> k \in Ids(it)
  BY IdsOfRange
<1>2. Ids(new) = Ids(it)
  BY <1>1 DEF Ids
<1> QED BY <1>2 DEF Queued

LEMMA LaunchSets ==
  ASSUME Queue(items), NEW m \in Messages, Launch(m)
  PROVE  Launches(m)
<1>1. Ids(Patched(items, m, "sending")) = Ids(items) /\ Queued(Patched(items, m, "sending")) = Queued(items) \ {m}
  BY PatchedSets
<1>2. items' = Patched(items, m, "sending") /\ sending = NoCall /\ m \in Queued(items)
      /\ sending' = [id |-> m, text |-> latest[m], taken |-> FALSE]
  BY DEF Launch, Queued
<1> QED BY <1>1, <1>2 DEF Launches

LEMMA EnqueueEffect ==
  ASSUME TypeInv, ListenerInv, AttInv, NEW m \in Messages, Enqueue(m)
  PROVE  /\ \/ Gains(m) /\ sending' = sending /\ latest' = [latest EXCEPT ![m] = 1]
            \/ Same /\ latest' = latest
         /\ paused' = paused
<1> DEFINE new == Normalized(Append(items, [id |-> m, status |-> "queued"]))
<1>1. CASE Len(items) < QueueLimit
  <2>1. PutItems(new) /\ latest' = [latest EXCEPT ![m] = 1]
    BY <1>1 DEF Enqueue
  <2>2. m \notin Ids(items) /\ Queue(items)
    BY DEF Enqueue, Arrives, AttInv, TypeInv
  <2>3. Range(new) = Range(items) \cup {[id |-> m, status |-> "queued"]}
    BY <2>2, AppendedFacts
  <2> HIDE DEF new
  <2>4. Ids(new) = Ids(items) \cup {m} /\ Queued(new) = Queued(items) \cup {m}
    BY <2>3, GrownSets
  <2>5. items' = new /\ sending' = sending /\ paused' = paused
    BY <2>1, PutItemsQuiet
  <2> QED BY <2>1, <2>4, <2>5 DEF Gains
<1>2. CASE ~(Len(items) < QueueLimit)
  BY <1>2 DEF Enqueue, queue, Same
<1> QED BY <1>1, <1>2

LEMMA RetryEffect ==
  ASSUME TypeInv, ListenerInv, NEW m \in Messages, Retry(m)
  PROVE  /\ m \in Ids(items)
         /\ Ids(items') = Ids(items) /\ Queued(items') = Queued(items) \cup {m}
         /\ sending' = sending /\ paused' = paused
<1>1. PutItems(Retried(m)) /\ m \in Ids(items) /\ Queue(items)
  BY DEF Retry, TypeInv
<1>2. items' = Retried(m) /\ sending' = sending /\ paused' = paused
  BY <1>1, PutItemsQuiet
<1>3. Range(Retried(m)) = {x \in Range(items) : x.id # m} \cup {[id |-> m, status |-> "queued"]}
  BY <1>1, RetriedFacts
<1>4. Ids(Retried(m)) = Ids(items) \cup {m} /\ Queued(Retried(m)) = Queued(items) \cup {m}
  BY <1>3, GrownSets
<1> QED BY <1>1, <1>2, <1>4

LEMMA AnsweredEffect ==
  ASSUME TypeInv, ListenerInv, NEW c \in calls, Answered(c)
  PROVE  Same /\ paused' = paused
<1>1. Put(items, paused, "running")
  BY DEF Answered
<1>2. items' = items /\ sending' = sending /\ paused' = paused
  BY <1>1, PutQuiet
<1> QED BY <1>2 DEF Same

LEMMA DispatchedEffect ==
  ASSUME TypeInv, Dispatched
  PROVE  Ids(items') = Ids(items) /\ Queued(items') = Queued(items) /\ sending' = NoCall /\ paused' = paused
BY DEF Dispatched

LEMMA DispatchFailsEffect ==
  ASSUME TypeInv, DispatchFails
  PROVE  /\ Ids(items') = Ids(items) /\ Queued(items') = Queued(items) \ {sending.id}
         /\ sending' = NoCall /\ paused' = paused
<1>1. items' = Patched(items, sending.id, "failed") /\ sending' = NoCall /\ paused' = paused /\ Queue(items)
  BY DEF DispatchFails, NotDispatched, TypeInv
<1> QED BY <1>1, PatchedSets

LEMMA FinishRemoveEffect ==
  ASSUME TypeInv, ListenerInv, FinishRemove
  PROVE  Loses(work.id) /\ sending' = sending /\ paused' = paused
<1>1. PutItems(Without(items, work.id)) /\ Queue(items)
  BY DEF FinishRemove, TypeInv
<1>2. items' = Without(items, work.id) /\ sending' = sending /\ paused' = paused
  BY <1>1, PutItemsQuiet
<1> QED BY <1>1, <1>2, WithoutSets DEF Loses

LEMMA EditEffect ==
  ASSUME TypeInv, ListenerInv, NEW m \in Messages, Edit(m)
  PROVE  m \in Ids(items) /\ Same /\ paused' = paused
<1>1. PutItems(items) /\ m \in Ids(With(items, "queued")) /\ Queue(items)
  BY DEF Edit, TypeInv
<1>2. items' = items /\ sending' = sending /\ paused' = paused
  BY <1>1, PutItemsQuiet
<1>3. Range(With(items, "queued")) = {x \in Range(items) : x.status = "queued"}
  BY <1>1, WithFacts DEF Queue, Statuses
<1>4. m \in Ids(items)
  BY <1>1, <1>3, IdsOfRange
<1> QED BY <1>2, <1>4 DEF Same

\* Steps that write the queue and leave its messages alone.
LEMMA QuietEffect ==
  ASSUME TypeInv, ListenerInv, Reorder \/ Pause \/ Interrupt \/ TurnStarted
  PROVE  Same /\ (paused => paused')
<1>1. CASE Reorder
  <2>1. PICK perm \in SetToSeqs(Range(With(items, "queued"))) :
          PutItems(Normalized(With(items, "sending") \o With(items, "failed") \o perm))
    BY <1>1 DEF Reorder
  <2> DEFINE new == Normalized(With(items, "sending") \o With(items, "failed") \o perm)
  <2>2. Range(new) = Range(items)
    BY ReorderedFacts DEF TypeInv
  <2>3. PutItems(new)
    BY <2>1
  <2> HIDE DEF new
  <2>4. items' = new /\ sending' = sending /\ paused' = paused
    BY <2>3, PutItemsQuiet
  <2> QED BY <2>2, <2>4, SameSets DEF Same
<1>2. CASE Pause
  <2>1. items' = items /\ sending' = sending /\ paused' = TRUE
    BY <1>2, PutQuiet DEF Pause
  <2> QED BY <2>1 DEF Same
<1>3. CASE Interrupt
  <2>1. CASE HasPending(items) /\ ~paused
    <3>1. items' = items /\ sending' = sending /\ paused' = TRUE
      BY <1>3, <2>1, PutQuiet DEF Interrupt
    <3> QED BY <3>1 DEF Same
  <2>2. CASE ~(HasPending(items) /\ ~paused)
    BY <1>3, <2>2 DEF Interrupt, queue, Same
  <2> QED BY <2>1, <2>2
<1>4. CASE TurnStarted
  <2>1. items' = items /\ sending' = sending /\ paused' = paused
    BY <1>4, PutQuiet DEF TurnStarted
  <2> QED BY <2>1 DEF Same
<1> QED BY <1>1, <1>2, <1>3, <1>4

\* The three steps that may begin a dispatch; none does while the queue is paused.
LEMMA LaunchEffect ==
  ASSUME TypeInv, ListenerInv, Resume \/ TurnCompleted \/ Reconcile
  PROVE  \/ Same /\ (Resume \/ paused' = paused)
         \/ (~paused' /\ (Resume \/ paused' = paused) /\ \E m \in Messages : Launches(m))
<1>1. Queue(items)
  BY DEF TypeInv
<1>2. CASE Resume
  <2>1. Drain(items, FALSE, status) /\ paused' = FALSE
    BY <1>2 DEF Resume
  <2>2. (items' = items /\ sending' = sending) \/ \E m \in Messages : Launch(m)
    BY <1>1, <2>1, DrainFacts
  <2> QED BY <1>1, <1>2, <2>1, <2>2, LaunchSets DEF Same
<1>3. CASE TurnCompleted \/ Reconcile
  <2>1. PICK st \in {"idle", "failed"} : Put(items, paused, st)
    BY <1>3 DEF TurnCompleted, Reconcile
  <2>2. /\ paused' = paused
        /\ (items' = items /\ sending' = sending) \/ (~paused /\ \E m \in Messages : Launch(m))
    BY <1>1, <2>1, PutSame
  <2> QED BY <1>1, <2>2, LaunchSets DEF Same
<1> QED BY <1>2, <1>3

-----------------------------------------------------------------------------
(* The inductive invariant.                                                *)

\* A message without attachments has not arrived: nothing knows it.
FreshInv ==
  \A m \in Messages : att[m] = "none" =>
    /\ latest[m] = 0 /\ sending.id # m /\ sent[m].auto = 0 /\ \A c \in calls : c.id # m

\* What is in the queue was accepted, and what is sent directly never is.
AcceptInv ==
  /\ \A m \in Ids(items) : latest[m] > 0
  /\ \A c \in calls : c.kind = "direct" => latest[c.id] = 0

Waits(m) == IF m \in Queued(items) THEN 1 ELSE 0
UnderWay(m) == IF sending.id = m /\ ~sending.taken THEN 1 ELSE 0

\* A message can be sent once for the first time it was queued and once for every retry.
BudgetInv == \A m \in Messages : sent[m].auto + UnderWay(m) + Waits(m) <= 1 + retries[m]

\* The server writes about a message the provider has, or one it sends directly.
WorkInv ==
  /\ work.next \in {"settle", "drop"} =>
       /\ work.id \in Messages /\ sent[work.id].texts # {}
       /\ latest[work.id] \in sent[work.id].texts \/ work.id \in raced
  /\ work.next = "commit" => work.id \in Messages /\ latest[work.id] = 0

\* Stop leaves the queue paused until the user resumes it.
HeldInv == held # {} => paused

QueueInv ==
  /\ TypeInv /\ ListenerInv /\ AttInv /\ FreshInv /\ AcceptInv /\ TextInv /\ WorkInv
  /\ NothingLost /\ BudgetInv /\ HeldInv

\* A direct send shares no message with the queue, so its rollback and its commit take
\* nothing from it.
LEMMA AttStep ==
  ASSUME QueueInv, Next
  PROVE  AttInv'
<1>1. TypeInv /\ ListenerInv /\ AttInv /\ AcceptInv /\ WorkInv /\ Ids(items) \subseteq Messages
      /\ att \in [Messages -> AttValues] /\ sent \in [Messages -> [texts : SUBSET Nat, auto : Nat]]
  BY IdsAreMessages DEF QueueInv, TypeInv
<1> DEFINE Held(m) == /\ att[m] \in {"staged", "committed"} \/ m \in lapsed
                      /\ att[m] # "none" /\ (att[m] = "committed" => sent[m].texts # {})
<1>2. Up => mode = "up" /\ work.next = "none" /\ \A m \in Ids(items) : Held(m)
  BY <1>1 DEF Up, AttInv, NoWork
<1>3. ASSUME \A m \in Ids(items') : Held(m)' PROVE AttInv'
  BY <1>3 DEF AttInv
<1>4. ASSUME Up, Ids(items') \subseteq Ids(items), lapsed' = lapsed,
             \A m \in Ids(items') : att'[m] = att[m] /\ sent[m].texts \subseteq sent'[m].texts
      PROVE  AttInv'
  BY <1>2, <1>3, <1>4
<1>5. ASSUME NEW m \in Messages, Enqueue(m) PROVE AttInv'
  <2>1. att'[m] = "staged" /\ (\A k \in Messages : k # m => att'[k] = att[k]) /\ UNCHANGED <<sent, lapsed>>
    BY <1>1, <1>5 DEF Enqueue, Stage
  <2>2. Ids(items') \subseteq Ids(items) \cup {m}
    BY <1>1, <1>5, EnqueueEffect DEF Gains, Same
  <2>3. Up
    BY <1>5 DEF Enqueue
  <2>4. ASSUME NEW k \in Ids(items') PROVE Held(k)'
    BY <1>1, <1>2, <2>1, <2>2, <2>3
  <2> QED BY <1>3, <2>4
<1>6. ASSUME NEW m \in Messages, SendNow(m) PROVE AttInv'
  <2>1. /\ Up /\ items' = items /\ att[m] = "none" /\ \A k \in Messages : k # m => att'[k] = att[k]
        /\ UNCHANGED <<sent, lapsed>>
    BY <1>1, <1>6 DEF SendNow, Stage, Arrives, queue, history
  <2>2. m \notin Ids(items)
    BY <1>2, <2>1
  <2> QED BY <1>1, <1>4, <2>1, <2>2
<1>7. ASSUME NEW m \in Messages, Steer(m) PROVE AttInv'
  BY <1>4, <1>7 DEF Steer, queue
<1>8. ASSUME NEW m \in Messages, Retry(m) PROVE AttInv'
  BY <1>1, <1>4, <1>8, RetryEffect DEF Retry
<1>9. ASSUME NEW m \in Messages, RemoveQueued(m) PROVE AttInv'
  <2>1. /\ Up /\ items' = items /\ work' = [id |-> m, next |-> "discard"] /\ att' = RolledBack(m)
        /\ UNCHANGED <<sent, lapsed>>
    BY <1>9 DEF RemoveQueued, queue, history
  <2>2. \A k \in Messages : k # m => att'[k] = att[k]
    BY <1>1, <2>1 DEF RolledBack
  <2>3. att'[m] = (IF att[m] = "staged" THEN "released" ELSE att[m])
    BY <1>1, <2>1 DEF RolledBack
  <2>4. work'.id = m /\ work'.next = "discard"
    BY <2>1
  <2> QED BY <1>1, <1>2, <2>1, <2>2, <2>3, <2>4 DEF AttInv
<1>10. ASSUME NEW m \in Messages, Edit(m) PROVE AttInv'
  BY <1>1, <1>4, <1>10, EditEffect DEF Edit, Same
<1>11. CASE TakeDispatched
  <2>1. \A k \in Messages : sent[k].texts \subseteq sent'[k].texts
    BY <1>1, <1>11 DEF TakeDispatched
  <2> QED BY <1>1, <1>4, <1>11, <2>1 DEF TakeDispatched
<1>12. ASSUME NEW c \in calls, Take(c) PROVE AttInv'
  <2>1. \A k \in Messages : sent[k].texts \subseteq sent'[k].texts
    BY <1>1, <1>12 DEF Take
  <2> QED BY <1>1, <1>4, <1>12, <2>1 DEF Take, queue
<1>13. CASE Dispatched
  BY <1>1, <1>4, <1>13 DEF Dispatched, history
<1>14. ASSUME NEW c \in calls, Answered(c) PROVE AttInv'
  BY <1>1, <1>4, <1>14, AnsweredEffect DEF Answered, history, Same
<1>15. CASE Commit
  <2>1. /\ mode = "up" /\ work.next \in {"commit", "settle"} /\ items' = items /\ UNCHANGED <<sent, lapsed>>
        /\ att' = [att EXCEPT ![work.id] = IF @ \in {"staged", "draft"} THEN "committed" ELSE @]
    BY <1>15 DEF Commit, queue, history
  <2>2. ASSUME NEW k \in Ids(items) PROVE Held(k)
    BY <1>1, <2>1 DEF AttInv
  <2>3. ASSUME NEW k \in Ids(items), k # work.id PROVE Held(k)'
    BY <1>1, <2>1, <2>2, <2>3
  <2>4. ASSUME NEW k \in Ids(items) PROVE Held(k)'
    <3>1. CASE k = work.id
      <4>1. att'[k] = IF att[k] \in {"staged", "draft"} THEN "committed" ELSE att[k]
        BY <1>1, <2>1, <3>1
      <4>2. sent[k].texts # {}
        BY <1>1, <2>1, <3>1 DEF WorkInv, AcceptInv
      <4> QED BY <2>1, <2>2, <4>1, <4>2
    <3> QED BY <2>3, <3>1
  <2> QED BY <1>3, <2>1, <2>4
<1>16. CASE DispatchFails
  BY <1>1, <1>4, <1>16, DispatchFailsEffect DEF DispatchFails, NotDispatched, history
<1>17. ASSUME NEW c \in calls, CallFails(c) PROVE AttInv'
  <2>1. /\ Up /\ items' = items /\ att' = IF c.kind = "direct" THEN RolledBack(c.id) ELSE att
        /\ UNCHANGED <<sent, lapsed>>
    BY <1>17 DEF CallFails, queue, history
  <2>2. \A k \in Messages : k # c.id => att'[k] = att[k]
    BY <1>1, <2>1 DEF RolledBack
  <2>3. c.kind = "direct" => c.id \notin Ids(items)
    BY <1>1 DEF AcceptInv
  <2> QED BY <1>1, <1>4, <2>1, <2>2, <2>3
<1>18. CASE FinishRemove
  <2>1. Ids(items') = Ids(items) \ {work.id} /\ mode = "up" /\ UNCHANGED <<att, sent, lapsed>>
    BY <1>1, <1>18, FinishRemoveEffect DEF FinishRemove, Loses
  <2>2. ASSUME NEW k \in Ids(items') PROVE Held(k)'
    BY <1>1, <2>1 DEF AttInv
  <2> QED BY <1>3, <2>2
<1>19. CASE Reorder \/ Pause \/ Interrupt \/ TurnStarted
  BY <1>1, <1>4, <1>19, QuietEffect DEF Reorder, Pause, Interrupt, TurnStarted, Same, history
<1>20. CASE Resume \/ TurnCompleted \/ Reconcile
  <2>1. Ids(items') = Ids(items)
    BY <1>1, <1>20, LaunchEffect DEF Same, Launches
  <2> QED BY <1>4, <1>20, <2>1 DEF Resume, TurnCompleted, Reconcile, history
<1>21. CASE Crash
  <2>1. /\ items' = items /\ UNCHANGED <<att, sent>> /\ mode' = "down" /\ lapsed \subseteq lapsed'
        /\ work.next = "discard" => work.id \in lapsed'
    BY <1>21 DEF Crash
  <2> QED BY <1>1, <2>1 DEF AttInv
<1>22. CASE Restore
  <2>1. /\ items' = items /\ mode = "down" /\ mode' = "starting" /\ UNCHANGED <<sent, lapsed, work>>
        /\ \A k \in Ids(items) : att'[k] = IF att[k] = "staged" THEN "draft" ELSE att[k]
    BY <1>1, <1>22 DEF Restore, queue, history
  <2> QED BY <1>1, <2>1 DEF AttInv
<1>23. CASE Claim
  <2>1. /\ items' = items /\ UNCHANGED <<sent, lapsed, work>>
        /\ \A k \in Ids(items) : att'[k] = IF att[k] = "draft" THEN "staged" ELSE att[k]
    BY <1>1, <1>23 DEF Claim, queue, history
  <2> QED BY <1>1, <2>1 DEF AttInv
<1>24. ASSUME NEW m \in Messages, Expire(m) PROVE AttInv'
  <2>1. /\ items' = items /\ UNCHANGED <<sent, work, mode>> /\ lapsed' = lapsed \cup {m}
        /\ att'[m] = "gone" /\ \A k \in Messages : k # m => att'[k] = att[k]
    BY <1>1, <1>24 DEF Expire, queue
  <2> QED BY <1>1, <2>1 DEF AttInv
<1> QED
  BY <1>5, <1>6, <1>7, <1>8, <1>9, <1>10, <1>11, <1>12, <1>13, <1>14, <1>15, <1>16, <1>17, <1>18,
     <1>19, <1>20, <1>21, <1>22, <1>23, <1>24
     DEF Next, DrainStep, CallStep, UserStep, TurnStep, WriteStep, RestartStep

\* What the server is in the middle of writing, it writes before it does anything else.
LEMMA WorkStep ==
  ASSUME QueueInv, Next
  PROVE  WorkInv'
<1>1. /\ TypeInv /\ ListenerInv /\ AttInv /\ AcceptInv /\ TextInv /\ WorkInv
      /\ \A c \in calls : c \in Call /\ c.id \in Messages /\ c.kind \in {"direct", "steer"}
  BY DEF QueueInv, TypeInv, Call
<1>2. ASSUME work' = NoWork PROVE WorkInv'
  BY <1>2 DEF WorkInv, NoWork
<1>3. ASSUME Up, work' = work PROVE WorkInv'
  BY <1>2, <1>3 DEF Up
<1>4. ASSUME UNCHANGED <<work, latest, sent, raced>> PROVE WorkInv'
  BY <1>1, <1>4 DEF WorkInv
<1>5. CASE Dispatched
  <2>1. sending # NoCall /\ sending.taken /\ UNCHANGED history /\ work' = [id |-> sending.id, next |-> "settle"]
    BY <1>5, ZeroIsNoMessage DEF Dispatched
  <2>2. /\ sending.id \in Messages /\ sending.text \in sent[sending.id].texts
        /\ sending.text = latest[sending.id] \/ sending.id \in raced
    BY <1>1, <2>1 DEF TextInv
  <2>3. work'.id = sending.id /\ work'.next = "settle" /\ UNCHANGED <<latest, sent, raced>>
    BY <2>1 DEF history
  <2> QED BY <2>2, <2>3 DEF WorkInv
<1>6. ASSUME NEW c \in calls, Answered(c) PROVE WorkInv'
  <2>1. c.taken /\ work' = [id |-> c.id, next |-> IF c.kind = "steer" THEN "settle" ELSE "commit"]
        /\ UNCHANGED <<latest, sent, raced>>
    BY <1>6 DEF Answered, history
  <2>2. CASE c.kind = "steer"
    <3>1. c.text \in sent[c.id].texts /\ (c.text = latest[c.id] \/ c.id \in raced)
      BY <1>1, <2>1, <2>2 DEF TextInv
    <3> QED BY <1>1, <2>1, <2>2, <3>1 DEF WorkInv
  <2>3. CASE c.kind = "direct"
    <3>1. latest[c.id] = 0
      BY <1>1, <2>3 DEF AcceptInv
    <3> QED BY <1>1, <2>1, <2>3, <3>1 DEF WorkInv
  <2> QED BY <1>1, <2>2, <2>3
<1>7. ASSUME NEW m \in Messages, RemoveQueued(m) PROVE WorkInv'
  BY <1>7 DEF RemoveQueued, WorkInv
<1>8. CASE Commit
  <2>1. UNCHANGED <<latest, sent, raced>>
    BY <1>8 DEF Commit, history
  <2>2. CASE work.next = "settle"
    <3>1. work' = [work EXCEPT !.next = "drop"] /\ work \in [id : Messages, next : Writes]
      BY <1>1, <1>8, <2>2 DEF Commit, TypeInv, NoWork
    <3>2. work'.id = work.id /\ work'.next = "drop"
      BY <3>1
    <3> QED BY <1>1, <2>1, <2>2, <3>2 DEF WorkInv
  <2>3. CASE work.next # "settle"
    BY <1>2, <1>8, <2>3 DEF Commit
  <2> QED BY <2>2, <2>3
<1>9. CASE FinishRemove \/ Crash
  BY <1>2, <1>9 DEF FinishRemove, Crash
<1>10. CASE Restore \/ Claim \/ \E m \in Messages : Expire(m)
  BY <1>4, <1>10 DEF Restore, Claim, Expire, history
<1>11. ASSUME NEW m \in Messages, Enqueue(m) \/ SendNow(m) \/ Steer(m) \/ Retry(m) \/ Edit(m) PROVE WorkInv'
  BY <1>3, <1>11 DEF Enqueue, SendNow, Steer, Retry, Edit
<1>12. ASSUME NEW c \in calls, Take(c) \/ CallFails(c) PROVE WorkInv'
  BY <1>3, <1>12 DEF Take, CallFails
<1>13. CASE TakeDispatched \/ DispatchFails \/ Reorder \/ Pause \/ Resume \/ Interrupt
  BY <1>3, <1>13 DEF TakeDispatched, DispatchFails, Reorder, Pause, Resume, Interrupt
<1>14. CASE TurnStarted \/ TurnCompleted \/ Reconcile
  BY <1>3, <1>14 DEF TurnStarted, TurnCompleted, Reconcile
<1> QED
  BY <1>5, <1>6, <1>7, <1>8, <1>9, <1>10, <1>11, <1>12, <1>13, <1>14
     DEF Next, DrainStep, CallStep, UserStep, TurnStep, WriteStep, RestartStep

\* No step makes a message fresh again.
LEMMA AttGrows ==
  ASSUME QueueInv, Next, NEW m \in Messages, att'[m] = "none"
  PROVE  att[m] = "none"
<1>1. att \in [Messages -> AttValues]
  BY DEF QueueInv, TypeInv
<1>2. CASE UNCHANGED att
  BY <1>2
<1>3. CASE \E k \in Messages : Stage(k)
  BY <1>1, <1>3 DEF Stage
<1>4. CASE \E k : att' = RolledBack(k)
  BY <1>1, <1>4 DEF RolledBack
<1>5. CASE Restore \/ Claim \/ Commit \/ \E k \in Messages : Expire(k)
  BY <1>1, <1>5 DEF Restore, Claim, Commit, Expire
<1>6. ASSUME NEW k \in Messages, Enqueue(k) \/ SendNow(k) PROVE att[m] = "none"
  BY <1>3, <1>6 DEF Enqueue, SendNow
<1>7. ASSUME NEW k \in Messages, RemoveQueued(k) PROVE att[m] = "none"
  BY <1>4, <1>7 DEF RemoveQueued
<1>8. ASSUME NEW k \in Messages, Steer(k) \/ Retry(k) \/ Edit(k) PROVE att[m] = "none"
  BY <1>2, <1>8 DEF Steer, Retry, Edit
<1>9. ASSUME NEW c \in calls, Take(c) \/ Answered(c) \/ CallFails(c) PROVE att[m] = "none"
  BY <1>2, <1>4, <1>9 DEF Take, Answered, CallFails
<1>10. CASE DrainStep
  BY <1>2, <1>10 DEF DrainStep, TakeDispatched, Dispatched, DispatchFails, NotDispatched
<1>11. CASE Reorder \/ Pause \/ Resume \/ Interrupt \/ TurnStep \/ TurnStarted \/ FinishRemove \/ Crash
  BY <1>2, <1>11 DEF Reorder, Pause, Resume, Interrupt, TurnStep, TurnCompleted, Reconcile, TurnStarted,
                     FinishRemove, Crash
<1> QED
  BY <1>5, <1>6, <1>7, <1>8, <1>9, <1>10, <1>11 DEF Next, CallStep, UserStep, WriteStep, RestartStep

LEMMA FreshStep ==
  ASSUME QueueInv, Next
  PROVE  FreshInv'
<1>1. TypeInv /\ ListenerInv /\ AttInv /\ FreshInv /\ TextInv
  BY DEF QueueInv
<1> SUFFICES ASSUME NEW f \in Messages, att'[f] = "none"
             PROVE  /\ latest'[f] = 0 /\ sending'.id # f /\ sent'[f].auto = 0
                    /\ \A c \in calls' : c.id # f
  BY DEF FreshInv
<1>2. att[f] = "none"
  BY AttGrows
<1>3. latest[f] = 0 /\ sending.id # f /\ sent[f].auto = 0 /\ (\A c \in calls : c.id # f) /\ f \notin Ids(items)
  BY <1>1, <1>2 DEF FreshInv, AttInv
<1>4. /\ latest \in [Messages -> Nat] /\ sent \in [Messages -> [texts : SUBSET Nat, auto : Nat]]
      /\ att \in [Messages -> AttValues]
      /\ NoCall.id # f
  BY <1>1, ZeroIsNoMessage DEF TypeInv
<1> DEFINE Known == latest'[f] = 0 /\ sending'.id # f /\ sent'[f].auto = 0 /\ \A c \in calls' : c.id # f
<1>5. ASSUME NEW m \in Messages, Enqueue(m) PROVE Known
  <2>1. m # f
    BY <1>4, <1>5 DEF Enqueue, Stage
  <2>2. sending' = sending /\ latest'[f] = latest[f]
    BY <1>1, <1>4, <1>5, <2>1, EnqueueEffect DEF Same
  <2> QED BY <1>3, <1>5, <2>2 DEF Enqueue
<1>6. ASSUME NEW m \in Messages, SendNow(m) PROVE Known
  <2>1. m # f
    BY <1>4, <1>6 DEF SendNow, Stage
  <2> QED BY <1>3, <1>6, <2>1 DEF SendNow, queue, history
<1>7. ASSUME NEW m \in Messages, Steer(m) PROVE Known
  BY <1>3, <1>7 DEF Steer, queue
<1>8. ASSUME NEW m \in Messages, Retry(m) PROVE Known
  BY <1>1, <1>3, <1>8, RetryEffect DEF Retry
<1>9. ASSUME NEW m \in Messages, RemoveQueued(m) PROVE Known
  BY <1>3, <1>9 DEF RemoveQueued, queue, history
<1>10. ASSUME NEW m \in Messages, Edit(m) PROVE Known
  <2>1. m # f /\ sending' = sending
    BY <1>1, <1>3, <1>10, EditEffect DEF Same
  <2> QED BY <1>3, <1>4, <1>10, <2>1 DEF Edit
<1>11. CASE TakeDispatched
  <2>1. sending'.id = sending.id
    BY <1>1, <1>11 DEF TakeDispatched, TypeInv
  <2>2. sent'[f] = sent[f]
    BY <1>3, <1>4, <1>11 DEF TakeDispatched
  <2> QED BY <1>3, <1>11, <2>1, <2>2 DEF TakeDispatched
<1>12. ASSUME NEW c \in calls, Take(c) PROVE Known
  <2>1. c \in Call
    BY <1>1 DEF TypeInv
  <2>2. [c EXCEPT !.taken = TRUE].id = c.id
    BY <2>1 DEF Call
  <2>3. sent'[f] = sent[f]
    BY <1>3, <1>4, <1>12 DEF Take
  <2> QED BY <1>3, <1>12, <2>2, <2>3 DEF Take, queue
<1>13. CASE Dispatched \/ DispatchFails
  BY <1>3, <1>4, <1>13 DEF Dispatched, DispatchFails, NotDispatched, history
<1>14. ASSUME NEW c \in calls, Answered(c) PROVE Known
  <2>1. sending' = sending
    BY <1>1, <1>14, AnsweredEffect DEF Same
  <2> QED BY <1>3, <1>14, <2>1 DEF Answered, history
<1>15. ASSUME NEW c \in calls, CallFails(c) PROVE Known
  BY <1>3, <1>15 DEF CallFails, queue, history
<1>16. CASE FinishRemove
  BY <1>1, <1>3, <1>16, FinishRemoveEffect DEF FinishRemove
<1>17. CASE Reorder \/ Pause \/ Interrupt \/ TurnStarted
  BY <1>1, <1>3, <1>17, QuietEffect DEF Reorder, Pause, Interrupt, TurnStarted, Same, history
<1>18. CASE Resume \/ TurnCompleted \/ Reconcile
  <2>1. sending' = sending \/ \E m \in Messages : Launches(m)
    BY <1>1, <1>18, LaunchEffect DEF Same
  <2>2. sending'.id # f
    BY <1>3, <2>1, QueuedInIds DEF Launches
  <2> QED BY <1>3, <1>18, <2>2 DEF Resume, TurnCompleted, Reconcile, history
<1>19. CASE Crash
  BY <1>3, <1>4, <1>19 DEF Crash
<1>20. CASE Commit \/ Restore \/ Claim \/ \E m \in Messages : Expire(m)
  BY <1>3, <1>20 DEF Commit, Restore, Claim, Expire, queue, history
<1> QED
  BY <1>5, <1>6, <1>7, <1>8, <1>9, <1>10, <1>11, <1>12, <1>13, <1>14, <1>15, <1>16, <1>17, <1>18,
     <1>19, <1>20 DEF Next, DrainStep, CallStep, UserStep, TurnStep, WriteStep, RestartStep

LEMMA AcceptStep ==
  ASSUME QueueInv, Next
  PROVE  AcceptInv'
<1>1. TypeInv /\ ListenerInv /\ AttInv /\ FreshInv /\ AcceptInv /\ Ids(items) \subseteq Messages
  BY IdsAreMessages DEF QueueInv, TypeInv
<1>2. latest \in [Messages -> Nat] /\ \A c \in calls : c \in Call /\ c.id \in Messages
  BY <1>1 DEF TypeInv, Call
<1>3. ASSUME latest' = latest, Ids(items') \subseteq Ids(items), calls' \subseteq calls
      PROVE  AcceptInv'
  BY <1>1, <1>3 DEF AcceptInv
<1>4. ASSUME NEW m \in Messages, Enqueue(m) PROVE AcceptInv'
  <2>1. CASE latest' = latest /\ Same
    BY <1>3, <1>4, <2>1 DEF Enqueue, Same
  <2>2. CASE Gains(m) /\ latest' = [latest EXCEPT ![m] = 1]
    <3>1. \A c \in calls : c.id # m
      BY <1>1, <1>4 DEF Enqueue, Arrives, FreshInv
    <3>2. calls' = calls
      BY <1>4 DEF Enqueue
    <3> QED BY <1>1, <1>2, <2>2, <3>1, <3>2 DEF AcceptInv, Gains
  <2> QED BY <1>1, <1>4, <2>1, <2>2, EnqueueEffect
<1>5. ASSUME NEW m \in Messages, SendNow(m) PROVE AcceptInv'
  <2>1. latest[m] = 0 /\ items' = items /\ latest' = latest
    BY <1>1, <1>5 DEF SendNow, Arrives, FreshInv, queue, history
  <2> QED BY <1>1, <1>5, <2>1 DEF SendNow, AcceptInv
<1>6. ASSUME NEW m \in Messages, Steer(m) PROVE AcceptInv'
  <2>1. items' = items /\ latest' = latest
    BY <1>6 DEF Steer, queue
  <2> QED BY <1>1, <1>6, <2>1 DEF Steer, AcceptInv
<1>7. ASSUME NEW m \in Messages, Retry(m) PROVE AcceptInv'
  BY <1>1, <1>3, <1>7, RetryEffect DEF Retry
<1>8. ASSUME NEW m \in Messages, RemoveQueued(m) PROVE AcceptInv'
  BY <1>3, <1>8 DEF RemoveQueued, queue, history
<1>9. ASSUME NEW m \in Messages, Edit(m) PROVE AcceptInv'
  <2>1. m \in Ids(items) /\ Ids(items') = Ids(items) /\ calls' = calls /\ latest' = [latest EXCEPT ![m] = @ + 1]
    BY <1>1, <1>9, EditEffect DEF Edit, Same
  <2>2. latest[m] > 0
    BY <1>1, <2>1 DEF AcceptInv
  <2> QED BY <1>1, <1>2, <2>1, <2>2 DEF AcceptInv
<1>10. CASE TakeDispatched
  BY <1>3, <1>10 DEF TakeDispatched
<1>11. ASSUME NEW c \in calls, Take(c) PROVE AcceptInv'
  <2>1. [c EXCEPT !.taken = TRUE].id = c.id /\ [c EXCEPT !.taken = TRUE].kind = c.kind
    BY <1>2 DEF Call
  <2> QED BY <1>1, <1>11, <2>1 DEF Take, queue, AcceptInv
<1>12. CASE Dispatched
  BY <1>1, <1>3, <1>12, DispatchedEffect DEF Dispatched, history
<1>13. ASSUME NEW c \in calls, Answered(c) PROVE AcceptInv'
  <2>1. Ids(items') \subseteq Ids(items)
    BY <1>1, <1>13, AnsweredEffect DEF Same
  <2> QED BY <1>3, <1>13, <2>1 DEF Answered, history
<1>14. CASE DispatchFails
  BY <1>1, <1>3, <1>14, DispatchFailsEffect DEF DispatchFails, history
<1>15. ASSUME NEW c \in calls, CallFails(c) PROVE AcceptInv'
  BY <1>3, <1>15 DEF CallFails, queue, history
<1>16. CASE FinishRemove
  BY <1>1, <1>3, <1>16, FinishRemoveEffect DEF FinishRemove, Loses
<1>17. CASE Reorder \/ Pause \/ Interrupt \/ TurnStarted
  BY <1>1, <1>3, <1>17, QuietEffect DEF Reorder, Pause, Interrupt, TurnStarted, Same, history
<1>18. CASE Resume \/ TurnCompleted \/ Reconcile
  <2>1. Ids(items') = Ids(items)
    BY <1>1, <1>18, LaunchEffect DEF Same, Launches
  <2> QED BY <1>3, <1>18, <2>1 DEF Resume, TurnCompleted, Reconcile, history
<1>19. CASE Crash
  BY <1>3, <1>19 DEF Crash
<1>20. CASE Commit \/ Restore \/ Claim \/ \E m \in Messages : Expire(m)
  BY <1>3, <1>20 DEF Commit, Restore, Claim, Expire, queue, history
<1> QED
  BY <1>4, <1>5, <1>6, <1>7, <1>8, <1>9, <1>10, <1>11, <1>12, <1>13, <1>14, <1>15, <1>16, <1>17, <1>18,
     <1>19, <1>20 DEF Next, DrainStep, CallStep, UserStep, TurnStep, WriteStep, RestartStep

\* The two halves of TextInv.
DrainText ==
  sending # NoCall =>
    /\ sending.id \in Messages
    /\ sending.text = latest[sending.id] \/ sending.id \in raced
    /\ sending.taken => sending.text \in sent[sending.id].texts

CallText(c) ==
  c.kind = "steer" =>
    /\ c.text = latest[c.id] \/ c.id \in raced
    /\ c.taken => c.text \in sent[c.id].texts

LEMMA TextStep ==
  ASSUME QueueInv, Next
  PROVE  TextInv'
<1>1. TypeInv /\ ListenerInv /\ AttInv /\ FreshInv /\ TextInv
  BY DEF QueueInv
<1>2. /\ latest \in [Messages -> Nat] /\ sent \in [Messages -> [texts : SUBSET Nat, auto : Nat]]
      /\ \A c \in calls : c \in Call /\ c.id \in Messages
      /\ sending \in [id : Messages \cup {NoMessage}, text : Nat, taken : BOOLEAN]
  BY <1>1 DEF TypeInv, Call
<1>3. DrainText /\ \A c \in calls : CallText(c)
  BY <1>1 DEF TextInv, DrainText, CallText
<1>4. ASSUME DrainText', \A c \in calls' : CallText(c)' PROVE TextInv'
  BY <1>4 DEF TextInv, DrainText, CallText
<1>5. ASSUME latest' = latest, sent' = sent, raced' = raced,
             \A c \in calls' : c \in calls \/ CallText(c)', sending' \in {sending, NoCall}
      PROVE  TextInv'
  <2>1. DrainText'
    BY <1>3, <1>5 DEF DrainText
  <2>2. ASSUME NEW c \in calls', c \in calls PROVE CallText(c)'
    BY <1>3, <1>5, <2>2 DEF CallText
  <2> QED BY <1>4, <1>5, <2>1, <2>2
<1>6. ASSUME NEW m \in Messages, Enqueue(m) PROVE TextInv'
  <2>1. sending' = sending /\ (\A k \in Messages : k # m => latest'[k] = latest[k])
        /\ calls' = calls /\ sent' = sent /\ raced' = raced
    BY <1>1, <1>2, <1>6, EnqueueEffect DEF Enqueue, Same
  <2>2. sending.id # m /\ \A c \in calls : c.id # m
    BY <1>1, <1>6 DEF Enqueue, Arrives, FreshInv
  <2>3. DrainText'
    BY <1>3, <2>1, <2>2 DEF DrainText
  <2>4. ASSUME NEW c \in calls PROVE CallText(c)'
    BY <1>2, <1>3, <2>1, <2>2 DEF CallText
  <2> QED BY <1>4, <2>1, <2>3, <2>4
<1>7. ASSUME NEW m \in Messages, SendNow(m) PROVE TextInv'
  <2>1. \A c \in calls' : c \in calls \/ CallText(c)'
    BY <1>7 DEF SendNow, CallText
  <2> QED BY <1>5, <1>7, <2>1 DEF SendNow, queue, history
<1>8. ASSUME NEW m \in Messages, Steer(m) PROVE TextInv'
  <2>1. \A c \in calls' : c \in calls \/ CallText(c)'
    BY <1>8 DEF Steer, CallText
  <2> QED BY <1>5, <1>8, <2>1 DEF Steer, queue
<1>9. ASSUME NEW m \in Messages, Retry(m) PROVE TextInv'
  BY <1>1, <1>5, <1>9, RetryEffect DEF Retry
<1>10. ASSUME NEW m \in Messages, RemoveQueued(m) PROVE TextInv'
  BY <1>5, <1>10 DEF RemoveQueued, queue, history
<1>11. ASSUME NEW m \in Messages, Edit(m) PROVE TextInv'
  <2>1. sending' = sending /\ calls' = calls /\ sent' = sent /\ raced \subseteq raced'
        /\ \A k \in Messages : k # m => latest'[k] = latest[k]
    BY <1>1, <1>2, <1>11, EditEffect DEF Edit, Same
  <2>2. InFlight(m) => m \in raced'
    BY <1>11 DEF Edit
  <2>3. sending.id = m => m \in raced'
    BY <2>2 DEF InFlight
  <2>4. \A c \in calls : c.id = m => m \in raced'
    BY <2>2 DEF InFlight
  <2>5. DrainText'
    BY <1>3, <2>1, <2>3 DEF DrainText
  <2>6. ASSUME NEW c \in calls PROVE CallText(c)'
    BY <1>2, <1>3, <2>1, <2>4 DEF CallText
  <2> QED BY <1>4, <2>1, <2>5, <2>6
<1>12. ASSUME \A k \in Messages : sent[k].texts \subseteq sent'[k].texts, latest' = latest, raced' = raced
       PROVE  (sending' = sending => DrainText') /\ \A c \in calls : CallText(c)'
  <2>1. sending' = sending => DrainText'
    BY <1>3, <1>12 DEF DrainText
  <2>2. ASSUME NEW c \in calls PROVE CallText(c)'
    BY <1>2, <1>3, <1>12 DEF CallText
  <2> QED BY <2>1, <2>2
<1>13. CASE TakeDispatched
  <2>1. sending # NoCall /\ calls' = calls /\ latest' = latest /\ raced' = raced
        /\ sending' = [sending EXCEPT !.taken = TRUE]
    BY <1>13 DEF TakeDispatched
  <2>2. sending.id \in Messages
    BY <1>3, <2>1 DEF DrainText
  <2>3. sent' = [sent EXCEPT ![sending.id] = [texts |-> sent[sending.id].texts \cup {sending.text},
                                              auto |-> sent[sending.id].auto + 1]]
    BY <1>13 DEF TakeDispatched
  <2>4. sending.text \in sent'[sending.id].texts /\ \A k \in Messages : sent[k].texts \subseteq sent'[k].texts
    BY <1>2, <2>2, <2>3
  <2>5. sending'.id = sending.id /\ sending'.text = sending.text
    BY <1>2, <2>1
  <2>6. DrainText'
    BY <1>3, <2>1, <2>2, <2>4, <2>5 DEF DrainText
  <2> QED BY <1>4, <1>12, <2>1, <2>4, <2>6
<1>14. ASSUME NEW c \in calls, Take(c) PROVE TextInv'
  <2> DEFINE d == [c EXCEPT !.taken = TRUE]
  <2>1. d.id = c.id /\ d.text = c.text /\ d.kind = c.kind /\ c.kind \in {"direct", "steer"} /\ c.id \in Messages
    BY <1>2 DEF Call
  <2>2. calls' = (calls \ {c}) \cup {d} /\ latest' = latest /\ raced' = raced /\ sending' = sending
    BY <1>14 DEF Take, queue
  <2> HIDE DEF d
  <2>3. sent' = IF c.kind = "direct" THEN sent ELSE [sent EXCEPT ![c.id].texts = @ \cup {c.text}]
    BY <1>14 DEF Take
  <2>4. \A k \in Messages : sent[k].texts \subseteq sent'[k].texts
    BY <1>2, <2>1, <2>3
  <2>5. c.kind = "steer" => c.text \in sent'[c.id].texts
    BY <1>2, <2>1, <2>3
  <2>6. CallText(d)'
    BY <1>3, <2>1, <2>2, <2>5 DEF CallText
  <2> QED BY <1>4, <1>12, <2>2, <2>4, <2>6
<1>15. CASE Dispatched \/ DispatchFails
  BY <1>5, <1>15 DEF Dispatched, DispatchFails, NotDispatched, history
<1>16. ASSUME NEW c \in calls, Answered(c) PROVE TextInv'
  <2>1. sending' = sending
    BY <1>1, <1>16, AnsweredEffect DEF Same
  <2> QED BY <1>5, <1>16, <2>1 DEF Answered, history
<1>17. ASSUME NEW c \in calls, CallFails(c) PROVE TextInv'
  BY <1>5, <1>17 DEF CallFails, queue, history
<1>18. CASE FinishRemove
  BY <1>1, <1>5, <1>18, FinishRemoveEffect DEF FinishRemove
<1>19. CASE Reorder \/ Pause \/ Interrupt \/ TurnStarted
  BY <1>1, <1>5, <1>19, QuietEffect DEF Reorder, Pause, Interrupt, TurnStarted, Same, history
<1>20. CASE Resume \/ TurnCompleted \/ Reconcile
  <2>1. calls' = calls /\ latest' = latest /\ raced' = raced /\ sent' = sent
    BY <1>20 DEF Resume, TurnCompleted, Reconcile, history
  <2>2. CASE sending' = sending
    BY <1>5, <2>1, <2>2
  <2>3. ASSUME NEW m \in Messages, Launches(m) PROVE TextInv'
    <3>1. sending' = [id |-> m, text |-> latest[m], taken |-> FALSE]
      BY <2>3 DEF Launches
    <3>2. DrainText'
      BY <2>1, <3>1 DEF DrainText
    <3> QED BY <1>4, <1>12, <2>1, <3>2
  <2> QED BY <1>1, <1>20, <2>2, <2>3, LaunchEffect DEF Same
<1>21. CASE Crash
  BY <1>5, <1>21 DEF Crash
<1>22. CASE Commit \/ Restore \/ Claim \/ \E m \in Messages : Expire(m)
  BY <1>5, <1>22 DEF Commit, Restore, Claim, Expire, queue, history
<1> QED
  BY <1>6, <1>7, <1>8, <1>9, <1>10, <1>11, <1>13, <1>14, <1>15, <1>16, <1>17, <1>18, <1>19, <1>20, <1>21,
     <1>22 DEF Next, DrainStep, CallStep, UserStep, TurnStep, WriteStep, RestartStep

\* Only the last write of an answer and of a removal take a message out of the queue.
LEMMA LostStep ==
  ASSUME QueueInv, Next
  PROVE  NothingLost'
<1>1. TypeInv /\ ListenerInv /\ AttInv /\ TextInv /\ WorkInv /\ NothingLost
  BY DEF QueueInv
<1>2. latest \in [Messages -> Nat] /\ sent \in [Messages -> [texts : SUBSET Nat, auto : Nat]]
      /\ \A c \in calls : c \in Call /\ c.id \in Messages /\ c.kind \in {"direct", "steer"}
  BY <1>1 DEF TypeInv, Call
<1>3. ASSUME NEW gone, Ids(items) \subseteq Ids(items') \cup gone, removed \subseteq removed', raced \subseteq raced',
             \A m \in Messages : sent[m].texts \subseteq sent'[m].texts,
             \A m \in Messages : latest'[m] = latest[m] \/ m \in Ids(items'),
             \A m \in gone \cap Messages : m \in removed' \cup raced' \/ latest'[m] \in sent'[m].texts
      PROVE  NothingLost'
  BY <1>1, <1>3 DEF NothingLost
<1>4. ASSUME latest' = latest, sent' = sent, Ids(items') = Ids(items), raced' = raced, removed' = removed
      PROVE  NothingLost'
  BY <1>1, <1>4 DEF NothingLost
<1>5. ASSUME NEW m \in Messages, Enqueue(m) PROVE NothingLost'
  <2>1. /\ Ids(items) \subseteq Ids(items') \cup {} /\ raced' = raced /\ removed' = removed /\ sent' = sent
        /\ \A k \in Messages : latest'[k] = latest[k] \/ k \in Ids(items')
    BY <1>1, <1>2, <1>5, EnqueueEffect DEF Enqueue, Same, Gains
  <2> QED BY <1>3, <2>1
<1>6. ASSUME NEW m \in Messages, SendNow(m) \/ Steer(m) \/ RemoveQueued(m) PROVE NothingLost'
  BY <1>4, <1>6 DEF SendNow, Steer, RemoveQueued, queue, history
<1>7. ASSUME NEW m \in Messages, Retry(m) PROVE NothingLost'
  BY <1>1, <1>4, <1>7, RetryEffect DEF Retry
<1>8. ASSUME NEW m \in Messages, Edit(m) PROVE NothingLost'
  <2>1. /\ Ids(items) \subseteq Ids(items') \cup {} /\ raced \subseteq raced' /\ removed' = removed /\ sent' = sent
        /\ m \in Ids(items') /\ latest' = [latest EXCEPT ![m] = @ + 1]
    BY <1>1, <1>8, EditEffect DEF Edit, Same
  <2>2. \A k \in Messages : latest'[k] = latest[k] \/ k \in Ids(items')
    BY <1>2, <2>1
  <2> QED BY <1>3, <2>1, <2>2
<1>9. ASSUME \A m \in Messages : sent[m].texts \subseteq sent'[m].texts,
             items' = items, latest' = latest, raced' = raced, removed' = removed
      PROVE  NothingLost'
  BY <1>1, <1>9 DEF NothingLost
<1>10. CASE TakeDispatched
  <2>1. \A m \in Messages : sent[m].texts \subseteq sent'[m].texts
    BY <1>2, <1>10 DEF TakeDispatched
  <2> QED BY <1>9, <1>10, <2>1 DEF TakeDispatched
<1>11. ASSUME NEW c \in calls, Take(c) PROVE NothingLost'
  <2>1. \A m \in Messages : sent[m].texts \subseteq sent'[m].texts
    BY <1>2, <1>11 DEF Take
  <2> QED BY <1>9, <1>11, <2>1 DEF Take, queue
<1>12. CASE Dispatched
  BY <1>1, <1>4, <1>12, DispatchedEffect DEF Dispatched, history
<1>13. ASSUME NEW c \in calls, Answered(c) PROVE NothingLost'
  BY <1>1, <1>4, <1>13, AnsweredEffect DEF Answered, history, Same
<1>14. CASE DispatchFails
  BY <1>1, <1>4, <1>14, DispatchFailsEffect DEF DispatchFails, history
<1>15. ASSUME NEW c \in calls, CallFails(c) PROVE NothingLost'
  BY <1>4, <1>15 DEF CallFails, queue, history
<1>16. CASE FinishRemove
  <2>1. /\ Ids(items') = Ids(items) \ {work.id} /\ work.next \in {"drop", "discard"}
        /\ removed' = (IF work.next = "discard" THEN removed \cup {work.id} ELSE removed)
        /\ latest' = latest /\ sent' = sent /\ raced' = raced
    BY <1>1, <1>16, FinishRemoveEffect DEF FinishRemove, Loses
  <2>2. work.id \in removed' \cup raced' \/ latest'[work.id] \in sent'[work.id].texts
    BY <1>1, <2>1 DEF WorkInv
  <2> QED BY <1>3, <2>1, <2>2
<1>17. CASE Reorder \/ Pause \/ Interrupt \/ TurnStarted
  BY <1>1, <1>4, <1>17, QuietEffect DEF Reorder, Pause, Interrupt, TurnStarted, Same, history
<1>18. CASE Resume \/ TurnCompleted \/ Reconcile
  <2>1. Ids(items') = Ids(items)
    BY <1>1, <1>18, LaunchEffect DEF Same, Launches
  <2> QED BY <1>4, <1>18, <2>1 DEF Resume, TurnCompleted, Reconcile, history
<1>19. CASE Crash \/ Commit \/ Restore \/ Claim \/ \E m \in Messages : Expire(m)
  BY <1>4, <1>19 DEF Crash, Commit, Restore, Claim, Expire, queue, history
<1> QED
  BY <1>5, <1>6, <1>7, <1>8, <1>10, <1>11, <1>12, <1>13, <1>14, <1>15, <1>16, <1>17, <1>18, <1>19
     DEF Next, DrainStep, CallStep, UserStep, TurnStep, WriteStep, RestartStep

\* A retry that overlaps with a dispatch of the same message pays for its own.
LEMMA BudgetStep ==
  ASSUME QueueInv, Next
  PROVE  BudgetInv'
<1>1. TypeInv /\ ListenerInv /\ AttInv /\ FreshInv /\ TextInv /\ BudgetInv
  BY DEF QueueInv
<1> SUFFICES ASSUME NEW b \in Messages
             PROVE  sent'[b].auto + UnderWay(b)' + Waits(b)' <= 1 + retries'[b]
  BY DEF BudgetInv
<1> DEFINE Kept == sent'[b].auto + UnderWay(b)' + Waits(b)' <= 1 + retries'[b]
<1>2. /\ sent \in [Messages -> [texts : SUBSET Nat, auto : Nat]] /\ retries \in [Messages -> Nat]
      /\ sending \in [id : Messages \cup {NoMessage}, text : Nat, taken : BOOLEAN]
      /\ NoCall.id # b /\ sent[b].auto \in Nat /\ retries[b] \in Nat
  BY <1>1, ZeroIsNoMessage DEF TypeInv
<1>3. sent[b].auto + UnderWay(b) + Waits(b) <= 1 + retries[b]
  BY <1>1 DEF BudgetInv
<1>4. UnderWay(b) \in {0, 1} /\ Waits(b) \in {0, 1}
  BY DEF UnderWay, Waits
<1>5. /\ sending' = sending => UnderWay(b)' = UnderWay(b)
      /\ sending' = NoCall => UnderWay(b)' = 0
      /\ (b \in Queued(items') => b \in Queued(items)) => Waits(b)' \in {0, Waits(b)}
      /\ b \notin Queued(items') => Waits(b)' = 0
      /\ Waits(b)' \in {0, 1}
  BY <1>2 DEF UnderWay, Waits
<1>6. ASSUME sent' = sent, retries' = retries, sending' \in {sending, NoCall},
             Queued(items') \subseteq Queued(items)
      PROVE  Kept
  <2>1. UnderWay(b)' \in {0, UnderWay(b)} /\ Waits(b)' \in {0, Waits(b)}
    BY <1>5, <1>6
  <2> QED BY <1>2, <1>3, <1>4, <1>6, <2>1
<1>7. ASSUME NEW m \in Messages, Enqueue(m) PROVE Kept
  <2>1. sent' = sent /\ retries' = retries /\ sending' = sending
    BY <1>1, <1>7, EnqueueEffect DEF Enqueue, Same
  <2>2. CASE Queued(items') \subseteq Queued(items)
    BY <1>6, <2>1, <2>2
  <2>3. CASE Gains(m)
    <3>1. CASE b = m
      <4>1. sent[b].auto = 0 /\ sending.id # b
        BY <1>1, <1>7, <3>1 DEF Enqueue, Arrives, FreshInv
      <4>2. UnderWay(b)' = 0
        BY <2>1, <4>1 DEF UnderWay
      <4> QED BY <1>2, <1>5, <2>1, <4>1, <4>2
    <3>2. CASE b # m
      <4>1. Waits(b)' \in {0, Waits(b)}
        BY <1>5, <2>3, <3>2 DEF Gains
      <4> QED BY <1>2, <1>3, <1>4, <1>5, <2>1, <4>1
    <3> QED BY <3>1, <3>2
  <2> QED BY <1>1, <1>7, <2>2, <2>3, EnqueueEffect DEF Same
<1>8. ASSUME NEW m \in Messages, SendNow(m) \/ Steer(m) \/ RemoveQueued(m) PROVE Kept
  BY <1>6, <1>8 DEF SendNow, Steer, RemoveQueued, queue, history
<1>9. ASSUME NEW m \in Messages, Retry(m) PROVE Kept
  <2>1. sent' = sent /\ sending' = sending /\ Queued(items') = Queued(items) \cup {m}
        /\ retries' = [retries EXCEPT ![m] = @ + 1]
    BY <1>1, <1>9, RetryEffect DEF Retry
  <2>2. CASE b = m
    <3>1. retries'[b] = retries[b] + 1
      BY <1>2, <2>1, <2>2
    <3> QED BY <1>2, <1>3, <1>4, <1>5, <2>1, <3>1
  <2>3. CASE b # m
    <3>1. retries'[b] = retries[b] /\ Waits(b)' \in {0, Waits(b)}
      BY <1>2, <1>5, <2>1, <2>3
    <3> QED BY <1>2, <1>3, <1>4, <1>5, <2>1, <3>1
  <2> QED BY <2>2, <2>3
<1>10. ASSUME NEW m \in Messages, Edit(m) PROVE Kept
  BY <1>1, <1>6, <1>10, EditEffect DEF Edit, Same
<1>11. CASE TakeDispatched
  <2>1. ~sending.taken /\ retries' = retries /\ items' = items /\ sending' = [sending EXCEPT !.taken = TRUE]
    BY <1>11 DEF TakeDispatched
  <2>2. sent' = [sent EXCEPT ![sending.id] = [texts |-> sent[sending.id].texts \cup {sending.text},
                                              auto |-> sent[sending.id].auto + 1]]
    BY <1>11 DEF TakeDispatched
  <2>3. sending'.taken
    BY <1>2, <2>1
  <2>4. UnderWay(b)' = 0 /\ Waits(b)' = Waits(b)
    BY <2>1, <2>3 DEF UnderWay, Waits
  <2>5. CASE sending.id = b
    <3>1. UnderWay(b) = 1 /\ sent'[b].auto = sent[b].auto + 1
      BY <1>2, <2>1, <2>2, <2>5 DEF UnderWay
    <3> QED BY <1>2, <1>3, <1>4, <2>1, <2>4, <3>1
  <2>6. CASE sending.id # b
    <3>1. sent'[b] = sent[b]
      BY <1>2, <2>2, <2>6
    <3> QED BY <1>2, <1>3, <1>4, <2>1, <2>4, <3>1
  <2> QED BY <2>5, <2>6
<1>12. ASSUME NEW c \in calls, Take(c) PROVE Kept
  <2>1. retries' = retries /\ items' = items /\ sending' = sending /\ c.id \in Messages
    BY <1>1, <1>12 DEF Take, queue, TypeInv, Call
  <2>2. sent'[b].auto = sent[b].auto
    BY <1>2, <1>12, <2>1 DEF Take
  <2>3. UnderWay(b)' = UnderWay(b) /\ Waits(b)' = Waits(b)
    BY <2>1 DEF UnderWay, Waits
  <2> QED BY <1>3, <2>1, <2>2, <2>3
<1>13. CASE Dispatched
  BY <1>1, <1>6, <1>13, DispatchedEffect DEF Dispatched, history
<1>14. ASSUME NEW c \in calls, Answered(c) PROVE Kept
  <2>1. sending' = sending /\ Queued(items') \subseteq Queued(items)
    BY <1>1, <1>14, AnsweredEffect DEF Same
  <2> QED BY <1>6, <1>14, <2>1 DEF Answered, history
<1>15. CASE DispatchFails
  BY <1>1, <1>6, <1>15, DispatchFailsEffect DEF DispatchFails, history
<1>16. ASSUME NEW c \in calls, CallFails(c) PROVE Kept
  BY <1>6, <1>16 DEF CallFails, queue, history
<1>17. CASE FinishRemove
  BY <1>1, <1>6, <1>17, FinishRemoveEffect DEF FinishRemove, Loses
<1>18. CASE Reorder \/ Pause \/ Interrupt \/ TurnStarted
  BY <1>1, <1>6, <1>18, QuietEffect DEF Reorder, Pause, Interrupt, TurnStarted, Same, history
<1>19. CASE Resume \/ TurnCompleted \/ Reconcile
  <2>1. sent' = sent /\ retries' = retries
    BY <1>19 DEF Resume, TurnCompleted, Reconcile, history
  <2>2. CASE Same
    BY <1>6, <2>1, <2>2 DEF Same
  <2>3. ASSUME NEW m \in Messages, Launches(m) PROVE Kept
    <3>1. CASE b = m
      <4>1. Waits(b) = 1 /\ Waits(b)' = 0
        BY <2>3, <3>1 DEF Waits, Launches
      <4>2. UnderWay(b)' \in {0, 1}
        BY DEF UnderWay
      <4> QED BY <1>2, <1>3, <1>4, <2>1, <4>1, <4>2
    <3>2. CASE b # m
      <4>1. UnderWay(b)' = 0 /\ Waits(b)' \in {0, Waits(b)}
        BY <1>5, <2>3, <3>2 DEF UnderWay, Launches
      <4> QED BY <1>2, <1>3, <1>4, <2>1, <4>1
    <3> QED BY <3>1, <3>2
  <2> QED BY <1>1, <1>19, <2>2, <2>3, LaunchEffect
<1>20. CASE Crash \/ Commit \/ Restore \/ Claim \/ \E m \in Messages : Expire(m)
  BY <1>6, <1>20 DEF Crash, Commit, Restore, Claim, Expire, queue, history
<1> QED
  BY <1>7, <1>8, <1>9, <1>10, <1>11, <1>12, <1>13, <1>14, <1>15, <1>16, <1>17, <1>18, <1>19, <1>20
     DEF Next, DrainStep, CallStep, UserStep, TurnStep, WriteStep, RestartStep

\* Only resume ends the pause that stop began.
LEMMA HeldStep ==
  ASSUME QueueInv, Next
  PROVE  HeldInv'
<1>1. TypeInv /\ ListenerInv /\ AttInv /\ HeldInv
  BY DEF QueueInv
<1>2. ASSUME paused' = paused \/ (paused => paused'), held' \subseteq held PROVE HeldInv'
  BY <1>1, <1>2 DEF HeldInv
<1>3. ASSUME NEW m \in Messages, Enqueue(m) PROVE HeldInv'
  BY <1>1, <1>2, <1>3, EnqueueEffect DEF Enqueue
<1>4. ASSUME NEW m \in Messages, SendNow(m) \/ Steer(m) \/ RemoveQueued(m) PROVE HeldInv'
  BY <1>2, <1>4 DEF SendNow, Steer, RemoveQueued, queue, history
<1>5. ASSUME NEW m \in Messages, Retry(m) PROVE HeldInv'
  BY <1>1, <1>2, <1>5, RetryEffect DEF Retry
<1>6. ASSUME NEW m \in Messages, Edit(m) PROVE HeldInv'
  BY <1>1, <1>2, <1>6, EditEffect DEF Edit
<1>7. CASE DrainStep
  BY <1>2, <1>7 DEF DrainStep, TakeDispatched, Dispatched, DispatchFails, history
<1>8. ASSUME NEW c \in calls, Take(c) \/ CallFails(c) PROVE HeldInv'
  BY <1>2, <1>8 DEF Take, CallFails, queue, history
<1>9. ASSUME NEW c \in calls, Answered(c) PROVE HeldInv'
  BY <1>1, <1>2, <1>9, AnsweredEffect DEF Answered, history
<1>10. CASE FinishRemove
  BY <1>1, <1>2, <1>10, FinishRemoveEffect DEF FinishRemove
<1>11. CASE Reorder \/ Pause \/ TurnStarted
  BY <1>1, <1>2, <1>11, QuietEffect DEF Reorder, Pause, TurnStarted, history
<1>12. CASE Interrupt
  <2>1. CASE HasPending(items)
    <3>1. paused'
      <4>1. CASE paused
        BY <1>1, <1>12, <4>1, QuietEffect
      <4>2. CASE ~paused
        <5>1. Put(items, TRUE, status)
          BY <1>12, <2>1, <4>2 DEF Interrupt
        <5> QED BY <5>1 DEF Put
      <4> QED BY <4>1, <4>2
    <3> QED BY <3>1 DEF HeldInv
  <2>2. CASE ~HasPending(items)
    BY <1>1, <1>2, <1>12, <2>2, QuietEffect DEF Interrupt
  <2> QED BY <2>1, <2>2
<1>13. CASE Resume
  BY <1>13 DEF Resume, HeldInv
<1>14. CASE TurnCompleted \/ Reconcile
  <2>1. \E st : Put(items, paused, st)
    BY <1>14 DEF TurnCompleted, Reconcile
  <2>2. paused' = paused
    BY <2>1 DEF Put
  <2> QED BY <1>2, <1>14, <2>2 DEF TurnCompleted, Reconcile, history
<1>15. CASE Crash \/ Commit \/ Restore \/ Claim \/ \E m \in Messages : Expire(m)
  BY <1>2, <1>15 DEF Crash, Commit, Restore, Claim, Expire, queue, history
<1> QED
  BY <1>3, <1>4, <1>5, <1>6, <1>7, <1>8, <1>9, <1>10, <1>11, <1>12, <1>13, <1>14, <1>15
     DEF Next, CallStep, UserStep, TurnStep, WriteStep, RestartStep

-----------------------------------------------------------------------------
(* The theorems.                                                           *)

LEMMA QueueInit == Init => QueueInv
<1> SUFFICES ASSUME Init PROVE QueueInv
  OBVIOUS
<1>1. TypeInv /\ ListenerInv
  BY TypeInit
<1>2. Ids(items) = {} /\ Queued(items) = {}
  BY DEF Init, Ids, Queued, Range
<1>3. sending = NoCall /\ calls = {} /\ held = {}
      /\ \A m \in Messages : latest[m] = 0 /\ sent[m].auto = 0 /\ retries[m] = 0
  BY DEF Init
<1>4. AttInv /\ AcceptInv /\ NothingLost /\ TextInv /\ HeldInv /\ WorkInv
  BY <1>2, <1>3 DEF Init, AttInv, AcceptInv, NothingLost, TextInv, HeldInv, WorkInv, NoWork
<1>5. FreshInv
  BY <1>3, ZeroIsNoMessage DEF FreshInv
<1>6. BudgetInv
  <2>1. \A m \in Messages : UnderWay(m) = 0 /\ Waits(m) = 0
    BY <1>2, <1>3, ZeroIsNoMessage DEF UnderWay, Waits
  <2> QED BY <1>3, <2>1 DEF BudgetInv
<1> QED BY <1>1, <1>4, <1>5, <1>6 DEF QueueInv

\* A step that changes nothing keeps the invariant.
LEMMA QueueStutter ==
  ASSUME QueueInv, UNCHANGED vars
  PROVE  QueueInv'
BY DEF vars, history, QueueInv, TypeInv, ListenerInv, AttInv, FreshInv, AcceptInv, TextInv, WorkInv,
       NothingLost, BudgetInv, UnderWay, Waits, HeldInv

\* Every step of the queue, its users, the provider and the process keeps QueueInv.
THEOREM QueueInvariant == Spec => []QueueInv
<1>1. Init => QueueInv
  BY QueueInit
<1>2. QueueInv /\ [Next]_vars => QueueInv'
  <2> SUFFICES ASSUME QueueInv, [Next]_vars PROVE QueueInv'
    OBVIOUS
  <2>1. CASE Next
    <3>1. TypeInv' /\ ListenerInv'
      <4>1. QueueType'
        BY <2>1, QueueStep DEF QueueInv
      <4>2. OtherType'
        BY <2>1, OtherStep DEF QueueInv
      <4> QED BY <4>1, <4>2 DEF QueueType, OtherType, TypeInv, ListenerInv
    <3> QED
      BY <2>1, <3>1, AttStep, FreshStep, AcceptStep, TextStep, WorkStep, LostStep, BudgetStep, HeldStep DEF QueueInv
  <2>2. CASE UNCHANGED vars
    BY <2>2, QueueStutter
  <2> QED BY <2>1, <2>2
<1> QED BY <1>1, <1>2, PTL DEF Spec

\* The variables keep their types, no message has two entries in the queue, and what is
\* being sent stays in front, whatever is enqueued, retried, patched or reordered.
THEOREM TypeCorrect == Spec => []TypeOK
<1>1. QueueInv => TypeOK
  BY TypeInvIsType DEF QueueInv
<1> QED BY <1>1, QueueInvariant, PTL

\* An accepted message leaves the queue only when the provider has its latest text, the
\* user removed it or outran its own send with an edit.
THEOREM NoMessageIsLost == Spec => []NothingLost
<1>1. QueueInv => NothingLost
  BY DEF QueueInv
<1> QED BY <1>1, QueueInvariant, PTL

\* The drain hands a message to the provider at most once for each time it was queued.
THEOREM NoMessageIsRepeated == Spec => []SentOnce
<1>1. QueueInv => SentOnce
  <2> SUFFICES ASSUME QueueInv, NEW m \in Messages PROVE sent[m].auto <= 1 + retries[m]
    BY DEF SentOnce
  <2>1. sent[m].auto + UnderWay(m) + Waits(m) <= 1 + retries[m]
    BY DEF QueueInv, BudgetInv
  <2>2. sent[m].auto \in Nat /\ retries[m] \in Nat /\ UnderWay(m) \in {0, 1} /\ Waits(m) \in {0, 1}
    BY DEF QueueInv, TypeInv, UnderWay, Waits
  <2> QED BY <2>1, <2>2
<1> QED BY <1>1, QueueInvariant, PTL

\* While the process serves requests, the uploads of every message in the queue stay with it,
\* through failed dispatches, answers cut short by a death and restarts; only a removal cut
\* short by a death, and 24 hours in the queue, take them away.
THEOREM UploadsStayHeld == Spec => []AttachmentsHeld
<1>1. QueueInv => AttachmentsHeld
  BY DEF QueueInv, AttInv, AttachmentsHeld, Up, NoWork
<1> QED BY <1>1, QueueInvariant, PTL

LEMMA StopStep ==
  ASSUME QueueInv, Next, NEW m \in held, sending'.id = m, sending'.id # sending.id
  PROVE  m \notin held'
<1>1. TypeInv /\ ListenerInv /\ AttInv /\ HeldInv /\ m \in Messages /\ paused /\ m # NoCall.id
  BY ZeroIsNoMessage DEF QueueInv, TypeInv, HeldInv
<1>2. CASE Resume
  BY <1>2 DEF Resume
<1>3. CASE TurnCompleted \/ Reconcile
  <2>1. PICK st \in {"idle", "failed"} : Put(items, paused, st)
    BY <1>3 DEF TurnCompleted, Reconcile
  <2>2. sending' = sending
    BY <1>1, <2>1, PutSame DEF TypeInv
  <2> QED BY <2>2
<1>4. sending' = sending => FALSE
  OBVIOUS
<1>5. sending' = NoCall => FALSE
  BY <1>1
<1>6. ASSUME NEW k \in Messages, Enqueue(k) PROVE FALSE
  BY <1>1, <1>4, <1>6, EnqueueEffect DEF Same
<1>7. ASSUME NEW k \in Messages, SendNow(k) \/ Steer(k) \/ RemoveQueued(k) PROVE FALSE
  BY <1>4, <1>7 DEF SendNow, Steer, RemoveQueued, queue
<1>8. ASSUME NEW k \in Messages, Retry(k) PROVE FALSE
  BY <1>1, <1>4, <1>8, RetryEffect
<1>9. ASSUME NEW k \in Messages, Edit(k) PROVE FALSE
  BY <1>1, <1>4, <1>9, EditEffect DEF Same
<1>10. CASE TakeDispatched
  BY <1>1, <1>10 DEF TakeDispatched, TypeInv
<1>11. CASE Dispatched \/ DispatchFails
  BY <1>5, <1>11 DEF Dispatched, DispatchFails, NotDispatched
<1>12. ASSUME NEW c \in calls, Take(c) \/ CallFails(c) PROVE FALSE
  BY <1>4, <1>12 DEF Take, CallFails, queue
<1>13. ASSUME NEW c \in calls, Answered(c) PROVE FALSE
  BY <1>1, <1>4, <1>13, AnsweredEffect DEF Same
<1>14. CASE FinishRemove
  BY <1>1, <1>4, <1>14, FinishRemoveEffect
<1>15. CASE Reorder \/ Pause \/ Interrupt \/ TurnStarted
  BY <1>1, <1>4, <1>15, QuietEffect DEF Same
<1>16. CASE Crash
  BY <1>5, <1>16 DEF Crash
<1>17. CASE Commit \/ Restore \/ Claim \/ \E k \in Messages : Expire(k)
  BY <1>4, <1>17 DEF Commit, Restore, Claim, Expire, queue
<1> QED
  BY <1>2, <1>3, <1>6, <1>7, <1>8, <1>9, <1>10, <1>11, <1>12, <1>13, <1>14, <1>15, <1>16, <1>17
     DEF Next, DrainStep, CallStep, UserStep, TurnStep, WriteStep, RestartStep

\* What waited when the user pressed stop is not dispatched until the user resumes.
THEOREM StopIsRespected == Spec => StopHolds
<1>1. QueueInv /\ [Next]_vars =>
        [\A m \in held : sending'.id = m /\ sending'.id # sending.id => m \notin held']_vars
  BY StopStep
<1> QED BY <1>1, QueueInvariant, PTL DEF Spec, StopHolds
=============================================================================
