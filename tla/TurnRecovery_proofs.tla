------------------------ MODULE TurnRecovery_proofs ------------------------
(***************************************************************************)
(* The recovery of interrupted turns: what holds of the session file and of *)
(* the live turn for every set of messages and every number of exits.       *)
(***************************************************************************)
EXTENDS TurnRecovery, SequenceTheorems, FiniteSetTheorems, TLAPS

USE DEF disk, memory, counters, history, vars

\* Two items that may never be in the gateway at once: the same message twice,
\* or two continuations of the session's recovery.
Clash(i, j) == i = j \/ (IsContinuation(i) /\ IsContinuation(j))
Apart(A, B) == \A i \in A, j \in B : ~Clash(i, j)
Alone(s) == \A k, l \in DOMAIN s : Clash(s[k], s[l]) => k = l

-----------------------------------------------------------------------------
\* What the sequence operators do to the members of a queue.
LEMMA AppendSet ==
  ASSUME NEW S, NEW s \in Seq(S), NEW x \in S
  PROVE  ToSet(Append(s, x)) = ToSet(s) \cup {x}
<1> DEFINE r == Append(s, x)
<1>1. /\ DOMAIN r = 1..(Len(s) + 1) /\ DOMAIN s = 1..Len(s) /\ Len(s) \in Nat
      /\ \A k \in 1..Len(s) : r[k] = s[k]
      /\ r[Len(s) + 1] = x
  OBVIOUS
<1> HIDE DEF r
<1>2. \A k \in DOMAIN r : (k \in DOMAIN s /\ r[k] = s[k]) \/ r[k] = x
  BY <1>1
<1>3. (\A k \in DOMAIN s : k \in DOMAIN r) /\ Len(s) + 1 \in DOMAIN r
  BY <1>1
<1>4. ToSet(r) \subseteq ToSet(s) \cup {x}
  BY <1>2 DEF ToSet
<1>5. ToSet(s) \cup {x} \subseteq ToSet(r)
  BY <1>1, <1>3 DEF ToSet
<1>6. QED BY <1>4, <1>5 DEF r

LEMMA AppendMembers ==
  ASSUME NEW S, NEW s \in Seq(S), NEW x \in S
  PROVE  /\ Append(s, x) \in Seq(S)
         /\ Len(Append(s, x)) = Len(s) + 1
         /\ ToSet(Append(s, x)) = ToSet(s) \cup {x}
         /\ Alone(s) /\ Apart(ToSet(s), {x}) => Alone(Append(s, x))
<1> DEFINE r == Append(s, x)
<1>1. /\ r \in Seq(S) /\ Len(r) = Len(s) + 1 /\ Len(s) \in Nat
      /\ DOMAIN r = 1..Len(r) /\ DOMAIN s = 1..Len(s)
      /\ \A k \in 1..Len(s) : r[k] = s[k]
      /\ r[Len(s) + 1] = x
  OBVIOUS
<1>2. ToSet(r) = ToSet(s) \cup {x}
  BY AppendSet
<1> HIDE DEF r
<1>3. \A k \in DOMAIN r : (k \in DOMAIN s /\ r[k] = s[k]) \/ (k = Len(s) + 1 /\ r[k] = x)
  BY <1>1
<1>4. ASSUME Alone(s), Apart(ToSet(s), {x}), NEW k \in DOMAIN r, NEW l \in DOMAIN r,
             Clash(r[k], r[l])
      PROVE  k = l
  <2>1. \A j \in DOMAIN s : ~Clash(s[j], x) /\ ~Clash(x, s[j])
    BY <1>4 DEF Apart, ToSet, Clash
  <2>2. QED BY <1>3, <1>4, <2>1 DEF Alone
<1>5. QED BY <1>1, <1>2, <1>4 DEF Alone, r

LEMMA TailMembers ==
  ASSUME NEW S, NEW s \in Seq(S), s # <<>>
  PROVE  /\ Head(s) \in S /\ Tail(s) \in Seq(S)
         /\ ToSet(s) = ToSet(Tail(s)) \cup {Head(s)}
         /\ Alone(s) => Alone(Tail(s)) /\ Apart(ToSet(Tail(s)), {Head(s)})
<1> DEFINE r == Tail(s)
<1>1. /\ r \in Seq(S) /\ Len(s) \in Nat \ {0} /\ Len(r) = Len(s) - 1
      /\ DOMAIN r = 1..Len(r) /\ DOMAIN s = 1..Len(s)
      /\ \A k \in 1..Len(r) : r[k] = s[k + 1]
      /\ Head(s) = s[1] /\ Head(s) \in S
  OBVIOUS
<1> HIDE DEF r
<1>2. \A k \in DOMAIN r : k + 1 \in DOMAIN s /\ k + 1 # 1 /\ r[k] = s[k + 1]
  BY <1>1
<1>3. \A k \in DOMAIN s : k = 1 \/ (k - 1 \in DOMAIN r /\ r[k - 1] = s[k])
  BY <1>1
<1>4. 1 \in DOMAIN s
  BY <1>1
<1>5. ToSet(s) = ToSet(r) \cup {Head(s)}
  <2>1. ToSet(s) \subseteq ToSet(r) \cup {Head(s)}
    BY <1>1, <1>3 DEF ToSet
  <2>2. ToSet(r) \cup {Head(s)} \subseteq ToSet(s)
    BY <1>1, <1>2, <1>4 DEF ToSet
  <2>3. QED BY <2>1, <2>2
<1>6. ASSUME Alone(s), NEW k \in DOMAIN r, NEW l \in DOMAIN r, Clash(r[k], r[l])
      PROVE  k = l
  <2>1. k + 1 = l + 1
    BY <1>2, <1>6 DEF Alone
  <2>2. QED BY <1>1, <2>1
<1>7. ASSUME Alone(s) PROVE Apart(ToSet(r), {Head(s)})
  BY <1>1, <1>2, <1>4, <1>7 DEF Alone, Apart, ToSet
<1>8. QED BY <1>1, <1>5, <1>6, <1>7 DEF Alone, r

\* A queue whose first items are taken keeps the others, one each.
LEMMA RestMembers ==
  ASSUME NEW S, NEW s \in Seq(S), NEW k \in DOMAIN s
  PROVE  LET r == SubSeq(s, k + 1, Len(s))
         IN  /\ r \in Seq(S) /\ Len(r) <= Len(s)
             /\ ToSet(r) \subseteq ToSet(s)
             /\ ToSet(SubSeq(s, 1, k)) \subseteq ToSet(s)
             /\ Alone(s) => Alone(r)
<1> DEFINE a == SubSeq(s, 1, k)
           r == SubSeq(s, k + 1, Len(s))
<1>1. /\ DOMAIN s = 1..Len(s) /\ Len(s) \in Nat /\ k \in 1..Len(s)
  OBVIOUS
<1>2. /\ a \in Seq(S) /\ Len(a) = k
      /\ \A j \in 1..k : a[j] = s[j]
  BY <1>1, SubSeqProperties
<1>3. /\ r \in Seq(S) /\ Len(r) = Len(s) - k
      /\ \A j \in 1..(Len(s) - k) : r[j] = s[k + j]
  <2>1. k + 1 \in 1..(Len(s) + 1) /\ Len(s) \in k..Len(s)
    BY <1>1
  <2>2. QED BY <1>1, <2>1, SubSeqProperties
<1>4. DOMAIN a = 1..Len(a) /\ DOMAIN r = 1..Len(r)
  BY <1>2, <1>3
<1> HIDE DEF a, r
<1>5. /\ \A j \in DOMAIN a : j \in DOMAIN s /\ a[j] = s[j]
      /\ \A j \in DOMAIN r : k + j \in DOMAIN s /\ r[j] = s[k + j]
  BY <1>1, <1>2, <1>3, <1>4
<1>6. ToSet(a) \subseteq ToSet(s) /\ ToSet(r) \subseteq ToSet(s)
  BY <1>5 DEF ToSet
<1>7. ASSUME Alone(s), NEW i \in DOMAIN r, NEW j \in DOMAIN r, Clash(r[i], r[j])
      PROVE  i = j
  <2>1. k + i = k + j
    BY <1>5, <1>7 DEF Alone
  <2>2. QED BY <1>1, <1>3, <1>4, <2>1
<1>8. Len(r) <= Len(s)
  BY <1>1, <1>3
<1>9. QED BY <1>3, <1>6, <1>7, <1>8 DEF Alone, a, r

LEMMA ConcatMembers ==
  ASSUME NEW S, NEW s \in Seq(S), NEW t \in Seq(S)
  PROVE  /\ s \o t \in Seq(S)
         /\ ToSet(s \o t) = ToSet(s) \cup ToSet(t)
         /\ Alone(s) /\ Alone(t) /\ Apart(ToSet(s), ToSet(t)) => Alone(s \o t)
<1> DEFINE r == s \o t
<1>1. /\ r \in Seq(S) /\ Len(r) = Len(s) + Len(t) /\ Len(s) \in Nat /\ Len(t) \in Nat
      /\ DOMAIN r = 1..Len(r) /\ DOMAIN s = 1..Len(s) /\ DOMAIN t = 1..Len(t)
      /\ \A k \in 1..Len(s) : r[k] = s[k]
      /\ \A k \in 1..Len(t) : r[Len(s) + k] = t[k]
  OBVIOUS
<1> HIDE DEF r
<1>2. \A k \in DOMAIN r : \/ k \in DOMAIN s /\ r[k] = s[k]
                          \/ /\ k \notin DOMAIN s
                             /\ k - Len(s) \in DOMAIN t /\ r[k] = t[k - Len(s)]
  <2> TAKE k \in DOMAIN r
  <2>1. CASE k \in DOMAIN s
    BY <1>1, <2>1
  <2>2. CASE k \notin DOMAIN s
    <3>1. k - Len(s) \in DOMAIN t /\ k = Len(s) + (k - Len(s))
      BY <1>1, <2>2
    <3>2. QED BY <1>1, <2>2, <3>1
  <2>3. QED BY <2>1, <2>2
<1>3. /\ \A k \in DOMAIN s : k \in DOMAIN r /\ r[k] = s[k]
      /\ \A k \in DOMAIN t : Len(s) + k \in DOMAIN r /\ r[Len(s) + k] = t[k]
  BY <1>1
<1>4. ToSet(r) = ToSet(s) \cup ToSet(t)
  <2>1. ToSet(r) \subseteq ToSet(s) \cup ToSet(t)
    BY <1>2 DEF ToSet
  <2>2. ToSet(s) \cup ToSet(t) \subseteq ToSet(r)
    BY <1>3 DEF ToSet
  <2>3. QED BY <2>1, <2>2
<1>5. ASSUME Alone(s), Alone(t), Apart(ToSet(s), ToSet(t)),
             NEW k \in DOMAIN r, NEW l \in DOMAIN r, Clash(r[k], r[l])
      PROVE  k = l
  <2>1. \A a \in DOMAIN s, b \in DOMAIN t : ~Clash(s[a], t[b]) /\ ~Clash(t[b], s[a])
    BY <1>5 DEF Apart, ToSet, Clash
  <2>2. CASE k \in DOMAIN s /\ l \in DOMAIN s
    BY <1>3, <1>5, <2>2 DEF Alone
  <2>3. CASE k \notin DOMAIN s /\ l \notin DOMAIN s
    <3>1. k - Len(s) = l - Len(s)
      BY <1>2, <1>5, <2>3 DEF Alone
    <3>2. QED BY <1>1, <3>1
  <2>4. CASE k \in DOMAIN s /\ l \notin DOMAIN s
    BY <1>2, <1>3, <1>5, <2>1, <2>4
  <2>5. CASE k \notin DOMAIN s /\ l \in DOMAIN s
    BY <1>2, <1>3, <1>5, <2>1, <2>5
  <2>6. QED BY <2>2, <2>3, <2>4, <2>5
<1>6. QED BY <1>1, <1>4, <1>5 DEF Alone, r

\* The entry at a place is taken out, and every other one stays.
LEMMA RemovedAt ==
  ASSUME NEW S, NEW s \in Seq(S), NEW k \in DOMAIN s
  PROVE  LET r == RemoveAt(s, k)
         IN  /\ r \in Seq(S) /\ Len(r) = Len(s) - 1
             /\ \A j \in DOMAIN r : \/ j < k /\ j \in DOMAIN s /\ r[j] = s[j]
                                    \/ j >= k /\ j + 1 \in DOMAIN s /\ r[j] = s[j + 1]
<1> DEFINE a == SubSeq(s, 1, k - 1)
           b == SubSeq(s, k + 1, Len(s))
<1>1. /\ DOMAIN s = 1..Len(s) /\ Len(s) \in Nat /\ k \in 1..Len(s)
  OBVIOUS
<1>2. /\ a \in Seq(S) /\ Len(a) = k - 1
      /\ \A j \in 1..(k - 1) : a[j] = s[j]
  BY <1>1, SubSeqProperties
<1>3. /\ b \in Seq(S) /\ Len(b) = Len(s) - k
      /\ \A j \in 1..(Len(s) - k) : b[j] = s[k + j]
  <2>1. k + 1 \in 1..(Len(s) + 1) /\ Len(s) \in k..Len(s)
    BY <1>1
  <2>2. QED BY <1>1, <2>1, SubSeqProperties
<1> HIDE DEF a, b
<1> DEFINE r == a \o b
<1>4. /\ r \in Seq(S) /\ Len(r) = Len(a) + Len(b) /\ DOMAIN r = 1..Len(r)
      /\ \A j \in 1..Len(a) : r[j] = a[j]
      /\ \A j \in 1..Len(b) : r[Len(a) + j] = b[j]
  <2>1. a \in Seq(S) /\ b \in Seq(S)
    BY <1>2, <1>3
  <2>2. QED BY <2>1
<1> HIDE DEF r
<1>5. Len(r) = Len(s) - 1 /\ k \in Nat
  BY <1>1, <1>2, <1>3, <1>4
<1>6. ASSUME NEW j \in DOMAIN r
      PROVE  \/ j < k /\ j \in DOMAIN s /\ r[j] = s[j]
             \/ j >= k /\ j + 1 \in DOMAIN s /\ r[j] = s[j + 1]
  <2>1. j \in Nat /\ 1 <= j /\ j <= Len(s) - 1
    BY <1>1, <1>4, <1>5
  <2>2. CASE j < k
    BY <1>1, <1>2, <1>4, <1>5, <2>1, <2>2
  <2>3. CASE j >= k
    <3> DEFINE i == j - (k - 1)
    <3>1. i \in Nat /\ 1 <= i /\ i <= Len(b) /\ j = Len(a) + i /\ k + i = j + 1
      BY <1>1, <1>2, <1>3, <1>5, <2>1, <2>3
    <3>2. i \in 1..Len(b) /\ i \in 1..(Len(s) - k)
      BY <1>1, <1>3, <1>5, <3>1
    <3> HIDE DEF i
    <3>3. r[j] = b[i] /\ b[i] = s[k + i]
      BY <1>3, <1>4, <3>1, <3>2
    <3>4. j + 1 \in DOMAIN s
      BY <1>1, <2>1
    <3>5. QED BY <2>3, <3>1, <3>3, <3>4
  <2>4. QED BY <1>5, <2>1, <2>2, <2>3
<1>7. RemoveAt(s, k) = r
  BY DEF RemoveAt, r, a, b
<1>8. QED BY <1>4, <1>5, <1>6, <1>7

-----------------------------------------------------------------------------
\* The same of the tasks that wait for the session's lock.
TaskType == [item : Items, admitted : BOOLEAN]
TaskItems(ts) == {ts[k].item : k \in DOMAIN ts}
OneEach(ts) == \A k, l \in DOMAIN ts : Clash(ts[k].item, ts[l].item) => k = l

LEMMA TaskRemoved ==
  ASSUME NEW ts \in Seq(TaskType), NEW k \in DOMAIN ts
  PROVE  LET r == RemoveAt(ts, k)
         IN  /\ r \in Seq(TaskType)
             /\ \A j \in DOMAIN r : \E i \in DOMAIN ts : r[j] = ts[i]
             /\ TaskItems(r) \subseteq TaskItems(ts)
             /\ OneEach(ts) => OneEach(r) /\ Apart(TaskItems(r), {ts[k].item})
<1> DEFINE r == RemoveAt(ts, k)
<1>1. /\ r \in Seq(TaskType) /\ DOMAIN r \subseteq Nat /\ k \in Nat
      /\ \A j \in DOMAIN r : \/ j < k /\ j \in DOMAIN ts /\ r[j] = ts[j]
                             \/ j >= k /\ j + 1 \in DOMAIN ts /\ r[j] = ts[j + 1]
  BY RemovedAt
<1> HIDE DEF r
<1>2. \A j \in DOMAIN r : \E i \in DOMAIN ts : i # k /\ r[j] = ts[i]
  BY <1>1
<1>3. TaskItems(r) \subseteq TaskItems(ts)
  BY <1>2 DEF TaskItems
<1>4. ASSUME OneEach(ts), NEW a \in DOMAIN r, NEW b \in DOMAIN r,
             Clash(r[a].item, r[b].item)
      PROVE  a = b
  <2>1. PICK i \in {a, a + 1} : /\ i \in DOMAIN ts /\ r[a] = ts[i]
                                /\ a < k => i = a
                                /\ a >= k => i = a + 1
    BY <1>1
  <2>2. PICK j \in {b, b + 1} : /\ j \in DOMAIN ts /\ r[b] = ts[j]
                                /\ b < k => j = b
                                /\ b >= k => j = b + 1
    BY <1>1
  <2>3. i = j
    BY <1>4, <2>1, <2>2 DEF OneEach
  <2>4. a \in Nat /\ b \in Nat
    BY <1>1
  <2>5. QED BY <1>1, <2>1, <2>2, <2>3, <2>4
<1>5. ASSUME OneEach(ts) PROVE Apart(TaskItems(r), {ts[k].item})
  BY <1>2, <1>5 DEF OneEach, Apart, TaskItems
<1>6. QED BY <1>1, <1>2, <1>3, <1>4, <1>5 DEF OneEach, r

LEMMA TaskAdded ==
  ASSUME NEW ts \in Seq(TaskType), NEW x \in Items
  PROVE  LET t == [item |-> x, admitted |-> FALSE]
             r == Append(ts, t)
         IN  /\ r \in Seq(TaskType)
             /\ \A j \in DOMAIN r : r[j] = t \/ (j \in DOMAIN ts /\ r[j] = ts[j])
             /\ TaskItems(r) = TaskItems(ts) \cup {x}
             /\ OneEach(ts) /\ Apart(TaskItems(ts), {x}) => OneEach(r)
<1> DEFINE t == [item |-> x, admitted |-> FALSE]
           r == Append(ts, t)
<1>1. t \in TaskType /\ t.item = x
  BY DEF TaskType
<1> HIDE DEF t
<1>2. /\ r \in Seq(TaskType) /\ DOMAIN r = 1..(Len(ts) + 1) /\ Len(ts) \in Nat
      /\ DOMAIN ts = 1..Len(ts)
      /\ \A j \in 1..Len(ts) : r[j] = ts[j]
      /\ r[Len(ts) + 1] = t
  BY <1>1
<1> HIDE DEF r
<1>3. \A j \in DOMAIN r : \/ j = Len(ts) + 1 /\ r[j] = t
                          \/ j \in DOMAIN ts /\ r[j] = ts[j]
  BY <1>2
<1>4. TaskItems(r) \subseteq TaskItems(ts) \cup {x}
  BY <1>1, <1>3 DEF TaskItems
<1>5. TaskItems(ts) \cup {x} \subseteq TaskItems(r)
  <2>1. (\A j \in DOMAIN ts : j \in DOMAIN r) /\ Len(ts) + 1 \in DOMAIN r
    BY <1>2
  <2>2. QED BY <1>1, <1>2, <2>1 DEF TaskItems
<1>6. ASSUME OneEach(ts), Apart(TaskItems(ts), {x}),
             NEW a \in DOMAIN r, NEW b \in DOMAIN r, Clash(r[a].item, r[b].item)
      PROVE  a = b
  <2>1. \A j \in DOMAIN ts : ~Clash(ts[j].item, x) /\ ~Clash(x, ts[j].item)
    BY <1>6 DEF Apart, TaskItems, Clash
  <2>2. ASSUME NEW j \in DOMAIN r
        PROVE  \/ j = Len(ts) + 1 /\ r[j].item = x
               \/ j \in DOMAIN ts /\ r[j].item = ts[j].item
    BY <1>1, <1>3
  <2>3. CASE a \in DOMAIN ts /\ b \in DOMAIN ts
    BY <1>3, <1>6, <2>3 DEF OneEach
  <2>4. CASE ~(a \in DOMAIN ts /\ b \in DOMAIN ts)
    BY <1>6, <2>1, <2>2, <2>4
  <2>5. QED BY <2>3, <2>4
<1>7. QED BY <1>2, <1>3, <1>4, <1>5, <1>6 DEF OneEach, r, t

LEMMA TaskAdmitted ==
  ASSUME NEW ts \in Seq(TaskType), NEW k \in DOMAIN ts
  PROVE  LET r == [ts EXCEPT ![k].admitted = TRUE]
         IN  /\ r \in Seq(TaskType) /\ DOMAIN r = DOMAIN ts
             /\ \A j \in DOMAIN r : j # k => r[j] = ts[j]
             /\ \A j \in DOMAIN r : r[j].item = ts[j].item
             /\ TaskItems(r) = TaskItems(ts)
             /\ OneEach(ts) => OneEach(r)
<1> DEFINE r == [ts EXCEPT ![k].admitted = TRUE]
<1>1. ts[k] \in TaskType /\ DOMAIN ts = 1..Len(ts) /\ Len(ts) \in Nat
  OBVIOUS
<1>2. DOMAIN r = DOMAIN ts /\ \A j \in DOMAIN r : j # k => r[j] = ts[j]
  OBVIOUS
<1>3. r[k] = [ts[k] EXCEPT !.admitted = TRUE]
  OBVIOUS
<1>4. r[k] \in TaskType /\ r[k].item = ts[k].item
  BY <1>1, <1>3 DEF TaskType
<1>5. \A j \in DOMAIN r : r[j] \in TaskType /\ r[j].item = ts[j].item
  BY <1>2, <1>4
<1>6. r \in [1..Len(ts) -> TaskType]
  BY <1>1, <1>2, <1>5
<1>7. r \in Seq(TaskType)
  BY <1>1, <1>6
<1> HIDE DEF r
<1>8. TaskItems(r) = TaskItems(ts)
  BY <1>2, <1>5 DEF TaskItems
<1>9. OneEach(ts) => OneEach(r)
  BY <1>2, <1>5 DEF OneEach
<1>10. QED BY <1>2, <1>5, <1>7, <1>8, <1>9 DEF r

\* The journal is published as a sequence without repetitions.
LEMMA Published ==
  ASSUME NEW S, IsFiniteSet(S)
  PROVE  LET q == SetToSeq(S)
         IN  /\ q \in Seq(S)
             /\ ToSet(q) \subseteq S
             /\ S \subseteq Messages => Alone(q)
<1> DEFINE q == SetToSeq(S)
           n == Cardinality(S)
<1>1. n \in Nat /\ ExistsBijection(1..n, S)
  BY FS_CardinalityType
<1>2. PICK f \in [1..n -> S] : IsInjective(f)
  BY <1>1 DEF ExistsBijection, Bijection, Injection, IsInjective
<1>3. q \in [1..n -> S] /\ IsInjective(q)
  BY <1>2 DEF SetToSeq
<1> HIDE DEF q, n
<1>4. q \in Seq(S)
  BY <1>1, <1>3
<1>5. ToSet(q) \subseteq S
  BY <1>3 DEF ToSet
<1>6. ASSUME S \subseteq Messages, NEW k \in DOMAIN q, NEW l \in DOMAIN q,
             Clash(q[k], q[l])
      PROVE  k = l
  <2>1. q[k] \in Messages
    BY <1>3, <1>6
  <2>2. q[k] = q[l]
    BY <1>6, <2>1, ConstantsAssumption DEF Clash, IsContinuation, RecoveryIds
  <2>3. QED BY <1>3, <2>2 DEF IsInjective
<1>7. QED BY <1>4, <1>5, <1>6 DEF Alone, q

-----------------------------------------------------------------------------
(* Types *)

DiskType ==
    /\ pendingTurn \in BOOLEAN /\ checkpoint \in Phases
    /\ journal \subseteq Items /\ IsFiniteSet(journal)
    /\ unfinished \in BOOLEAN /\ grown \in BOOLEAN
    /\ recovery \in [status : Statuses, id : 0..nextId, can : BOOLEAN]

MemoryType ==
    /\ bus \in Seq(Items) /\ queue \in Seq(Items) /\ Len(queue) <= QueueSize
    /\ tasks \in Seq(TaskType)
    /\ turn \in Items \cup {NoTurn} /\ injected \subseteq Items
    /\ stage \in {"idle", "begun", "working", "committed", "failed", "completed"}
    /\ stage = "idle" <=> turn = NoTurn

\* A restart gives out at most one recovery id, and follows an exit.
CountType ==
    /\ gateway \in {"down", "recovering", "requeueing", "up"}
    /\ nextId \in Nat /\ crashes \in 0..MaxCrashes /\ stops \in 0..MaxStops
    /\ nextId <= crashes
    /\ gateway \in {"down", "recovering"} => nextId + 1 <= crashes

HistoryType ==
    /\ saved \in [Messages -> Nat] /\ accepted \subseteq Items
    /\ confirmed \in [RecoveryIds -> Nat] /\ began \in [RecoveryIds -> Nat]
    /\ dismissed \subseteq RecoveryIds /\ dropped \subseteq Items

\* Nothing of a turn outlives it, and nothing in memory outlives the gateway.
Emptied ==
    /\ turn = NoTurn => queue = <<>> /\ injected = {}
    /\ gateway # "up" => bus = <<>> /\ tasks = <<>> /\ turn = NoTurn

Shape == DiskType /\ MemoryType /\ CountType /\ HistoryType /\ Emptied

LEMMA Kinds ==
  /\ NoTurn \notin Items /\ ~IsContinuation(NoTurn)
  /\ \A i \in Items : i \in Messages <=> ~IsContinuation(i)
  /\ Messages \subseteq Items /\ RecoveryIds \subseteq Items
  /\ MaxCrashes \in Nat /\ MaxStops \in Nat /\ QueueSize \in Nat
BY ConstantsAssumption DEF Items, IsContinuation, RecoveryIds

LEMMA ShapeIsTyped == Shape => TypeOK
<1> SUFFICES ASSUME Shape PROVE TypeOK
  OBVIOUS
<1>1. nextId \in 0..MaxCrashes
  BY Kinds DEF Shape, CountType
<1>2. MemoryType /\ (stage = "idle" <=> turn = NoTurn) /\ tasks \in Seq(TaskType)
  BY DEF Shape, MemoryType
<1>3. DiskType /\ CountType /\ HistoryType
  BY DEF Shape
<1>4. QED
  BY <1>1, <1>2, <1>3
  DEF TypeOK, DiskType, MemoryType, CountType, HistoryType, TaskType

LEMMA InitShape == Init => Shape
<1> SUFFICES ASSUME Init PROVE Shape
  OBVIOUS
<1>1. IsFiniteSet({})
  BY FS_EmptySet
<1>2. DiskType
  <2>1. recovery \in [status : Statuses, id : 0..nextId, can : BOOLEAN]
    BY DEF Init, NoRecovery, Statuses
  <2>2. QED BY <1>1, <2>1 DEF Init, DiskType, Phases
<1>3. MemoryType
  BY Kinds DEF Init, MemoryType
<1>4. CountType /\ HistoryType /\ Emptied
  BY Kinds DEF Init, CountType, HistoryType, Emptied
<1>5. QED BY <1>2, <1>3, <1>4 DEF Shape

LEMMA StutterShape == Shape /\ UNCHANGED vars => Shape'
BY DEF Shape, DiskType, MemoryType, CountType, HistoryType, Emptied

\* A turn's end: its queue joins the bus.
LEMMA EndTurnTypes ==
  ASSUME MemoryType, EndTurn(bus)
  PROVE  /\ bus' \in Seq(Items) /\ ToSet(bus') = ToSet(bus) \cup ToSet(queue)
         /\ queue' \in Seq(Items) /\ Len(queue') <= QueueSize
         /\ turn' = NoTurn /\ stage' = "idle" /\ queue' = <<>> /\ injected' = {}
<1>1. bus' = bus \o queue /\ bus \in Seq(Items) /\ queue \in Seq(Items)
  BY DEF EndTurn, MemoryType
<1>2. bus' \in Seq(Items) /\ ToSet(bus') = ToSet(bus) \cup ToSet(queue)
  BY <1>1, ConcatMembers
<1>3. QED BY <1>2, Kinds DEF EndTurn

LEMMA RestoreTypes ==
  ASSUME DiskType, RestoreCheckpoint \/ CloseInterrupted
  PROVE  pendingTurn' \in BOOLEAN /\ checkpoint' \in Phases /\ grown' \in BOOLEAN
BY DEF DiskType, RestoreCheckpoint, CloseInterrupted, Phases

LEMMA UnsavedTypes ==
  ASSUME MemoryType
  PROVE  Unsaved \subseteq Items /\ Unsaved \subseteq injected
BY DEF MemoryType, Unsaved

LEMMA UserShape ==
  ASSUME Shape, UserStep
  PROVE  Shape'
<1> USE DEF Shape
<1>1. ASSUME NEW m \in Messages, Send(m)
      PROVE  Shape'
  <2>1. bus' \in Seq(Items)
    BY <1>1, Kinds, AppendMembers DEF Send, MemoryType
  <2>2. MemoryType'
    BY <1>1, <2>1 DEF Send, MemoryType
  <2>3. DiskType' /\ CountType' /\ HistoryType' /\ Emptied'
    BY <1>1 DEF Send, DiskType, CountType, HistoryType, Emptied
  <2>4. QED BY <2>2, <2>3
<1>2. ASSUME NEW r \in RecoveryIds, Continue(r)
      PROVE  Shape'
  <2>1. bus' \in Seq(Items)
    BY <1>2, Kinds, AppendMembers DEF Continue, MemoryType
  <2>2. MemoryType'
    BY <1>2, <2>1 DEF Continue, MemoryType
  <2>3. DiskType'
    BY <1>2 DEF Continue, DiskType, State, Statuses
  <2>4. CountType' /\ Emptied'
    BY <1>2 DEF Continue, CountType, Emptied
  <2>5. HistoryType'
    BY <1>2 DEF Continue, HistoryType
  <2>6. QED BY <2>2, <2>3, <2>4, <2>5
<1>3. ASSUME NEW r \in RecoveryIds, Dismiss(r)
      PROVE  Shape'
  <2>1. pendingTurn' \in BOOLEAN /\ checkpoint' \in Phases /\ grown' \in BOOLEAN
    BY <1>3, RestoreTypes DEF Dismiss
  <2>2. DiskType'
    BY <1>3, <2>1 DEF Dismiss, DiskType, State, Statuses
  <2>3. MemoryType' /\ CountType' /\ Emptied'
    BY <1>3 DEF Dismiss, MemoryType, CountType, Emptied, counters
  <2>4. HistoryType'
    BY <1>3 DEF Dismiss, HistoryType
  <2>5. QED BY <2>2, <2>3, <2>4
<1>4. ASSUME Stop
      PROVE  Shape'
  <2>1. DiskType'
    <3>1. CASE TurnActive
      BY <1>4, <3>1, RestoreTypes DEF Stop, DiskType
    <3>2. CASE ~TurnActive
      BY <1>4, <3>2 DEF Stop, DiskType
    <3>3. QED BY <3>1, <3>2
  <2>2. MemoryType' /\ Emptied'
    <3>1. tasks' = <<>> /\ tasks' \in Seq(TaskType) /\ gateway = "up" /\ gateway' = "up"
      BY <1>4 DEF Stop
    <3>2. CASE TurnActive
      BY <1>4, <3>1, <3>2, EndTurnTypes DEF Stop, MemoryType, Emptied
    <3>3. CASE ~TurnActive
      BY <1>4, <3>1, <3>3 DEF Stop, MemoryType, Emptied
    <3>4. QED BY <3>2, <3>3
  <2>3. CountType'
    BY <1>4, Kinds DEF Stop, CountType
  <2>4. HistoryType'
    <3>1. {t.item : t \in ToSet(tasks)} \subseteq Items
      <4>1. \A k \in DOMAIN tasks : tasks[k] \in TaskType
        BY DEF MemoryType
      <4>2. \A t \in TaskType : t.item \in Items
        BY DEF TaskType
      <4>3. QED BY <4>1, <4>2 DEF ToSet
    <3>2. stage = "begun" => turn \in Items
      BY DEF MemoryType
    <3>3. QED BY <1>4, <3>1, <3>2, UnsavedTypes DEF Stop, HistoryType
  <2>5. QED BY <2>1, <2>2, <2>3, <2>4
<1>5. QED BY <1>1, <1>2, <1>3, <1>4 DEF UserStep

\* Admission keeps the types of what it may close.
LEMMA AdmitTypes ==
  ASSUME DiskType, NEW i, Admit(i)
  PROVE  /\ pendingTurn' \in BOOLEAN /\ checkpoint' \in Phases /\ grown' \in BOOLEAN
         /\ recovery' \in [status : Statuses, id : 0..nextId, can : BOOLEAN]
<1>1. CASE Supersedes(i)
  <2>1. CloseInterrupted /\ recovery' = State("recovered", recovery.id, TRUE)
    BY <1>1 DEF Admit
  <2>2. recovery' \in [status : Statuses, id : 0..nextId, can : BOOLEAN]
    BY <2>1 DEF DiskType, State, Statuses
  <2>3. QED BY <2>1, <2>2, RestoreTypes
<1>2. CASE ~Supersedes(i)
  BY <1>2 DEF Admit, DiskType
<1>3. QED BY <1>1, <1>2

LEMMA HeadOfBus ==
  ASSUME MemoryType, bus # <<>>
  PROVE  Head(bus) \in Items /\ Tail(bus) \in Seq(Items)
BY TailMembers DEF MemoryType

LEMMA AdmissionShape ==
  ASSUME Shape, AdmissionStep
  PROVE  Shape'
<1> USE DEF Shape
<1>1. ASSUME CancelRecovery
      PROVE  Shape'
  <2>1. /\ UNCHANGED <<gateway, journal, recovery, unfinished, nextId, crashes, stops,
                       saved, accepted, confirmed, began, dismissed>>
        /\ \/ /\ IsContinuation(turn) /\ EndTurn(bus) /\ RestoreCheckpoint
              /\ dropped' = dropped \cup Unsaved /\ UNCHANGED tasks
           \/ /\ \E k \in DOMAIN tasks : tasks' = RemoveAt(tasks, k)
              /\ UNCHANGED <<bus, turn, stage, queue, injected, pendingTurn,
                             checkpoint, grown, dropped>>
    BY <1>1 DEF CancelRecovery
  <2>2. CASE /\ IsContinuation(turn) /\ EndTurn(bus) /\ RestoreCheckpoint
             /\ dropped' = dropped \cup Unsaved /\ UNCHANGED tasks
    <3>1. DiskType'
      BY <2>1, <2>2, RestoreTypes DEF DiskType
    <3>2. gateway = "up"
      BY <2>2, Kinds DEF Emptied
    <3>3. MemoryType' /\ Emptied'
      BY <2>1, <2>2, <3>2, EndTurnTypes DEF MemoryType, Emptied
    <3>4. CountType' /\ HistoryType'
      BY <2>1, <2>2, UnsavedTypes DEF CountType, HistoryType
    <3>5. QED BY <3>1, <3>3, <3>4
  <2>3. CASE /\ \E k \in DOMAIN tasks : tasks' = RemoveAt(tasks, k)
             /\ UNCHANGED <<bus, turn, stage, queue, injected, pendingTurn,
                            checkpoint, grown, dropped>>
    <3>1. PICK k \in DOMAIN tasks : tasks' = RemoveAt(tasks, k)
      BY <2>3
    <3>2. tasks' \in Seq(TaskType)
      BY <3>1, TaskRemoved DEF MemoryType
    <3>3. tasks # <<>>
      BY <3>1
    <3>4. DiskType' /\ CountType' /\ HistoryType'
      BY <2>1, <2>3 DEF DiskType, CountType, HistoryType
    <3>5. MemoryType' /\ Emptied'
      BY <2>1, <2>3, <3>2, <3>3 DEF MemoryType, Emptied
    <3>6. QED BY <3>4, <3>5
  <2>4. QED BY <2>1, <2>2, <2>3
<1>2. ASSUME ConsumeSpawn
      PROVE  Shape'
  <2>1. tasks' \in Seq(TaskType) /\ bus' \in Seq(Items)
    BY <1>2, HeadOfBus, TaskAdded DEF ConsumeSpawn, MemoryType
  <2>2. MemoryType' /\ Emptied'
    BY <1>2, <2>1 DEF ConsumeSpawn, MemoryType, Emptied
  <2>3. DiskType' /\ CountType' /\ HistoryType'
    BY <1>2 DEF ConsumeSpawn, DiskType, CountType, HistoryType
  <2>4. QED BY <2>2, <2>3
<1>3. ASSUME ConsumeRoute
      PROVE  Shape'
  <2> DEFINE i == Head(bus)
  <2>1. /\ i \in Items /\ bus' = Tail(bus) /\ bus' \in Seq(Items)
        /\ gateway = "up" /\ TurnActive /\ Admit(i)
        /\ UNCHANGED <<gateway, unfinished, turn, stage, injected, nextId, crashes,
                       stops, saved, confirmed, began, dismissed, dropped>>
    BY <1>3, HeadOfBus DEF ConsumeRoute
  <2>2. \/ journal' = journal \cup {i} /\ accepted' = accepted \cup {i} /\ Put(i)
        \/ UNCHANGED <<journal, accepted, queue, tasks>>
    BY <1>3 DEF ConsumeRoute
  <2> HIDE DEF i
  <2>3. DiskType'
    <3>1. journal' \subseteq Items /\ IsFiniteSet(journal')
      BY <2>1, <2>2, FS_AddElement DEF DiskType
    <3>2. QED BY <2>1, <3>1, AdmitTypes DEF DiskType
  <2>4. MemoryType'
    <3>1. CASE Len(queue) < QueueSize /\ queue' = Append(queue, i) /\ UNCHANGED tasks
      <4>1. queue' \in Seq(Items) /\ Len(queue') = Len(queue) + 1
        BY <2>1, <3>1, AppendMembers DEF MemoryType
      <4>2. Len(queue) \in Nat
        BY DEF MemoryType
      <4>3. Len(queue') <= QueueSize
        BY <3>1, <4>1, <4>2, Kinds
      <4>4. QED BY <2>1, <3>1, <4>1, <4>3 DEF MemoryType
    <3>2. CASE tasks' = Append(tasks, [item |-> i, admitted |-> FALSE]) /\ UNCHANGED queue
      <4>1. tasks' \in Seq(TaskType)
        BY <2>1, <3>2, TaskAdded DEF MemoryType
      <4>2. QED BY <2>1, <3>2, <4>1 DEF MemoryType
    <3>3. CASE UNCHANGED <<queue, tasks>>
      BY <2>1, <3>3 DEF MemoryType
    <3>4. QED BY <2>2, <3>1, <3>2, <3>3 DEF Put
  <2>5. CountType' /\ HistoryType'
    BY <2>1, <2>2 DEF CountType, HistoryType
  <2>6. Emptied'
    BY <2>1 DEF Emptied, TurnActive
  <2>7. QED BY <2>3, <2>4, <2>5, <2>6
<1>4. ASSUME NEW k \in DOMAIN tasks, AdmitTask(k)
      PROVE  Shape'
  <2> DEFINE i == tasks[k].item
  <2>1. /\ Admit(i)
        /\ UNCHANGED <<gateway, journal, unfinished, bus, turn, stage, queue,
                       injected, counters, history>>
        /\ \/ tasks' = [tasks EXCEPT ![k].admitted = TRUE]
           \/ tasks' = RemoveAt(tasks, k)
    BY <1>4 DEF AdmitTask
  <2>2. tasks' \in Seq(TaskType)
    <3>1. tasks \in Seq(TaskType)
      BY DEF MemoryType
    <3>2. /\ [tasks EXCEPT ![k].admitted = TRUE] \in Seq(TaskType)
          /\ RemoveAt(tasks, k) \in Seq(TaskType)
      BY <3>1, TaskAdmitted, TaskRemoved
    <3>3. QED BY <2>1, <3>2
  <2> HIDE DEF i
  <2>3. DiskType'
    BY <2>1, AdmitTypes DEF DiskType
  <2>4. tasks # <<>>
    OBVIOUS
  <2>5. MemoryType' /\ Emptied'
    BY <2>1, <2>2, <2>4 DEF MemoryType, Emptied
  <2>6. CountType' /\ HistoryType'
    BY <2>1 DEF CountType, HistoryType
  <2>7. QED BY <2>3, <2>5, <2>6
<1>5. QED BY <1>1, <1>2, <1>3, <1>4 DEF AdmissionStep

LEMMA TurnShape ==
  ASSUME Shape, TurnStep
  PROVE  Shape'
<1> USE DEF Shape
<1>1. ASSUME NEW k \in DOMAIN tasks, Begin(k)
      PROVE  Shape'
  <2>1. /\ turn' = tasks[k].item /\ stage' = "begun" /\ tasks' = RemoveAt(tasks, k)
        /\ unfinished' = TRUE
        /\ UNCHANGED <<gateway, journal, recovery, bus, queue, injected, counters,
                       saved, accepted, confirmed, dismissed, dropped>>
        /\ \/ /\ IsContinuation(turn') /\ RestoreCheckpoint
              /\ began' = [began EXCEPT ![turn'] = @ + 1]
           \/ CloseInterrupted /\ UNCHANGED began
    BY <1>1 DEF Begin
  <2>2. /\ tasks' \in Seq(TaskType) /\ turn' \in Items /\ turn' # NoTurn /\ tasks # <<>>
    <3>1. tasks \in Seq(TaskType) /\ tasks[k] \in TaskType
      BY DEF MemoryType
    <3>2. tasks' \in Seq(TaskType)
      BY <2>1, <3>1, TaskRemoved
    <3>3. turn' \in Items
      BY <2>1, <3>1 DEF TaskType
    <3>4. QED BY <3>2, <3>3, Kinds
  <2>3. DiskType'
    BY <2>1, RestoreTypes DEF DiskType
  <2>4. MemoryType' /\ Emptied'
    BY <2>1, <2>2 DEF MemoryType, Emptied
  <2>5. CountType'
    BY <2>1 DEF CountType
  <2>6. HistoryType'
    BY <2>1 DEF HistoryType, IsContinuation
  <2>7. QED BY <2>3, <2>4, <2>5, <2>6
<1>2. ASSUME Persist
      PROVE  Shape'
  <2>1. turn \in Items /\ turn # NoTurn
    BY <1>2, Kinds DEF Persist, MemoryType
  <2>2. MemoryType' /\ Emptied' /\ CountType'
    BY <1>2, <2>1 DEF Persist, MemoryType, Emptied, CountType
  <2>3. CASE IsContinuation(turn)
    BY <1>2, <2>2, <2>3 DEF Persist, DiskType, HistoryType
  <2>4. CASE ~IsContinuation(turn)
    <3>1. DiskType'
      <4>1. journal' = journal \ {turn} /\ IsFiniteSet(journal')
        BY <1>2, <2>4, FS_RemoveElement DEF Persist, Acknowledge, DiskType
      <4>2. QED BY <1>2, <2>4, <4>1 DEF Persist, DiskType
    <3>2. HistoryType'
      BY <1>2, <2>1, <2>4, Kinds DEF Persist, HistoryType
    <3>3. QED BY <2>2, <3>1, <3>2
  <2>5. QED BY <2>3, <2>4
<1>3. ASSUME Checkpoint
      PROVE  Shape'
  BY <1>3 DEF Checkpoint, DiskType, MemoryType, CountType, HistoryType, Emptied
<1>4. ASSUME Drain
      PROVE  Shape'
  <2>1. ToSet(queue) \subseteq Items
    BY DEF MemoryType, ToSet
  <2>2. MemoryType'
    BY <1>4, <2>1, Kinds DEF Drain, MemoryType
  <2>3. Emptied'
    BY <1>4 DEF Drain, MemoryType, Emptied
  <2>4. DiskType' /\ CountType' /\ HistoryType'
    BY <1>4 DEF Drain, DiskType, CountType, HistoryType
  <2>5. QED BY <2>2, <2>3, <2>4
<1>4a. ASSUME DrainFails
       PROVE  Shape'
  <2>1. PICK k \in DOMAIN queue :
          /\ dropped' = dropped \cup ToSet(SubSeq(queue, 1, k))
          /\ queue' = SubSeq(queue, k + 1, Len(queue))
    BY <1>4a DEF DrainFails
  <2>2. queue \in Seq(Items) /\ ToSet(queue) \subseteq Items /\ Len(queue) <= QueueSize
    BY DEF MemoryType, ToSet
  <2>3. /\ queue' \in Seq(Items) /\ Len(queue') <= QueueSize /\ dropped' \ dropped \subseteq Items
    <3>1. /\ queue' \in Seq(Items) /\ Len(queue') <= Len(queue)
          /\ ToSet(SubSeq(queue, 1, k)) \subseteq ToSet(queue)
      BY <2>1, <2>2, RestMembers
    <3>2. Len(queue) \in Nat /\ Len(queue') \in Nat /\ QueueSize \in Nat
      BY <2>2, <3>1, Kinds
    <3>3. QED BY <2>1, <2>2, <3>1, <3>2
  <2>4. /\ UNCHANGED <<gateway, disk, bus, tasks, turn, stage, injected, counters,
                       saved, accepted, confirmed, began, dismissed>>
        /\ stage = "working"
    BY <1>4a DEF DrainFails
  <2>5. MemoryType' /\ Emptied'
    BY <2>3, <2>4 DEF MemoryType, Emptied
  <2>6. DiskType' /\ CountType' /\ HistoryType'
    BY <2>3, <2>4 DEF DiskType, CountType, HistoryType
  <2>7. QED BY <2>5, <2>6
<1>5. ASSUME Commit
      PROVE  Shape'
  <2>1. journal' = journal \ injected
    BY <1>5 DEF Commit, Acknowledge
  <2>2. IsFiniteSet(journal')
    BY <2>1, FS_Subset DEF DiskType
  <2>3. DiskType'
    BY <1>5, <2>1, <2>2 DEF Commit, DiskType, Phases
  <2>4. MemoryType' /\ Emptied' /\ CountType'
    BY <1>5 DEF Commit, MemoryType, Emptied, CountType
  <2>5. HistoryType'
    BY <1>5 DEF Commit, HistoryType
  <2>6. QED BY <2>3, <2>4, <2>5
<1>6. ASSUME Fail
      PROVE  Shape'
  <2>1. turn \in Items
    BY <1>6 DEF Fail, MemoryType
  <2>2. HistoryType'
    BY <1>6, <2>1, UnsavedTypes DEF Fail, HistoryType
  <2>3. MemoryType' /\ Emptied' /\ CountType' /\ DiskType'
    BY <1>6 DEF Fail, MemoryType, Emptied, CountType, DiskType
  <2>4. QED BY <2>2, <2>3
<1>7. ASSUME Completed
      PROVE  Shape'
  <2>1. recovery' \in [status : Statuses, id : 0..nextId, can : BOOLEAN]
    BY <1>7 DEF Completed, DiskType, State, Statuses
  <2>2. DiskType'
    BY <1>7, <2>1 DEF Completed, DiskType
  <2>3. MemoryType' /\ Emptied' /\ CountType' /\ HistoryType'
    BY <1>7 DEF Completed, MemoryType, Emptied, CountType, HistoryType
  <2>4. QED BY <2>2, <2>3
<1>8. ASSUME End
      PROVE  Shape'
  <2>1. gateway = "up"
    BY <1>8 DEF End, Emptied, MemoryType
  <2>2. MemoryType' /\ Emptied'
    BY <1>8, <2>1, EndTurnTypes DEF End, MemoryType, Emptied
  <2>3. DiskType' /\ CountType' /\ HistoryType'
    BY <1>8 DEF End, DiskType, CountType, HistoryType
  <2>4. QED BY <2>2, <2>3
<1>9. QED
  BY <1>1, <1>2, <1>3, <1>4, <1>5, <1>6, <1>7, <1>8, <1>4a DEF TurnStep

LEMMA StateType ==
  ASSUME NEW s \in {"resuming", "awaiting_user", "recovered", "failed"}, NEW n \in Nat,
         NEW id \in 0..n, NEW can \in BOOLEAN
  PROVE  State(s, id, can) \in [status : Statuses, id : 0..n, can : BOOLEAN]
BY DEF State, Statuses

LEMMA RestartShape ==
  ASSUME Shape, RestartStep
  PROVE  Shape'
<1> USE DEF Shape
<1>1. ASSUME Crash
      PROVE  Shape'
  <2>1. MemoryType' /\ Emptied'
    BY <1>1, Kinds DEF Crash, MemoryType, Emptied
  <2>2. CountType'
    BY <1>1, Kinds DEF Crash, CountType
  <2>3. DiskType' /\ HistoryType'
    BY <1>1 DEF Crash, DiskType, HistoryType
  <2>4. QED BY <2>1, <2>2, <2>3
<1>2. ASSUME Start
      PROVE  Shape'
  BY <1>2 DEF Start, DiskType, MemoryType, CountType, HistoryType, Emptied
<1>3. ASSUME Scan
      PROVE  Shape'
  <2>1. /\ nextId' = nextId \/ (nextId' = nextId + 1 /\ gateway' = "requeueing")
        /\ pendingTurn' \in BOOLEAN /\ checkpoint' \in Phases /\ grown' \in BOOLEAN
        /\ recovery' \in [status : Statuses, id : 0..nextId', can : BOOLEAN]
    <3>1. /\ nextId \in Nat /\ nextId + 1 \in 0..(nextId + 1) /\ recovery.id \in 0..nextId
          /\ recovery \in [status : Statuses, id : 0..nextId, can : BOOLEAN]
      BY DEF DiskType, CountType
    <3>2. CASE UNCHANGED <<pendingTurn, checkpoint, grown, recovery, nextId>>
      BY <3>2 DEF DiskType
    <3>3. CASE NothingInFlight /\ gateway' = "requeueing"
      <4>1. UNCHANGED <<pendingTurn, checkpoint, grown>>
        BY <3>3 DEF NothingInFlight
      <4>2. CASE recovery.status = "resuming"
        <5>1. PICK s \in {"recovered", "awaiting_user"} :
                 recovery' = State(s, recovery.id, TRUE) /\ nextId' = nextId
          BY <3>3, <4>2 DEF NothingInFlight
        <5>2. recovery' \in [status : Statuses, id : 0..nextId', can : BOOLEAN]
          BY <3>1, <5>1, StateType
        <5>3. QED BY <3>3, <4>1, <5>1, <5>2 DEF DiskType
      <4>3. CASE recovery.status # "resuming" /\ unfinished
        <5>1. PICK can \in BOOLEAN :
                 recovery' = State("awaiting_user", nextId + 1, can) /\ nextId' = nextId + 1
          BY <3>3, <4>3 DEF NothingInFlight
        <5>2. nextId + 1 \in Nat
          BY <3>1
        <5>3. recovery' \in [status : Statuses, id : 0..nextId', can : BOOLEAN]
          BY <3>1, <5>1, <5>2, StateType
        <5>4. QED BY <3>3, <4>1, <5>1, <5>3 DEF DiskType
      <4>4. CASE recovery.status # "resuming" /\ ~unfinished
        BY <3>1, <3>3, <4>1, <4>4 DEF NothingInFlight, DiskType
      <4>5. QED BY <3>3, <4>2, <4>3, <4>4 DEF NothingInFlight
    <3>4. CASE LoopGuard
      BY <3>1, <3>4, RestoreTypes, StateType DEF LoopGuard
    <3>5. CASE Classify /\ gateway' = "requeueing"
      <4>1. nextId' = nextId + 1 /\ (RestoreCheckpoint \/ CloseInterrupted)
        BY <3>5 DEF Classify
      <4>2. PICK s \in {"recovered", "awaiting_user"}, can \in BOOLEAN :
               recovery' = State(s, nextId', can)
        BY <3>5 DEF Classify
      <4>3. nextId' \in Nat /\ nextId' \in 0..nextId'
        BY <3>1, <4>1
      <4>4. recovery' \in [status : Statuses, id : 0..nextId', can : BOOLEAN]
        BY <4>2, <4>3, StateType
      <4>5. QED BY <3>5, <4>1, <4>4, RestoreTypes
    <3>6. QED BY <1>3, <3>2, <3>3, <3>4, <3>5 DEF Scan, StillWaiting
  <2>2. DiskType'
    BY <1>3, <2>1 DEF Scan, DiskType
  <2>3. CountType'
    BY <1>3, <2>1 DEF Scan, CountType
  <2>4. MemoryType' /\ Emptied' /\ HistoryType'
    BY <1>3 DEF Scan, MemoryType, Emptied, HistoryType
  <2>5. QED BY <2>2, <2>3, <2>4
<1>4. ASSUME Requeue
      PROVE  Shape'
  <2>1. bus' \in Seq(Items)
    <3>1. SetToSeq(journal) \in Seq(journal)
      BY Published DEF DiskType
    <3>2. QED BY <1>4, <3>1 DEF Requeue, DiskType
  <2>2. MemoryType' /\ Emptied'
    BY <1>4, <2>1 DEF Requeue, MemoryType, Emptied
  <2>3. DiskType' /\ CountType' /\ HistoryType'
    BY <1>4 DEF Requeue, DiskType, CountType, HistoryType
  <2>4. QED BY <2>2, <2>3
<1>5. ASSUME ScanFails
      PROVE  Shape'
  <2>1. recovery' \in [status : Statuses, id : 0..nextId', can : BOOLEAN]
    <3>1. nextId \in Nat /\ nextId + 1 \in 0..(nextId + 1) /\ recovery.id \in 0..nextId
      BY DEF DiskType, CountType
    <3>2. CASE recovery.status = "none"
      <4>1. recovery' = State("failed", nextId + 1, FALSE) /\ nextId' = nextId + 1
        BY <1>5, <3>2 DEF ScanFails
      <4>2. nextId + 1 \in Nat
        BY <3>1
      <4>3. QED BY <3>1, <4>1, <4>2, StateType
    <3>3. CASE recovery.status # "none"
      <4>1. recovery' = State("failed", recovery.id, FALSE) /\ nextId' = nextId
        BY <1>5, <3>3 DEF ScanFails
      <4>2. QED BY <3>1, <4>1, StateType
    <3>4. QED BY <3>2, <3>3
  <2>2. DiskType'
    BY <1>5, <2>1 DEF ScanFails, DiskType
  <2>3. CountType'
    <3>1. nextId' \in {nextId, nextId + 1} /\ gateway = "recovering" /\ gateway' = "up"
      BY <1>5 DEF ScanFails
    <3>2. QED BY <1>5, <3>1 DEF ScanFails, CountType
  <2>4. MemoryType' /\ Emptied' /\ HistoryType'
    BY <1>5 DEF ScanFails, MemoryType, Emptied, HistoryType
  <2>5. QED BY <2>2, <2>3, <2>4
<1>6. QED BY <1>1, <1>2, <1>3, <1>4, <1>5 DEF RestartStep

LEMMA StepShape == Shape /\ [Next]_vars => Shape'
BY UserShape, AdmissionShape, TurnShape, RestartShape, StutterShape DEF Next

LEMMA ShapeHolds == Spec => []Shape
BY InitShape, StepShape, PTL DEF Spec

\* Every variable keeps its type, however turns, stops and exits interleave: the
\* queue of the live turn stays within its bound, a turn is at a stage exactly
\* while there is one, and a restart gives out one recovery id at most.
THEOREM TypeCorrect == Spec => []TypeOK
BY ShapeHolds, ShapeIsTyped, PTL

-----------------------------------------------------------------------------
(* Follow-ups *)

LEMMA DurableStep ==
  ASSUME Shape, FollowupsDurable, [Next]_vars
  PROVE  FollowupsDurable'
<1>1. CASE UNCHANGED <<journal, saved, accepted>>
  BY <1>1 DEF FollowupsDurable
<1>2. ASSUME ConsumeRoute
      PROVE  FollowupsDurable'
  <2>1. /\ saved' = saved
        /\ \/ /\ journal' = journal \cup {Head(bus)}
              /\ accepted' = accepted \cup {Head(bus)}
           \/ UNCHANGED <<journal, accepted>>
    BY <1>2 DEF ConsumeRoute
  <2>2. QED BY <2>1 DEF FollowupsDurable
<1>3. ASSUME Persist, ~IsContinuation(turn)
      PROVE  FollowupsDurable'
  <2>1. /\ journal' = journal \ {turn} /\ accepted' = accepted
        /\ saved' = [saved EXCEPT ![turn] = @ + 1]
    BY <1>3 DEF Persist, Acknowledge
  <2>2. ASSUME NEW m \in accepted' \cap Messages
        PROVE  m \in journal' \/ saved'[m] > 0
    <3>1. saved[m] \in Nat /\ m \in DOMAIN saved
      BY DEF Shape, HistoryType
    <3>2. m \in journal \/ saved[m] > 0
      BY <2>1 DEF FollowupsDurable
    <3>3. CASE m = turn
      BY <2>1, <3>1, <3>3
    <3>4. CASE m # turn
      BY <2>1, <3>1, <3>2, <3>4
    <3>5. QED BY <3>3, <3>4
  <2>3. QED BY <2>2 DEF FollowupsDurable
<1>4. ASSUME Commit
      PROVE  FollowupsDurable'
  <2>1. /\ journal' = journal \ injected /\ accepted' = accepted
        /\ saved' = [m \in Messages |-> saved[m] + (IF m \in injected THEN 1 ELSE 0)]
    BY <1>4 DEF Commit, Acknowledge
  <2>2. ASSUME NEW m \in accepted' \cap Messages
        PROVE  m \in journal' \/ saved'[m] > 0
    <3>1. saved[m] \in Nat
      BY DEF Shape, HistoryType
    <3>2. m \in journal \/ saved[m] > 0
      BY <2>1 DEF FollowupsDurable
    <3>3. CASE m \in injected
      BY <2>1, <3>1, <3>3
    <3>4. CASE m \notin injected
      BY <2>1, <3>1, <3>2, <3>4
    <3>5. QED BY <3>3, <3>4
  <2>3. QED BY <2>2 DEF FollowupsDurable
<1>5. ASSUME UserStep
      PROVE  UNCHANGED <<journal, saved, accepted>>
  BY <1>5 DEF UserStep, Send, Continue, Dismiss, Stop
<1>6. ASSUME AdmissionStep
      PROVE  ConsumeRoute \/ UNCHANGED <<journal, saved, accepted>>
  BY <1>6 DEF AdmissionStep, CancelRecovery, ConsumeSpawn, AdmitTask
<1>7. ASSUME TurnStep
      PROVE  \/ Persist /\ ~IsContinuation(turn)
             \/ Commit
             \/ UNCHANGED <<journal, saved, accepted>>
  BY <1>7 DEF TurnStep, Begin, Persist, Checkpoint, Drain, DrainFails, Fail, Completed, End
<1>8. ASSUME RestartStep
      PROVE  UNCHANGED <<journal, saved, accepted>>
  BY <1>8 DEF RestartStep, Crash, Start, Scan, Requeue, ScanFails
<1>9. QED BY <1>1, <1>2, <1>3, <1>4, <1>5, <1>6, <1>7, <1>8 DEF Next

\* A follow-up accepted into a live turn is in the journal until its row is in
\* history, whatever turn fails, is stopped or dies with the gateway.
THEOREM FollowupsKept == Spec => []FollowupsDurable
<1>1. Init => FollowupsDurable
  BY DEF Init, FollowupsDurable
<1>2. Shape /\ FollowupsDurable /\ [Next]_vars => FollowupsDurable'
  BY DurableStep
<1>3. QED BY <1>1, <1>2, ShapeHolds, PTL DEF Spec

-----------------------------------------------------------------------------
(* What a restart leaves to be seen *)

\* A session whose scan is done and whose follow-ups are not yet requeued.
Explained ==
    gateway = "requeueing" =>
        /\ Interrupted => Open
        /\ unfinished => recovery.status # "none"
        /\ recovery.status # "resuming"

\* Users, admission and turns act in a gateway that is up.
LEMMA LiveIsUp ==
  ASSUME Shape, UserStep \/ AdmissionStep \/ TurnStep
  PROVE  gateway = "up" /\ gateway' = "up"
<1>1. Emptied /\ (stage = "idle" <=> turn = NoTurn)
  BY DEF Shape, MemoryType
<1>2. CASE UserStep
  BY <1>2 DEF UserStep, Send, Continue, Dismiss, Stop
<1>3. CASE AdmissionStep
  <2>1. gateway' = gateway
    BY <1>3 DEF AdmissionStep, CancelRecovery, ConsumeSpawn, ConsumeRoute, AdmitTask
  <2>2. bus # <<>> \/ tasks # <<>>
    BY <1>3 DEF AdmissionStep, CancelRecovery, ConsumeSpawn, ConsumeRoute, AdmitTask
  <2>3. QED BY <1>1, <2>1, <2>2 DEF Emptied
<1>4. CASE TurnStep
  <2>1. gateway' = gateway
    BY <1>4 DEF TurnStep, Begin, Persist, Checkpoint, Drain, DrainFails, Commit, Fail,
                Completed, End
  <2>2. tasks # <<>> \/ stage # "idle"
    <3>1. CASE \E k \in DOMAIN tasks : Begin(k)
      BY <3>1
    <3>2. CASE Persist \/ Checkpoint \/ Drain \/ DrainFails
      BY <3>2 DEF Persist, Checkpoint, Drain, DrainFails
    <3>3. CASE Commit \/ Fail \/ Completed \/ End
      BY <3>3 DEF Commit, Fail, Completed, End
    <3>4. QED BY <1>4, <3>1, <3>2, <3>3 DEF TurnStep
  <2>3. QED BY <1>1, <2>1, <2>2 DEF Emptied
<1>5. QED BY <1>2, <1>3, <1>4

LEMMA ScanExplains ==
  ASSUME Shape, Scan
  PROVE  /\ Explained'
         /\ gateway' = "up" => /\ Interrupted' => Open'
                               /\ unfinished' => recovery'.status # "none"
                               /\ recovery'.status # "resuming"
<1> DEFINE Told == /\ Interrupted' => Open'
                   /\ unfinished' => recovery'.status # "none"
                   /\ recovery'.status # "resuming"
<1>1. SUFFICES Told
  BY DEF Explained
<1>2. unfinished' = unfinished /\ journal' = journal
  BY DEF Scan
<1>3. CASE ~NeedsRecovery
  BY <1>2, <1>3 DEF Scan, NeedsRecovery, Interrupted, Open
<1>4. CASE NothingInFlight
  BY <1>2, <1>4 DEF NothingInFlight, Interrupted, Open, State
<1>5. CASE StillWaiting
  BY <1>2, <1>5 DEF StillWaiting, Interrupted, Open
<1>6. CASE LoopGuard
  BY <1>2, <1>6 DEF LoopGuard, Interrupted, Open, State
<1>7. CASE Classify
  <2>1. CASE /\ CloseInterrupted \/ RestoreCheckpoint
             /\ \E id \in {nextId'}, can \in BOOLEAN : recovery' = State("awaiting_user", id, can)
    BY <1>2, <2>1 DEF Open, State
  <2>2. CASE /\ checkpoint = "final_response" /\ RestoreCheckpoint
             /\ recovery' = State("recovered", nextId', TRUE)
    <3>1. pendingTurn' = FALSE /\ checkpoint' = "none"
      BY <2>2 DEF RestoreCheckpoint
    <3>2. QED BY <2>2, <3>1 DEF Interrupted, State
  <2>3. QED BY <1>7, <2>1, <2>2 DEF Classify
<1>8. QED BY <1>3, <1>4, <1>5, <1>6, <1>7 DEF Scan

LEMMA ExplainedStep ==
  ASSUME Shape, Explained, [Next]_vars
  PROVE  Explained'
<1>1. CASE UserStep \/ AdmissionStep \/ TurnStep
  BY <1>1, LiveIsUp DEF Explained
<1>2. CASE Scan
  BY <1>2, ScanExplains
<1>3. CASE RestartStep /\ ~Scan
  BY <1>3 DEF RestartStep, Crash, Start, Requeue, ScanFails, Explained
<1>4. CASE UNCHANGED vars
  BY <1>4 DEF Explained, Interrupted, Open
<1>5. QED BY <1>1, <1>2, <1>3, <1>4 DEF Next

\* When the gateway's startup is over, an interrupted turn has been closed or is
\* offered to the user, a transcript without an end has a recovery to explain
\* it, and nothing is shown as resuming.
THEOREM RestartsExplain == Spec => ShownAfterRestart
<1>1. Init => Explained
  BY DEF Init, Explained
<1>2. ASSUME Shape, Explained, [Next]_vars, gateway # "up", gateway' = "up"
      PROVE  /\ Interrupted' => Open'
             /\ unfinished' => recovery'.status # "none"
             /\ recovery'.status # "resuming"
  <2>1. Scan \/ Requeue \/ ScanFails
    BY <1>2, LiveIsUp DEF Next, RestartStep, Crash, Start
  <2>2. CASE Scan
    BY <1>2, <2>2, ScanExplains
  <2>3. CASE Requeue
    BY <1>2, <2>3 DEF Requeue, Explained, Interrupted, Open
  <2>4. CASE ScanFails
    BY <1>2, <2>4 DEF ScanFails, Interrupted, Open, State
  <2>5. QED BY <2>1, <2>2, <2>3, <2>4
<1>3. QED
  BY <1>1, <1>2, ExplainedStep, ShapeHolds, PTL DEF Spec, ShownAfterRestart

-----------------------------------------------------------------------------
(* Where the items of the session are *)

\* The item whose turn runs, until it is saved; a continuation to its end.
InTurn == IF IsContinuation(turn) \/ stage = "begun" THEN {turn} ELSE {}

Separate(B, T, Q, U, R) ==
    /\ Apart(B, T) /\ Apart(B, Q) /\ Apart(B, U) /\ Apart(B, R)
    /\ Apart(T, Q) /\ Apart(T, U) /\ Apart(T, R)
    /\ Apart(Q, U) /\ Apart(Q, R) /\ Apart(U, R)

\* An item is at most once in the gateway, and with it no other continuation.
OnePlace ==
    /\ Alone(bus) /\ OneEach(tasks) /\ Alone(queue)
    /\ Separate(ToSet(bus), TaskItems(tasks), ToSet(queue), Unsaved, InTurn)

Held == ToSet(bus) \cup TaskItems(tasks) \cup ToSet(queue) \cup Unsaved \cup InTurn

\* A continuation is never journalled, queued or drained.
OnlyMessages ==
    /\ journal \subseteq Messages /\ ToSet(queue) \subseteq Messages
    /\ injected \subseteq Messages

\* What is in the gateway or in the journal has no row yet.
Unwritten == \A m \in Messages : m \in Held \cup journal => saved[m] = 0

\* A continuation that waits has been asked for, and an offered recovery has none.
Confirmed ==
    /\ ContinuationsConfirmed
    /\ \A r \in RecoveryIds :
          r \in ToSet(bus) \cup TaskItems(tasks) => began[r] < confirmed[r]
    /\ recovery.status \in {"awaiting_user", "failed"} => Held \cap RecoveryIds = {}

\* An admitted message has closed the recovery, and an admitted continuation that
\* nobody dismissed is the one that the session is resuming.
Superseded ==
    /\ SupersededStops
    /\ turn \in Messages => ~Open
    /\ \A k \in DOMAIN tasks :
          tasks[k].admitted =>
              /\ tasks[k].item \in Messages => ~Open
              /\ IsContinuation(tasks[k].item) /\ tasks[k].item \notin dismissed =>
                     recovery.status = "resuming" /\ recovery.id = tasks[k].item

Inv == Shape /\ OnePlace /\ OnlyMessages /\ Unwritten /\ Confirmed /\ Superseded

LEMMA ClashMessage ==
  ASSUME NEW m \in Messages, NEW x
  PROVE  (Clash(m, x) <=> m = x) /\ (Clash(x, m) <=> m = x)
BY ConstantsAssumption DEF Clash, IsContinuation, RecoveryIds

LEMMA ClashSym == \A i, j : Clash(i, j) <=> Clash(j, i)
BY DEF Clash

LEMMA SeparateShrinks ==
  ASSUME NEW B, NEW T, NEW Q, NEW U, NEW R, Separate(B, T, Q, U, R),
         NEW B2 \in SUBSET B, NEW T2 \in SUBSET T, NEW Q2 \in SUBSET Q,
         NEW U2 \in SUBSET U, NEW R2 \in SUBSET R
  PROVE  Separate(B2, T2, Q2, U2, R2)
BY DEF Separate, Apart

\* An item joins one place and has no clash with the others.
LEMMA BusGrows ==
  ASSUME NEW B, NEW T, NEW Q, NEW U, NEW R, Separate(B, T, Q, U, R), NEW x,
         \A i \in T \cup Q \cup U \cup R : ~Clash(i, x)
  PROVE  Separate(B \cup {x}, T, Q, U, R)
BY ClashSym DEF Separate, Apart

LEMMA TasksGrow ==
  ASSUME NEW B, NEW T, NEW Q, NEW U, NEW R, Separate(B, T, Q, U, R), NEW x,
         \A i \in B \cup Q \cup U \cup R : ~Clash(i, x)
  PROVE  Separate(B, T \cup {x}, Q, U, R)
BY ClashSym DEF Separate, Apart

LEMMA QueueGrows ==
  ASSUME NEW B, NEW T, NEW Q, NEW U, NEW R, Separate(B, T, Q, U, R), NEW x,
         \A i \in B \cup T \cup U \cup R : ~Clash(i, x)
  PROVE  Separate(B, T, Q \cup {x}, U, R)
BY ClashSym DEF Separate, Apart

LEMMA TurnGrows ==
  ASSUME NEW B, NEW T, NEW Q, NEW U, NEW R, Separate(B, T, Q, U, R), NEW x,
         \A i \in B \cup T \cup Q \cup U : ~Clash(i, x)
  PROVE  Separate(B, T, Q, U, {x})
BY ClashSym DEF Separate, Apart

\* The members of a queue go to the bus, or are drained.
LEMMA SeparateJoins ==
  ASSUME NEW B, NEW T, NEW Q, NEW U, NEW R, Separate(B, T, Q, U, R)
  PROVE  /\ Separate(B \cup Q, T, {}, {}, {})
         /\ Separate(B, T, {}, U \cup Q, R)
BY ClashSym DEF Separate, Apart

LEMMA SeparateHead ==
  ASSUME NEW B, NEW T, NEW Q, NEW U, NEW R, Separate(B, T, Q, U, R),
         NEW x \in B, NEW B2, Apart(B2, {x})
  PROVE  \A i \in B2 \cup T \cup Q \cup U \cup R : ~Clash(i, x)
BY ClashSym DEF Separate, Apart

LEMMA SeparateTask ==
  ASSUME NEW B, NEW T, NEW Q, NEW U, NEW R, NEW x \in T, NEW T2 \in SUBSET T,
         Separate(B, T, Q, U, R), Apart(T2, {x})
  PROVE  /\ Separate(B, T2, Q, U, R)
         /\ \A i \in B \cup T2 \cup Q \cup U \cup R : ~Clash(i, x)
BY ClashSym DEF Separate, Apart

LEMMA Nothing ==
  /\ Alone(<<>>) /\ OneEach(<<>>) /\ ToSet(<<>>) = {} /\ TaskItems(<<>>) = {}
  /\ \A B : Separate(B, {}, {}, {}, {})
BY DEF Alone, OneEach, ToSet, TaskItems, Separate, Apart

\* What the places and the tasks are typed.
LEMMA Places ==
  ASSUME Shape
  PROVE  /\ bus \in Seq(Items) /\ queue \in Seq(Items) /\ tasks \in Seq(TaskType)
         /\ ToSet(bus) \subseteq Items /\ TaskItems(tasks) \subseteq Items
         /\ ToSet(queue) \subseteq Items /\ Unsaved \subseteq injected
         /\ InTurn \subseteq {turn} /\ NoTurn \notin InTurn
<1>1. bus \in Seq(Items) /\ queue \in Seq(Items) /\ tasks \in Seq(TaskType)
  BY DEF Shape, MemoryType
<1>2. TaskItems(tasks) \subseteq Items
  <2>1. \A k \in DOMAIN tasks : tasks[k] \in TaskType
    BY <1>1
  <2>2. \A t \in TaskType : t.item \in Items
    BY DEF TaskType
  <2>3. QED BY <2>1, <2>2 DEF TaskItems
<1>3. InTurn \subseteq {turn} /\ NoTurn \notin InTurn
  BY Kinds DEF InTurn, Shape, MemoryType
<1>4. QED BY <1>1, <1>2, <1>3 DEF ToSet, Unsaved

\* Nothing is left of a turn that has ended; its queue is in the bus.
LEMMA EndedPlaces ==
  ASSUME Shape, OnePlace, EndTurn(bus)
  PROVE  /\ ToSet(bus') = ToSet(bus) \cup ToSet(queue) /\ Alone(bus')
         /\ ToSet(queue') = {} /\ Alone(queue') /\ Unsaved' = {} /\ InTurn' = {}
         /\ Separate(ToSet(bus'), TaskItems(tasks), {}, {}, {})
<1>1. bus' = bus \o queue /\ queue' = <<>> /\ stage' = "idle" /\ turn' = NoTurn
  BY DEF EndTurn
<1>2. ToSet(bus') = ToSet(bus) \cup ToSet(queue) /\ Alone(bus')
  BY <1>1, Places, ConcatMembers DEF OnePlace, Separate
<1>3. Separate(ToSet(bus'), TaskItems(tasks), {}, {}, {})
  <2>1. Separate(ToSet(bus), TaskItems(tasks), ToSet(queue), Unsaved, InTurn)
    BY DEF OnePlace
  <2>2. Separate(ToSet(bus) \cup ToSet(queue), TaskItems(tasks), {}, {}, {})
    BY <2>1, SeparateJoins
  <2>3. QED BY <1>2, <2>2
<1>4. QED BY <1>1, <1>2, <1>3, Kinds, Nothing DEF Unsaved, InTurn, IsContinuation

\* A turn or a task that is cancelled takes nothing to another place.
LEMMA EndedOnePlace ==
  ASSUME Shape, OnePlace, EndTurn(bus), OneEach(tasks'),
         TaskItems(tasks') \subseteq TaskItems(tasks)
  PROVE  OnePlace' /\ Held' \subseteq Held
<1>1. Separate(ToSet(bus'), TaskItems(tasks'), {}, {}, {})
  BY EndedPlaces, SeparateShrinks
<1>2. QED BY <1>1, EndedPlaces DEF OnePlace, Held

LEMMA SendPlace ==
  ASSUME Shape, OnePlace, NEW m \in Messages, Send(m)
  PROVE  OnePlace' /\ Held' \subseteq Held \cup {m}
<1>1. /\ bus' = Append(bus, m)
      /\ UNCHANGED <<tasks, turn, stage, queue, injected>>
      /\ ~Known(m)
  BY DEF Send
<1>2. /\ m \notin ToSet(bus) /\ m \notin TaskItems(tasks) /\ m \notin ToSet(queue)
      /\ m \notin Unsaved /\ m \notin InTurn
  <2>1. \A k \in DOMAIN tasks : tasks[k] \in ToSet(tasks)
    BY DEF ToSet
  <2>2. m \notin TaskItems(tasks)
    BY <1>1, <2>1 DEF Known, TaskItems
  <2>3. QED BY <1>1, <2>2, Places DEF Known
<1>3. \A i \in ToSet(bus) \cup TaskItems(tasks) \cup ToSet(queue) \cup Unsaved \cup InTurn :
        ~Clash(i, m)
  BY <1>2, ClashMessage
<1>4. ToSet(bus') = ToSet(bus) \cup {m} /\ Alone(bus')
  BY <1>1, <1>3, Places, Kinds, AppendMembers DEF OnePlace, Apart
<1>5. Separate(ToSet(bus'), TaskItems(tasks), ToSet(queue), Unsaved, InTurn)
  <2>1. Separate(ToSet(bus), TaskItems(tasks), ToSet(queue), Unsaved, InTurn)
    BY DEF OnePlace
  <2>2. QED BY <1>3, <1>4, <2>1, BusGrows
<1>6. Unsaved' = Unsaved /\ InTurn' = InTurn
  BY <1>1 DEF Unsaved, InTurn
<1>7. QED BY <1>1, <1>4, <1>5, <1>6 DEF OnePlace, Held

LEMMA ContinuePlace ==
  ASSUME Shape, OnePlace, Confirmed, NEW r \in RecoveryIds, Continue(r)
  PROVE  OnePlace' /\ Held' \subseteq Held \cup {r}
<1>1. /\ bus' = Append(bus, r)
      /\ UNCHANGED <<tasks, turn, stage, queue, injected>>
      /\ recovery.status \in {"awaiting_user", "failed"}
  BY DEF Continue
<1>2. \A i \in Held : ~Clash(i, r)
  BY <1>1 DEF Confirmed, Clash, IsContinuation
<1>3. ToSet(bus') = ToSet(bus) \cup {r} /\ Alone(bus')
  BY <1>1, <1>2, Places, Kinds, AppendMembers DEF OnePlace, Apart, Held
<1>4. Separate(ToSet(bus'), TaskItems(tasks), ToSet(queue), Unsaved, InTurn)
  <2>1. Separate(ToSet(bus), TaskItems(tasks), ToSet(queue), Unsaved, InTurn)
    BY DEF OnePlace
  <2>2. \A i \in TaskItems(tasks) \cup ToSet(queue) \cup Unsaved \cup InTurn : ~Clash(i, r)
    BY <1>2 DEF Held
  <2>3. QED BY <1>3, <2>1, <2>2, BusGrows
<1>5. Unsaved' = Unsaved /\ InTurn' = InTurn
  BY <1>1 DEF Unsaved, InTurn
<1>6. QED BY <1>1, <1>3, <1>4, <1>5 DEF OnePlace, Held

\* Every way to leave the places alone.
LEMMA StillPlace ==
  ASSUME OnePlace, UNCHANGED <<bus, tasks, queue>>,
         Unsaved' \subseteq Unsaved, InTurn' \subseteq InTurn
  PROVE  OnePlace' /\ Held' \subseteq Held
<1>1. Separate(ToSet(bus), TaskItems(tasks), ToSet(queue), Unsaved', InTurn')
  BY SeparateShrinks DEF OnePlace
<1>2. QED BY <1>1 DEF OnePlace, Held

LEMMA StopPlace ==
  ASSUME Shape, OnePlace, Stop
  PROVE  OnePlace' /\ Held' \subseteq Held
<1>1. tasks' = <<>> /\ OneEach(tasks') /\ TaskItems(tasks') = {}
  BY Nothing DEF Stop
<1>2. CASE TurnActive
  BY <1>1, <1>2, EndedOnePlace DEF Stop
<1>3. CASE ~TurnActive
  <2>1. UNCHANGED <<bus, queue, Unsaved, InTurn>>
    BY <1>3 DEF Stop, Unsaved, InTurn
  <2>2. Separate(ToSet(bus), {}, ToSet(queue), Unsaved, InTurn)
    BY SeparateShrinks DEF OnePlace
  <2>3. QED BY <1>1, <2>1, <2>2 DEF OnePlace, Held
<1>4. QED BY <1>2, <1>3

\* A task leaves the line for the lock, and its item is nowhere else.
LEMMA TaskLeaves ==
  ASSUME Shape, OnePlace, NEW k \in DOMAIN tasks, tasks' = RemoveAt(tasks, k)
  PROVE  /\ OneEach(tasks') /\ TaskItems(tasks') \subseteq TaskItems(tasks)
         /\ Separate(ToSet(bus), TaskItems(tasks'), ToSet(queue), Unsaved, InTurn)
         /\ \A i \in ToSet(bus) \cup TaskItems(tasks') \cup ToSet(queue) \cup Unsaved
                     \cup InTurn : ~Clash(i, tasks[k].item)
<1>1. /\ OneEach(tasks') /\ TaskItems(tasks') \subseteq TaskItems(tasks)
      /\ Apart(TaskItems(tasks'), {tasks[k].item})
  BY Places, TaskRemoved DEF OnePlace
<1>2. tasks[k].item \in TaskItems(tasks)
  BY DEF TaskItems
<1>3. QED BY <1>1, <1>2, SeparateTask DEF OnePlace

LEMMA CancelPlace ==
  ASSUME Shape, OnePlace, CancelRecovery
  PROVE  OnePlace' /\ Held' \subseteq Held
<1>1. CASE EndTurn(bus) /\ tasks' = tasks
  BY <1>1, EndedOnePlace DEF OnePlace
<1>2. CASE /\ \E k \in DOMAIN tasks : tasks' = RemoveAt(tasks, k)
           /\ UNCHANGED <<bus, turn, stage, queue, injected>>
  <2>1. PICK k \in DOMAIN tasks : tasks' = RemoveAt(tasks, k)
    BY <1>2
  <2>2. UNCHANGED <<bus, queue, Unsaved, InTurn>>
    BY <1>2 DEF Unsaved, InTurn
  <2>3. QED BY <2>1, <2>2, TaskLeaves DEF OnePlace, Held
<1>3. QED BY <1>1, <1>2 DEF CancelRecovery

\* The head of the bus, which is nowhere else.
LEMMA HeadPlace ==
  ASSUME Shape, OnePlace, bus # <<>>
  PROVE  /\ Head(bus) \in Items /\ Head(bus) \in ToSet(bus)
         /\ ToSet(bus) = ToSet(Tail(bus)) \cup {Head(bus)} /\ Alone(Tail(bus))
         /\ Separate(ToSet(Tail(bus)), TaskItems(tasks), ToSet(queue), Unsaved, InTurn)
         /\ \A i \in ToSet(Tail(bus)) \cup TaskItems(tasks) \cup ToSet(queue) \cup Unsaved
                     \cup InTurn : ~Clash(i, Head(bus))
<1> DEFINE x == Head(bus)
           rest == ToSet(Tail(bus))
<1>1. /\ x \in Items /\ Alone(Tail(bus))
      /\ ToSet(bus) = rest \cup {x} /\ Apart(rest, {x})
  BY Places, TailMembers DEF OnePlace
<1> HIDE DEF x, rest
<1>2. Separate(ToSet(bus), TaskItems(tasks), ToSet(queue), Unsaved, InTurn)
  BY DEF OnePlace
<1>3. x \in ToSet(bus) /\ rest \in SUBSET ToSet(bus)
  BY <1>1
<1>4. \A i \in rest \cup TaskItems(tasks) \cup ToSet(queue) \cup Unsaved \cup InTurn :
         ~Clash(i, x)
  BY <1>1, <1>2, <1>3, SeparateHead
<1>5. Separate(rest, TaskItems(tasks), ToSet(queue), Unsaved, InTurn)
  BY <1>2, <1>3, SeparateShrinks
<1>6. QED BY <1>1, <1>3, <1>4, <1>5 DEF x, rest

LEMMA ConsumePlace ==
  ASSUME Shape, OnePlace, ConsumeSpawn \/ ConsumeRoute
  PROVE  OnePlace' /\ Held' \subseteq Held
<1> DEFINE x == Head(bus)
<1>1. /\ bus # <<>> /\ bus' = Tail(bus) /\ UNCHANGED <<turn, stage, injected>>
      /\ \/ UNCHANGED <<tasks, queue>>
         \/ tasks' = Append(tasks, [item |-> x, admitted |-> FALSE]) /\ queue' = queue
         \/ queue' = Append(queue, x) /\ tasks' = tasks
  BY DEF ConsumeSpawn, ConsumeRoute, Put
<1>2. /\ x \in Items /\ x \in ToSet(bus) /\ Alone(bus')
      /\ ToSet(bus) = ToSet(bus') \cup {x}
      /\ Separate(ToSet(bus'), TaskItems(tasks), ToSet(queue), Unsaved, InTurn)
      /\ \A i \in ToSet(bus') \cup TaskItems(tasks) \cup ToSet(queue) \cup Unsaved
                  \cup InTurn : ~Clash(i, x)
  BY <1>1, HeadPlace
<1>3. Unsaved' = Unsaved /\ InTurn' = InTurn
  BY <1>1 DEF Unsaved, InTurn
<1> HIDE DEF x
<1>4. CASE UNCHANGED <<tasks, queue>>
  BY <1>2, <1>3, <1>4 DEF OnePlace, Held
<1>5. CASE tasks' = Append(tasks, [item |-> x, admitted |-> FALSE]) /\ queue' = queue
  <2>1. Apart(TaskItems(tasks), {x})
    BY <1>2 DEF Apart
  <2>2. TaskItems(tasks') = TaskItems(tasks) \cup {x} /\ OneEach(tasks')
    BY <1>2, <1>5, <2>1, Places, TaskAdded DEF OnePlace
  <2>3. Separate(ToSet(bus'), TaskItems(tasks'), ToSet(queue), Unsaved, InTurn)
    BY <1>2, <2>2, TasksGrow
  <2>4. QED BY <1>2, <1>3, <1>5, <2>2, <2>3 DEF OnePlace, Held
<1>6. CASE queue' = Append(queue, x) /\ tasks' = tasks
  <2>1. Apart(ToSet(queue), {x})
    BY <1>2 DEF Apart
  <2>2. ToSet(queue') = ToSet(queue) \cup {x} /\ Alone(queue')
    BY <1>2, <1>6, <2>1, Places, AppendMembers DEF OnePlace
  <2>3. Separate(ToSet(bus'), TaskItems(tasks), ToSet(queue'), Unsaved, InTurn)
    BY <1>2, <2>2, QueueGrows
  <2>4. QED BY <1>2, <1>3, <1>6, <2>2, <2>3 DEF OnePlace, Held
<1>7. QED BY <1>1, <1>4, <1>5, <1>6

LEMMA AdmitPlace ==
  ASSUME Shape, OnePlace, NEW k \in DOMAIN tasks, AdmitTask(k)
  PROVE  OnePlace' /\ Held' \subseteq Held
<1>1. /\ UNCHANGED <<bus, turn, stage, queue, injected>>
      /\ \/ tasks' = [tasks EXCEPT ![k].admitted = TRUE]
         \/ tasks' = RemoveAt(tasks, k)
  BY DEF AdmitTask
<1>2. Unsaved' = Unsaved /\ InTurn' = InTurn
  BY <1>1 DEF Unsaved, InTurn
<1>3. CASE tasks' = RemoveAt(tasks, k)
  BY <1>1, <1>2, <1>3, TaskLeaves DEF OnePlace, Held
<1>4. CASE tasks' = [tasks EXCEPT ![k].admitted = TRUE]
  <2>1. TaskItems(tasks') = TaskItems(tasks) /\ OneEach(tasks')
    BY <1>4, Places, TaskAdmitted DEF OnePlace
  <2>2. QED BY <1>1, <1>2, <2>1 DEF OnePlace, Held
<1>5. QED BY <1>1, <1>3, <1>4

LEMMA BeginPlace ==
  ASSUME Shape, OnePlace, NEW k \in DOMAIN tasks, Begin(k)
  PROVE  /\ OnePlace' /\ Held' \subseteq Held
         /\ \A i \in ToSet(bus') \cup TaskItems(tasks') : ~Clash(i, turn')
<1> DEFINE x == tasks[k].item
<1>1. /\ turn = NoTurn /\ turn' = x /\ stage' = "begun" /\ tasks' = RemoveAt(tasks, k)
      /\ UNCHANGED <<bus, queue, injected>>
  BY DEF Begin, TurnActive
<1>2. queue = <<>> /\ injected = {}
  BY <1>1 DEF Shape, Emptied
<1>3. Unsaved' = {} /\ Unsaved = {} /\ InTurn' = {x}
  BY <1>1, <1>2 DEF Unsaved, InTurn
<1>4. /\ OneEach(tasks') /\ TaskItems(tasks') \subseteq TaskItems(tasks)
      /\ Separate(ToSet(bus), TaskItems(tasks'), ToSet(queue), Unsaved, InTurn)
      /\ \A i \in ToSet(bus) \cup TaskItems(tasks') \cup ToSet(queue) \cup Unsaved
                  \cup InTurn : ~Clash(i, x)
  BY <1>1, TaskLeaves
<1>5. x \in TaskItems(tasks)
  BY DEF TaskItems
<1> HIDE DEF x
<1>6. Separate(ToSet(bus), TaskItems(tasks'), ToSet(queue), Unsaved, {x})
  BY <1>4, TurnGrows
<1>7. OnePlace'
  BY <1>1, <1>3, <1>4, <1>6 DEF OnePlace
<1>8. Held' \subseteq Held
  BY <1>1, <1>3, <1>4, <1>5 DEF Held
<1>9. QED BY <1>1, <1>4, <1>7, <1>8

\* What a failed drain has taken is nowhere in the gateway any more.
LEMMA DrainFailsPlace ==
  ASSUME Shape, OnePlace, DrainFails
  PROVE  OnePlace' /\ Held' \subseteq Held /\ ToSet(queue') \subseteq ToSet(queue)
<1>1. /\ UNCHANGED <<bus, tasks, turn, stage, injected>>
      /\ \E k \in DOMAIN queue : queue' = SubSeq(queue, k + 1, Len(queue))
  BY DEF DrainFails
<1>2. Unsaved' = Unsaved /\ InTurn' = InTurn
  BY <1>1 DEF Unsaved, InTurn
<1>3. queue \in Seq(Items) /\ Alone(queue)
  BY DEF Shape, MemoryType, OnePlace
<1>4. Alone(queue') /\ ToSet(queue') \subseteq ToSet(queue)
  BY <1>1, <1>3, RestMembers
<1>5. Separate(ToSet(bus), TaskItems(tasks), ToSet(queue'), Unsaved, InTurn)
  BY <1>4 DEF OnePlace, Separate, Apart
<1>6. QED BY <1>1, <1>2, <1>4, <1>5 DEF OnePlace, Held

LEMMA DrainPlace ==
  ASSUME Shape, OnePlace, Drain
  PROVE  OnePlace' /\ Held' \subseteq Held
<1>1. /\ stage = "working" /\ UNCHANGED <<bus, tasks, turn, stage>>
      /\ injected' = injected \cup ToSet(queue) /\ queue' = <<>>
  BY DEF Drain
<1>2. Unsaved' = Unsaved \cup ToSet(queue) /\ InTurn' = InTurn
  BY <1>1 DEF Unsaved, InTurn
<1>3. Separate(ToSet(bus), TaskItems(tasks), {}, Unsaved \cup ToSet(queue), InTurn)
  BY SeparateJoins DEF OnePlace
<1>4. QED BY <1>1, <1>2, <1>3, Nothing DEF OnePlace, Held

\* The steps of a turn that only save, or do not, what the turn holds.
LEMMA SavePlace ==
  ASSUME Shape, OnePlace, Persist \/ Checkpoint \/ Commit \/ Fail \/ Completed
  PROVE  OnePlace' /\ Held' \subseteq Held
<1>1. /\ UNCHANGED <<bus, tasks, queue, turn, injected>>
      /\ stage' = "begun" => stage = "begun"
      /\ stage' \in {"begun", "working"} => stage \in {"begun", "working"}
  BY DEF Persist, Checkpoint, Commit, Fail, Completed
<1>2. Unsaved' \subseteq Unsaved /\ InTurn' \subseteq InTurn
  BY <1>1 DEF Unsaved, InTurn
<1>3. QED BY <1>1, <1>2, StillPlace

LEMMA EndPlace ==
  ASSUME Shape, OnePlace, End
  PROVE  OnePlace' /\ Held' \subseteq Held
BY EndedOnePlace DEF End, OnePlace

LEMMA RestartPlace ==
  ASSUME Shape, OnePlace, OnlyMessages, RestartStep
  PROVE  /\ OnePlace'
         /\ Held' \subseteq Held \cup journal
         /\ gateway = "up" \/ Held \cap RecoveryIds = {}
         /\ Held' \cap RecoveryIds \subseteq Held
<1>1. CASE gateway # "up"
  <2>1. bus = <<>> /\ tasks = <<>> /\ turn = NoTurn /\ queue = <<>> /\ injected = {}
    BY <1>1 DEF Shape, Emptied
  <2>2. Unsaved = {} /\ InTurn = {} /\ ToSet(bus) = {} /\ Held = {}
    <3>1. stage = "idle"
      BY <2>1 DEF Shape, MemoryType
    <3>2. QED BY <2>1, <3>1, Kinds, Nothing DEF Unsaved, InTurn, Held
  <2>3. UNCHANGED <<tasks, queue, turn, stage, injected>> \/ Crash
    BY DEF RestartStep, Start, Scan, Requeue, ScanFails
  <2>4. /\ tasks' = <<>> /\ queue' = <<>> /\ Unsaved' = {} /\ InTurn' = {}
    <3>1. CASE Crash
      BY <3>1, Kinds DEF Crash, Unsaved, InTurn
    <3>2. CASE UNCHANGED <<tasks, queue, turn, stage, injected>>
      BY <2>1, <2>2, <3>2 DEF Unsaved, InTurn
    <3>3. QED BY <2>3, <3>1, <3>2
  <2>5. ToSet(bus') \subseteq journal /\ Alone(bus')
    <3>1. CASE bus' = <<>>
      BY <3>1, Nothing
    <3>2. CASE bus' = SetToSeq(journal)
      BY <3>2, Published DEF OnlyMessages, Shape, DiskType
    <3>3. QED BY <2>1, <3>1, <3>2 DEF RestartStep, Crash, Start, Scan, Requeue, ScanFails
  <2>6. OnePlace' /\ Held' = ToSet(bus')
    BY <2>4, <2>5, Nothing DEF OnePlace, Held
  <2>7. journal \cap RecoveryIds = {}
    BY Kinds DEF OnlyMessages, IsContinuation
  <2>8. QED BY <2>2, <2>5, <2>6, <2>7
<1>2. CASE gateway = "up"
  <2>1. Crash
    BY <1>2 DEF RestartStep, Start, Scan, Requeue, ScanFails
  <2>2. /\ bus' = <<>> /\ tasks' = <<>> /\ queue' = <<>> /\ Unsaved' = {} /\ InTurn' = {}
    BY <2>1, Kinds DEF Crash, Unsaved, InTurn
  <2>3. QED BY <1>2, <2>2, Nothing DEF OnePlace, Held
<1>3. QED BY <1>1, <1>2

\* Every step keeps the items in their one place, and what it brings into the
\* gateway was sent, confirmed or journalled.
LEMMA PlaceStep ==
  ASSUME Inv, [Next]_vars
  PROVE  /\ OnePlace'
         /\ \/ Held' \subseteq Held
            \/ \E m \in Messages : Send(m) /\ Held' \subseteq Held \cup {m}
            \/ \E r \in RecoveryIds : Continue(r) /\ Held' \subseteq Held \cup {r}
            \/ /\ RestartStep /\ Held' \subseteq Held \cup journal
               /\ Held' \cap RecoveryIds \subseteq Held
<1> USE DEF Inv
<1>1. CASE UserStep
  <2>1. ASSUME NEW r \in RecoveryIds, Dismiss(r) PROVE OnePlace' /\ Held' \subseteq Held
    <3>1. UNCHANGED <<bus, tasks, queue, Unsaved, InTurn>>
      BY <2>1 DEF Dismiss, Unsaved, InTurn
    <3>2. QED BY <3>1, StillPlace
  <2>2. QED BY <1>1, <2>1, SendPlace, ContinuePlace, StopPlace DEF UserStep
<1>2. CASE AdmissionStep
  BY <1>2, CancelPlace, ConsumePlace, AdmitPlace DEF AdmissionStep
<1>3. CASE TurnStep
  BY <1>3, BeginPlace, DrainPlace, DrainFailsPlace, SavePlace, EndPlace DEF TurnStep
<1>4. CASE RestartStep
  BY <1>4, RestartPlace
<1>5. CASE UNCHANGED vars
  <2>1. UNCHANGED <<bus, tasks, queue, Unsaved, InTurn>>
    BY <1>5 DEF Unsaved, InTurn
  <2>2. QED BY <2>1, StillPlace
<1>6. QED BY <1>1, <1>2, <1>3, <1>4, <1>5 DEF Next

\* A continuation is admitted into no live turn: the turn would be a message's,
\* which closed the recovery, or another continuation.
LEMMA RoutedIsMessage ==
  ASSUME Inv, ConsumeRoute, Admissible(Head(bus))
  PROVE  Head(bus) \in Messages
<1> DEFINE x == Head(bus)
<1>1. bus # <<>> /\ turn # NoTurn
  BY DEF ConsumeRoute, TurnActive
<1>2. x \in Items /\ \A i \in InTurn : ~Clash(i, x)
  BY <1>1, HeadPlace DEF Inv
<1>3. SUFFICES ASSUME IsContinuation(x) PROVE FALSE
  BY <1>2, Kinds
<1>4. Open
  BY <1>3 DEF Admissible, Open
<1>5. turn \in Items
  BY <1>1 DEF Inv, Shape, MemoryType
<1>6. IsContinuation(turn)
  BY <1>4, <1>5, Kinds DEF Inv, Superseded
<1>7. QED BY <1>2, <1>3, <1>6 DEF InTurn, Clash

LEMMA OnlyMessagesStep ==
  ASSUME Inv, [Next]_vars
  PROVE  OnlyMessages'
<1> USE DEF Inv
<1>1. CASE UNCHANGED <<journal, queue, injected>>
  BY <1>1 DEF OnlyMessages
<1>2. CASE EndTurn(bus) /\ journal' = journal
  BY <1>2, Nothing DEF OnlyMessages, EndTurn
<1>3. CASE ConsumeRoute
  <2>1. CASE Admissible(Head(bus))
    <3>1. Head(bus) \in Messages
      BY <1>3, <2>1, RoutedIsMessage
    <3>2. /\ journal' = journal \cup {Head(bus)} /\ injected' = injected
          /\ Put(Head(bus))
      BY <1>3, <2>1 DEF ConsumeRoute
    <3>3. queue' = queue \/ queue' = Append(queue, Head(bus))
      BY <3>2 DEF Put
    <3>4. ToSet(Append(queue, Head(bus))) = ToSet(queue) \cup {Head(bus)}
      <4>1. queue \in Seq(Items) /\ Head(bus) \in Items
        BY <3>1, Kinds, Places
      <4>2. QED BY <4>1, AppendSet
    <3>5. QED BY <3>1, <3>2, <3>3, <3>4 DEF OnlyMessages
  <2>2. CASE ~Admissible(Head(bus))
    BY <1>1, <1>3, <2>2 DEF ConsumeRoute
  <2>3. QED BY <2>1, <2>2
<1>4. CASE Persist \/ Commit
  BY <1>4 DEF Persist, Commit, Acknowledge, OnlyMessages
<1>5. CASE Drain
  BY <1>5, Nothing DEF Drain, OnlyMessages
<1>5a. CASE DrainFails
  <2>1. ToSet(queue') \subseteq ToSet(queue) /\ UNCHANGED <<journal, injected>>
    BY <1>5a, DrainFailsPlace DEF DrainFails
  <2>2. QED BY <2>1 DEF OnlyMessages
<1>6. CASE Crash
  BY <1>6, Nothing DEF Crash, OnlyMessages
<1>7. CASE UserStep
  BY <1>1, <1>2, <1>7 DEF UserStep, Send, Continue, Dismiss, Stop
<1>8. CASE AdmissionStep /\ ~ConsumeRoute
  BY <1>1, <1>2, <1>8 DEF AdmissionStep, CancelRecovery, ConsumeSpawn, AdmitTask
<1>9. CASE TurnStep
  BY <1>1, <1>2, <1>4, <1>5, <1>5a, <1>9 DEF TurnStep, Begin, Checkpoint, Fail, Completed, End
<1>10. CASE RestartStep
  BY <1>1, <1>6, <1>10 DEF RestartStep, Start, Scan, Requeue, ScanFails
<1>11. CASE UNCHANGED vars
  BY <1>1, <1>11
<1>12. QED BY <1>3, <1>7, <1>8, <1>9, <1>10, <1>11 DEF Next

\* The row of a message that is in the gateway or in the journal is not written:
\* writing it takes the message out of both.
LEMMA UnwrittenStep ==
  ASSUME Inv, [Next]_vars
  PROVE  Unwritten'
<1> USE DEF Inv
<1>1. CASE saved' = saved /\ Held' \cup journal' \subseteq Held \cup journal
  BY <1>1 DEF Unwritten
<1>2. ASSUME NEW m \in Messages, Send(m) PROVE Unwritten'
  <2>1. saved' = saved /\ saved[m] = 0 /\ journal' = journal
    BY <1>2 DEF Send
  <2>2. Held' \subseteq Held \cup {m}
    BY <1>2, SendPlace
  <2>3. QED BY <2>1, <2>2 DEF Unwritten
<1>3. ASSUME NEW r \in RecoveryIds, Continue(r) PROVE Unwritten'
  <2>1. saved' = saved /\ journal' = journal /\ Held' \subseteq Held \cup {r}
    BY <1>3, ContinuePlace DEF Continue
  <2>2. r \notin Messages
    BY Kinds DEF IsContinuation
  <2>3. QED BY <2>1, <2>2 DEF Unwritten
<1>4. CASE Persist
  <2>1. Held' \subseteq Held /\ turn' = turn /\ stage = "begun" /\ stage' = "working"
    BY <1>4, SavePlace DEF Persist
  <2>2. CASE IsContinuation(turn)
    BY <1>1, <1>4, <2>1, <2>2 DEF Persist
  <2>3. CASE ~IsContinuation(turn)
    <3>1. /\ journal' = journal \ {turn} /\ saved' = [saved EXCEPT ![turn] = @ + 1]
          /\ UNCHANGED <<bus, tasks, queue, injected>>
      BY <1>4, <2>3 DEF Persist, Acknowledge
    <3>2. InTurn = {turn} /\ InTurn' = {} /\ Unsaved' = Unsaved
      BY <2>1, <2>3, <3>1 DEF InTurn, Unsaved
    <3>3. turn \notin Held'
      BY <3>1, <3>2 DEF OnePlace, Separate, Apart, Clash, Held
    <3>4. ASSUME NEW m \in Messages, m \in Held' \cup journal' PROVE saved'[m] = 0
      <4>1. m # turn /\ m \in Held \cup journal
        BY <2>1, <3>1, <3>3, <3>4
      <4>2. saved'[m] = saved[m]
        BY <3>1, <4>1 DEF Shape, HistoryType
      <4>3. QED BY <4>1, <4>2 DEF Unwritten
    <3>5. QED BY <3>4 DEF Unwritten
  <2>4. QED BY <2>2, <2>3
<1>5. CASE Commit
  <2>1. /\ journal' = journal \ injected /\ Held' \subseteq Held
        /\ saved' = [m \in Messages |-> saved[m] + (IF m \in injected THEN 1 ELSE 0)]
        /\ UNCHANGED <<bus, tasks, queue, turn>>
        /\ stage = "working" /\ stage' = "committed"
    BY <1>5, SavePlace DEF Commit, Acknowledge
  <2>2. Unsaved = injected /\ Unsaved' = {} /\ InTurn' = InTurn
    BY <2>1 DEF Unsaved, InTurn
  <2>3. Held' \cap injected = {}
    BY <2>1, <2>2 DEF OnePlace, Separate, Apart, Clash, Held
  <2>4. ASSUME NEW m \in Messages, m \in Held' \cup journal' PROVE saved'[m] = 0
    <3>1. m \notin injected /\ m \in Held \cup journal
      BY <2>1, <2>3, <2>4
    <3>2. QED BY <2>1, <3>1 DEF Unwritten
  <2>5. QED BY <2>4 DEF Unwritten
<1>6. CASE ConsumeRoute
  <2>1. bus # <<>> /\ saved' = saved
    BY <1>6 DEF ConsumeRoute
  <2>2. Head(bus) \in Held /\ Held' \subseteq Held
    BY <1>6, <2>1, HeadPlace, ConsumePlace DEF Held
  <2>3. journal' \subseteq journal \cup {Head(bus)}
    BY <1>6 DEF ConsumeRoute
  <2>4. QED BY <1>1, <2>1, <2>2, <2>3
<1>7. CASE UNCHANGED <<saved, journal>>
  <2>1. CASE Held' \subseteq Held \/ Held' \subseteq Held \cup journal
    BY <1>1, <1>7, <2>1
  <2>2. QED BY <1>2, <1>3, <2>1, PlaceStep
<1>8. CASE UserStep
  BY <1>7, <1>8 DEF UserStep, Send, Continue, Dismiss, Stop
<1>9. CASE AdmissionStep /\ ~ConsumeRoute
  BY <1>7, <1>9 DEF AdmissionStep, CancelRecovery, ConsumeSpawn, AdmitTask
<1>10. CASE TurnStep
  BY <1>4, <1>5, <1>7, <1>10 DEF TurnStep, Begin, Checkpoint, Drain, DrainFails, Fail, Completed, End
<1>11. CASE RestartStep
  BY <1>7, <1>11 DEF RestartStep, Crash, Start, Scan, Requeue, ScanFails
<1>12. CASE UNCHANGED vars
  BY <1>7, <1>12
<1>13. QED BY <1>6, <1>8, <1>9, <1>10, <1>11, <1>12 DEF Next

\* What a step that confirms or begins nothing keeps of the continuations.
LEMMA StillConfirmed ==
  ASSUME Confirmed, UNCHANGED <<began, confirmed>>,
         (ToSet(bus') \cup TaskItems(tasks')) \cap RecoveryIds
             \subseteq ToSet(bus) \cup TaskItems(tasks),
         recovery'.status \in {"awaiting_user", "failed"} => Held' \cap RecoveryIds = {}
  PROVE  Confirmed'
BY DEF Confirmed, ContinuationsConfirmed

LEMMA NotContinued ==
  ASSUME recovery' = recovery \/ recovery'.status # "resuming"
  PROVE  \A r \in RecoveryIds : ~Continue(r)
<1> SUFFICES ASSUME NEW r \in RecoveryIds, Continue(r) PROVE FALSE
  OBVIOUS
<1>1. recovery.status \in {"awaiting_user", "failed"} /\ recovery' = State("resuming", r, TRUE)
  BY DEF Continue
<1>2. recovery'.status = "resuming"
  BY <1>1 DEF State
<1>3. QED BY <1>1, <1>2

\* Only a restart, which finds memory empty, offers a recovery again.
LEMMA OfferedByRestart ==
  ASSUME Inv, [Next]_vars, recovery'.status \in {"awaiting_user", "failed"}
  PROVE  \/ RestartStep
         \/ recovery' = recovery /\ \A r \in RecoveryIds : ~Continue(r)
<1>1. CASE UserStep
  BY <1>1 DEF UserStep, Send, Continue, Dismiss, Stop, State
<1>2. CASE AdmissionStep
  BY <1>2 DEF AdmissionStep, CancelRecovery, ConsumeSpawn, ConsumeRoute, AdmitTask, Admit,
              State, Continue
<1>3. CASE TurnStep
  BY <1>3 DEF TurnStep, Begin, Persist, Checkpoint, Drain, DrainFails, Commit, Fail, Completed, End,
              State, Continue
<1>4. CASE UNCHANGED vars
  BY <1>4, NotContinued
<1>5. QED BY <1>1, <1>2, <1>3, <1>4 DEF Next

\* A continuation reaches the bus by Continue and the tasks from the bus.
LEMMA WaitingFrom ==
  ASSUME Inv, [Next]_vars, \A r \in RecoveryIds : ~Continue(r)
  PROVE  (ToSet(bus') \cup TaskItems(tasks')) \cap RecoveryIds
             \subseteq ToSet(bus) \cup TaskItems(tasks)
<1> USE DEF Inv
<1> DEFINE Waiting == ToSet(bus) \cup TaskItems(tasks)
<1>1. Messages \cap RecoveryIds = {}
  BY Kinds DEF IsContinuation
<1>2. CASE UNCHANGED <<bus, tasks>>
  BY <1>2
<1>3. CASE EndTurn(bus) /\ TaskItems(tasks') \subseteq TaskItems(tasks)
  BY <1>1, <1>3, EndedPlaces DEF OnlyMessages
<1>4. CASE bus' = bus /\ TaskItems(tasks') \subseteq TaskItems(tasks)
  BY <1>4
<1>5. CASE ConsumeSpawn \/ ConsumeRoute
  <2>1. /\ bus # <<>> /\ bus' = Tail(bus)
        /\ \/ tasks' = tasks
           \/ tasks' = Append(tasks, [item |-> Head(bus), admitted |-> FALSE])
    BY <1>5 DEF ConsumeSpawn, ConsumeRoute, Put
  <2>2. ToSet(bus) = ToSet(bus') \cup {Head(bus)} /\ Head(bus) \in Items
    BY <2>1, HeadPlace
  <2>3. TaskItems(tasks') \subseteq TaskItems(tasks) \cup {Head(bus)}
    BY <2>1, <2>2, Places, TaskAdded
  <2>4. QED BY <2>2, <2>3
<1>6. ASSUME NEW k \in DOMAIN tasks
      PROVE  /\ TaskItems(RemoveAt(tasks, k)) \subseteq TaskItems(tasks)
             /\ TaskItems([tasks EXCEPT ![k].admitted = TRUE]) = TaskItems(tasks)
  BY Places, TaskRemoved, TaskAdmitted
<1>7. ASSUME NEW m \in Messages, Send(m)
      PROVE  (ToSet(bus') \cup TaskItems(tasks')) \cap RecoveryIds \subseteq Waiting
  <2>1. tasks' = tasks /\ ToSet(bus') = ToSet(bus) \cup {m}
    <3>1. bus \in Seq(Items) /\ m \in Items
      BY Kinds, Places
    <3>2. QED BY <1>7, <3>1, AppendSet DEF Send
  <2>2. QED BY <1>1, <2>1
<1>8. CASE UserStep
  <2>1. CASE Stop
    <3>1. TaskItems(tasks') \subseteq TaskItems(tasks)
      BY <2>1, Nothing DEF Stop
    <3>2. QED BY <1>3, <1>4, <2>1, <3>1 DEF Stop
  <2>2. ASSUME NEW r \in RecoveryIds, Dismiss(r) PROVE UNCHANGED <<bus, tasks>>
    BY <2>2 DEF Dismiss
  <2>3. QED BY <1>2, <1>7, <1>8, <2>1, <2>2 DEF UserStep
<1>9. CASE CancelRecovery
  <2>1. CASE EndTurn(bus) /\ tasks' = tasks
    BY <1>3, <2>1
  <2>2. CASE bus' = bus /\ \E k \in DOMAIN tasks : tasks' = RemoveAt(tasks, k)
    BY <1>4, <1>6, <2>2
  <2>3. QED BY <1>9, <2>1, <2>2 DEF CancelRecovery
<1>10. ASSUME NEW k \in DOMAIN tasks, AdmitTask(k) \/ Begin(k)
       PROVE  bus' = bus /\ TaskItems(tasks') \subseteq TaskItems(tasks)
  BY <1>6, <1>10 DEF AdmitTask, Begin
<1>11. CASE TurnStep
  <2>1. CASE End
    BY <1>3, <2>1 DEF End
  <2>2. CASE Persist \/ Checkpoint \/ Drain \/ DrainFails \/ Commit \/ Fail \/ Completed
    BY <1>2, <2>2 DEF Persist, Checkpoint, Drain, DrainFails, Commit, Fail, Completed
  <2>3. QED BY <1>4, <1>10, <1>11, <2>1, <2>2 DEF TurnStep
<1>12. CASE RestartStep
  <2>1. Held' \cap RecoveryIds \subseteq Held
    BY <1>12, RestartPlace
  <2>2. CASE gateway # "up"
    <3>1. Held \cap RecoveryIds = {}
      BY <1>12, <2>2, RestartPlace
    <3>2. QED BY <2>1, <3>1 DEF Held
  <2>3. CASE gateway = "up"
    <3>1. Crash
      BY <1>12, <2>3 DEF RestartStep, Start, Scan, Requeue, ScanFails
    <3>2. QED BY <3>1, Nothing DEF Crash
  <2>4. QED BY <2>2, <2>3
<1>13. QED
  BY <1>2, <1>4, <1>5, <1>8, <1>9, <1>10, <1>11, <1>12 DEF Next, AdmissionStep

LEMMA ConfirmedStep ==
  ASSUME Inv, [Next]_vars
  PROVE  Confirmed'
<1> USE DEF Inv
<1>1. recovery'.status \in {"awaiting_user", "failed"} => Held' \cap RecoveryIds = {}
  <2> SUFFICES ASSUME recovery'.status \in {"awaiting_user", "failed"}
               PROVE  Held' \cap RecoveryIds = {}
    OBVIOUS
  <2>1. CASE RestartStep
    <3>1. CASE gateway # "up"
      BY <2>1, <3>1, RestartPlace
    <3>2. CASE gateway = "up"
      <4>1. Crash
        BY <2>1, <3>2 DEF RestartStep, Start, Scan, Requeue, ScanFails
      <4>2. Unsaved' = {} /\ InTurn' = {}
        BY <4>1, Kinds DEF Crash, Unsaved, InTurn
      <4>3. QED BY <4>1, <4>2, Nothing DEF Crash, Held
    <3>3. QED BY <3>1, <3>2
  <2>2. CASE recovery' = recovery /\ (\A r \in RecoveryIds : ~Continue(r)) /\ ~RestartStep
    <3>1. Held \cap RecoveryIds = {}
      BY <2>2 DEF Confirmed
    <3>2. Messages \cap RecoveryIds = {}
      BY Kinds DEF IsContinuation
    <3>3. Held' \cap RecoveryIds \subseteq Held
      BY <2>2, <3>2, PlaceStep
    <3>4. QED BY <3>1, <3>3
  <2>3. QED BY <2>1, <2>2, OfferedByRestart
<1>2. ASSUME NEW r \in RecoveryIds, Continue(r) PROVE Confirmed'
  <2>1. /\ confirmed' = [confirmed EXCEPT ![r] = @ + 1] /\ began' = began
        /\ bus' = Append(bus, r) /\ tasks' = tasks
    BY <1>2 DEF Continue
  <2>2. ToSet(bus') \cup TaskItems(tasks') = ToSet(bus) \cup TaskItems(tasks) \cup {r}
    <3>1. bus \in Seq(Items) /\ r \in Items
      BY Kinds, Places
    <3>2. ToSet(bus') = ToSet(bus) \cup {r}
      BY <2>1, <3>1, AppendSet
    <3>3. QED BY <2>1, <3>2
  <2>3. \A s \in RecoveryIds : began[s] \in Nat /\ confirmed[s] \in Nat
    BY DEF Shape, HistoryType
  <2>4. \A s \in RecoveryIds : confirmed'[s] = IF s = r THEN confirmed[s] + 1 ELSE confirmed[s]
    BY <2>1 DEF Shape, HistoryType
  <2>5. QED BY <1>1, <2>1, <2>2, <2>3, <2>4 DEF Confirmed, ContinuationsConfirmed
<1>3. ASSUME NEW k \in DOMAIN tasks, Begin(k) PROVE Confirmed'
  <2>1. /\ confirmed' = confirmed /\ turn' = tasks[k].item /\ bus' = bus
        /\ IF IsContinuation(turn') THEN began' = [began EXCEPT ![turn'] = @ + 1]
                                    ELSE began' = began
    BY <1>3 DEF Begin
  <2>2. \A r \in RecoveryIds : ~Continue(r)
    BY <1>3, NotContinued DEF Begin
  <2>3. (ToSet(bus') \cup TaskItems(tasks')) \cap RecoveryIds
            \subseteq ToSet(bus) \cup TaskItems(tasks)
    BY <2>2, WaitingFrom
  <2>4. CASE ~IsContinuation(turn')
    BY <1>1, <2>1, <2>3, <2>4, StillConfirmed
  <2>5. CASE IsContinuation(turn')
    <3>1. turn' \in RecoveryIds /\ began[turn'] < confirmed[turn']
      BY <2>1, <2>5 DEF Confirmed, TaskItems, IsContinuation
    <3>2. turn' \notin ToSet(bus') \cup TaskItems(tasks')
      BY <1>3, BeginPlace DEF Clash
    <3>3. \A s \in RecoveryIds : began[s] \in Nat /\ confirmed[s] \in Nat
      BY DEF Shape, HistoryType
    <3>4. \A s \in RecoveryIds : began'[s] = IF s = turn' THEN began[s] + 1 ELSE began[s]
      BY <2>1, <2>5 DEF Shape, HistoryType
    <3>5. QED
      BY <1>1, <2>1, <2>3, <3>1, <3>2, <3>3, <3>4 DEF Confirmed, ContinuationsConfirmed
  <2>6. QED BY <2>4, <2>5
<1>4. CASE UNCHANGED <<began, confirmed>> /\ \A r \in RecoveryIds : ~Continue(r)
  BY <1>1, <1>4, WaitingFrom, StillConfirmed
<1>5. CASE UserStep
  BY <1>2, <1>4, <1>5 DEF UserStep, Send, Dismiss, Stop
<1>6. CASE AdmissionStep
  BY <1>2, <1>4, <1>6 DEF AdmissionStep, CancelRecovery, ConsumeSpawn, ConsumeRoute, AdmitTask
<1>7. CASE TurnStep
  BY <1>2, <1>3, <1>4, <1>7 DEF TurnStep, Persist, Checkpoint, Drain, DrainFails, Commit, Fail, Completed, End
<1>8. CASE RestartStep
  BY <1>2, <1>4, <1>8 DEF RestartStep, Crash, Start, Scan, Requeue, ScanFails
<1>9. CASE UNCHANGED vars
  BY <1>2, <1>4, <1>9
<1>10. QED BY <1>5, <1>6, <1>7, <1>8, <1>9 DEF Next

\* Every admitted task was one before, unless the step admits it.
LEMMA AdmittedBefore ==
  ASSUME Shape, [Next]_vars, \A k \in DOMAIN tasks : ~AdmitTask(k)
  PROVE  \A j \in DOMAIN tasks' :
            tasks'[j].admitted => \E i \in DOMAIN tasks : tasks'[j] = tasks[i]
<1>1. CASE tasks' = tasks \/ tasks' = <<>>
  BY <1>1
<1>2. ASSUME NEW k \in DOMAIN tasks, tasks' = RemoveAt(tasks, k)
      PROVE  \A j \in DOMAIN tasks' : \E i \in DOMAIN tasks : tasks'[j] = tasks[i]
  BY <1>2, Places, TaskRemoved
<1>3. CASE ConsumeSpawn \/ ConsumeRoute
  <2>1. /\ bus # <<>>
        /\ \/ tasks' = tasks
           \/ tasks' = Append(tasks, [item |-> Head(bus), admitted |-> FALSE])
    BY <1>3 DEF ConsumeSpawn, ConsumeRoute, Put
  <2>2. Head(bus) \in Items
    BY <2>1, HeadOfBus DEF Shape
  <2>3. CASE tasks' = Append(tasks, [item |-> Head(bus), admitted |-> FALSE])
    <3>1. \A j \in DOMAIN tasks' : \/ tasks'[j] = [item |-> Head(bus), admitted |-> FALSE]
                                   \/ (j \in DOMAIN tasks /\ tasks'[j] = tasks[j])
      BY <2>2, <2>3, Places, TaskAdded
    <3>2. QED BY <3>1
  <2>4. QED BY <1>1, <2>1, <2>3
<1>4. CASE UserStep
  BY <1>1, <1>4 DEF UserStep, Send, Continue, Dismiss, Stop
<1>5. CASE AdmissionStep
  BY <1>1, <1>2, <1>3, <1>5 DEF AdmissionStep, CancelRecovery
<1>6. CASE TurnStep
  BY <1>1, <1>2, <1>6 DEF TurnStep, Begin, Persist, Checkpoint, Drain, DrainFails, Commit, Fail,
                          Completed, End
<1>7. CASE RestartStep
  BY <1>1, <1>7 DEF RestartStep, Crash, Start, Scan, Requeue, ScanFails
<1>8. CASE UNCHANGED vars
  BY <1>1, <1>8
<1>9. QED BY <1>4, <1>5, <1>6, <1>7, <1>8 DEF Next

\* What Superseded says of the tasks and of the turn.
Justified(item) ==
    /\ item \in Messages => ~Open
    /\ IsContinuation(item) /\ item \notin dismissed =>
           recovery.status = "resuming" /\ recovery.id = item

TasksJustified == \A k \in DOMAIN tasks : tasks[k].admitted => Justified(tasks[k].item)
TurnJustified ==
    /\ turn \in Messages => ~Open
    /\ IsContinuation(turn) /\ stage \in {"begun", "working"} => Justified(turn)

LEMMA SupersededIs == Superseded <=> TasksJustified /\ TurnJustified
<1>1. \A i : IsContinuation(i) => i \notin Messages
  BY ConstantsAssumption DEF IsContinuation, RecoveryIds
<1>2. Superseded => TasksJustified /\ TurnJustified
  BY <1>1 DEF Superseded, SupersededStops, TasksJustified, TurnJustified, Justified
<1>3. TasksJustified /\ TurnJustified => Superseded
  BY <1>1 DEF Superseded, SupersededStops, TasksJustified, TurnJustified, Justified
<1>4. QED BY <1>2, <1>3

\* A step that leaves the recovery as it is.
LEMMA StillJustified ==
  ASSUME Shape, TasksJustified, TurnJustified, UNCHANGED <<recovery, dismissed>>,
         turn' \in {turn, NoTurn}, stage' \in {"begun", "working"} => stage \in {"begun", "working"},
         \A j \in DOMAIN tasks' :
            tasks'[j].admitted => \E i \in DOMAIN tasks : tasks'[j] = tasks[i]
  PROVE  TasksJustified' /\ TurnJustified'
<1>1. \A item : Justified(item) => Justified(item)'
  BY DEF Justified, Open
<1>2. TasksJustified'
  BY <1>1 DEF TasksJustified, Justified, Open
<1>3. TurnJustified'
  BY Kinds DEF TurnJustified, Justified, Open, IsContinuation
<1>4. QED BY <1>2, <1>3

\* A message admitted against an open recovery finds no continuation registered.
LEMMA AdmitJustified ==
  ASSUME Inv, NEW i, RecoveryGone(i), Admit(i), turn' = turn, stage' = stage,
         dismissed' = dismissed,
         \A j \in DOMAIN tasks' :
            tasks'[j].admitted => \E l \in DOMAIN tasks : tasks'[j] = tasks[l]
  PROVE  TasksJustified' /\ TurnJustified'
<1>1. TasksJustified /\ TurnJustified /\ Shape
  BY SupersededIs DEF Inv
<1>2. CASE ~Supersedes(i)
  BY <1>1, <1>2, StillJustified DEF Admit
<1>3. CASE Supersedes(i)
  <2>1. recovery' = State("recovered", recovery.id, TRUE) /\ ~RecoveryRegistered
    BY <1>3 DEF Admit, RecoveryGone
  <2>2. ~Open'
    BY <2>1 DEF Open, State
  <2>3. /\ ~IsContinuation(turn)
        /\ \A k \in DOMAIN tasks : tasks[k].admitted => ~IsContinuation(tasks[k].item)
    BY <2>1 DEF RecoveryRegistered, Registered
  <2>4. \A j \in DOMAIN tasks' : tasks'[j].admitted => ~IsContinuation(tasks'[j].item)
    BY <2>3
  <2>5. TasksJustified'
    BY <2>2, <2>4 DEF TasksJustified, Justified, IsContinuation
  <2>6. TurnJustified'
    BY <2>2, <2>3 DEF TurnJustified, IsContinuation
  <2>7. QED BY <2>5, <2>6
<1>4. QED BY <1>2, <1>3

LEMMA AdmitTaskJustified ==
  ASSUME Inv, NEW k \in DOMAIN tasks, AdmitTask(k)
  PROVE  TasksJustified' /\ TurnJustified'
<1> DEFINE x == tasks[k].item
<1>1. /\ Shape /\ RecoveryGone(x) /\ Admit(x)
      /\ UNCHANGED <<turn, stage, dismissed>>
      /\ tasks' = IF Admissible(x) THEN [tasks EXCEPT ![k].admitted = TRUE]
                  ELSE RemoveAt(tasks, k)
  BY DEF AdmitTask, Inv
<1>2. CASE ~Admissible(x)
  <2>1. \A j \in DOMAIN tasks' : \E l \in DOMAIN tasks : tasks'[j] = tasks[l]
    <3>1. tasks' = RemoveAt(tasks, k) /\ tasks \in Seq(TaskType)
      BY <1>1, <1>2, Places
    <3>2. QED BY <3>1, TaskRemoved
  <2>2. QED BY <1>1, <2>1, AdmitJustified
<1>3. CASE Admissible(x)
  <2>1. /\ DOMAIN tasks' = DOMAIN tasks
        /\ \A j \in DOMAIN tasks' : j # k => tasks'[j] = tasks[j]
        /\ \A j \in DOMAIN tasks' : tasks'[j].item = tasks[j].item
    BY <1>1, <1>3, Places, TaskAdmitted
  <2>2. x \in Items
    BY <1>1, Places DEF TaskItems
  <2>3. TasksJustified /\ TurnJustified
    BY SupersededIs DEF Inv
  <2>4. CASE IsContinuation(x)
    <3>1. recovery' = recovery /\ recovery.status = "resuming" /\ recovery.id = x
      BY <1>1, <1>3, <2>4 DEF Admit, Supersedes, Admissible
    <3>2. x \notin Messages
      BY <2>2, <2>4, Kinds
    <3>3. Justified(x)
      BY <3>1, <3>2 DEF Justified
    <3>4. TasksJustified'
      BY <1>1, <2>1, <2>3, <3>1, <3>3 DEF TasksJustified, Justified, Open
    <3>5. TurnJustified'
      BY <1>1, <2>3, <3>1 DEF TurnJustified, Justified, Open, IsContinuation
    <3>6. QED BY <3>4, <3>5
  <2>5. CASE ~IsContinuation(x)
    <3>1. ~Open'
      BY <1>1, <2>5 DEF Admit, Supersedes, Open, State
    <3>2. CASE Supersedes(x)
      <4>1. ~RecoveryRegistered
        BY <1>1, <3>2 DEF RecoveryGone
      <4>2. /\ ~IsContinuation(turn)
            /\ \A j \in DOMAIN tasks : tasks[j].admitted => ~IsContinuation(tasks[j].item)
        BY <4>1 DEF RecoveryRegistered, Registered
      <4>3. \A j \in DOMAIN tasks' : tasks'[j].admitted => ~IsContinuation(tasks'[j].item)
        BY <2>1, <2>5, <4>2
      <4>4. TasksJustified'
        BY <3>1, <4>3 DEF TasksJustified, Justified, IsContinuation
      <4>5. TurnJustified'
        BY <1>1, <3>1, <4>2 DEF TurnJustified, IsContinuation
      <4>6. QED BY <4>4, <4>5
    <3>3. CASE ~Supersedes(x)
      <4>1. recovery' = recovery /\ ~Open
        BY <1>1, <2>5, <3>3 DEF Admit, Supersedes
      <4>2. Justified(x)
        BY <2>5, <4>1 DEF Justified
      <4>3. TasksJustified'
        BY <1>1, <2>1, <2>3, <4>1, <4>2 DEF TasksJustified, Justified, Open
      <4>4. TurnJustified'
        BY <1>1, <2>3, <4>1 DEF TurnJustified, Justified, Open, IsContinuation
      <4>5. QED BY <4>3, <4>4
    <3>4. QED BY <3>2, <3>3
  <2>6. QED BY <2>4, <2>5
<1>4. QED BY <1>2, <1>3

\* What the user and the end of a turn do to the recovery.
LEMMA UserJustified ==
  ASSUME Inv, UserStep
  PROVE  TasksJustified' /\ TurnJustified'
<1>1. TasksJustified /\ TurnJustified /\ Shape
  BY SupersededIs DEF Inv
<1>2. ASSUME NEW m \in Messages, Send(m) PROVE TasksJustified' /\ TurnJustified'
  BY <1>1, <1>2, StillJustified DEF Send
<1>3. ASSUME NEW r \in RecoveryIds, Continue(r) PROVE TasksJustified' /\ TurnJustified'
  <2>1. /\ recovery.status \in {"awaiting_user", "failed"}
        /\ UNCHANGED <<tasks, turn, stage, dismissed>>
    BY <1>3 DEF Continue
  <2>2. Open /\ Held \cap RecoveryIds = {}
    BY <2>1 DEF Open, Inv, Confirmed
  <2>3. ASSUME NEW k \in DOMAIN tasks, tasks[k].admitted PROVE FALSE
    <3>1. tasks[k].item \in Items /\ tasks[k].item \in Held
      BY <1>1, Places DEF TaskItems, Held
    <3>2. ~IsContinuation(tasks[k].item)
      BY <2>2, <3>1 DEF IsContinuation
    <3>3. QED BY <1>1, <2>2, <2>3, <3>1, <3>2, Kinds DEF TasksJustified, Justified
  <2>4. ~IsContinuation(turn) /\ turn \notin Messages
    BY <1>1, <2>2 DEF Held, InTurn, IsContinuation, TurnJustified
  <2>5. QED BY <2>1, <2>3, <2>4 DEF TasksJustified, TurnJustified, IsContinuation
<1>4. ASSUME NEW r \in RecoveryIds, Dismiss(r) PROVE TasksJustified' /\ TurnJustified'
  <2>1. /\ recovery.id = r /\ recovery' = State("recovered", r, TRUE)
        /\ dismissed' = dismissed \cup {r} /\ UNCHANGED <<tasks, turn, stage>>
    BY <1>4 DEF Dismiss
  <2>2. ~Open'
    BY <2>1 DEF Open, State
  <2>3. ASSUME NEW i, Justified(i) PROVE Justified(i)'
    BY <2>1, <2>2, <2>3 DEF Justified
  <2>4. QED BY <1>1, <2>1, <2>2, <2>3 DEF TasksJustified, TurnJustified, Justified,
                                          IsContinuation
<1>5. ASSUME Stop PROVE TasksJustified' /\ TurnJustified'
  <2>1. /\ tasks' = <<>> /\ UNCHANGED <<recovery, dismissed>>
        /\ turn' \in {turn, NoTurn} /\ stage' \in {stage, "idle"}
    BY <1>5 DEF Stop, EndTurn
  <2>2. QED BY <1>1, <2>1, StillJustified
<1>6. QED BY <1>2, <1>3, <1>4, <1>5 DEF UserStep

LEMMA TurnStepJustified ==
  ASSUME Inv, TurnStep
  PROVE  TasksJustified' /\ TurnJustified'
<1>1. TasksJustified /\ TurnJustified /\ Shape
  BY SupersededIs DEF Inv
<1>2. ASSUME NEW k \in DOMAIN tasks, Begin(k) PROVE TasksJustified' /\ TurnJustified'
  <2>1. /\ turn' = tasks[k].item /\ tasks[k].admitted /\ tasks' = RemoveAt(tasks, k)
        /\ UNCHANGED <<recovery, dismissed>>
    BY <1>2 DEF Begin
  <2>2. \A j \in DOMAIN tasks' : \E l \in DOMAIN tasks : tasks'[j] = tasks[l]
    BY <1>1, <2>1, Places, TaskRemoved
  <2>3. TasksJustified'
    BY <1>1, <2>1, <2>2 DEF TasksJustified, Justified, Open
  <2>4. Justified(turn')
    BY <1>1, <2>1 DEF TasksJustified
  <2>5. TurnJustified'
    BY <2>1, <2>4 DEF TurnJustified, Justified, Open, IsContinuation
  <2>6. QED BY <2>3, <2>5
<1>3. ASSUME Completed PROVE TasksJustified' /\ TurnJustified'
  <2>1. /\ stage \in {"committed", "failed"} /\ stage' = "completed"
        /\ UNCHANGED <<turn, tasks, dismissed>>
        /\ recovery' = IF recovery.status = "resuming"
                         THEN State("recovered", recovery.id, TRUE) ELSE recovery
    BY <1>3 DEF Completed
  <2>2. CASE recovery.status # "resuming"
    BY <1>1, <2>1, <2>2, StillJustified
  <2>3. CASE recovery.status = "resuming"
    <3>1. ~Open' /\ Open
      BY <2>1, <2>3 DEF Open, State
    <3>2. turn \in Items
      BY <1>1, <2>1 DEF Shape, MemoryType
    <3>3. IsContinuation(turn)
      BY <1>1, <3>1, <3>2, Kinds DEF TurnJustified
    <3>4. \A k \in DOMAIN tasks : ~IsContinuation(tasks[k].item)
      BY <3>3 DEF Inv, OnePlace, Separate, Apart, Clash, InTurn, TaskItems
    <3>5. TasksJustified'
      BY <2>1, <3>1, <3>4 DEF TasksJustified, Justified, IsContinuation
    <3>6. TurnJustified'
      BY <2>1, <3>1 DEF TurnJustified
    <3>7. QED BY <3>5, <3>6
  <2>4. QED BY <2>2, <2>3
<1>4. ASSUME Persist \/ Checkpoint \/ Drain \/ DrainFails \/ Commit \/ Fail \/ End
      PROVE  TasksJustified' /\ TurnJustified'
  <2>1. /\ UNCHANGED <<recovery, dismissed, tasks>> /\ turn' \in {turn, NoTurn}
        /\ stage' \in {"begun", "working"} => stage \in {"begun", "working"}
    BY <1>4 DEF Persist, Checkpoint, Drain, DrainFails, Commit, Fail, End, EndTurn
  <2>2. QED BY <1>1, <2>1, StillJustified
<1>5. QED BY <1>2, <1>3, <1>4, <1>1 DEF TurnStep

LEMMA RestartJustified ==
  ASSUME Inv, RestartStep
  PROVE  TasksJustified' /\ TurnJustified'
<1>1. tasks' = <<>> /\ turn' = NoTurn
  BY DEF RestartStep, Crash, Start, Scan, Requeue, ScanFails, Inv, Shape, Emptied
<1>2. QED BY <1>1, Kinds DEF TasksJustified, TurnJustified, IsContinuation

LEMMA SupersededStep ==
  ASSUME Inv, [Next]_vars
  PROVE  Superseded'
<1> SUFFICES TasksJustified' /\ TurnJustified'
  <2>1. TasksJustified' /\ TurnJustified' => Superseded'
    BY SupersededIs, PTL
  <2>2. QED BY <2>1
<1>1. TasksJustified /\ TurnJustified /\ Shape
  BY SupersededIs DEF Inv
<1>2. CASE AdmissionStep /\ \A k \in DOMAIN tasks : ~AdmitTask(k)
  <2>1. \A j \in DOMAIN tasks' :
           tasks'[j].admitted => \E l \in DOMAIN tasks : tasks'[j] = tasks[l]
    BY <1>1, <1>2, AdmittedBefore
  <2>2. CASE CancelRecovery \/ ConsumeSpawn
    <3>1. /\ UNCHANGED <<recovery, dismissed>>
          /\ turn' \in {turn, NoTurn} /\ stage' \in {stage, "idle"}
      BY <2>2 DEF CancelRecovery, ConsumeSpawn, EndTurn
    <3>2. QED BY <1>1, <2>1, <3>1, StillJustified
  <2>3. CASE ConsumeRoute
    <3>1. /\ RecoveryGone(Head(bus)) /\ Admit(Head(bus))
          /\ UNCHANGED <<turn, stage, dismissed>>
      BY <2>3 DEF ConsumeRoute
    <3>2. QED BY <2>1, <3>1, AdmitJustified
  <2>4. QED BY <1>2, <2>2, <2>3 DEF AdmissionStep
<1>3. CASE UNCHANGED vars
  BY <1>1, <1>3, StillJustified
<1>4. QED
  BY <1>2, <1>3, UserJustified, AdmitTaskJustified, TurnStepJustified, RestartJustified
  DEF Next, AdmissionStep

-----------------------------------------------------------------------------
(* The invariant, and what it is for *)

LEMMA InitInv == Init => Inv
<1> SUFFICES ASSUME Init PROVE Inv
  OBVIOUS
<1>1. /\ bus = <<>> /\ tasks = <<>> /\ queue = <<>> /\ turn = NoTurn /\ stage = "idle"
      /\ injected = {} /\ journal = {} /\ recovery.status = "none"
      /\ confirmed = [r \in RecoveryIds |-> 0] /\ began = [r \in RecoveryIds |-> 0]
  BY DEF Init, NoRecovery
<1>2. Unsaved = {} /\ InTurn = {} /\ Held = {}
  BY <1>1, Kinds, Nothing DEF Unsaved, InTurn, Held
<1>3. OnePlace /\ OnlyMessages /\ Unwritten
  BY <1>1, <1>2, Nothing DEF OnePlace, OnlyMessages, Unwritten
<1>4. Confirmed
  BY <1>1, <1>2, Nothing DEF Confirmed, ContinuationsConfirmed
<1>5. Superseded
  BY <1>1, Kinds DEF Superseded, SupersededStops, Open
<1>6. QED BY <1>3, <1>4, <1>5, InitShape DEF Inv

LEMMA StepInv == Inv /\ [Next]_vars => Inv'
<1> SUFFICES ASSUME Inv, [Next]_vars PROVE Inv'
  OBVIOUS
<1>1. Shape'
  BY StepShape DEF Inv
<1>2. OnePlace' /\ OnlyMessages' /\ Unwritten'
  BY PlaceStep, OnlyMessagesStep, UnwrittenStep
<1>3. Confirmed' /\ Superseded'
  BY ConfirmedStep, SupersededStep
<1>4. QED BY <1>1, <1>2, <1>3 DEF Inv

LEMMA Invariance == Spec => []Inv
BY InitInv, StepInv, PTL DEF Spec

\* The user confirms every turn that continues an interrupted one: no restart
\* repeats a continuation by itself.
THEOREM NothingResumesByItself == Spec => []ContinuationsConfirmed
<1>1. Inv => ContinuationsConfirmed
  BY DEF Inv, Confirmed
<1>2. QED BY <1>1, Invariance, PTL

\* A continuation that works is the one the session is resuming: a newer
\* message waits until a superseded one is gone.
THEOREM NewerMessagesWin == Spec => []SupersededStops
<1>1. Inv => SupersededStops
  BY DEF Inv, Superseded
<1>2. QED BY <1>1, Invariance, PTL

\* The session has one continuation at a time, so that the coordinator's one
\* registered task per session is the only one there is to cancel; and no
\* message is twice in the gateway, whatever restarts requeue.
THEOREM OneOfEach == Spec => []OnePlace
<1>1. Inv => OnePlace
  BY DEF Inv
<1>2. QED BY <1>1, Invariance, PTL

LEMMA CommitStep ==
  ASSUME Inv, CommittedOnce, [Next]_vars
  PROVE  CommittedOnce'
<1>1. CASE saved' = saved
  BY <1>1 DEF CommittedOnce
<1>2. ASSUME Persist, ~IsContinuation(turn)
      PROVE  CommittedOnce'
  <2>1. saved' = [saved EXCEPT ![turn] = @ + 1] /\ turn \in InTurn
    BY <1>2 DEF Persist, InTurn
  <2>2. turn \in Messages => saved[turn] = 0
    BY <2>1 DEF Inv, Unwritten, Held
  <2>3. \A m \in Messages : saved'[m] = IF m = turn THEN saved[m] + 1 ELSE saved[m]
    BY <2>1 DEF Inv, Shape, HistoryType
  <2>4. QED BY <2>2, <2>3 DEF CommittedOnce
<1>3. ASSUME Commit
      PROVE  CommittedOnce'
  <2>1. /\ saved' = [m \in Messages |-> saved[m] + (IF m \in injected THEN 1 ELSE 0)]
        /\ stage = "working"
    BY <1>3 DEF Commit
  <2>2. \A m \in Messages : m \in injected => saved[m] = 0
    BY <2>1 DEF Inv, Unwritten, Held, Unsaved
  <2>3. \A m \in Messages : saved[m] \in Nat
    BY DEF Inv, Shape, HistoryType
  <2>4. ASSUME NEW m \in Messages PROVE saved'[m] <= 1
    <3>1. CASE m \in injected
      BY <2>1, <2>2, <3>1
    <3>2. CASE m \notin injected
      BY <2>1, <2>3, <3>2 DEF CommittedOnce
    <3>3. QED BY <3>1, <3>2
  <2>5. QED BY <2>4 DEF CommittedOnce
<1>4. UserStep \/ RestartStep => saved' = saved
  BY DEF UserStep, Send, Continue, Dismiss, Stop, RestartStep, Crash, Start, Scan,
         Requeue, ScanFails
<1>5. AdmissionStep => saved' = saved
  BY DEF AdmissionStep, CancelRecovery, ConsumeSpawn, ConsumeRoute, AdmitTask
<1>6. TurnStep => \/ Persist /\ ~IsContinuation(turn)
                  \/ Commit
                  \/ saved' = saved
  BY DEF TurnStep, Begin, Persist, Checkpoint, Drain, DrainFails, Fail, Completed, End
<1>7. QED BY <1>1, <1>2, <1>3, <1>4, <1>5, <1>6 DEF Next

\* A message's row is committed once, although the journal may publish the
\* message again at every restart until then.
THEOREM RowsCommittedOnce == Spec => []CommittedOnce
<1>1. Init => CommittedOnce
  BY DEF Init, CommittedOnce
<1>2. Inv /\ CommittedOnce /\ [Next]_vars => CommittedOnce'
  BY CommitStep
<1>3. QED BY <1>1, <1>2, Invariance, PTL DEF Spec
==============================================================================
