------------------------- MODULE MessagePlaces_proofs -------------------------
(***************************************************************************)
(* Where a message of session dispatch is: in exactly one place, for every *)
(* set of messages and sessions and every value of the limits.             *)
(***************************************************************************)
EXTENDS SessionDispatch_proofs, FiniteSetTheorems

NoRepeat(q) == \A i, j \in 1..Len(q) : q[i] = q[j] => i = j


\* What the queue operations do to the members of a queue without repetitions.
LEMMA TailMembers ==
  ASSUME NEW S, NEW q \in Seq(S), q # <<>>, NoRepeat(q)
  PROVE  /\ Head(q) \in InSeq(q) /\ Head(q) \in S
         /\ Tail(q) \in Seq(S)
         /\ InSeq(Tail(q)) = InSeq(q) \ {Head(q)}
         /\ NoRepeat(Tail(q))
<1>1. /\ Len(q) \in Nat \ {0} /\ Head(q) = q[1]
      /\ Tail(q) \in Seq(S) /\ Len(Tail(q)) = Len(q) - 1
      /\ \A i \in 1..Len(q) - 1 : Tail(q)[i] = q[i + 1]
  OBVIOUS
<1>2. Head(q) \in InSeq(q) /\ Head(q) \in S
  BY <1>1 DEF InSeq
<1>3. InSeq(Tail(q)) \subseteq InSeq(q) \ {Head(q)}
  <2> SUFFICES ASSUME NEW i \in 1..Len(Tail(q))
               PROVE  Tail(q)[i] \in InSeq(q) \ {Head(q)}
    BY DEF InSeq
  <2>1. i + 1 \in 1..Len(q) /\ i + 1 # 1 /\ Tail(q)[i] = q[i + 1]
    BY <1>1
  <2>2. QED BY <1>1, <2>1 DEF NoRepeat, InSeq
<1>4. InSeq(q) \ {Head(q)} \subseteq InSeq(Tail(q))
  <2> SUFFICES ASSUME NEW i \in 1..Len(q), q[i] # Head(q)
               PROVE  q[i] \in InSeq(Tail(q))
    BY DEF InSeq
  <2>1. i # 1 /\ i - 1 \in 1..Len(Tail(q)) /\ q[i] = Tail(q)[i - 1]
    BY <1>1
  <2>2. QED BY <2>1 DEF InSeq
<1>5. NoRepeat(Tail(q))
  <2> SUFFICES ASSUME NEW i \in 1..Len(Tail(q)), NEW j \in 1..Len(Tail(q)),
                      Tail(q)[i] = Tail(q)[j]
               PROVE  i = j
    BY DEF NoRepeat
  <2>1. i + 1 \in 1..Len(q) /\ j + 1 \in 1..Len(q) /\ q[i + 1] = q[j + 1]
    BY <1>1
  <2>2. QED BY <2>1 DEF NoRepeat
<1>6. QED BY <1>1, <1>2, <1>3, <1>4, <1>5

LEMMA ConcatMembers ==
  ASSUME NEW S, NEW q \in Seq(S), NEW r \in Seq(S)
  PROVE  /\ q \o r \in Seq(S)
         /\ InSeq(q \o r) = InSeq(q) \cup InSeq(r)
         /\ NoRepeat(q) /\ NoRepeat(r) /\ InSeq(q) \cap InSeq(r) = {} => NoRepeat(q \o r)
<1>1. /\ q \o r \in Seq(S) /\ Len(q \o r) = Len(q) + Len(r)
      /\ Len(q) \in Nat /\ Len(r) \in Nat
      /\ \A i \in 1..Len(q) : (q \o r)[i] = q[i]
      /\ \A i \in 1..Len(r) : (q \o r)[Len(q) + i] = r[i]
  OBVIOUS
<1> DEFINE all == q \o r
<1>2. \A i \in 1..Len(all) : \/ i \in 1..Len(q) /\ all[i] = q[i]
                             \/ i - Len(q) \in 1..Len(r) /\ all[i] = r[i - Len(q)]
  <2> TAKE i \in 1..Len(all)
  <2>1. CASE i \in 1..Len(q)
    BY <1>1, <2>1
  <2>2. CASE i \notin 1..Len(q)
    <3>1. i - Len(q) \in 1..Len(r) /\ i = Len(q) + (i - Len(q))
      BY <1>1, <2>2
    <3>2. QED BY <1>1, <3>1
  <2>3. QED BY <2>1, <2>2
<1>3. /\ \A i \in 1..Len(q) : i \in 1..Len(all) /\ all[i] = q[i]
      /\ \A i \in 1..Len(r) : Len(q) + i \in 1..Len(all) /\ all[Len(q) + i] = r[i]
  BY <1>1
<1>4. all \in Seq(S)
  BY <1>1
<1> HIDE DEF all
<1>5. InSeq(all) = InSeq(q) \cup InSeq(r)
  <2>1. \A i \in 1..Len(all) : all[i] \in InSeq(q) \cup InSeq(r)
    BY <1>2 DEF InSeq
  <2>2. /\ \A i \in 1..Len(q) : q[i] \in InSeq(all)
        /\ \A i \in 1..Len(r) : r[i] \in InSeq(all)
    BY <1>3 DEF InSeq
  <2>3. QED BY <2>1, <2>2 DEF InSeq
<1>6. ASSUME NoRepeat(q), NoRepeat(r), InSeq(q) \cap InSeq(r) = {}
      PROVE  NoRepeat(all)
  <2> SUFFICES ASSUME NEW i \in 1..Len(all), NEW j \in 1..Len(all), all[i] = all[j]
               PROVE  i = j
    BY DEF NoRepeat
  <2>1. \A a \in 1..Len(q), b \in 1..Len(r) : q[a] # r[b]
    BY <1>6 DEF InSeq
  <2>2. CASE i \in 1..Len(q) /\ j \in 1..Len(q)
    BY <1>3, <1>6, <2>2 DEF NoRepeat
  <2>3. CASE i \notin 1..Len(q) /\ j \notin 1..Len(q)
    <3>1. i - Len(q) = j - Len(q)
      BY <1>2, <1>6, <2>3 DEF NoRepeat
    <3>2. QED BY <1>1, <1>4, <3>1
  <2>4. CASE i \in 1..Len(q) /\ j \notin 1..Len(q)
    BY <1>2, <1>3, <2>1, <2>4
  <2>5. CASE i \notin 1..Len(q) /\ j \in 1..Len(q)
    BY <1>2, <1>3, <2>1, <2>5
  <2>6. QED BY <2>2, <2>3, <2>4, <2>5
<1>7. QED BY <1>4, <1>5, <1>6 DEF all

LEMMA AppendMembers ==
  ASSUME NEW S, NEW q \in Seq(S), NEW m \in S
  PROVE  /\ Append(q, m) \in Seq(S)
         /\ InSeq(Append(q, m)) = InSeq(q) \cup {m}
         /\ NoRepeat(q) /\ m \notin InSeq(q) => NoRepeat(Append(q, m))
<1>1. /\ Append(q, m) \in Seq(S) /\ Len(Append(q, m)) = Len(q) + 1 /\ Len(q) \in Nat
      /\ \A i \in 1..Len(q) : Append(q, m)[i] = q[i]
      /\ Append(q, m)[Len(q) + 1] = m
  OBVIOUS
<1>2. InSeq(Append(q, m)) = InSeq(q) \cup {m}
  BY AppendInSeq
<1> DEFINE more == Append(q, m)
<1> HIDE DEF more
<1>3. ASSUME NoRepeat(q), m \notin InSeq(q), NEW i \in 1..Len(more), NEW j \in 1..Len(more),
             more[i] = more[j]
      PROVE  i = j
  <2>1. \A a \in 1..Len(q) : q[a] # m
    BY <1>3 DEF InSeq
  <2>2. /\ Len(more) = Len(q) + 1 /\ Len(q) \in Nat /\ more[Len(q) + 1] = m
        /\ \A a \in 1..Len(q) : more[a] = q[a]
    BY <1>1 DEF more
  <2>3. \A a \in 1..Len(more) : a \in 1..Len(q) \/ a = Len(q) + 1
    BY <2>2
  <2>4. QED BY <1>3, <2>1, <2>2, <2>3 DEF NoRepeat
<1>4. QED BY <1>1, <1>2, <1>3 DEF NoRepeat, more

\* A queue cut in two.
LEMMA SplitMembers ==
  ASSUME NEW S, NEW q \in Seq(S), NEW k \in 0..Len(q), NoRepeat(q)
  PROVE  LET taken == SubSeq(q, 1, k)
             left  == SubSeq(q, k + 1, Len(q))
         IN  /\ taken \in Seq(S) /\ left \in Seq(S)
             /\ InSeq(q) = InSeq(taken) \cup InSeq(left)
             /\ InSeq(taken) \cap InSeq(left) = {}
             /\ NoRepeat(left)
<1> DEFINE taken == SubSeq(q, 1, k)
           left  == SubSeq(q, k + 1, Len(q))
<1>1. /\ taken \in Seq(S) /\ Len(taken) = k
      /\ \A i \in 1..k : taken[i] = q[i]
  OBVIOUS
<1>2. /\ left \in Seq(S) /\ Len(left) = Len(q) - k
      /\ \A i \in 1..Len(q) - k : left[i] = q[k + i]
  OBVIOUS
<1>3. Len(q) \in Nat /\ k \in Nat
  OBVIOUS
<1> HIDE DEF taken, left
<1>4. InSeq(taken) = {q[i] : i \in 1..k}
  BY <1>1 DEF InSeq
<1>5. InSeq(left) = {q[i] : i \in k + 1..Len(q)}
  <2>1. \A i \in 1..Len(left) : k + i \in k + 1..Len(q) /\ left[i] = q[k + i]
    BY <1>2, <1>3
  <2>2. \A i \in k + 1..Len(q) : i - k \in 1..Len(left) /\ left[i - k] = q[i]
    BY <1>2, <1>3
  <2>3. \A i \in 1..Len(left) : left[i] \in {q[n] : n \in k + 1..Len(q)}
    BY <2>1
  <2>4. \A i \in k + 1..Len(q) : q[i] \in InSeq(left)
    BY <2>2 DEF InSeq
  <2>5. QED BY <2>3, <2>4 DEF InSeq
<1>6. InSeq(q) = InSeq(taken) \cup InSeq(left)
  <2>1. \A i \in 1..Len(q) : i \in 1..k \/ i \in k + 1..Len(q)
    BY <1>3
  <2>2. \A i \in 1..Len(q) : q[i] \in InSeq(taken) \cup InSeq(left)
    BY <1>4, <1>5, <2>1
  <2>3. 1..k \subseteq 1..Len(q) /\ k + 1..Len(q) \subseteq 1..Len(q)
    BY <1>3
  <2>4. InSeq(taken) \cup InSeq(left) \subseteq InSeq(q)
    BY <1>4, <1>5, <2>3 DEF InSeq
  <2>5. QED BY <2>2, <2>4 DEF InSeq
<1>7. InSeq(taken) \cap InSeq(left) = {}
  BY <1>3, <1>4, <1>5 DEF NoRepeat
<1>8. NoRepeat(left)
  <2> SUFFICES ASSUME NEW i \in 1..Len(left), NEW j \in 1..Len(left), left[i] = left[j]
               PROVE  i = j
    BY DEF NoRepeat
  <2>1. k + i \in 1..Len(q) /\ k + j \in 1..Len(q) /\ q[k + i] = q[k + j]
    BY <1>2, <1>3
  <2>2. QED BY <1>3, <2>1 DEF NoRepeat
<1>9. QED BY <1>1, <1>2, <1>6, <1>7, <1>8 DEF taken, left

-----------------------------------------------------------------------------
(* The inductive invariant. *)

PlaceKinds == {"unsent", "bus", "deferred", "pending", "injected", "task", "command",
               "closed"}

\* Where a message is; the holder is the turn that queues it or was given it.
Located(m, kind, holder) ==
  /\ m \in unsent <=> kind = "unsent"
  /\ m \in InSeq(bus) <=> kind = "bus"
  /\ m \in InSeq(deferred[SessionOf[m]]) <=> kind = "deferred"
  /\ \A x \in Msgs : m \in InSeq(pending[x]) <=> kind = "pending" /\ holder = x
  /\ \A x \in Msgs : m \in inTurn[x] <=> kind = "injected" /\ holder = x
  /\ Live(m) /\ m \notin InSeq(pending[m]) <=> kind = "task"
  /\ m = command <=> kind = "command"
  /\ outcome[m] # "none" <=> kind = "closed"

OnePlace == \A m \in Msgs : \E kind \in PlaceKinds, holder \in Msgs : Located(m, kind, holder)

QueuesDistinct ==
  /\ NoRepeat(bus)
  /\ \A s \in Sessions : NoRepeat(deferred[s])
  /\ \A x \in Msgs : NoRepeat(pending[x])

\* Only automation is deferred, and under its own session.
DeferredOwn ==
  \A s \in Sessions : \A m \in InSeq(deferred[s]) : SessionOf[m] = s /\ Kind[m] = "auto"

\* A turn that has queued its own continuation only ends.
OwnContinuation == \A m \in Msgs : m \in InSeq(pending[m]) => task[m] = "wrapping"

\* A direct call is never queued anywhere, and nothing is queued for it.
DirectAlone ==
  /\ \A m \in Msgs : Kind[m] = "direct" => pending[m] = <<>> /\ task[m] \notin {"gate", "putting"}
  /\ \A m \in InSeq(bus) : Kind[m] # "direct"
  /\ \A x \in Msgs : \A m \in InSeq(pending[x]) : Kind[m] # "direct"

ConsumerFree == loop # "waiting" => command = None

Placed ==
  OnePlace /\ QueuesDistinct /\ DeferredOwn /\ OwnContinuation /\ DirectAlone /\ ConsumerFree

\* A message a step does not move.
Still(m) ==
  /\ m \in unsent' <=> m \in unsent
  /\ m \in InSeq(bus') <=> m \in InSeq(bus)
  /\ m \in InSeq(deferred'[SessionOf[m]]) <=> m \in InSeq(deferred[SessionOf[m]])
  /\ \A x \in Msgs : m \in InSeq(pending'[x]) <=> m \in InSeq(pending[x])
  /\ \A x \in Msgs : m \in inTurn'[x] <=> m \in inTurn[x]
  /\ Live(m)' /\ m \notin InSeq(pending'[m]) <=> Live(m) /\ m \notin InSeq(pending[m])
  /\ m = command' <=> m = command
  /\ outcome'[m] # "none" <=> outcome[m] # "none"

LEMMA Carried ==
  ASSUME OnePlace,
         \A m \in Msgs : \/ Still(m)
                         \/ \E kind \in PlaceKinds, holder \in Msgs : Located(m, kind, holder)'
  PROVE  OnePlace'
<1> SUFFICES ASSUME NEW m \in Msgs, Still(m)
             PROVE  \E kind \in PlaceKinds, holder \in Msgs : Located(m, kind, holder)'
  BY DEF OnePlace
<1>1. PICK kind \in PlaceKinds, holder \in Msgs : Located(m, kind, holder)
  BY DEF OnePlace
<1>2. Located(m, kind, holder)'
  BY <1>1 DEF Located, Still, InSeq
<1>3. QED BY <1>2

\* A message that is in one place is in no other.
LEMMA PlaceOf ==
  ASSUME OnePlace, NEW m \in Msgs
  PROVE  /\ m \in unsent => Located(m, "unsent", m)
         /\ m \in InSeq(bus) => Located(m, "bus", m)
         /\ m \in InSeq(deferred[SessionOf[m]]) => Located(m, "deferred", m)
         /\ \A x \in Msgs : m \in InSeq(pending[x]) => Located(m, "pending", x)
         /\ \A x \in Msgs : m \in inTurn[x] => Located(m, "injected", x)
         /\ Live(m) /\ m \notin InSeq(pending[m]) => Located(m, "task", m)
         /\ m = command => Located(m, "command", m)
         /\ outcome[m] # "none" => Located(m, "closed", m)
<1>1. PICK kind \in PlaceKinds, holder \in Msgs : Located(m, kind, holder)
  BY DEF OnePlace
<1>2. QED BY <1>1 DEF Located

-----------------------------------------------------------------------------
(* One lemma per group of actions. *)

USE DEF busVars, loopVars, taskVars, turnVars, vars

\* A step that moves no message leaves every message where it is.
LEMMA NothingMoves ==
  ASSUME Placed, ConsumerFree',
         UNCHANGED <<unsent, bus, deferred, pending, inTurn, command, outcome>>,
         \A x \in Msgs : \/ task'[x] = task[x]
                         \/ /\ Live(x) /\ Live(x)'
                            /\ task[x] # "wrapping" /\ task'[x] # "putting"
                            /\ Kind[x] = "direct" => task'[x] # "gate"
  PROVE  Placed'
<1>1. \A x \in Msgs : Still(x)
  BY DEF Still, Live
<1>2. OnePlace'
  BY <1>1, Carried DEF Placed
<1>3. QueuesDistinct' /\ DeferredOwn'
  BY DEF Placed, QueuesDistinct, DeferredOwn
<1>4. OwnContinuation' /\ DirectAlone'
  BY DEF Placed, OwnContinuation, DirectAlone
<1>5. QED BY <1>2, <1>3, <1>4 DEF Placed

LEMMA ReachLockTask ==
  ASSUME TypeOK, NEW m \in Msgs, ReachLock(m) \/ Enter(m)
  PROVE  /\ task'[m] \in {"lock", "gate", "running"}
         /\ Kind[m] = "direct" => task'[m] # "gate"
         /\ \A x \in Msgs \ {m} : task'[x] = task[x]
<1>1. task \in [Msgs -> TaskStates]
  BY DEF TypeOK, TaskType
<1>2. QED BY <1>1 DEF ReachLock, Enter

LEMMA StillSteps ==
  ASSUME TypeOK, Placed,
         \/ StartLoop \/ Close
         \/ \E m \in Msgs : \/ Abandon(m) \/ Start(m) \/ AcquireLock(m) \/ AcquireGate(m)
                            \/ RunNew(m)
  PROVE  Placed'
<1>0. task \in [Msgs -> TaskStates]
  BY DEF TypeOK, TaskType
<1>1. CASE StartLoop \/ Close
  BY <1>1, NothingMoves DEF StartLoop, Close, Placed, ConsumerFree
<1>2. ASSUME NEW m \in Msgs, Abandon(m)
      PROVE  Placed'
  BY <1>2, NothingMoves DEF Abandon, Placed, ConsumerFree
<1>3. ASSUME NEW m \in Msgs, Start(m) \/ AcquireLock(m)
      PROVE  Placed'
  <2>1. /\ UNCHANGED <<unsent, bus, deferred, pending, inTurn, command, outcome, loop>>
        /\ task[m] \in {"created", "lock"}
    BY <1>3 DEF Start, AcquireLock
  <2>2. ReachLock(m) \/ Enter(m)
    BY <1>3 DEF Start, AcquireLock
  <2>3. /\ task'[m] \in {"lock", "gate", "running"}
        /\ Kind[m] = "direct" => task'[m] # "gate"
        /\ \A x \in Msgs \ {m} : task'[x] = task[x]
    BY <2>2, ReachLockTask
  <2>4. ConsumerFree'
    BY <2>1 DEF Placed, ConsumerFree
  <2>5. QED BY <2>1, <2>3, <2>4, NothingMoves DEF Live
<1>4. ASSUME NEW m \in Msgs, AcquireGate(m) \/ RunNew(m)
      PROVE  Placed'
  <2>1. /\ UNCHANGED <<unsent, bus, deferred, pending, inTurn, command, outcome, loop>>
        /\ task[m] \in {"gate", "running"}
        /\ task'[m] \in {"running", "clearing"}
        /\ \A x \in Msgs \ {m} : task'[x] = task[x]
    BY <1>0, <1>4 DEF AcquireGate, RunNew
  <2>2. ConsumerFree'
    BY <2>1 DEF Placed, ConsumerFree
  <2>3. QED BY <2>1, <2>2, NothingMoves DEF Live
<1>5. QED BY <1>1, <1>2, <1>3, <1>4

\* A message that leaves its sender: for the bus, ...
LEMMA ToBus ==
  ASSUME TypeOK, Placed, NEW m \in Msgs, m \in unsent, Kind[m] # "direct",
         unsent' = unsent \ {m}, bus' = Append(bus, m),
         UNCHANGED <<loop, command, task, pending, deferred, inTurn, outcome>>
  PROVE  Placed'
<1>1. bus \in Seq(Msgs)
  BY DEF TypeOK, BusType
<1>2. Located(m, "unsent", m)
  BY PlaceOf DEF Placed
<1>3. m \notin InSeq(bus)
  BY <1>2 DEF Located
<1>4. InSeq(bus') = InSeq(bus) \cup {m} /\ NoRepeat(bus')
  BY <1>1, <1>3, AppendMembers DEF Placed, QueuesDistinct
<1>5. \A x \in Msgs \ {m} : Still(x)
  BY <1>4 DEF Still, Live
<1>6. Located(m, "bus", m)'
  BY <1>2, <1>4 DEF Located, Live
<1>7. OnePlace'
  BY <1>5, <1>6, Carried DEF Placed, PlaceKinds
<1>8. QueuesDistinct' /\ DeferredOwn' /\ OwnContinuation' /\ ConsumerFree'
  BY <1>4 DEF Placed, QueuesDistinct, DeferredOwn, OwnContinuation, ConsumerFree
<1>9. DirectAlone'
  BY <1>4 DEF Placed, DirectAlone
<1>10. QED BY <1>7, <1>8, <1>9 DEF Placed

\* ... or for a task in its sender's own.
LEMMA ToTask ==
  ASSUME TypeOK, Placed, NEW m \in Msgs, m \in unsent,
         unsent' = unsent \ {m}, ReachLock(m),
         UNCHANGED <<bus, loop, command, pending, deferred, inTurn, outcome>>
  PROVE  Placed'
<1>1. /\ task'[m] \in {"lock", "gate", "running"}
      /\ Kind[m] = "direct" => task'[m] # "gate"
      /\ \A x \in Msgs \ {m} : task'[x] = task[x]
  BY ReachLockTask
<1>2. Located(m, "unsent", m)
  BY PlaceOf DEF Placed
<1>3. m \notin InSeq(pending[m])
  BY <1>2 DEF Located
<1>4. \A x \in Msgs \ {m} : Still(x)
  BY <1>1 DEF Still, Live
<1>5. Located(m, "task", m)'
  BY <1>1, <1>2 DEF Located, Live
<1>6. OnePlace'
  BY <1>4, <1>5, Carried DEF Placed, PlaceKinds
<1>7. QueuesDistinct' /\ DeferredOwn' /\ ConsumerFree'
  BY DEF Placed, QueuesDistinct, DeferredOwn, ConsumerFree
<1>8. OwnContinuation' /\ DirectAlone'
  BY <1>1, <1>3 DEF Placed, OwnContinuation, DirectAlone
<1>9. QED BY <1>6, <1>7, <1>8 DEF Placed

LEMMA SendersPlace ==
  ASSUME TypeOK, Placed, NEW m \in Msgs, Send(m) \/ Submit(m) \/ CallDirect(m)
  PROVE  Placed'
<1>1. CASE Send(m)
  BY <1>1, ToBus DEF Send
<1>2. CASE Submit(m) /\ loop \in {"ready", "waiting"}
  BY <1>2, ToBus DEF Submit
<1>3. CASE Submit(m) /\ loop \notin {"ready", "waiting"}
  BY <1>3, ToTask DEF Submit
<1>4. CASE CallDirect(m)
  BY <1>4, ToTask DEF CallDirect
<1>5. QED BY <1>1, <1>2, <1>3, <1>4

\* The consumer takes the head of the bus, which is nowhere else.
LEMMA HeadOfBus ==
  ASSUME TypeOK, Placed, NEW m \in Msgs, Consume(m), bus' = Tail(bus)
  PROVE  /\ Located(m, "bus", m)
         /\ Kind[m] # "direct"
         /\ InSeq(bus') = InSeq(bus) \ {m}
         /\ NoRepeat(bus')
<1>1. bus \in Seq(Msgs) /\ bus # <<>> /\ m = Head(bus) /\ NoRepeat(bus)
  BY DEF TypeOK, BusType, Consume, Placed, QueuesDistinct
<1>2. m \in InSeq(bus) /\ InSeq(bus') = InSeq(bus) \ {m} /\ NoRepeat(bus')
  BY <1>1, TailMembers
<1>3. QED BY <1>2, PlaceOf DEF Placed, DirectAlone

LEMMA ControlPlace ==
  ASSUME TypeOK, Placed, NEW m \in Msgs, ConsumeControl(m)
  PROVE  Placed'
<1>1. /\ bus' = Tail(bus) /\ command' = m /\ command = None /\ loop' = "waiting"
      /\ UNCHANGED <<unsent, deferred, task, pending, inTurn, outcome>>
      /\ Consume(m)
  BY DEF ConsumeControl, Consume, Placed, ConsumerFree
<1>2. /\ Located(m, "bus", m) /\ InSeq(bus') = InSeq(bus) \ {m} /\ NoRepeat(bus')
  BY <1>1, HeadOfBus
<1>3. \A x \in Msgs \ {m} : Still(x)
  BY <1>1, <1>2, ConstantsAssumption DEF Still, Live
<1>4. Located(m, "command", m)'
  BY <1>1, <1>2 DEF Located, Live
<1>5. OnePlace'
  BY <1>3, <1>4, Carried DEF Placed, PlaceKinds
<1>6. QueuesDistinct' /\ DeferredOwn' /\ OwnContinuation' /\ ConsumerFree' /\ DirectAlone'
  BY <1>1, <1>2
  DEF Placed, QueuesDistinct, DeferredOwn, OwnContinuation, ConsumerFree, DirectAlone
<1>7. QED BY <1>5, <1>6 DEF Placed

LEMMA DeferPlace ==
  ASSUME TypeOK, Placed, NEW m \in Msgs, ConsumeDefer(m)
  PROVE  Placed'
<1> DEFINE s == SessionOf[m]
<1>1. /\ bus' = Tail(bus) /\ Kind[m] = "auto" /\ Consume(m)
      /\ deferred' = [deferred EXCEPT ![s] = Append(@, m)]
      /\ UNCHANGED <<unsent, loop, command, task, pending, inTurn, outcome>>
  BY DEF ConsumeDefer, MustDefer
<1>2. /\ Located(m, "bus", m) /\ InSeq(bus') = InSeq(bus) \ {m} /\ NoRepeat(bus')
  BY <1>1, HeadOfBus
<1>3. s \in Sessions /\ deferred[s] \in Seq(Msgs) /\ deferred \in [Sessions -> Seq(Msgs)]
  BY ConstantsAssumption DEF TypeOK, BusType
<1>4. m \notin InSeq(deferred[s])
  BY <1>2 DEF Located
<1>5. /\ InSeq(Append(deferred[s], m)) = InSeq(deferred[s]) \cup {m}
      /\ NoRepeat(Append(deferred[s], m))
  BY <1>3, <1>4, AppendMembers DEF Placed, QueuesDistinct
<1>6. /\ InSeq(deferred'[s]) = InSeq(deferred[s]) \cup {m}
      /\ NoRepeat(deferred'[s])
      /\ \A r \in Sessions \ {s} : deferred'[r] = deferred[r]
  BY <1>1, <1>3, <1>5
<1> HIDE DEF s
<1>7. \A x \in Msgs \ {m} : InSeq(deferred'[SessionOf[x]]) \ {m} = InSeq(deferred[SessionOf[x]]) \ {m}
  BY <1>6, ConstantsAssumption
<1>8. \A x \in Msgs \ {m} : Still(x)
  BY <1>1, <1>2, <1>7 DEF Still, Live
<1>9. Located(m, "deferred", m)'
  BY <1>1, <1>2, <1>6 DEF Located, Live, s
<1>10. OnePlace'
  BY <1>8, <1>9, Carried DEF Placed, PlaceKinds
<1>11. QueuesDistinct'
  BY <1>1, <1>2, <1>6 DEF Placed, QueuesDistinct
<1>12. DeferredOwn'
  BY <1>1, <1>6 DEF Placed, DeferredOwn, s
<1>13. OwnContinuation' /\ ConsumerFree' /\ DirectAlone'
  BY <1>1, <1>2 DEF Placed, OwnContinuation, ConsumerFree, DirectAlone
<1>14. QED BY <1>10, <1>11, <1>12, <1>13 DEF Placed

\* The turn a follow-up is routed to is live, so it is another message's turn.
LEMMA RoutePlace ==
  ASSUME TypeOK, Placed, QueueOwned, NEW m \in Msgs, ConsumeRoute(m)
  PROVE  Placed'
<1>0. PICK t \in Msgs : t = slot[SessionOf[m]]
  BY ConstantsAssumption DEF ConsumeRoute, Routes, Active, TypeOK, TurnType
<1>1. /\ bus' = Tail(bus) /\ Consume(m)
      /\ pending' = [pending EXCEPT ![t] = Append(@, m)]
      /\ UNCHANGED <<unsent, loop, command, task, deferred, inTurn, outcome>>
  BY <1>0 DEF ConsumeRoute
<1>2. /\ Located(m, "bus", m) /\ InSeq(bus') = InSeq(bus) \ {m} /\ NoRepeat(bus')
      /\ Kind[m] # "direct"
  BY <1>1, HeadOfBus
<1>3. /\ pending[t] \in Seq(Msgs) /\ pending \in [Msgs -> Seq(Msgs)]
      /\ InTurn(t) /\ Kind[t] # "direct"
  BY <1>0, ConstantsAssumption DEF TypeOK, TurnType, QueueOwned
<1>4. m \notin InSeq(pending[t]) /\ t # m
  BY <1>2, <1>3 DEF Located, Live, InTurn, InTurnStates
<1>5. /\ InSeq(Append(pending[t], m)) = InSeq(pending[t]) \cup {m}
      /\ NoRepeat(Append(pending[t], m))
  BY <1>3, <1>4, AppendMembers DEF Placed, QueuesDistinct
<1>6. /\ InSeq(pending'[t]) = InSeq(pending[t]) \cup {m}
      /\ NoRepeat(pending'[t])
      /\ \A y \in Msgs \ {t} : pending'[y] = pending[y]
  BY <1>1, <1>3, <1>5
<1>7. \A x \in Msgs \ {m} : Still(x)
  <2> SUFFICES ASSUME NEW x \in Msgs \ {m} PROVE Still(x)
    OBVIOUS
  <2>1. \A y \in Msgs : x \in InSeq(pending'[y]) <=> x \in InSeq(pending[y])
    BY <1>6
  <2>2. QED BY <1>1, <1>2, <2>1 DEF Still, Live
<1>8. Located(m, "pending", t)'
  BY <1>1, <1>2, <1>4, <1>6 DEF Located, Live
<1>9. OnePlace'
  BY <1>3, <1>7, <1>8, Carried DEF Placed, PlaceKinds
<1>10. QueuesDistinct' /\ DeferredOwn' /\ ConsumerFree'
  BY <1>1, <1>2, <1>6 DEF Placed, QueuesDistinct, DeferredOwn, ConsumerFree
<1>11. OwnContinuation' /\ DirectAlone'
  BY <1>1, <1>2, <1>3, <1>4, <1>6 DEF Placed, OwnContinuation, DirectAlone
<1>12. QED BY <1>9, <1>10, <1>11 DEF Placed

LEMMA SpawnPlace ==
  ASSUME TypeOK, Placed, NEW m \in Msgs, ConsumeSpawn(m)
  PROVE  Placed'
<1>1. /\ bus' = Tail(bus) /\ Consume(m)
      /\ task' = [task EXCEPT ![m] = "created"] /\ task \in [Msgs -> TaskStates]
      /\ UNCHANGED <<unsent, loop, command, pending, deferred, inTurn, outcome>>
  BY DEF ConsumeSpawn, TypeOK, TaskType
<1>2. /\ Located(m, "bus", m) /\ InSeq(bus') = InSeq(bus) \ {m} /\ NoRepeat(bus')
  BY <1>1, HeadOfBus
<1>3. task'[m] = "created" /\ \A x \in Msgs \ {m} : task'[x] = task[x]
  BY <1>1
<1>4. \A x \in Msgs \ {m} : Still(x)
  BY <1>1, <1>2, <1>3 DEF Still, Live
<1>5. Located(m, "task", m)'
  BY <1>1, <1>2, <1>3 DEF Located, Live
<1>6. OnePlace'
  BY <1>4, <1>5, Carried DEF Placed, PlaceKinds
<1>7. QueuesDistinct' /\ DeferredOwn' /\ ConsumerFree'
  BY <1>1, <1>2 DEF Placed, QueuesDistinct, DeferredOwn, ConsumerFree
<1>8. m \notin InSeq(pending[m])
  BY <1>2 DEF Located
<1>9. OwnContinuation' /\ DirectAlone'
  BY <1>1, <1>2, <1>3, <1>8 DEF Placed, OwnContinuation, DirectAlone
<1>10. QED BY <1>6, <1>7, <1>9 DEF Placed

\* The command is closed, and so are the follow-ups /stop drops; a continuation it
\* takes out of the queue stays with its turn.
LEMMA CommandPlace ==
  ASSUME TypeOK, Placed, ControlDone
  PROVE  Placed'
<1>0. PICK c \in Msgs : c = command
  BY DEF ControlDone, TypeOK, LoopType
<1> DEFINE s == SessionOf[c]
           empties == Kind[c] = "stop" /\ slot[s] # None
<1>1. /\ command' = None /\ s \in Sessions
      /\ UNCHANGED <<unsent, bus, task, inTurn, deferred>>
      /\ pending \in [Msgs -> Seq(Msgs)] /\ slot \in [Sessions -> Msgs \cup {None}]
  BY <1>0, ConstantsAssumption DEF ControlDone, TypeOK, TurnType
<1>2. Located(c, "command", c)
  BY <1>0, PlaceOf DEF Placed
<1>3. ConsumerFree' /\ DeferredOwn'
  BY <1>1 DEF Placed, ConsumerFree, DeferredOwn
<1>4. CASE ~empties
  <2>1. /\ pending' = pending
        /\ outcome' = [m \in Msgs |-> IF m = c THEN "control" ELSE outcome[m]]
    BY <1>0, <1>4 DEF ControlDone
  <2>2. \A x \in Msgs \ {c} : Still(x)
    BY <1>0, <1>1, <2>1, ConstantsAssumption DEF Still, Live
  <2>3. Located(c, "closed", c)'
    BY <1>1, <1>2, <2>1, ConstantsAssumption DEF Located, Live
  <2>4. OnePlace'
    BY <1>1, <2>2, <2>3, Carried DEF Placed, PlaceKinds
  <2>5. QueuesDistinct' /\ OwnContinuation' /\ DirectAlone'
    BY <1>1, <2>1 DEF Placed, QueuesDistinct, OwnContinuation, DirectAlone
  <2>6. QED BY <1>3, <2>4, <2>5 DEF Placed
<1>5. CASE empties
  <2>1. PICK t \in Msgs : t = slot[s]
    BY <1>1, <1>5
  <2>2. /\ pending' = [pending EXCEPT ![t] = <<>>]
        /\ outcome' = [m \in Msgs |-> IF m = c THEN "control"
                                      ELSE IF m \in InSeq(pending[t]) /\ ~InTurn(m)
                                      THEN "dropped" ELSE outcome[m]]
    BY <1>0, <1>5, <2>1 DEF ControlDone
  <2>3. /\ InSeq(pending'[t]) = {} /\ pending'[t] = <<>>
        /\ \A y \in Msgs \ {t} : pending'[y] = pending[y]
    BY <1>1, <2>1, <2>2 DEF InSeq
  <2>4. ASSUME NEW x \in Msgs \ {c}, x \notin InSeq(pending[t])
        PROVE  Still(x)
    <3>1. \A y \in Msgs : x \in InSeq(pending'[y]) <=> x \in InSeq(pending[y])
      BY <2>3, <2>4
    <3>2. outcome'[x] = outcome[x]
      BY <2>2, <2>4
    <3>3. QED BY <1>0, <1>1, <2>4, <3>1, <3>2, ConstantsAssumption DEF Still, Live
  <2>5. ASSUME NEW x \in Msgs, x \in InSeq(pending[t])
        PROVE  \E kind \in PlaceKinds : Located(x, kind, x)'
    <3>1. Located(x, "pending", t)
      BY <2>1, <2>5, PlaceOf DEF Placed
    <3>2. x # c
      BY <1>0, <3>1 DEF Located
    <3>3. CASE x = t
      <4>1. task[x] = "wrapping"
        BY <2>5, <3>3 DEF Placed, OwnContinuation
      <4>2. InTurn(x) /\ outcome'[x] = outcome[x]
        BY <2>2, <3>2, <4>1 DEF InTurn, InTurnStates
      <4>3. Located(x, "task", x)'
        BY <1>1, <2>3, <3>1, <3>2, <3>3, <4>1, <4>2, ConstantsAssumption DEF Located, Live
      <4>4. QED BY <4>3 DEF PlaceKinds
    <3>4. CASE x # t
      <4>1. ~Live(x)
        BY <3>1, <3>4 DEF Located
      <4>2. ~InTurn(x)
        BY <4>1 DEF Live, InTurn, InTurnStates
      <4>3. outcome'[x] = "dropped"
        BY <2>2, <2>5, <3>2, <4>2
      <4>4. Located(x, "closed", x)'
        BY <1>1, <2>3, <3>1, <3>2, <4>1, <4>3, ConstantsAssumption DEF Located, Live
      <4>5. QED BY <4>4 DEF PlaceKinds
    <3>5. QED BY <3>3, <3>4
  <2>6. Located(c, "closed", c)'
    <3>1. outcome'[c] = "control"
      BY <1>1, <2>2
    <3>2. \A y \in Msgs : c \notin InSeq(pending'[y])
      BY <1>2, <2>3 DEF Located
    <3>3. ~Live(c)
      BY <1>1, <1>2 DEF Located
    <3>4. QED BY <1>1, <1>2, <3>1, <3>2, <3>3, ConstantsAssumption DEF Located, Live
  <2>7. OnePlace'
    BY <1>1, <2>4, <2>5, <2>6, Carried DEF Placed, PlaceKinds
  <2>8. QueuesDistinct'
    <3>1. NoRepeat(pending'[t])
      BY <2>3 DEF NoRepeat
    <3>2. QED BY <1>1, <2>3, <3>1 DEF Placed, QueuesDistinct
  <2>9. OwnContinuation' /\ DirectAlone'
    BY <1>1, <2>3 DEF Placed, OwnContinuation, DirectAlone
  <2>10. QED BY <1>3, <2>7, <2>8, <2>9 DEF Placed
<1>6. QED BY <1>4, <1>5

\* A turn moves what it drains from its queue into itself, and may queue itself.
LEMMA TurnMoves ==
  ASSUME TypeOK, Placed, NEW m \in Msgs, NEW taken \in SUBSET Msgs, NEW own \in SUBSET {m},
         m \notin InSeq(pending[m]), Live(m), Live(m)', Kind[m] # "direct",
         own # {} => task'[m] = "wrapping",
         \A x \in Msgs \ {m} : task'[x] = task[x],
         taken \subseteq InSeq(pending[m]),
         InSeq(pending'[m]) = (InSeq(pending[m]) \ taken) \cup own,
         NoRepeat(pending'[m]),
         \A y \in Msgs \ {m} : pending'[y] = pending[y],
         inTurn'[m] = inTurn[m] \cup taken,
         \A y \in Msgs \ {m} : inTurn'[y] = inTurn[y],
         UNCHANGED <<unsent, bus, deferred, command, outcome, loop>>
  PROVE  Placed'
<1>1. \A x \in taken : Located(x, "pending", m) /\ x # m
  BY PlaceOf DEF Placed
<1>2. \A x \in taken : Located(x, "injected", m)'
  <2> SUFFICES ASSUME NEW x \in taken PROVE Located(x, "injected", m)'
    OBVIOUS
  <2>1. Located(x, "pending", m) /\ x # m
    BY <1>1
  <2>2. ~Live(x)'
    BY <2>1 DEF Located, Live
  <2>3. \A y \in Msgs : x \notin InSeq(pending'[y])
    BY <2>1 DEF Located
  <2>4. \A y \in Msgs : x \in inTurn'[y] <=> y = m
    BY <2>1 DEF Located
  <2>5. QED BY <2>1, <2>2, <2>3, <2>4 DEF Located
<1>3. Located(m, "task", m)
  BY PlaceOf DEF Placed
<1>4. ASSUME own = {} PROVE OnePlace'
  <2>1. \A x \in Msgs \ taken : Still(x)
    <3> SUFFICES ASSUME NEW x \in Msgs, x \notin taken PROVE Still(x)
      OBVIOUS
    <3>1. /\ \A y \in Msgs : x \in InSeq(pending'[y]) <=> x \in InSeq(pending[y])
          /\ \A y \in Msgs : x \in inTurn'[y] <=> x \in inTurn[y]
      BY <1>4
    <3>2. Live(x)' <=> Live(x)
      BY DEF Live
    <3>3. QED BY <3>1, <3>2 DEF Still
  <2>2. QED BY <1>2, <2>1, Carried DEF Placed, PlaceKinds
<1>5. ASSUME own = {m} PROVE OnePlace'
  <2>1. \A x \in Msgs \ (taken \cup {m}) : Still(x)
    <3> SUFFICES ASSUME NEW x \in Msgs, x \notin taken, x # m PROVE Still(x)
      OBVIOUS
    <3>1. /\ \A y \in Msgs : x \in InSeq(pending'[y]) <=> x \in InSeq(pending[y])
          /\ \A y \in Msgs : x \in inTurn'[y] <=> x \in inTurn[y]
      BY <1>5
    <3>2. Live(x)' <=> Live(x)
      BY DEF Live
    <3>3. QED BY <3>1, <3>2 DEF Still
  <2>2. Located(m, "pending", m)'
    <3>1. \A y \in Msgs : m \in InSeq(pending'[y]) <=> y = m
      BY <1>3, <1>5 DEF Located
    <3>2. \A y \in Msgs : m \notin inTurn'[y]
      BY <1>1, <1>3 DEF Located
    <3>3. QED BY <1>3, <3>1, <3>2 DEF Located
  <2>3. QED BY <1>2, <2>1, <2>2, Carried DEF Placed, PlaceKinds
<1>6. QueuesDistinct' /\ DeferredOwn' /\ ConsumerFree'
  BY DEF Placed, QueuesDistinct, DeferredOwn, ConsumerFree
<1>7. OwnContinuation' /\ DirectAlone'
  BY DEF Placed, OwnContinuation, DirectAlone
<1>8. QED BY <1>4, <1>5, <1>6, <1>7 DEF Placed


\* What a drain takes and what it leaves.
LEMMA BatchMembers ==
  ASSUME NEW m \in Msgs, pending[m] \in Seq(Msgs), pending[m] # <<>>, NoRepeat(pending[m])
  PROVE  /\ AfterBatch(m) \in Seq(Msgs)
         /\ InSeq(Batch(m)) \subseteq InSeq(pending[m])
         /\ InSeq(AfterBatch(m)) = InSeq(pending[m]) \ InSeq(Batch(m))
         /\ NoRepeat(AfterBatch(m))
<1> DEFINE k == Smaller(InjectLimit, Len(pending[m]))
<1>1. k \in 0..Len(pending[m])
  BY ConstantsAssumption DEF Smaller
<1>2. /\ Batch(m) = SubSeq(pending[m], 1, k)
      /\ AfterBatch(m) = SubSeq(pending[m], k + 1, Len(pending[m]))
  BY DEF Batch, AfterBatch
<1> HIDE DEF k
<1>3. QED BY <1>1, <1>2, SplitMembers

LEMMA BatchLength ==
  ASSUME NEW m \in Msgs, pending[m] \in Seq(Msgs), pending[m] # <<>>
  PROVE  \A k \in 1..Len(Batch(m)) : k \in 0..Len(pending[m])
<1> DEFINE n == Smaller(InjectLimit, Len(pending[m]))
<1>1. n \in 1..Len(pending[m]) /\ Batch(m) = SubSeq(pending[m], 1, n)
  BY ConstantsAssumption DEF Smaller, Batch
<1> HIDE DEF n
<1>2. Len(Batch(m)) = n
  BY <1>1
<1>3. QED BY <1>1, <1>2

\* A turn that still runs has not queued itself.
LEMMA RunningNotQueued ==
  ASSUME TypeOK, Placed, NEW m \in Msgs, task[m] \notin {"none", "done", "wrapping"}
  PROVE  /\ m \notin InSeq(pending[m]) /\ Live(m) /\ Located(m, "task", m)
         /\ pending \in [Msgs -> Seq(Msgs)] /\ NoRepeat(pending[m])
         /\ inTurn \in [Msgs -> SUBSET Msgs] /\ task \in [Msgs -> TaskStates]
<1>1. m \notin InSeq(pending[m]) /\ NoRepeat(pending[m])
  BY DEF Placed, OwnContinuation, QueuesDistinct
<1>2. Live(m)
  BY DEF Live
<1>3. QED BY <1>1, <1>2, PlaceOf DEF Placed, TypeOK, TurnType, TaskType

LEMMA DrainPlace ==
  ASSUME TypeOK, Placed, NEW m \in Msgs, Drain(m)
  PROVE  Placed'
<1>1. /\ task[m] = "running" /\ Kind[m] # "direct" /\ pending[m] # <<>>
      /\ inTurn' = [inTurn EXCEPT ![m] = @ \cup InSeq(Batch(m))]
      /\ pending' = [pending EXCEPT ![m] = AfterBatch(m)]
      /\ UNCHANGED <<unsent, bus, deferred, command, outcome, loop, task>>
  BY DEF Drain, Draining
<1>2. /\ m \notin InSeq(pending[m]) /\ Live(m)
      /\ pending \in [Msgs -> Seq(Msgs)] /\ NoRepeat(pending[m])
      /\ inTurn \in [Msgs -> SUBSET Msgs]
  BY <1>1, RunningNotQueued
<1>3. /\ AfterBatch(m) \in Seq(Msgs)
      /\ InSeq(Batch(m)) \subseteq InSeq(pending[m])
      /\ InSeq(AfterBatch(m)) = InSeq(pending[m]) \ InSeq(Batch(m))
      /\ NoRepeat(AfterBatch(m))
  BY <1>1, <1>2, BatchMembers
<1>4. pending'[m] = AfterBatch(m) /\ \A y \in Msgs \ {m} : pending'[y] = pending[y]
  BY <1>1, <1>2
<1>5. /\ inTurn'[m] = inTurn[m] \cup InSeq(Batch(m))
      /\ \A y \in Msgs \ {m} : inTurn'[y] = inTurn[y]
  BY <1>1, <1>2
<1>6. PICK taken, own : taken = InSeq(Batch(m)) /\ own = {}
  OBVIOUS
<1>7. InSeq(pending[m]) \subseteq Msgs
  BY <1>2 DEF InSeq
<1>8. taken \in SUBSET Msgs /\ Live(m)'
  BY <1>1, <1>2, <1>3, <1>6, <1>7 DEF Live
<1>9. InSeq(pending'[m]) = (InSeq(pending[m]) \ taken) \cup own /\ NoRepeat(pending'[m])
  BY <1>3, <1>4, <1>6
<1>10. \A x \in Msgs \ {m} : task'[x] = task[x]
  BY <1>1
<1>11. QED BY <1>1, <1>2, <1>3, <1>4, <1>5, <1>6, <1>8, <1>9, <1>10, TurnMoves

LEMMA ContinuePlace ==
  ASSUME TypeOK, Placed, NEW m \in Msgs, Continue(m)
  PROVE  Placed'
<1> DEFINE last == cycles[m] < InjectCycles /\ pending[m] # <<>>
           left == IF last THEN AfterBatch(m) ELSE pending[m]
           room == Len(left) < PendingCap
           next == IF room THEN Append(left, m) ELSE left
<1>1. /\ task[m] = "running" /\ Kind[m] # "direct"
      /\ inTurn' = IF last THEN [inTurn EXCEPT ![m] = @ \cup InSeq(Batch(m))] ELSE inTurn
      /\ pending' = [pending EXCEPT ![m] = next]
      /\ task' = [task EXCEPT ![m] = IF room THEN "wrapping" ELSE "putting"]
      /\ UNCHANGED <<unsent, bus, deferred, command, outcome, loop>>
  BY ConstantsAssumption DEF Continue
<1>2. /\ m \notin InSeq(pending[m]) /\ Live(m)
      /\ pending \in [Msgs -> Seq(Msgs)] /\ NoRepeat(pending[m])
      /\ inTurn \in [Msgs -> SUBSET Msgs] /\ task \in [Msgs -> TaskStates]
  BY <1>1, RunningNotQueued
<1>3. InSeq(pending[m]) \subseteq Msgs
  BY <1>2 DEF InSeq
<1>4. PICK taken : taken = IF last THEN InSeq(Batch(m)) ELSE {}
  OBVIOUS
<1>5. /\ left \in Seq(Msgs) /\ NoRepeat(left)
      /\ taken \subseteq InSeq(pending[m])
      /\ InSeq(left) = InSeq(pending[m]) \ taken
  <2>1. CASE last
    BY <1>2, <1>4, <2>1, BatchMembers
  <2>2. CASE ~last
    BY <1>2, <1>4, <2>2
  <2>3. QED BY <2>1, <2>2
<1>6. PICK own : own = IF room THEN {m} ELSE {}
  OBVIOUS
<1> HIDE DEF left
<1>7. InSeq(next) = InSeq(left) \cup own /\ NoRepeat(next)
  <2>1. m \notin InSeq(left)
    BY <1>2, <1>5
  <2>2. QED BY <1>5, <1>6, <2>1, AppendMembers
<1> HIDE DEF next
<1>8. pending'[m] = next /\ \A y \in Msgs \ {m} : pending'[y] = pending[y]
  BY <1>1, <1>2
<1>9. /\ inTurn'[m] = inTurn[m] \cup taken
      /\ \A y \in Msgs \ {m} : inTurn'[y] = inTurn[y]
  BY <1>1, <1>2, <1>4
<1>10. /\ task'[m] \in {"wrapping", "putting"}
       /\ own # {} => task'[m] = "wrapping"
       /\ \A x \in Msgs \ {m} : task'[x] = task[x]
  BY <1>1, <1>2, <1>6
<1>11. Live(m)' /\ own \in SUBSET {m} /\ taken \in SUBSET Msgs
  BY <1>3, <1>5, <1>6, <1>10 DEF Live
<1>12. InSeq(pending'[m]) = (InSeq(pending[m]) \ taken) \cup own /\ NoRepeat(pending'[m])
  BY <1>5, <1>7, <1>8
<1>13. UNCHANGED <<unsent, bus, deferred, command, outcome, loop>>
  BY <1>1
<1>14. Kind[m] # "direct"
  BY <1>1
<1>15. QED BY <1>2, <1>5, <1>8, <1>9, <1>10, <1>11, <1>12, <1>13, <1>14, TurnMoves

LEMMA PutPlace ==
  ASSUME TypeOK, Placed, NEW m \in Msgs, Put(m)
  PROVE  Placed'
<1>1. /\ task[m] = "putting"
      /\ pending' = [pending EXCEPT ![m] = Append(@, m)]
      /\ task' = [task EXCEPT ![m] = "wrapping"]
      /\ UNCHANGED <<unsent, bus, deferred, command, outcome, loop, inTurn>>
  BY DEF Put
<1>2. /\ m \notin InSeq(pending[m]) /\ Live(m)
      /\ pending \in [Msgs -> Seq(Msgs)] /\ NoRepeat(pending[m])
      /\ task \in [Msgs -> TaskStates]
  BY <1>1, RunningNotQueued
<1>3. Kind[m] # "direct"
  BY <1>1 DEF Placed, DirectAlone
<1>4. InSeq(Append(pending[m], m)) = InSeq(pending[m]) \cup {m} /\ NoRepeat(Append(pending[m], m))
  BY <1>2, AppendMembers
<1>5. pending'[m] = Append(pending[m], m) /\ \A y \in Msgs \ {m} : pending'[y] = pending[y]
  BY <1>1, <1>2
<1>6. task'[m] = "wrapping" /\ \A x \in Msgs \ {m} : task'[x] = task[x]
  BY <1>1, <1>2
<1>7. Live(m)'
  BY <1>6 DEF Live
<1>8. PICK taken, own : taken = {} /\ own = {m}
  OBVIOUS
<1>9. InSeq(pending'[m]) = (InSeq(pending[m]) \ taken) \cup own /\ NoRepeat(pending'[m])
  BY <1>4, <1>5, <1>8
<1>10. inTurn'[m] = inTurn[m] \cup taken /\ \A y \in Msgs \ {m} : inTurn'[y] = inTurn[y]
  BY <1>1, <1>8
<1>11. taken \in SUBSET Msgs /\ own \in SUBSET {m} /\ taken \subseteq InSeq(pending[m])
  BY <1>8
<1>12. QED BY <1>1, <1>2, <1>3, <1>5, <1>6, <1>7, <1>9, <1>10, <1>11, TurnMoves

\* A drain that raises closes what it had already taken.
LEMMA DrainFailsPlace ==
  ASSUME TypeOK, Placed, NEW m \in Msgs, DrainFails(m)
  PROVE  Placed'
<1>1. /\ task[m] = "running" /\ pending[m] # <<>>
      /\ UNCHANGED <<unsent, bus, deferred, command, loop, task, inTurn>>
  BY DEF DrainFails, Draining
<1>2. /\ m \notin InSeq(pending[m]) /\ pending \in [Msgs -> Seq(Msgs)]
      /\ NoRepeat(pending[m])
  BY <1>1, RunningNotQueued
<1>3. PICK k \in 1..Len(Batch(m)) :
        /\ pending' = [pending EXCEPT ![m] = SubSeq(@, k + 1, Len(@))]
        /\ outcome' = [x \in Msgs |-> IF x \in InSeq(SubSeq(pending[m], 1, k))
                                      THEN "dropped" ELSE outcome[x]]
  BY DEF DrainFails
<1>4. k \in 0..Len(pending[m])
  BY <1>1, <1>2, BatchLength
<1>5. PICK lost, left : lost = InSeq(SubSeq(pending[m], 1, k)) /\ left = SubSeq(pending[m], k + 1, Len(pending[m]))
  OBVIOUS
<1>6. /\ InSeq(pending[m]) = lost \cup InSeq(left)
      /\ lost \cap InSeq(left) = {} /\ NoRepeat(left)
  BY <1>2, <1>4, <1>5, SplitMembers
<1>7. pending'[m] = left /\ \A y \in Msgs \ {m} : pending'[y] = pending[y]
  BY <1>2, <1>3, <1>5
<1>8. \A x \in Msgs : outcome'[x] = IF x \in lost THEN "dropped" ELSE outcome[x]
  BY <1>3, <1>5
<1>9. \A x \in Msgs \ lost : Still(x)
  <2> SUFFICES ASSUME NEW x \in Msgs, x \notin lost PROVE Still(x)
    OBVIOUS
  <2>1. \A y \in Msgs : x \in InSeq(pending'[y]) <=> x \in InSeq(pending[y])
    BY <1>6, <1>7
  <2>2. Live(x)' <=> Live(x)
    BY <1>1 DEF Live
  <2>3. outcome'[x] = outcome[x]
    BY <1>8
  <2>4. QED BY <1>1, <2>1, <2>2, <2>3 DEF Still
<1>10. ASSUME NEW x \in Msgs, x \in lost
       PROVE  Located(x, "closed", x)'
  <2>1. Located(x, "pending", m) /\ x # m
    BY <1>2, <1>6, <1>10, PlaceOf DEF Placed
  <2>2. \A y \in Msgs : x \notin InSeq(pending'[y])
    BY <1>6, <1>7, <1>10, <2>1 DEF Located
  <2>3. ~Live(x)'
    BY <1>1, <2>1 DEF Located, Live
  <2>4. outcome'[x] = "dropped"
    BY <1>8, <1>10
  <2>5. QED BY <1>1, <2>1, <2>2, <2>3, <2>4 DEF Located
<1>11. OnePlace'
  BY <1>9, <1>10, Carried DEF Placed, PlaceKinds
<1>12. \A y \in Msgs : InSeq(pending'[y]) \subseteq InSeq(pending[y])
  BY <1>6, <1>7
<1>13. \A y \in Msgs : pending[y] = <<>> => pending'[y] = <<>>
  BY <1>1, <1>7
<1>14. QueuesDistinct' /\ DeferredOwn' /\ ConsumerFree'
  BY <1>1, <1>6, <1>7 DEF Placed, QueuesDistinct, DeferredOwn, ConsumerFree
<1>15. OwnContinuation' /\ DirectAlone'
  BY <1>1, <1>12, <1>13 DEF Placed, OwnContinuation, DirectAlone
<1>16. QED BY <1>11, <1>14, <1>15 DEF Placed

\* Items and deferred turns that a step puts on the bus.
Returned(s, items, freed) ==
  /\ freed \subseteq InSeq(deferred[s])
  /\ InSeq(bus') = InSeq(bus) \cup items \cup freed
  /\ NoRepeat(bus')
  /\ \A r \in Sessions : /\ InSeq(deferred'[r]) = InSeq(deferred[r]) \ freed
                         /\ NoRepeat(deferred'[r])

\* A task's end closes its message, unless that is queued, and the riders.
ClosesTask(m, riders) ==
  /\ Live(m)
  /\ task'[m] = "done"
  /\ \A x \in Msgs \ {m} : task'[x] = task[x]
  /\ pending'[m] = <<>>
  /\ \A x \in Msgs \ {m} : pending'[x] = pending[x]
  /\ riders \subseteq inTurn[m]
  /\ inTurn'[m] = inTurn[m] \ riders
  /\ \A x \in Msgs \ {m} : inTurn'[x] = inTurn[x]
  /\ \A x \in Msgs : IF x \in riders \/ (x = m /\ m \notin InSeq(pending[m]))
                     THEN outcome'[x] # "none" ELSE outcome'[x] = outcome[x]
  /\ UNCHANGED <<unsent, command, loop>>

\* A task's end returns what its queue holds to the bus, with at most one deferred
\* automation turn of the session.
LEMMA EndMoves ==
  ASSUME TypeOK, Placed, NEW m \in Msgs, NEW riders, NEW freed,
         ClosesTask(m, riders), Returned(SessionOf[m], InSeq(pending[m]), freed)
  PROVE  Placed'
<1> USE DEF ClosesTask, Returned
<1> DEFINE back == InSeq(pending[m])
<1>1. \A x \in Msgs : SessionOf[x] \in Sessions
  BY ConstantsAssumption
<1>2. /\ InSeq(pending'[m]) = {} /\ NoRepeat(pending'[m])
  BY DEF InSeq, NoRepeat
<1>3. \A x \in freed : x \in Msgs /\ SessionOf[x] = SessionOf[m] /\ Kind[x] = "auto"
  <2>1. deferred[SessionOf[m]] \in Seq(Msgs)
    BY <1>1 DEF TypeOK, BusType
  <2>2. InSeq(deferred[SessionOf[m]]) \subseteq Msgs
    BY <2>1 DEF InSeq
  <2>3. QED BY <1>1, <2>2 DEF Placed, DeferredOwn
<1>4. ~Live(m)' /\ \A x \in Msgs \ {m} : Live(x)' <=> Live(x)
  BY DEF Live
<1>5. ASSUME NEW x \in Msgs, x \in riders
      PROVE  Located(x, "closed", x)'
  <2>1. Located(x, "injected", m)
    BY <1>5, PlaceOf DEF Placed
  <2>2. x # m
    BY <2>1 DEF Located
  <2>3. x \notin InSeq(bus') /\ x \notin InSeq(deferred'[SessionOf[x]])
    BY <1>1, <1>3, <2>1 DEF Located
  <2>4. \A y \in Msgs : x \notin InSeq(pending'[y]) /\ x \notin inTurn'[y]
    BY <1>2, <1>5, <2>1 DEF Located
  <2>5. QED BY <1>4, <1>5, <2>1, <2>2, <2>3, <2>4 DEF Located
<1>6. ASSUME NEW x \in Msgs, x \in back
      PROVE  Located(x, "bus", x)'
  <2>1. Located(x, "pending", m)
    BY <1>6, PlaceOf DEF Placed
  <2>2. x \notin riders /\ ~Live(x)'
    BY <1>4, <2>1 DEF Located
  <2>3. x \in InSeq(bus') /\ x \notin InSeq(deferred'[SessionOf[x]])
    BY <1>1, <1>6, <2>1 DEF Located
  <2>4. \A y \in Msgs : x \notin InSeq(pending'[y]) /\ x \notin inTurn'[y]
    BY <1>2, <2>1 DEF Located
  <2>5. outcome'[x] = outcome[x]
    BY <1>6, <2>2
  <2>6. QED BY <2>1, <2>2, <2>3, <2>4, <2>5 DEF Located
<1>7. ASSUME NEW x \in Msgs, x \in freed
      PROVE  Located(x, "bus", x)'
  <2>1. Located(x, "deferred", x)
    BY <1>3, <1>7, PlaceOf DEF Placed
  <2>2. x \notin riders /\ x \notin back /\ x # m
    BY <2>1 DEF Located
  <2>3. x \in InSeq(bus') /\ x \notin InSeq(deferred'[SessionOf[x]])
    BY <1>1, <1>7
  <2>4. \A y \in Msgs : x \notin InSeq(pending'[y]) /\ x \notin inTurn'[y]
    BY <1>2, <2>1 DEF Located
  <2>5. QED BY <1>4, <2>1, <2>2, <2>3, <2>4 DEF Located
<1>8. ASSUME m \notin back
      PROVE  Located(m, "closed", m)'
  <2>1. Located(m, "task", m)
    BY <1>8, PlaceOf DEF Placed
  <2>2. m \notin InSeq(bus') /\ m \notin InSeq(deferred'[SessionOf[m]])
    BY <1>1, <1>3, <1>8, <2>1 DEF Located
  <2>3. \A y \in Msgs : m \notin InSeq(pending'[y]) /\ m \notin inTurn'[y]
    BY <1>2, <2>1 DEF Located
  <2>4. QED BY <1>4, <1>8, <2>1, <2>2, <2>3 DEF Located
<1>9. ASSUME NEW x \in Msgs, x \notin riders, x \notin back, x \notin freed, x # m
      PROVE  Still(x)
  <2>1. /\ x \in InSeq(bus') <=> x \in InSeq(bus)
        /\ x \in InSeq(deferred'[SessionOf[x]]) <=> x \in InSeq(deferred[SessionOf[x]])
    BY <1>1, <1>9
  <2>2. /\ \A y \in Msgs : x \in InSeq(pending'[y]) <=> x \in InSeq(pending[y])
        /\ \A y \in Msgs : x \in inTurn'[y] <=> x \in inTurn[y]
    BY <1>2, <1>9
  <2>3. outcome'[x] = outcome[x]
    BY <1>9
  <2>4. QED BY <1>4, <1>9, <2>1, <2>2, <2>3 DEF Still
<1>10. OnePlace'
  BY <1>5, <1>6, <1>7, <1>8, <1>9, Carried DEF Placed, PlaceKinds
<1>11. QueuesDistinct' /\ DeferredOwn' /\ ConsumerFree'
  BY <1>2 DEF Placed, QueuesDistinct, DeferredOwn, ConsumerFree
<1>12. OwnContinuation'
  BY <1>2 DEF Placed, OwnContinuation
<1>13. DirectAlone'
  <2>1. \A x \in InSeq(bus') : Kind[x] # "direct"
    BY <1>3 DEF Placed, DirectAlone
  <2>2. \A y \in Msgs : \A x \in InSeq(pending'[y]) : Kind[x] # "direct"
    BY <1>2 DEF Placed, DirectAlone
  <2>3. \A x \in Msgs : Kind[x] = "direct" =>
                           pending'[x] = <<>> /\ task'[x] \notin {"gate", "putting"}
    BY DEF Placed, DirectAlone
  <2>4. QED BY <2>1, <2>2, <2>3 DEF DirectAlone
<1>14. QED BY <1>10, <1>11, <1>12, <1>13 DEF Placed

\* What a release puts on the bus and takes from the deferred turns.
LEMMA ReleaseMembers ==
  ASSUME TypeOK, Placed, NEW s \in Sessions, NEW items \in Seq(Msgs), NoRepeat(items),
         InSeq(items) \cap InSeq(bus) = {}, InSeq(items) \cap InSeq(deferred[s]) = {},
         InSeq(bus) \cap InSeq(deferred[s]) = {},
         Release(s, items)
  PROVE  \E freed : Returned(s, InSeq(items), freed)
<1> USE DEF Returned
<1> DEFINE longer == bus \o items
<1>1. /\ bus \in Seq(Msgs) /\ NoRepeat(bus)
      /\ deferred \in [Sessions -> Seq(Msgs)] /\ \A r \in Sessions : NoRepeat(deferred[r])
  BY DEF TypeOK, BusType, Placed, QueuesDistinct
<1>2. /\ longer \in Seq(Msgs) /\ InSeq(longer) = InSeq(bus) \cup InSeq(items)
      /\ NoRepeat(longer)
  BY <1>1, ConcatMembers
<1>3. CASE deferred[s] = <<>>
  <2>1. bus' = longer /\ deferred' = deferred
    BY <1>3 DEF Release
  <2> HIDE DEF longer
  <2>2. /\ InSeq(bus') = InSeq(bus) \cup InSeq(items) \cup {} /\ NoRepeat(bus')
        /\ \A r \in Sessions : /\ InSeq(deferred'[r]) = InSeq(deferred[r]) \ {}
                               /\ NoRepeat(deferred'[r])
    BY <1>1, <1>2, <2>1
  <2>3. QED BY <2>2
<1>4. CASE deferred[s] # <<>>
  <2> DEFINE h == Head(deferred[s])
             rest == Tail(deferred[s])
  <2>1. bus' = Append(longer, h) /\ deferred' = [deferred EXCEPT ![s] = rest]
    BY <1>4 DEF Release
  <2>2. /\ h \in InSeq(deferred[s]) /\ h \in Msgs /\ NoRepeat(rest)
        /\ InSeq(rest) = InSeq(deferred[s]) \ {h}
    BY <1>1, <1>4, TailMembers
  <2> HIDE DEF longer, h, rest
  <2>3. h \notin InSeq(longer)
    BY <1>2, <2>2
  <2>4. InSeq(bus') = InSeq(bus) \cup InSeq(items) \cup {h} /\ NoRepeat(bus')
    BY <1>2, <2>1, <2>2, <2>3, AppendMembers
  <2>5. \A r \in Sessions \ {s} : h \notin InSeq(deferred[r])
    BY <2>2 DEF Placed, DeferredOwn
  <2>6. deferred'[s] = rest /\ \A r \in Sessions \ {s} : deferred'[r] = deferred[r]
    BY <1>1, <2>1
  <2>7. \A r \in Sessions : /\ InSeq(deferred'[r]) = InSeq(deferred[r]) \ {h}
                            /\ NoRepeat(deferred'[r])
    BY <1>1, <2>2, <2>5, <2>6
  <2>8. QED BY <2>2, <2>4, <2>7
<1>5. QED BY <1>3, <1>4

\* Deferred messages are on no bus and in no queue.
LEMMA DeferredApart ==
  ASSUME TypeOK, Placed, NEW m \in Msgs
  PROVE  /\ InSeq(bus) \cap InSeq(deferred[SessionOf[m]]) = {}
         /\ InSeq(pending[m]) \cap InSeq(deferred[SessionOf[m]]) = {}
         /\ InSeq(pending[m]) \cap InSeq(bus) = {}
<1>1. /\ SessionOf[m] \in Sessions
      /\ bus \in Seq(Msgs) /\ pending[m] \in Seq(Msgs) /\ deferred[SessionOf[m]] \in Seq(Msgs)
  BY ConstantsAssumption DEF TypeOK, BusType, TurnType
<1>2. /\ InSeq(bus) \subseteq Msgs /\ InSeq(pending[m]) \subseteq Msgs
      /\ InSeq(deferred[SessionOf[m]]) \subseteq Msgs
  BY <1>1 DEF InSeq
<1>3. \A x \in InSeq(deferred[SessionOf[m]]) : Located(x, "deferred", x)
  BY <1>1, <1>2, PlaceOf DEF Placed, DeferredOwn
<1>4. \A x \in InSeq(pending[m]) : Located(x, "pending", m)
  BY <1>2, PlaceOf DEF Placed
<1>5. QED BY <1>2, <1>3, <1>4 DEF Located

LEMMA LeavePlace ==
  ASSUME TypeOK, Placed, NEW m \in Msgs, NEW result, result # "none", Live(m), Leave(m, result)
  PROVE  Placed'
<1> DEFINE s == SessionOf[m]
<1>1. /\ s \in Sessions /\ pending \in [Msgs -> Seq(Msgs)] /\ inTurn \in [Msgs -> SUBSET Msgs]
      /\ task \in [Msgs -> TaskStates] /\ NoRepeat(pending[m]) /\ bus \in Seq(Msgs)
  BY ConstantsAssumption
  DEF TypeOK, BusType, TurnType, TaskType, Placed, QueuesDistinct
<1>2. /\ task' = [task EXCEPT ![m] = "done"]
      /\ pending' = [pending EXCEPT ![m] = <<>>]
      /\ inTurn' = [inTurn EXCEPT ![m] = {}]
      /\ outcome' = [x \in Msgs |-> IF x \in ClosedBy(m) THEN result ELSE outcome[x]]
      /\ UNCHANGED <<unsent, command, loop>>
  BY DEF Leave, TaskEnds
<1>4. \E freed : Returned(s, InSeq(pending[m]), freed)
  <2>1. CASE Kind[m] = "direct"
    <3>1. UNCHANGED <<bus, deferred>> /\ pending[m] = <<>>
      BY <2>1 DEF Leave, Placed, DirectAlone
    <3>2. InSeq(pending[m]) = {}
      BY <3>1 DEF InSeq
    <3>3. Returned(s, InSeq(pending[m]), {})
      BY <3>1, <3>2 DEF Returned, Placed, QueuesDistinct
    <3>4. QED BY <3>3
  <2>2. CASE Kind[m] # "direct"
    <3>1. Release(s, pending[m])
      BY <2>2 DEF Leave
    <3>2. QED BY <1>1, <3>1, DeferredApart, ReleaseMembers
  <2>3. QED BY <2>1, <2>2
<1>5. task'[m] = "done" /\ \A x \in Msgs \ {m} : task'[x] = task[x]
  BY <1>1, <1>2
<1>6. pending'[m] = <<>> /\ \A x \in Msgs \ {m} : pending'[x] = pending[x]
  BY <1>1, <1>2
<1>7. /\ inTurn'[m] = inTurn[m] \ inTurn[m]
      /\ \A x \in Msgs \ {m} : inTurn'[x] = inTurn[x]
  BY <1>1, <1>2
<1>8. \A x \in Msgs : IF x \in inTurn[m] \/ (x = m /\ m \notin InSeq(pending[m]))
                      THEN outcome'[x] # "none" ELSE outcome'[x] = outcome[x]
  BY <1>2 DEF ClosedBy
<1>9. ClosesTask(m, inTurn[m])
  BY <1>2, <1>5, <1>6, <1>7, <1>8 DEF ClosesTask
<1>10. QED BY <1>4, <1>9, EndMoves

LEMMA EndsPlace ==
  ASSUME TypeOK, Placed, QueueOwned, NEW m \in Msgs,
         \/ \E result \in {"answered", "failed"} : Finish(m, result)
         \/ FinishNew(m) \/ CancelTurn(m) \/ CancelUnstarted(m) \/ CancelWaiting(m)
  PROVE  Placed'
<1>1. ASSUME NEW result \in {"answered", "failed"}, Finish(m, result)
      PROVE  Placed'
  BY <1>1, LeavePlace DEF Finish, Live
<1>2. CASE FinishNew(m)
  BY <1>2, LeavePlace DEF FinishNew, Live
<1>3. CASE CancelTurn(m)
  BY <1>3, LeavePlace DEF CancelTurn, Live
<1>4. CASE CancelUnstarted(m) \/ CancelWaiting(m)
  <2>1. /\ SessionOf[m] \in Sessions /\ pending \in [Msgs -> Seq(Msgs)]
        /\ task \in [Msgs -> TaskStates] /\ outcome \in [Msgs -> Outcomes]
    BY ConstantsAssumption DEF TypeOK, TurnType, TaskType, AnswerType
  <2>2. /\ task[m] \in {"created", "lock", "gate"}
        /\ task' = [task EXCEPT ![m] = "done"]
        /\ UNCHANGED <<unsent, command, loop, pending, inTurn>>
    BY <1>4 DEF CancelUnstarted, CancelWaiting, TaskEnds
  <2>3. PICK result : result # "none" /\ outcome' = [outcome EXCEPT ![m] = result]
    BY <1>4 DEF CancelUnstarted, CancelWaiting
  <2>4. pending[m] = <<>> /\ Live(m)
    BY <2>2 DEF QueueOwned, InTurn, InTurnStates, Live
  <2>5. InSeq(pending[m]) = {} /\ NoRepeat(pending[m]) /\ pending[m] \in Seq(Msgs)
    BY <2>1, <2>4 DEF InSeq, NoRepeat
  <2>6. \E freed : Returned(SessionOf[m], InSeq(pending[m]), freed)
    <3>1. CASE CancelUnstarted(m)
      <4>1. Returned(SessionOf[m], InSeq(pending[m]), {})
        BY <2>5, <3>1 DEF CancelUnstarted, Returned, Placed, QueuesDistinct
      <4>2. QED BY <4>1
    <3>2. CASE CancelWaiting(m)
      <4>1. Release(SessionOf[m], pending[m])
        BY <2>4, <3>2 DEF CancelWaiting
      <4>2. QED BY <2>1, <2>5, <4>1, DeferredApart, ReleaseMembers
    <3>3. QED BY <1>4, <3>1, <3>2
  <2>7. task'[m] = "done" /\ \A x \in Msgs \ {m} : task'[x] = task[x]
    BY <2>1, <2>2
  <2>8. \A x \in Msgs : IF x \in {} \/ (x = m /\ m \notin InSeq(pending[m]))
                        THEN outcome'[x] # "none" ELSE outcome'[x] = outcome[x]
    BY <2>1, <2>3, <2>5
  <2>9. ClosesTask(m, {})
    BY <2>2, <2>4, <2>7, <2>8 DEF ClosesTask
  <2>10. QED BY <2>6, <2>9, EndMoves
<1>5. QED BY <1>1, <1>2, <1>3, <1>4

-----------------------------------------------------------------------------
(* Who owns the published queue. *)

\* A task that is not in a turn has no queue and is published nowhere.
LEMMA Unpublished ==
  ASSUME TypeOK, QueueOwned, NEW m \in Msgs, ~InTurn(m)
  PROVE  /\ pending[m] = <<>>
         /\ \A s \in Sessions : slot[s] # m
<1>1. \A s \in Sessions : slot[s] = m => slot[s] # None
  BY ConstantsAssumption
<1>2. QED BY <1>1 DEF QueueOwned

\* A step that keeps the published turns in their turns and publishes none.
LEMMA OwnedKept ==
  ASSUME QueueOwned, NEW m \in Msgs,
         \A s \in Sessions : slot'[s] # None => slot'[s] = slot[s] /\ slot'[s] # m,
         \A x \in Msgs \ {m} : InTurn(x) => InTurn(x)',
         \A x \in Msgs : pending'[x] # <<>> => InTurn(x)',
         slot \in [Sessions -> Msgs \cup {None}]
  PROVE  QueueOwned'
<1>1. ASSUME NEW s \in Sessions, slot'[s] # None
      PROVE  SessionOf[slot'[s]] = s /\ task'[slot'[s]] \in InTurnStates /\ Kind[slot'[s]] # "direct"
  <2>1. slot'[s] = slot[s] /\ slot[s] # None /\ slot[s] \in Msgs \ {m}
    BY <1>1
  <2>2. QED BY <2>1 DEF QueueOwned, InTurn
<1>2. QED BY <1>1 DEF QueueOwned, InTurn

\* A turn that goes on.
LEMMA OwnedOn ==
  ASSUME QueueOwned, slot' = slot, slot \in [Sessions -> Msgs \cup {None}],
         \A x \in Msgs : InTurn(x) => InTurn(x)',
         \A x \in Msgs : pending'[x] # <<>> => InTurn(x)'
  PROVE  QueueOwned'
<1>1. ASSUME NEW s \in Sessions, slot'[s] # None
      PROVE  SessionOf[slot'[s]] = s /\ task'[slot'[s]] \in InTurnStates /\ Kind[slot'[s]] # "direct"
  <2>1. slot'[s] = slot[s] /\ slot[s] # None /\ slot[s] \in Msgs
    BY <1>1
  <2>2. QED BY <2>1 DEF QueueOwned, InTurn
<1>2. QED BY <1>1 DEF QueueOwned, InTurn

\* A turn begins and publishes its own queue, unless it is a direct call.
LEMMA OwnedBegins ==
  ASSUME TypeOK, QueueOwned, NEW m \in Msgs, ~InTurn(m), Kind[m] # "direct",
         task' = [task EXCEPT ![m] = "running"],
         slot' = [slot EXCEPT ![SessionOf[m]] = m], pending' = pending
  PROVE  QueueOwned'
<1>1. /\ task \in [Msgs -> TaskStates] /\ slot \in [Sessions -> Msgs \cup {None}]
      /\ SessionOf[m] \in Sessions
  BY ConstantsAssumption DEF TypeOK, TaskType, TurnType
<1>2. task'[m] = "running" /\ \A x \in Msgs \ {m} : task'[x] = task[x]
  BY <1>1
<1>3. \A x \in Msgs : InTurn(x) => InTurn(x)'
  BY <1>2 DEF InTurn, InTurnStates
<1>4. ASSUME NEW s \in Sessions, slot'[s] # None
      PROVE  SessionOf[slot'[s]] = s /\ task'[slot'[s]] \in InTurnStates /\ Kind[slot'[s]] # "direct"
  <2>1. CASE s = SessionOf[m]
    BY <1>1, <1>2, <2>1 DEF InTurnStates
  <2>2. CASE s # SessionOf[m]
    <3>1. slot'[s] = slot[s] /\ slot[s] \in Msgs
      BY <1>1, <1>4, <2>2
    <3>2. QED BY <1>3, <1>4, <3>1 DEF QueueOwned, InTurn
  <2>3. QED BY <2>1, <2>2
<1>5. QED BY <1>3, <1>4 DEF QueueOwned, InTurn

LEMMA OwnedReach ==
  ASSUME TypeOK, QueueOwned, NEW m \in Msgs, ~InTurn(m), ReachLock(m) \/ Enter(m),
         pending' = pending
  PROVE  QueueOwned'
<1>1. task \in [Msgs -> TaskStates] /\ slot \in [Sessions -> Msgs \cup {None}]
  BY DEF TypeOK, TaskType, TurnType
<1>2. CASE Kind[m] # "direct" /\ task' = [task EXCEPT ![m] = "running"]
  <2>1. task'[m] = "running"
    BY <1>1, <1>2
  <2>2. slot' = [slot EXCEPT ![SessionOf[m]] = m]
    BY <1>1, <1>2, <2>1 DEF ReachLock, Enter
  <2>3. QED BY <1>2, <2>2, OwnedBegins
<1>3. CASE ~(Kind[m] # "direct" /\ task' = [task EXCEPT ![m] = "running"])
  <2>1. slot' = slot /\ \A x \in Msgs \ {m} : task'[x] = task[x]
    BY <1>1, <1>3 DEF ReachLock, Enter
  <2>2. \A x \in Msgs : InTurn(x) => InTurn(x)'
    BY <2>1 DEF InTurn
  <2>3. \A x \in Msgs : pending'[x] # <<>> => InTurn(x)'
    BY <2>2 DEF QueueOwned
  <2>4. QED BY <1>1, <2>1, <2>2, <2>3, OwnedOn
<1>4. QED BY <1>2, <1>3

LEMMA OwnedEntry ==
  ASSUME TypeOK, Placed, QueueOwned, NEW m \in Msgs,
         Start(m) \/ AcquireLock(m) \/ AcquireGate(m) \/ Submit(m) \/ CallDirect(m)
  PROVE  QueueOwned'
<1>1. CASE Start(m) \/ AcquireLock(m)
  BY <1>1, OwnedReach DEF Start, AcquireLock, InTurn, InTurnStates
<1>2. CASE AcquireGate(m)
  <2>1. Kind[m] # "direct"
    BY <1>2 DEF AcquireGate, Placed, DirectAlone
  <2>2. QED BY <1>2, <2>1, OwnedBegins DEF AcquireGate, InTurn, InTurnStates
<1>3. CASE Submit(m) \/ CallDirect(m)
  <2>1. m \in unsent /\ pending' = pending
    BY <1>3 DEF Submit, CallDirect
  <2>2. Located(m, "unsent", m)
    BY <2>1, PlaceOf DEF Placed
  <2>3. ~InTurn(m)
    BY <2>2 DEF Located, Live, InTurn, InTurnStates
  <2>4. CASE ReachLock(m)
    BY <2>1, <2>3, <2>4, OwnedReach
  <2>5. CASE UNCHANGED <<task, slot>>
    <3>1. slot \in [Sessions -> Msgs \cup {None}]
      BY DEF TypeOK, TurnType
    <3>2. QED BY <2>1, <2>5, <3>1, OwnedOn DEF QueueOwned, InTurn
  <2>6. QED BY <1>3, <2>4, <2>5 DEF Submit, CallDirect
<1>4. QED BY <1>1, <1>2, <1>3

LEMMA OwnedTurn ==
  ASSUME TypeOK, Placed, QueueOwned, NEW m \in Msgs,
         Drain(m) \/ DrainFails(m) \/ Continue(m) \/ Put(m) \/ RunNew(m)
  PROVE  QueueOwned'
<1>1. /\ task \in [Msgs -> TaskStates] /\ slot \in [Sessions -> Msgs \cup {None}]
      /\ pending \in [Msgs -> Seq(Msgs)]
  BY DEF TypeOK, TaskType, TurnType
<1>2. slot' = slot
  BY DEF Drain, DrainFails, Continue, Put, RunNew
<1>3. InTurn(m) /\ InTurn(m)'
  <2>1. task[m] \in {"running", "putting"}
    BY DEF Drain, DrainFails, Draining, Continue, Put, RunNew
  <2>2. task'[m] \in {"running", "wrapping", "putting", "clearing"}
    BY <1>1 DEF Drain, DrainFails, Draining, Continue, Put, RunNew
  <2>3. QED BY <2>1, <2>2 DEF InTurn, InTurnStates
<1>4. \A x \in Msgs \ {m} : task'[x] = task[x] /\ pending'[x] = pending[x]
  BY <1>1 DEF Drain, DrainFails, Continue, Put, RunNew
<1>5. \A x \in Msgs : InTurn(x) => InTurn(x)'
  BY <1>3, <1>4 DEF InTurn
<1>6. \A x \in Msgs : pending'[x] # <<>> => InTurn(x)'
  BY <1>3, <1>4, <1>5 DEF QueueOwned
<1>7. QED BY <1>1, <1>2, <1>5, <1>6, OwnedOn

LEMMA OwnedConsumer ==
  ASSUME TypeOK, Placed, QueueOwned, NEW m \in Msgs, ConsumeRoute(m) \/ ConsumeSpawn(m)
  PROVE  QueueOwned'
<1>1. /\ task \in [Msgs -> TaskStates] /\ slot \in [Sessions -> Msgs \cup {None}]
      /\ pending \in [Msgs -> Seq(Msgs)]
  BY DEF TypeOK, TaskType, TurnType
<1>2. CASE ConsumeRoute(m)
  <2>1. PICK t \in Msgs : t = slot[SessionOf[m]]
    BY <1>2, ConstantsAssumption DEF ConsumeRoute, Routes, Active, TypeOK, TurnType
  <2>2. InTurn(t)
    BY <2>1, ConstantsAssumption DEF QueueOwned
  <2>3. task' = task /\ slot' = slot /\ \A x \in Msgs \ {t} : pending'[x] = pending[x]
    BY <1>1, <1>2, <2>1 DEF ConsumeRoute
  <2>4. \A x \in Msgs : InTurn(x) => InTurn(x)'
    BY <2>3 DEF InTurn
  <2>5. \A x \in Msgs : pending'[x] # <<>> => InTurn(x)'
    BY <2>2, <2>3, <2>4 DEF QueueOwned
  <2>6. QED BY <1>1, <2>3, <2>4, <2>5, OwnedOn
<1>3. CASE ConsumeSpawn(m)
  <2>1. Located(m, "bus", m)
    BY <1>3, HeadOfBus DEF ConsumeSpawn
  <2>2. ~InTurn(m)
    BY <2>1 DEF Located, Live, InTurn, InTurnStates
  <2>3. slot' = slot /\ pending' = pending /\ \A x \in Msgs \ {m} : task'[x] = task[x]
    BY <1>1, <1>3 DEF ConsumeSpawn
  <2>4. \A x \in Msgs : InTurn(x) => InTurn(x)'
    BY <2>2, <2>3 DEF InTurn
  <2>5. \A x \in Msgs : pending'[x] # <<>> => InTurn(x)'
    BY <2>3, <2>4 DEF QueueOwned
  <2>6. QED BY <1>1, <2>3, <2>4, <2>5, OwnedOn
<1>4. QED BY <1>2, <1>3

\* /stop unpublishes a queue and empties it.
LEMMA OwnedCommand ==
  ASSUME TypeOK, QueueOwned, ControlDone
  PROVE  QueueOwned'
<1>1. /\ slot \in [Sessions -> Msgs \cup {None}] /\ pending \in [Msgs -> Seq(Msgs)]
      /\ SessionOf[command] \in Sessions /\ task' = task
  BY ConstantsAssumption DEF ControlDone, TypeOK, LoopType, TurnType
<1>2. \A x \in Msgs : InTurn(x)' <=> InTurn(x)
  BY <1>1 DEF InTurn
<1>3. \A x \in Msgs : pending'[x] # <<>> => pending[x] # <<>>
  BY <1>1 DEF ControlDone
<1>4. \A s \in Sessions : slot'[s] # None => slot'[s] = slot[s]
  BY <1>1 DEF ControlDone
<1>5. ASSUME NEW s \in Sessions, slot'[s] # None
      PROVE  SessionOf[slot'[s]] = s /\ task'[slot'[s]] \in InTurnStates /\ Kind[slot'[s]] # "direct"
  BY <1>1, <1>4, <1>5 DEF QueueOwned, InTurn
<1>6. QED BY <1>2, <1>3, <1>5 DEF QueueOwned, InTurn

\* The exit of a turn withdraws the queue if it is still this turn's own.
LEMMA OwnedEnds ==
  ASSUME TypeOK, QueueOwned, NEW m \in Msgs,
         \/ \E result \in {"answered", "failed"} : Finish(m, result)
         \/ FinishNew(m) \/ CancelTurn(m) \/ CancelUnstarted(m) \/ CancelWaiting(m)
  PROVE  QueueOwned'
<1>1. /\ task \in [Msgs -> TaskStates] /\ slot \in [Sessions -> Msgs \cup {None}]
      /\ pending \in [Msgs -> Seq(Msgs)] /\ SessionOf[m] \in Sessions /\ m # None
  BY ConstantsAssumption DEF TypeOK, TaskType, TurnType
<1>2. TaskEnds(m)
  BY DEF Finish, FinishNew, CancelTurn, CancelUnstarted, CancelWaiting, Leave
<1>3. \A x \in Msgs \ {m} : task'[x] = task[x]
  BY <1>1, <1>2 DEF TaskEnds
<1>4. \A x \in Msgs \ {m} : InTurn(x) => InTurn(x)'
  BY <1>3 DEF InTurn
<1>5. ASSUME NEW result, Leave(m, result)
      PROVE  QueueOwned'
  <2>1. pending'[m] = <<>> /\ \A x \in Msgs \ {m} : pending'[x] = pending[x]
    BY <1>1, <1>5 DEF Leave
  <2>2. \A x \in Msgs : pending'[x] # <<>> => InTurn(x)'
    BY <1>4, <2>1 DEF QueueOwned
  <2>3. slot' = [slot EXCEPT ![SessionOf[m]] = IF @ = m THEN None ELSE @]
    BY <1>5 DEF Leave, Unpublish
  <2>4. \A s \in Sessions : slot[s] = m => s = SessionOf[m]
    BY <1>1 DEF QueueOwned
  <2>5. \A s \in Sessions : slot'[s] # None => slot'[s] = slot[s] /\ slot'[s] # m
    BY <1>1, <2>3, <2>4
  <2>6. QED BY <1>1, <1>4, <2>2, <2>5, OwnedKept
<1>6. CASE CancelUnstarted(m) \/ CancelWaiting(m)
  <2>1. ~InTurn(m) /\ slot' = slot /\ pending' = pending
    BY <1>6 DEF CancelUnstarted, CancelWaiting, InTurn, InTurnStates
  <2>2. pending[m] = <<>> /\ \A s \in Sessions : slot[s] # m
    BY <2>1, Unpublished
  <2>3. \A x \in Msgs : pending'[x] # <<>> => InTurn(x)'
    BY <1>4, <2>1, <2>2 DEF QueueOwned
  <2>4. QED BY <1>1, <1>4, <2>1, <2>2, <2>3, OwnedKept
<1>7. QED BY <1>5, <1>6 DEF Finish, FinishNew, CancelTurn

-----------------------------------------------------------------------------
(* The invariant of the specification. *)

Inv == TypeOK /\ Placed /\ QueueOwned

LEMMA InitInv == Init => Placed /\ QueueOwned
<1> SUFFICES ASSUME Init PROVE Placed /\ QueueOwned
  OBVIOUS
<1>1. \A m \in Msgs : Located(m, "unsent", m)
  BY ConstantsAssumption DEF Init, Located, Live, InSeq
<1>2. OnePlace
  BY <1>1 DEF OnePlace, PlaceKinds
<1>3. QueuesDistinct /\ DeferredOwn /\ OwnContinuation /\ ConsumerFree
  BY DEF Init, QueuesDistinct, NoRepeat, DeferredOwn, OwnContinuation, ConsumerFree, InSeq
<1>4. DirectAlone /\ QueueOwned
  BY DEF Init, DirectAlone, QueueOwned, InSeq
<1>5. QED BY <1>2, <1>3, <1>4 DEF Placed

LEMMA StepPlaced == Inv /\ [Next]_vars => Placed'
<1> SUFFICES ASSUME TypeOK, Placed, QueueOwned, [Next]_vars PROVE Placed'
  BY DEF Inv
<1>1. CASE UNCHANGED vars
  BY <1>1 DEF Placed, OnePlace, Located, Live, QueuesDistinct, DeferredOwn, OwnContinuation,
              DirectAlone, ConsumerFree
<1>2. CASE Outside
  BY <1>2, StillSteps, SendersPlace DEF Outside
<1>3. CASE ConsumerStep
  BY <1>3, StillSteps, ControlPlace, DeferPlace, RoutePlace, SpawnPlace, CommandPlace
  DEF ConsumerStep
<1>4. ASSUME NEW m \in Msgs, TurnStep(m)
      PROVE  Placed'
  BY <1>4, StillSteps, DrainPlace, DrainFailsPlace, ContinuePlace, PutPlace, EndsPlace
  DEF TurnStep
<1>5. QED BY <1>1, <1>2, <1>3, <1>4 DEF Next

LEMMA StepOwned == Inv /\ [Next]_vars => QueueOwned'
<1> SUFFICES ASSUME TypeOK, Placed, QueueOwned, [Next]_vars PROVE QueueOwned'
  BY DEF Inv
<1>0. slot \in [Sessions -> Msgs \cup {None}]
  BY DEF TypeOK, TurnType
<1>1. CASE UNCHANGED <<slot, task, pending>>
  BY <1>0, <1>1, OwnedOn DEF QueueOwned, InTurn
<1>2. CASE Outside
  <2>1. CASE \E m \in Msgs : Submit(m) \/ CallDirect(m)
    BY <2>1, OwnedEntry
  <2>2. CASE ~\E m \in Msgs : Submit(m) \/ CallDirect(m)
    BY <1>1, <1>2, <2>2 DEF Outside, Close, Send, Abandon
  <2>3. QED BY <2>1, <2>2
<1>3. CASE ConsumerStep
  <2>1. CASE StartLoop \/ \E m \in Msgs : ConsumeControl(m) \/ ConsumeDefer(m)
    BY <1>1, <2>1 DEF StartLoop, ConsumeControl, ConsumeDefer
  <2>2. QED BY <1>3, <2>1, OwnedConsumer, OwnedCommand DEF ConsumerStep
<1>4. ASSUME NEW m \in Msgs, TurnStep(m)
      PROVE  QueueOwned'
  BY <1>4, OwnedEntry, OwnedTurn, OwnedEnds DEF TurnStep
<1>5. CASE UNCHANGED vars
  BY <1>1, <1>5
<1>6. QED BY <1>2, <1>3, <1>4, <1>5 DEF Next

LEMMA Invariance == Spec => []Inv
<1>1. Init => Placed /\ QueueOwned
  BY InitInv
<1>2. Placed /\ QueueOwned /\ TypeOK /\ [Next]_vars => Placed' /\ QueueOwned'
  BY StepPlaced, StepOwned DEF Inv
<1>3. Spec => [](Placed /\ QueueOwned)
  BY <1>1, <1>2, TypeCorrect, PTL DEF Spec
<1>4. QED BY <1>3, TypeCorrect, PTL DEF Inv

\* The queue published for a session is its running turn's own, for any messages,
\* sessions and limits: no exit of an old turn withdraws a newer turn's queue.
THEOREM QueuesOwned == Spec => []QueueOwned
BY Invariance, PTL DEF Inv

-----------------------------------------------------------------------------
(* Every message in exactly one place. *)

\* The places of a message, by the kind of place it is in.
LEMMA OnePlaceCounts ==
  ASSUME TypeOK, Placed, NEW m \in Msgs
  PROVE  Cardinality(Places(m)) = 1
<1> DEFINE Indices(q) == {i \in 1..Len(q) : q[i] = m}
<1>1. \A q : m \notin InSeq(q) => Indices(q) = {}
  BY DEF InSeq
<1>2. ASSUME NEW q, m \in InSeq(q), NoRepeat(q)
      PROVE  \E i : Indices(q) = {i}
  <2>1. PICK i \in 1..Len(q) : q[i] = m
    BY <1>2 DEF InSeq
  <2>2. Indices(q) = {i}
    BY <1>2, <2>1 DEF NoRepeat
  <2>3. QED BY <2>2
<1>3. /\ SessionOf[m] \in Sessions
      /\ NoRepeat(bus) /\ NoRepeat(deferred[SessionOf[m]])
      /\ \A x \in Msgs : NoRepeat(pending[x])
  BY ConstantsAssumption DEF Placed, QueuesDistinct
<1>4. PICK kind \in PlaceKinds, holder \in Msgs : Located(m, kind, holder)
  BY DEF Placed, OnePlace
<1> HIDE DEF Indices
<1> DEFINE unsents == {<<"unsent", x>> : x \in unsent \cap {m}}
           inBus == {<<"bus", i>> : i \in {j \in 1..Len(bus) : bus[j] = m}}
           inDeferred == {<<"deferred", i>> : i \in {j \in 1..Len(deferred[SessionOf[m]]) :
                                                     deferred[SessionOf[m]][j] = m}}
           inQueues == (UNION {{<<x, i>> : i \in {j \in 1..Len(pending[x]) : pending[x][j] = m}} :
                              x \in Msgs})
           riding == {<<"injected", x>> : x \in {y \in Msgs : m \in inTurn[y]}}
           inTask == {<<"task", x>> : x \in {y \in {m} : Live(y) /\ y \notin InSeq(pending[y])}}
           asCommand == {<<"command", x>> : x \in {command} \cap {m}}
           closed == {<<"closed", x>> : x \in {y \in {m} : outcome[y] # "none"}}
<1>5. Places(m) = unsents \cup inBus \cup inDeferred \cup inQueues \cup riding \cup inTask
                  \cup asCommand \cup closed
  BY Zenon DEF Places, unsents, inBus, inDeferred, inQueues, riding, inTask, asCommand, closed
<1>6. /\ kind # "unsent" => unsents = {}
      /\ kind = "unsent" => unsents = {<<"unsent", m>>}
  BY <1>4 DEF Located
<1>7. /\ kind # "bus" => inBus = {}
      /\ kind = "bus" => \E p : inBus = {p}
  <2>0. inBus = {<<"bus", i>> : i \in Indices(bus)}
    BY DEF Indices
  <2>1. kind # "bus" => Indices(bus) = {}
    BY <1>1, <1>4 DEF Located
  <2>2. ASSUME kind = "bus"
        PROVE  \E p : inBus = {p}
    <3>1. PICK i : Indices(bus) = {i}
      BY <1>2, <1>3, <1>4, <2>2 DEF Located
    <3>2. inBus = {<<"bus", i>>}
      BY <2>0, <3>1
    <3>3. QED BY <3>2
  <2>3. QED BY <2>0, <2>1, <2>2
<1>8. /\ kind # "deferred" => inDeferred = {}
      /\ kind = "deferred" => \E p : inDeferred = {p}
  <2>0. inDeferred = {<<"deferred", i>> : i \in Indices(deferred[SessionOf[m]])}
    BY DEF Indices
  <2>1. kind # "deferred" => Indices(deferred[SessionOf[m]]) = {}
    BY <1>1, <1>4 DEF Located
  <2>2. ASSUME kind = "deferred"
        PROVE  \E p : inDeferred = {p}
    <3>1. PICK i : Indices(deferred[SessionOf[m]]) = {i}
      BY <1>2, <1>3, <1>4, <2>2 DEF Located
    <3>2. inDeferred = {<<"deferred", i>>}
      BY <2>0, <3>1
    <3>3. QED BY <3>2
  <2>3. QED BY <2>0, <2>1, <2>2
<1>9. /\ kind # "pending" => inQueues = {}
      /\ kind = "pending" => \E p : inQueues = {p}
  <2> DEFINE inQueue(x) == {<<x, i>> : i \in Indices(pending[x])}
  <2>0. inQueues = UNION {inQueue(x) : x \in Msgs}
    BY DEF Indices
  <2>1. \A x \in Msgs : (kind # "pending" \/ x # holder) => Indices(pending[x]) = {}
    BY <1>1, <1>4 DEF Located
  <2>2. ASSUME kind = "pending"
        PROVE  \E p : inQueue(holder) = {p}
    <3>1. PICK i : Indices(pending[holder]) = {i}
      BY <1>2, <1>3, <1>4, <2>2 DEF Located
    <3>2. inQueue(holder) = {<<holder, i>>}
      BY <3>1
    <3>3. QED BY <3>2
  <2>3. \A x \in Msgs : (kind # "pending" \/ x # holder) => inQueue(x) = {}
    BY <2>1
  <2>4. \A z : z \in inQueues <=> \E x \in Msgs : z \in inQueue(x)
    BY <2>0
  <2> HIDE DEF inQueue, inQueues
  <2>5. ASSUME kind # "pending" PROVE inQueues = {}
    BY <2>3, <2>4, <2>5
  <2>6. ASSUME kind = "pending" PROVE \E p : inQueues = {p}
    <3>1. PICK p : inQueue(holder) = {p}
      BY <2>2, <2>6
    <3>2. \A z : z \in inQueues <=> z = p
      BY <2>3, <2>4, <2>6, <3>1
    <3>3. inQueues = {p}
      BY <3>2
    <3>4. QED BY <3>3
  <2>7. QED BY <2>5, <2>6
<1>10. /\ kind # "injected" => riding = {}
       /\ kind = "injected" => riding = {<<"injected", holder>>}
  BY <1>4 DEF Located
<1>11. /\ kind # "task" => inTask = {}
       /\ kind = "task" => inTask = {<<"task", m>>}
  BY <1>4 DEF Located
<1>12. /\ kind # "command" => asCommand = {}
       /\ kind = "command" => asCommand = {<<"command", m>>}
  BY <1>4 DEF Located
<1>13. /\ kind # "closed" => closed = {}
       /\ kind = "closed" => closed = {<<"closed", m>>}
  BY <1>4 DEF Located
<1> HIDE DEF unsents, inBus, inDeferred, inQueues, riding, inTask, asCommand, closed
<1>14. \E p : Places(m) = {p}
  BY <1>5, <1>6, <1>7, <1>8, <1>9, <1>10, <1>11, <1>12, <1>13 DEF PlaceKinds
<1>15. QED BY <1>14, FS_Singleton

\* No message is lost, duplicated or closed while something still holds it, for any
\* messages, sessions and limits, through routing, deferral, injection, failed drains,
\* continuation, cancellation, /stop, /new and shutdown.
THEOREM NothingLostOrDoubled == Spec => []Accounted
<1>1. Inv => Accounted
  BY OnePlaceCounts DEF Inv, Accounted
<1>2. QED BY <1>1, Invariance, PTL

==============================================================================
