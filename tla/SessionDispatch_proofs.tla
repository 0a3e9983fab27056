------------------------ MODULE SessionDispatch_proofs ------------------------
(***************************************************************************)
(* Theorems about session dispatch, for every set of messages and sessions *)
(* and every value of the limits.                                          *)
(***************************************************************************)
EXTENDS SessionDispatch, SequenceTheorems, TLAPS

\* What the queue helpers return.
LEMMA WithoutType ==
  ASSUME NEW S, NEW q \in Seq(S), NEW m
  PROVE  Without(q, m) \in Seq(S)
<1>1. CASE m \in InSeq(q)
  <2> DEFINE i == Place(q, m)
  <2>1. i \in 1..Len(q)
    BY <1>1 DEF InSeq, Place
  <2> HIDE DEF i
  <2>2. SubSeq(q, 1, i - 1) \in Seq(S)
    BY <2>1
  <2>3. SubSeq(q, i + 1, Len(q)) \in Seq(S)
    BY <2>1
  <2>4. SubSeq(q, 1, i - 1) \o SubSeq(q, i + 1, Len(q)) \in Seq(S)
    BY <2>2, <2>3
  <2>5. QED BY <1>1, <2>4 DEF Without, i
<1>2. CASE m \notin InSeq(q)
  BY <1>2 DEF Without
<1>3. QED BY <1>1, <1>2

\* A batch and what it leaves are sequences, and nothing grows.
LEMMA BatchType ==
  ASSUME NEW m \in Msgs, pending[m] \in Seq(Msgs), pending[m] # <<>>
  PROVE  /\ Batch(m) \in Seq(Msgs)
         /\ AfterBatch(m) \in Seq(Msgs)
         /\ Len(AfterBatch(m)) < Len(pending[m])
         /\ InSeq(Batch(m)) \subseteq InSeq(pending[m])
         /\ InSeq(AfterBatch(m)) \subseteq InSeq(pending[m])
<1> DEFINE q == pending[m]
<1> DEFINE k == Smaller(InjectLimit, Len(q))
<1>1. k \in 1..Len(q)
  BY ConstantsAssumption DEF Smaller
<1>2. Batch(m) = SubSeq(q, 1, k) /\ AfterBatch(m) = SubSeq(q, k + 1, Len(q))
  BY DEF Batch, AfterBatch
<1> HIDE DEF k
<1>3. QED
  BY <1>1, <1>2 DEF InSeq

-----------------------------------------------------------------------------
(* Type correctness, one lemma per group of actions. *)

USE DEF busVars, loopVars, taskVars, turnVars, vars

LEMMA EnterType ==
  ASSUME TypeOK, NEW m \in Msgs, Enter(m)
  PROVE  /\ task' \in [Msgs -> TaskStates]
         /\ gateQ' \in Seq(Msgs)
         /\ slot' \in [Sessions -> Msgs \cup {None}]
<1>1. SessionOf[m] \in Sessions
  BY ConstantsAssumption
<1>2. task \in [Msgs -> TaskStates] /\ gateQ \in Seq(Msgs)
      /\ slot \in [Sessions -> Msgs \cup {None}]
  BY DEF TypeOK, TaskType, QueueType, TurnType
<1>3. task' \in [Msgs -> TaskStates]
  BY <1>2 DEF Enter, TaskStates
<1>4. gateQ' \in Seq(Msgs)
  <2>1. gateQ' = gateQ \/ gateQ' = Append(gateQ, m)
    BY DEF Enter
  <2>2. QED BY <1>2, <2>1
<1>5. slot' \in [Sessions -> Msgs \cup {None}]
  <2>1. slot' = slot \/ slot' = [slot EXCEPT ![SessionOf[m]] = m]
    BY DEF Enter
  <2>2. QED BY <1>1, <1>2, <2>1
<1>6. QED BY <1>3, <1>4, <1>5

LEMMA ReachLockType ==
  ASSUME TypeOK, NEW m \in Msgs, ReachLock(m)
  PROVE  /\ task' \in [Msgs -> TaskStates]
         /\ lockQ' \in [Sessions -> Seq(Msgs)]
         /\ gateQ' \in Seq(Msgs)
         /\ slot' \in [Sessions -> Msgs \cup {None}]
<1>1. task \in [Msgs -> TaskStates] /\ lockQ \in [Sessions -> Seq(Msgs)]
      /\ gateQ \in Seq(Msgs) /\ slot \in [Sessions -> Msgs \cup {None}]
  BY DEF TypeOK, TaskType, QueueType, TurnType
<1>2. CASE LockFree(SessionOf[m]) /\ Unwaited(lockQ[SessionOf[m]])
  BY <1>1, <1>2, EnterType DEF ReachLock
<1>3. CASE ~(LockFree(SessionOf[m]) /\ Unwaited(lockQ[SessionOf[m]]))
  <2> DEFINE longer == Append(lockQ[SessionOf[m]], m)
  <2>1. SessionOf[m] \in Sessions
    BY ConstantsAssumption
  <2>2. longer \in Seq(Msgs)
    BY <1>1, <2>1
  <2>3. /\ task' = [task EXCEPT ![m] = "lock"]
        /\ lockQ' = [lockQ EXCEPT ![SessionOf[m]] = longer]
        /\ UNCHANGED <<gateQ, slot>>
    BY <1>3 DEF ReachLock
  <2> HIDE DEF longer
  <2>4. QED BY <1>1, <2>1, <2>2, <2>3 DEF TaskStates
<1>4. QED BY <1>2, <1>3

LEMMA ReleaseType ==
  ASSUME BusType, NEW s \in Sessions, NEW items \in Seq(Msgs), Release(s, items)
  PROVE  bus' \in Seq(Msgs) /\ deferred' \in [Sessions -> Seq(Msgs)]
<1>1. bus \o items \in Seq(Msgs)
  BY DEF BusType
<1>2. CASE deferred[s] = <<>>
  BY <1>1, <1>2 DEF BusType, Release
<1>3. CASE deferred[s] # <<>>
  <2> DEFINE longer == bus \o items
             next == Head(deferred[s])
             shorter == Tail(deferred[s])
  <2>1. deferred[s] \in Seq(Msgs)
    BY DEF BusType
  <2>2. next \in Msgs /\ shorter \in Seq(Msgs)
    BY <1>3, <2>1
  <2>3. bus' = Append(longer, next) /\ deferred' = [deferred EXCEPT ![s] = shorter]
    BY <1>3 DEF Release
  <2>4. longer \in Seq(Msgs)
    BY <1>1
  <2> HIDE DEF longer, next, shorter
  <2>5. bus' \in Seq(Msgs)
    BY <2>2, <2>3, <2>4
  <2>6. deferred' \in [Sessions -> Seq(Msgs)]
    BY <2>2, <2>3 DEF BusType
  <2>7. QED BY <2>5, <2>6
<1>4. QED BY <1>2, <1>3

LEMMA TaskEndsType ==
  ASSUME TaskType, LoopType, NEW m \in Msgs, TaskEnds(m)
  PROVE  TaskType' /\ awaited' \subseteq Msgs
BY DEF TaskType, LoopType, TaskEnds, TaskStates

\* Replacing one turn's queue by a bounded one.
LEMMA PendingType ==
  ASSUME TurnType, NEW x \in Msgs, NEW q \in Seq(Msgs), Len(q) <= PendingCap,
         pending' = [pending EXCEPT ![x] = q]
  PROVE  /\ pending' \in [Msgs -> Seq(Msgs)]
         /\ \A m \in Msgs : Len(pending'[m]) <= PendingCap
BY DEF TurnType

\* Taking the lock and the gate keeps the types.
LEMMA EntryTypes ==
  ASSUME TypeOK, NEW m \in Msgs, Start(m) \/ AcquireLock(m) \/ AcquireGate(m)
  PROVE  TypeOK'
<1>1. CASE Start(m)
  <2>1. TaskType'
    BY <1>1, ReachLockType DEF Start, TypeOK, TaskType
  <2>2. QueueType'
    BY <1>1, ReachLockType DEF Start, TypeOK, QueueType
  <2>3. TurnType'
    BY <1>1, ReachLockType DEF Start, TypeOK, TurnType
  <2>4. BusType' /\ LoopType' /\ AnswerType'
    BY <1>1 DEF Start, TypeOK, BusType, LoopType, AnswerType
  <2>5. QED BY <2>1, <2>2, <2>3, <2>4 DEF TypeOK
<1>2. CASE AcquireLock(m)
  <2>1. TaskType'
    BY <1>2, EnterType DEF AcquireLock, TypeOK, TaskType
  <2>2. QueueType'
    BY <1>2, EnterType, ConstantsAssumption DEF AcquireLock, TypeOK, QueueType
  <2>3. TurnType'
    BY <1>2, EnterType DEF AcquireLock, TypeOK, TurnType
  <2>4. BusType' /\ LoopType' /\ AnswerType'
    BY <1>2 DEF AcquireLock, TypeOK, BusType, LoopType, AnswerType
  <2>5. QED BY <2>1, <2>2, <2>3, <2>4 DEF TypeOK
<1>3. CASE AcquireGate(m)
  <2>1. TaskType'
    BY <1>3 DEF AcquireGate, TypeOK, TaskType, TaskStates
  <2>2. QueueType'
    BY <1>3 DEF AcquireGate, TypeOK, QueueType
  <2>3. TurnType'
    BY <1>3, ConstantsAssumption DEF AcquireGate, TypeOK, TurnType
  <2>4. BusType' /\ LoopType' /\ AnswerType'
    BY <1>3 DEF AcquireGate, TypeOK, BusType, LoopType, AnswerType
  <2>5. QED BY <2>1, <2>2, <2>3, <2>4 DEF TypeOK
<1>4. QED BY <1>1, <1>2, <1>3

\* Senders keep the types.
LEMMA SenderTypes ==
  ASSUME TypeOK, NEW m \in Msgs,
         Send(m) \/ Submit(m) \/ Abandon(m) \/ CallDirect(m)
  PROVE  TypeOK'
<1>1. CASE Send(m)
  <2>1. BusType'
    BY <1>1 DEF Send, TypeOK, BusType
  <2>2. LoopType' /\ TaskType' /\ QueueType' /\ TurnType' /\ AnswerType'
    BY <1>1 DEF Send, TypeOK, LoopType, TaskType, QueueType, TurnType, AnswerType
  <2>3. QED BY <2>1, <2>2 DEF TypeOK
<1>2. CASE Submit(m)
  <2>1. BusType'
    <3>1. /\ bus' = Append(bus, m) \/ bus' = bus
          /\ unsent' = unsent \ {m}
          /\ deferred' = deferred
      BY <1>2 DEF Submit
    <3>2. /\ bus \in Seq(Msgs)
          /\ unsent \subseteq Msgs
          /\ deferred \in [Sessions -> Seq(Msgs)]
      BY DEF TypeOK, BusType
    <3>3. Append(bus, m) \in Seq(Msgs)
      BY <3>2
    <3>4. QED BY <3>1, <3>2, <3>3 DEF BusType
  <2>2. TaskType'
    BY <1>2, ReachLockType DEF Submit, TypeOK, TaskType
  <2>3. QueueType'
    BY <1>2, ReachLockType DEF Submit, TypeOK, QueueType
  <2>4. TurnType'
    BY <1>2, ReachLockType DEF Submit, TypeOK, TurnType
  <2>5. AnswerType'
    BY <1>2 DEF Submit, TypeOK, AnswerType
  <2>6. LoopType'
    BY <1>2 DEF Submit, TypeOK, LoopType
  <2>7. QED BY <2>1, <2>2, <2>3, <2>4, <2>5, <2>6 DEF TypeOK
<1>3. CASE Abandon(m)
  <2>1. TaskType'
    BY <1>3 DEF Abandon, TypeOK, TaskType
  <2>2. AnswerType'
    BY <1>3 DEF Abandon, TypeOK, AnswerType
  <2>3. BusType' /\ LoopType' /\ QueueType' /\ TurnType'
    BY <1>3 DEF Abandon, TypeOK, BusType, LoopType, QueueType, TurnType
  <2>4. QED BY <2>1, <2>2, <2>3 DEF TypeOK
<1>4. CASE CallDirect(m)
  <2>1. BusType'
    BY <1>4 DEF CallDirect, TypeOK, BusType
  <2>2. TaskType'
    BY <1>4, ReachLockType DEF CallDirect, TypeOK, TaskType
  <2>3. QueueType'
    BY <1>4, ReachLockType DEF CallDirect, TypeOK, QueueType
  <2>4. TurnType'
    BY <1>4, ReachLockType DEF CallDirect, TypeOK, TurnType
  <2>5. LoopType' /\ AnswerType'
    BY <1>4 DEF CallDirect, TypeOK, LoopType, AnswerType
  <2>6. QED BY <2>1, <2>2, <2>3, <2>4, <2>5 DEF TypeOK
<1>5. QED BY <1>1, <1>2, <1>3, <1>4

\* The consumer keeps the types.
LEMMA ConsumerTypes ==
  ASSUME TypeOK, NEW m \in Msgs,
         ConsumeControl(m) \/ ConsumeDefer(m) \/ ConsumeRoute(m) \/ ConsumeSpawn(m)
  PROVE  TypeOK'
<1>1. CASE ConsumeControl(m)
  <2>1. BusType'
    BY <1>1 DEF ConsumeControl, TypeOK, BusType, Consume
  <2>2. LoopType'
    BY <1>1 DEF ConsumeControl, TypeOK, LoopType, SessionTasks, TaskType
  <2>3. TaskType'
    BY <1>1 DEF ConsumeControl, TypeOK, TaskType, Cancel, SessionTasks
  <2>4. QueueType' /\ TurnType' /\ AnswerType'
    BY <1>1 DEF ConsumeControl, TypeOK, QueueType, TurnType, AnswerType
  <2>5. QED BY <2>1, <2>2, <2>3, <2>4 DEF TypeOK
<1>2. CASE ConsumeDefer(m)
  <2>1. BusType'
    BY <1>2, ConstantsAssumption DEF ConsumeDefer, TypeOK, BusType, Consume
  <2>2. LoopType' /\ TaskType' /\ QueueType' /\ TurnType' /\ AnswerType'
    BY <1>2 DEF ConsumeDefer, TypeOK, LoopType, TaskType, QueueType, TurnType, AnswerType
  <2>3. QED BY <2>1, <2>2 DEF TypeOK
<1>3. CASE ConsumeRoute(m)
  <2>1. BusType'
    BY <1>3 DEF ConsumeRoute, TypeOK, BusType, Consume
  <2>2. TurnType'
    <3> DEFINE x == slot[SessionOf[m]]
               longer == Append(pending[x], m)
    <3>1. x \in Msgs /\ pending[x] \in Seq(Msgs) /\ Len(pending[x]) < PendingCap
      BY <1>3, ConstantsAssumption DEF ConsumeRoute, Routes, Active, TypeOK, TurnType
    <3>2. longer \in Seq(Msgs) /\ Len(longer) <= PendingCap
      BY <3>1, ConstantsAssumption
    <3>3. pending' = [pending EXCEPT ![x] = longer]
      BY <1>3 DEF ConsumeRoute
    <3> HIDE DEF x, longer
    <3>4. /\ pending' \in [Msgs -> Seq(Msgs)]
          /\ \A y \in Msgs : Len(pending'[y]) <= PendingCap
      BY <3>1, <3>2, <3>3, PendingType DEF TypeOK
    <3>5. QED BY <1>3, <3>4 DEF ConsumeRoute, TypeOK, TurnType
  <2>3. LoopType' /\ TaskType' /\ QueueType' /\ AnswerType'
    BY <1>3 DEF ConsumeRoute, TypeOK, LoopType, TaskType, QueueType, AnswerType
  <2>4. QED BY <2>1, <2>2, <2>3 DEF TypeOK
<1>4. CASE ConsumeSpawn(m)
  <2>1. BusType'
    BY <1>4 DEF ConsumeSpawn, TypeOK, BusType, Consume
  <2>2. TaskType'
    BY <1>4 DEF ConsumeSpawn, TypeOK, TaskType, TaskStates
  <2>3. LoopType' /\ QueueType' /\ TurnType' /\ AnswerType'
    BY <1>4 DEF ConsumeSpawn, TypeOK, LoopType, QueueType, TurnType, AnswerType
  <2>4. QED BY <2>1, <2>2, <2>3 DEF TypeOK
<1>5. QED BY <1>1, <1>2, <1>3, <1>4

\* Starting, closing and the end of a command keep the types.
LEMMA LoopTypes ==
  ASSUME TypeOK, StartLoop \/ Close \/ ControlDone
  PROVE  TypeOK'
<1>1. CASE StartLoop
  <2>1. LoopType'
    BY <1>1 DEF StartLoop, TypeOK, LoopType
  <2>2. BusType' /\ TaskType' /\ QueueType' /\ TurnType' /\ AnswerType'
    BY <1>1 DEF StartLoop, TypeOK, BusType, TaskType, QueueType, TurnType, AnswerType
  <2>3. QED BY <2>1, <2>2 DEF TypeOK
<1>2. CASE Close
  <2>1. LoopType'
    BY <1>2 DEF Close, TypeOK, LoopType
  <2>2. TaskType'
    BY <1>2 DEF Close, TypeOK, TaskType, Cancel
  <2>3. BusType' /\ QueueType' /\ TurnType' /\ AnswerType'
    BY <1>2 DEF Close, TypeOK, BusType, QueueType, TurnType, AnswerType
  <2>4. QED BY <2>1, <2>2, <2>3 DEF TypeOK
<1>3. CASE ControlDone
  <2>1. LoopType'
    BY <1>3 DEF ControlDone, TypeOK, LoopType
  <2>2. TurnType'
    <3> DEFINE s == SessionOf[command]
    <3>1. s \in Sessions
      BY <1>3, ConstantsAssumption DEF ControlDone, TypeOK, LoopType
    <3>2. CASE Kind[command] = "stop" /\ slot[s] # None
      <4>1. slot[s] \in Msgs /\ <<>> \in Seq(Msgs) /\ Len(<<>>) <= PendingCap
        BY <3>1, <3>2, ConstantsAssumption DEF TypeOK, TurnType
      <4>2. /\ slot' = [slot EXCEPT ![s] = None]
            /\ pending' = [pending EXCEPT ![slot[s]] = <<>>]
            /\ UNCHANGED <<inTurn, cycles, rounds>>
        BY <1>3, <3>2 DEF ControlDone
      <4>3. /\ pending' \in [Msgs -> Seq(Msgs)]
            /\ \A y \in Msgs : Len(pending'[y]) <= PendingCap
        BY <4>1, <4>2, PendingType DEF TypeOK
      <4>4. QED BY <4>2, <4>3 DEF TypeOK, TurnType
    <3>3. CASE ~(Kind[command] = "stop" /\ slot[s] # None)
      BY <1>3, <3>3 DEF ControlDone, TypeOK, TurnType
    <3>4. QED BY <3>2, <3>3
  <2>3. AnswerType'
    BY <1>3 DEF ControlDone, TypeOK, AnswerType, Outcomes
  <2>4. BusType' /\ TaskType' /\ QueueType'
    BY <1>3 DEF ControlDone, TypeOK, BusType, TaskType, QueueType
  <2>5. QED BY <2>1, <2>2, <2>3, <2>4 DEF TypeOK
<1>4. QED BY <1>1, <1>2, <1>3

\* A turn's exit keeps the types.
LEMMA LeaveTypes ==
  ASSUME TypeOK, NEW m \in Msgs, NEW result \in Outcomes, Leave(m, result)
  PROVE  /\ BusType' /\ LoopType' /\ TaskType' /\ QueueType' /\ TurnType'
         /\ outcome' \in [Msgs -> Outcomes]
<1> DEFINE s == SessionOf[m]
<1>1. s \in Sessions /\ pending[m] \in Seq(Msgs)
  BY ConstantsAssumption DEF TypeOK, TurnType
<1>2. BusType'
  <2>1. CASE Kind[m] = "direct"
    BY <2>1 DEF Leave, TypeOK, BusType
  <2>2. CASE Kind[m] # "direct"
    <3>1. Release(s, pending[m]) /\ UNCHANGED unsent
      BY <2>2 DEF Leave
    <3>2. bus' \in Seq(Msgs) /\ deferred' \in [Sessions -> Seq(Msgs)]
      BY <1>1, <3>1, ReleaseType DEF TypeOK
    <3>3. QED BY <3>1, <3>2 DEF TypeOK, BusType
  <2>3. QED BY <2>1, <2>2
<1>3. LoopType' /\ TaskType'
  <2>1. TaskEnds(m) /\ UNCHANGED <<loop, command>>
    BY DEF Leave
  <2>2. TaskType' /\ awaited' \subseteq Msgs
    BY <2>1, TaskEndsType DEF TypeOK
  <2>3. QED BY <2>1, <2>2 DEF TypeOK, LoopType
<1>4. TurnType'
  <2>1. <<>> \in Seq(Msgs) /\ Len(<<>>) <= PendingCap
    BY ConstantsAssumption
  <2>2. /\ pending' \in [Msgs -> Seq(Msgs)]
        /\ \A y \in Msgs : Len(pending'[y]) <= PendingCap
    BY <2>1, PendingType DEF Leave, TypeOK
  <2>3. QED BY <1>1, <2>2 DEF Leave, Unpublish, TypeOK, TurnType
<1>5. QueueType' /\ outcome' \in [Msgs -> Outcomes]
  BY DEF Leave, TypeOK, QueueType, AnswerType
<1>6. QED BY <1>2, <1>3, <1>4, <1>5

\* The steps inside a turn keep the types.
LEMMA TurnTypes ==
  ASSUME TypeOK, NEW m \in Msgs,
         Drain(m) \/ DrainFails(m) \/ Continue(m) \/ Put(m) \/ RunNew(m)
  PROVE  TypeOK'
<1> USE ConstantsAssumption
<1>0. pending[m] \in Seq(Msgs) /\ Len(pending[m]) <= PendingCap
  BY DEF TypeOK, TurnType
<1>1. CASE Drain(m)
  <2>1. /\ AfterBatch(m) \in Seq(Msgs) /\ Len(AfterBatch(m)) <= PendingCap
        /\ InSeq(Batch(m)) \subseteq Msgs
    BY <1>0, <1>1, BatchType DEF Drain, Draining, InSeq
  <2>2. /\ pending' \in [Msgs -> Seq(Msgs)]
        /\ \A y \in Msgs : Len(pending'[y]) <= PendingCap
    BY <1>1, <2>1, PendingType DEF Drain, TypeOK
  <2>3. TurnType'
    BY <1>1, <2>1, <2>2 DEF Drain, TypeOK, TurnType
  <2>4. BusType' /\ LoopType' /\ TaskType' /\ QueueType' /\ AnswerType'
    BY <1>1 DEF Drain, TypeOK, BusType, LoopType, TaskType, QueueType, AnswerType
  <2>5. QED BY <2>3, <2>4 DEF TypeOK
<1>2. CASE DrainFails(m)
  <2>1. PICK k \in 1..Len(Batch(m)) :
          /\ pending' = [pending EXCEPT ![m] = SubSeq(@, k + 1, Len(@))]
          /\ outcome' = [x \in Msgs |-> IF x \in InSeq(SubSeq(pending[m], 1, k))
                                        THEN "dropped" ELSE outcome[x]]
    BY <1>2 DEF DrainFails
  <2>2. k \in Nat \ {0}
    BY <1>0, <1>2, BatchType DEF DrainFails, Draining
  <2> DEFINE rest == SubSeq(pending[m], k + 1, Len(pending[m]))
  <2>3. rest \in Seq(Msgs) /\ Len(rest) <= PendingCap
    BY <1>0, <2>2
  <2>4. pending' = [pending EXCEPT ![m] = rest]
    BY <2>1
  <2> HIDE DEF rest
  <2>5. /\ pending' \in [Msgs -> Seq(Msgs)]
        /\ \A y \in Msgs : Len(pending'[y]) <= PendingCap
    BY <2>3, <2>4, PendingType DEF TypeOK
  <2>6. TurnType'
    BY <1>2, <2>5 DEF DrainFails, TypeOK, TurnType
  <2>7. AnswerType'
    BY <1>2, <2>1 DEF DrainFails, TypeOK, AnswerType, Outcomes
  <2>8. BusType' /\ LoopType' /\ TaskType' /\ QueueType'
    BY <1>2 DEF DrainFails, TypeOK, BusType, LoopType, TaskType, QueueType
  <2>9. QED BY <2>6, <2>7, <2>8 DEF TypeOK
<1>3. CASE Continue(m)
  <2> DEFINE last == cycles[m] < InjectCycles /\ pending[m] # <<>>
             left == IF last THEN AfterBatch(m) ELSE pending[m]
             room == Len(left) < PendingCap
             next == IF room THEN Append(left, m) ELSE left
  <2>1. left \in Seq(Msgs) /\ Len(left) <= PendingCap
    BY <1>0, BatchType
  <2>2. next \in Seq(Msgs) /\ Len(next) <= PendingCap
    BY <2>1
  <2>3. pending' = [pending EXCEPT ![m] = next]
    BY <1>3 DEF Continue
  <2>4. inTurn' \in [Msgs -> SUBSET Msgs] /\ cycles' \in [Msgs -> Nat]
    <3>1. CASE last
      <4>1. InSeq(Batch(m)) \subseteq Msgs
        BY <1>0, <3>1, BatchType DEF InSeq
      <4>2. inTurn' = [inTurn EXCEPT ![m] = @ \cup InSeq(Batch(m))]
            /\ cycles' = [cycles EXCEPT ![m] = @ + 1]
        BY <1>3, <3>1 DEF Continue
      <4>3. QED BY <4>1, <4>2 DEF TypeOK, TurnType
    <3>2. CASE ~last
      BY <1>3, <3>2 DEF Continue, TypeOK, TurnType
    <3>3. QED BY <3>1, <3>2
  <2>5. TaskType'
    BY <1>3 DEF Continue, TypeOK, TaskType, TaskStates
  <2>6. rounds' \in [Sessions -> Nat] /\ slot' = slot
    BY <1>3 DEF Continue, TypeOK, TurnType
  <2>7. BusType' /\ LoopType' /\ QueueType' /\ AnswerType'
    BY <1>3 DEF Continue, TypeOK, BusType, LoopType, QueueType, AnswerType
  <2> HIDE DEF next
  <2>8. TurnType'
    BY <2>2, <2>3, <2>4, <2>6, PendingType DEF TypeOK, TurnType
  <2>9. QED BY <2>5, <2>7, <2>8 DEF TypeOK
<1>4. CASE Put(m)
  <2> DEFINE next == Append(pending[m], m)
  <2>1. next \in Seq(Msgs) /\ Len(next) <= PendingCap
    BY <1>0, <1>4 DEF Put
  <2>2. pending' = [pending EXCEPT ![m] = next]
    BY <1>4 DEF Put
  <2> HIDE DEF next
  <2>3. TurnType'
    BY <1>4, <2>1, <2>2, PendingType DEF Put, TypeOK, TurnType
  <2>4. TaskType'
    BY <1>4 DEF Put, TypeOK, TaskType, TaskStates
  <2>5. BusType' /\ LoopType' /\ QueueType' /\ AnswerType'
    BY <1>4 DEF Put, TypeOK, BusType, LoopType, QueueType, AnswerType
  <2>6. QED BY <2>3, <2>4, <2>5 DEF TypeOK
<1>5. CASE RunNew(m)
  <2>1. TaskType'
    BY <1>5 DEF RunNew, Cancel, SessionTasks, TypeOK, TaskType, TaskStates
  <2>2. BusType' /\ LoopType' /\ QueueType' /\ TurnType' /\ AnswerType'
    BY <1>5 DEF RunNew, TypeOK, BusType, LoopType, QueueType, TurnType, AnswerType
  <2>3. QED BY <2>1, <2>2 DEF TypeOK
<1>6. QED BY <1>1, <1>2, <1>3, <1>4, <1>5

\* The ways a task ends keep the types.
LEMMA EndTypes ==
  ASSUME TypeOK, NEW m \in Msgs,
         \/ \E result \in {"answered", "failed"} : Finish(m, result)
         \/ FinishNew(m)
         \/ CancelUnstarted(m)
         \/ CancelWaiting(m)
         \/ CancelTurn(m)
  PROVE  TypeOK'
<1>1. ASSUME NEW result \in {"answered", "failed"}, Finish(m, result)
      PROVE  TypeOK'
  <2>1. BusType' /\ LoopType' /\ TaskType' /\ QueueType' /\ TurnType'
        /\ outcome' \in [Msgs -> Outcomes]
    BY <1>1, LeaveTypes DEF Finish, Outcomes
  <2>2. waiter' \in [Msgs -> {"none", "waiting", "answered", "failed", "abandoned"}]
    BY <1>1 DEF Finish, Resolve, TypeOK, AnswerType
  <2>3. QED BY <2>1, <2>2 DEF TypeOK, AnswerType
<1>2. CASE FinishNew(m)
  <2>1. BusType' /\ LoopType' /\ TaskType' /\ QueueType' /\ TurnType'
        /\ outcome' \in [Msgs -> Outcomes]
    BY <1>2, LeaveTypes DEF FinishNew, Outcomes
  <2>2. QED BY <1>2, <2>1 DEF FinishNew, TypeOK, AnswerType
<1>3. CASE CancelUnstarted(m)
  <2>1. TaskType' /\ awaited' \subseteq Msgs
    BY <1>3, TaskEndsType DEF CancelUnstarted, TypeOK
  <2>2. LoopType'
    BY <1>3, <2>1 DEF CancelUnstarted, TypeOK, LoopType
  <2>3. BusType' /\ QueueType' /\ TurnType' /\ AnswerType'
    BY <1>3 DEF CancelUnstarted, TypeOK, BusType, QueueType, TurnType, AnswerType, Outcomes
  <2>4. QED BY <2>1, <2>2, <2>3 DEF TypeOK
<1>4. CASE CancelWaiting(m)
  <2> DEFINE s == SessionOf[m]
  <2>1. s \in Sessions /\ <<>> \in Seq(Msgs)
    BY ConstantsAssumption
  <2>2. TaskType' /\ awaited' \subseteq Msgs
    BY <1>4, TaskEndsType DEF CancelWaiting, TypeOK
  <2>3. LoopType'
    BY <1>4, <2>2 DEF CancelWaiting, TypeOK, LoopType
  <2>4. bus' \in Seq(Msgs) /\ deferred' \in [Sessions -> Seq(Msgs)]
    BY <1>4, <2>1, ReleaseType DEF CancelWaiting, TypeOK
  <2>5. BusType'
    BY <1>4, <2>4 DEF CancelWaiting, TypeOK, BusType
  <2>6. QueueType'
    <3>1. Without(lockQ[s], m) \in Seq(Msgs) /\ Without(gateQ, m) \in Seq(Msgs)
      BY <2>1, WithoutType DEF TypeOK, QueueType
    <3>2. lockQ' = [lockQ EXCEPT ![s] = Without(lockQ[s], m)] /\ gateQ' = Without(gateQ, m)
      BY <1>4 DEF CancelWaiting
    <3>3. QED BY <3>1, <3>2 DEF TypeOK, QueueType
  <2>7. TurnType' /\ AnswerType'
    BY <1>4 DEF CancelWaiting, TypeOK, TurnType, AnswerType, Outcomes
  <2>8. QED BY <2>2, <2>3, <2>5, <2>6, <2>7 DEF TypeOK
<1>5. CASE CancelTurn(m)
  <2>1. BusType' /\ LoopType' /\ TaskType' /\ QueueType' /\ TurnType'
        /\ outcome' \in [Msgs -> Outcomes]
    BY <1>5, LeaveTypes DEF CancelTurn, Outcomes
  <2>2. waiter' \in [Msgs -> {"none", "waiting", "answered", "failed", "abandoned"}]
    BY <1>5 DEF CancelTurn, Resolve, TypeOK, AnswerType
  <2>3. QED BY <2>1, <2>2 DEF TypeOK, AnswerType
<1>6. QED BY <1>1, <1>2, <1>3, <1>4, <1>5

\* Every state has its types: in particular a turn never queues more follow-ups
\* than its queue holds.
THEOREM TypeCorrect == Spec => []TypeOK
<1>1. Init => TypeOK
  <2> SUFFICES ASSUME Init PROVE TypeOK
    OBVIOUS
  <2>1. BusType /\ LoopType /\ QueueType
    BY DEF Init, BusType, LoopType, QueueType
  <2>2. TaskType /\ AnswerType
    BY DEF Init, TaskType, AnswerType, TaskStates, Outcomes
  <2>3. TurnType
    BY ConstantsAssumption DEF Init, TurnType
  <2>4. QED BY <2>1, <2>2, <2>3 DEF TypeOK
<1>2. TypeOK /\ [Next]_vars => TypeOK'
  <2> SUFFICES ASSUME TypeOK, [Next]_vars PROVE TypeOK'
    OBVIOUS
  <2>1. CASE UNCHANGED vars
    BY <2>1 DEF TypeOK, BusType, LoopType, TaskType, QueueType, TurnType, AnswerType
  <2>2. CASE Outside
    BY <2>2, LoopTypes, SenderTypes DEF Outside
  <2>3. CASE ConsumerStep
    BY <2>3, LoopTypes, ConsumerTypes DEF ConsumerStep
  <2>4. ASSUME NEW m \in Msgs, TurnStep(m)
        PROVE  TypeOK'
    BY <2>4, EntryTypes, TurnTypes, EndTypes DEF TurnStep
  <2>5. QED BY <2>1, <2>2, <2>3, <2>4 DEF Next
<1>3. QED BY <1>1, <1>2, PTL DEF Spec
-----------------------------------------------------------------------------
(* One turn per session.  A task gets to hold its session only where the lock *)
(* is free; every other step can only give a session up.                      *)

LEMMA NoNewHolder ==
  ASSUME SerialSession, \A x \in Msgs : Holds(x)' => Holds(x)
  PROVE  SerialSession'
BY DEF SerialSession

\* The holder a step may add is the task that found the lock free.
LEMMA OneNewHolder ==
  ASSUME SerialSession, NEW m \in Msgs, LockFree(SessionOf[m]),
         \A x \in Msgs \ {m} : Holds(x)' => Holds(x)
  PROVE  SerialSession'
BY DEF SerialSession, LockFree

LEMMA ReachLockSerial ==
  ASSUME TypeOK, SerialSession, NEW m \in Msgs, ReachLock(m)
  PROVE  SerialSession'
<1>1. task \in [Msgs -> TaskStates]
  BY DEF TypeOK, TaskType
<1>2. \A x \in Msgs \ {m} : task'[x] = task[x]
  BY <1>1 DEF ReachLock, Enter
<1>3. \A x \in Msgs \ {m} : Holds(x)' => Holds(x)
  BY <1>2 DEF Holds
<1>4. CASE LockFree(SessionOf[m])
  BY <1>3, <1>4, OneNewHolder
<1>5. CASE ~LockFree(SessionOf[m])
  <2>1. task'[m] = "lock"
    BY <1>1, <1>5 DEF ReachLock
  <2>2. ~Holds(m)'
    BY <2>1 DEF Holds, InTurnStates
  <2>3. QED BY <1>3, <2>2, NoNewHolder
<1>6. QED BY <1>4, <1>5

\* Each step of a turn or of its end keeps turns serial.
LEMMA TurnStepSerial ==
  ASSUME TypeOK, SerialSession, NEW m \in Msgs, TurnStep(m)
  PROVE  SerialSession'
<1>0. task \in [Msgs -> TaskStates]
  BY DEF TypeOK, TaskType
<1>1. CASE Start(m)
  BY <1>1, ReachLockSerial DEF Start
<1>2. CASE AcquireLock(m)
  <2>1. LockFree(SessionOf[m])
    BY <1>2 DEF AcquireLock
  <2>2. \A x \in Msgs \ {m} : task'[x] = task[x]
    BY <1>0, <1>2 DEF AcquireLock, Enter
  <2>3. QED BY <2>1, <2>2, OneNewHolder DEF Holds
<1>3. CASE AcquireGate(m) \/ Continue(m) \/ Put(m) \/ RunNew(m)
  <2>1. Holds(m)
    BY <1>3 DEF AcquireGate, Continue, Put, RunNew, Holds, InTurnStates
  <2>2. \A x \in Msgs \ {m} : task'[x] = task[x]
    BY <1>0, <1>3 DEF AcquireGate, Continue, Put, RunNew
  <2>3. QED BY <2>1, <2>2, NoNewHolder DEF Holds
<1>4. CASE Drain(m) \/ DrainFails(m)
  BY <1>4, NoNewHolder DEF Drain, DrainFails, Holds
<1>5. CASE \/ \E result \in {"answered", "failed"} : Finish(m, result)
           \/ FinishNew(m)
           \/ CancelUnstarted(m)
           \/ CancelWaiting(m)
           \/ CancelTurn(m)
  <2>1. task' = [task EXCEPT ![m] = "done"]
    BY <1>5 DEF Finish, FinishNew, CancelUnstarted, CancelWaiting, CancelTurn, Leave,
                TaskEnds
  <2>2. task'[m] = "done" /\ \A x \in Msgs \ {m} : task'[x] = task[x]
    BY <1>0, <2>1
  <2>3. QED BY <2>2, NoNewHolder DEF Holds, InTurnStates
<1>6. QED BY <1>1, <1>2, <1>3, <1>4, <1>5 DEF TurnStep

\* Turns of one session never overlap, for any messages, sessions and limits:
\* the session lock serialises bus turns, inline automation and direct calls.
THEOREM OneTurnPerSession == Spec => []SerialSession
<1>1. Init => SerialSession
  BY DEF Init, SerialSession, Holds, InTurnStates
<1>2. TypeOK /\ SerialSession /\ [Next]_vars => SerialSession'
  <2> SUFFICES ASSUME TypeOK, SerialSession, [Next]_vars PROVE SerialSession'
    OBVIOUS
  <2>0. task \in [Msgs -> TaskStates]
    BY DEF TypeOK, TaskType
  <2>1. CASE UNCHANGED task
    BY <2>1, NoNewHolder DEF Holds
  <2>2. ASSUME NEW m \in Msgs, Submit(m) \/ CallDirect(m), ~UNCHANGED task
        PROVE  SerialSession'
    BY <2>2, ReachLockSerial DEF Submit, CallDirect
  <2>3. ASSUME NEW m \in Msgs, ConsumeSpawn(m)
        PROVE  SerialSession'
    <3>1. task'[m] = "created" /\ \A x \in Msgs \ {m} : task'[x] = task[x]
      BY <2>0, <2>3 DEF ConsumeSpawn
    <3>2. QED BY <3>1, NoNewHolder DEF Holds, InTurnStates
  <2>4. CASE Outside
    BY <2>1, <2>2, <2>4 DEF Outside, Close, Send, Abandon
  <2>5. CASE ConsumerStep
    BY <2>1, <2>3, <2>5
    DEF ConsumerStep, StartLoop, ControlDone, ConsumeControl, ConsumeDefer, ConsumeRoute
  <2>6. QED BY <2>1, <2>4, <2>5, TurnStepSerial DEF Next
<1>3. QED BY <1>1, <1>2, TypeCorrect, PTL DEF Spec

-----------------------------------------------------------------------------
(* Automation stays out of other turns.  Only ConsumeRoute adds a message to  *)
(* a queue that is not its own, and it never does so for automation.          *)

LEMMA NoNewcomer ==
  ASSUME AutomationIsolated,
         \A m, x \in Msgs : m # x /\ m \in InSeq(pending'[x]) \cup inTurn'[x] =>
           m \in InSeq(pending[x]) \cup inTurn[x]
  PROVE  AutomationIsolated'
BY DEF AutomationIsolated, InSeq

\* What a queue holds after an append.
LEMMA AppendInSeq ==
  ASSUME NEW S, NEW q \in Seq(S), NEW m \in S
  PROVE  InSeq(Append(q, m)) = InSeq(q) \cup {m}
<1>1. Append(q, m) \in Seq(S) /\ Len(Append(q, m)) = Len(q) + 1
  OBVIOUS
<1>2. \A i \in 1..Len(q) : Append(q, m)[i] = q[i]
  OBVIOUS
<1>3. Append(q, m)[Len(q) + 1] = m
  OBVIOUS
<1>4. QED BY <1>1, <1>2, <1>3 DEF InSeq

LEMMA RouteIsolated ==
  ASSUME TypeOK, AutomationIsolated, NEW m \in Msgs, ConsumeRoute(m)
  PROVE  AutomationIsolated'
<1> DEFINE x == slot[SessionOf[m]]
<1>1. x \in Msgs /\ pending[x] \in Seq(Msgs) /\ Kind[m] # "auto"
  BY ConstantsAssumption DEF ConsumeRoute, Routes, MustDefer, Active, TypeOK, TurnType
<1>2. pending' = [pending EXCEPT ![x] = Append(pending[x], m)] /\ inTurn' = inTurn
  BY DEF ConsumeRoute
<1> HIDE DEF x
<1>3. pending \in [Msgs -> Seq(Msgs)]
  BY DEF TypeOK, TurnType
<1>4. InSeq(Append(pending[x], m)) = InSeq(pending[x]) \cup {m}
  BY <1>1, AppendInSeq
<1>5. \A y \in Msgs : InSeq(pending'[y]) \subseteq InSeq(pending[y]) \cup {m}
  BY <1>1, <1>2, <1>3, <1>4
<1>6. QED BY <1>1, <1>2, <1>5 DEF AutomationIsolated
\* A turn drains its own queue and queues only itself.
LEMMA TurnIsolated ==
  ASSUME TypeOK, AutomationIsolated, NEW m \in Msgs,
         Drain(m) \/ DrainFails(m) \/ Continue(m) \/ Put(m)
  PROVE  AutomationIsolated'
<1>0. /\ pending \in [Msgs -> Seq(Msgs)] /\ inTurn \in [Msgs -> SUBSET Msgs]
      /\ pending[m] \in Seq(Msgs)
  BY DEF TypeOK, TurnType
<1>1. CASE Drain(m)
  <2>1. /\ InSeq(Batch(m)) \subseteq InSeq(pending[m])
        /\ InSeq(AfterBatch(m)) \subseteq InSeq(pending[m])
    BY <1>0, <1>1, BatchType DEF Drain, Draining
  <2>2. pending' = [pending EXCEPT ![m] = AfterBatch(m)]
        /\ inTurn' = [inTurn EXCEPT ![m] = @ \cup InSeq(Batch(m))]
    BY <1>1 DEF Drain
  <2>3. QED BY <1>0, <2>1, <2>2 DEF AutomationIsolated
<1>2. CASE DrainFails(m)
  <2>1. PICK k \in 1..Len(Batch(m)) :
          pending' = [pending EXCEPT ![m] = SubSeq(@, k + 1, Len(@))]
    BY <1>2 DEF DrainFails
  <2>2. k \in Nat \ {0}
    BY <1>0, <1>2, BatchType DEF DrainFails, Draining
  <2>3. InSeq(SubSeq(pending[m], k + 1, Len(pending[m]))) \subseteq InSeq(pending[m])
    BY <1>0, <2>2 DEF InSeq
  <2>4. \A x \in Msgs : InSeq(pending'[x]) \subseteq InSeq(pending[x])
    BY <1>0, <2>1, <2>3
  <2>5. QED BY <1>2, <2>4 DEF DrainFails, AutomationIsolated
<1>3. CASE Continue(m)
  <2> DEFINE last == cycles[m] < InjectCycles /\ pending[m] # <<>>
             left == IF last THEN AfterBatch(m) ELSE pending[m]
             next == IF Len(left) < PendingCap THEN Append(left, m) ELSE left
  <2>1. left \in Seq(Msgs) /\ InSeq(left) \subseteq InSeq(pending[m])
    BY <1>0, BatchType
  <2> HIDE DEF left
  <2>2. InSeq(next) \subseteq InSeq(pending[m]) \cup {m}
    BY <2>1, AppendInSeq
  <2>3. pending' = [pending EXCEPT ![m] = next]
    BY <1>3 DEF Continue, left
  <2> HIDE DEF next
  <2>4. \A x \in Msgs : InSeq(pending'[x]) \subseteq InSeq(pending[x]) \cup {x}
    BY <1>0, <2>2, <2>3
  <2>5. \A x \in Msgs : inTurn'[x] \subseteq inTurn[x] \cup InSeq(pending[x])
    BY <1>0, <1>3, BatchType DEF Continue
  <2>6. QED BY <2>4, <2>5 DEF AutomationIsolated
<1>4. CASE Put(m)
  <2>1. InSeq(Append(pending[m], m)) = InSeq(pending[m]) \cup {m}
    BY <1>0, AppendInSeq
  <2>2. pending' = [pending EXCEPT ![m] = Append(pending[m], m)] /\ inTurn' = inTurn
    BY <1>4 DEF Put
  <2>3. \A x \in Msgs : InSeq(pending'[x]) \subseteq InSeq(pending[x]) \cup {x}
    BY <1>0, <2>1, <2>2
  <2>4. QED BY <2>2, <2>3 DEF AutomationIsolated
<1>5. QED BY <1>1, <1>2, <1>3, <1>4

\* Emptying queues and closing turns keeps automation isolated.
LEMMA EmptiedIsolated ==
  ASSUME TypeOK, AutomationIsolated,
         \A x \in Msgs : pending'[x] = pending[x] \/ pending'[x] = <<>>,
         \A x \in Msgs : inTurn'[x] = inTurn[x] \/ inTurn'[x] = {}
  PROVE  AutomationIsolated'
<1>1. \A x \in Msgs : InSeq(pending'[x]) \subseteq InSeq(pending[x])
  BY DEF InSeq
<1>2. QED BY <1>1 DEF AutomationIsolated

\* An automation message is never injected into another turn, for any messages,
\* sessions and limits, although its deferral is decided from the published queue
\* and not from the session lock.
THEOREM AutomationNeverInjected == Spec => []AutomationIsolated
<1>1. Init => AutomationIsolated
  BY DEF Init, AutomationIsolated, InSeq
<1>2. TypeOK /\ AutomationIsolated /\ [Next]_vars => AutomationIsolated'
  <2> SUFFICES ASSUME TypeOK, AutomationIsolated, [Next]_vars PROVE AutomationIsolated'
    OBVIOUS
  <2>0. pending \in [Msgs -> Seq(Msgs)] /\ inTurn \in [Msgs -> SUBSET Msgs]
    BY DEF TypeOK, TurnType
  <2>1. CASE UNCHANGED <<pending, inTurn>>
    BY <2>1 DEF AutomationIsolated
  <2>2. CASE Outside
    BY <2>1, <2>2 DEF Outside, Close, Send, Submit, Abandon, CallDirect
  <2>3. CASE ControlDone
    <3>1. \A x \in Msgs : pending'[x] = pending[x] \/ pending'[x] = <<>>
      BY <2>0, <2>3 DEF ControlDone
    <3>2. QED BY <2>3, <3>1, EmptiedIsolated DEF ControlDone
  <2>4. CASE ConsumerStep
    BY <2>1, <2>3, <2>4, RouteIsolated
    DEF ConsumerStep, StartLoop, ConsumeControl, ConsumeDefer, ConsumeSpawn
  <2>5. ASSUME NEW m \in Msgs, NEW result, Leave(m, result)
        PROVE  AutomationIsolated'
    BY <2>0, <2>5, EmptiedIsolated DEF Leave
  <2>6. ASSUME NEW m \in Msgs, TurnStep(m)
        PROVE  AutomationIsolated'
    <3>1. CASE \/ \E result \in {"answered", "failed"} : Finish(m, result)
               \/ FinishNew(m)
               \/ CancelTurn(m)
      BY <2>5, <3>1 DEF Finish, FinishNew, CancelTurn
    <3>2. CASE Start(m) \/ AcquireLock(m) \/ AcquireGate(m)
      BY <2>1, <3>2 DEF Start, AcquireLock, AcquireGate
    <3>3. CASE RunNew(m) \/ CancelUnstarted(m) \/ CancelWaiting(m)
      BY <2>1, <3>3 DEF RunNew, CancelUnstarted, CancelWaiting
    <3>4. QED BY <2>6, <3>1, <3>2, <3>3, TurnIsolated DEF TurnStep
  <2>7. QED BY <2>1, <2>2, <2>4, <2>6 DEF Next
<1>3. QED BY <1>1, <1>2, TypeCorrect, PTL DEF Spec
==============================================================================
