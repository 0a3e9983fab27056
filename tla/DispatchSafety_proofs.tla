------------------------ MODULE DispatchSafety_proofs ------------------------
(***************************************************************************)
(* What follows from each message of session dispatch being in one place:  *)
(* its outcome is final, the gate bounds the running turns, a deferred     *)
(* automation turn has someone to publish it, and dispatch implements      *)
(* SerialTurns, for every set of messages and sessions and every limit.    *)
(***************************************************************************)
EXTENDS MessagePlaces_proofs

USE DEF busVars, loopVars, taskVars, turnVars, vars

-----------------------------------------------------------------------------
(* Outcomes are final. *)

OutcomesStay == \A m \in Msgs : outcome[m] # "none" => outcome'[m] = outcome[m]

\* A closed message is no command, in no queue, in no turn and has no task.
LEMMA ClosedIsNowhereElse ==
  ASSUME Placed, NEW m \in Msgs, outcome[m] # "none"
  PROVE  /\ m # command
         /\ \A x \in Msgs : m \notin InSeq(pending[x]) /\ m \notin inTurn[x]
         /\ ~Live(m)
<1>1. Located(m, "closed", m)
  BY PlaceOf DEF Placed
<1>2. QED BY <1>1 DEF Located

LEMMA StepKeepsOutcomes ==
  ASSUME Inv, [Next]_vars
  PROVE  OutcomesStay
<1>0. /\ outcome \in [Msgs -> Outcomes] /\ slot \in [Sessions -> Msgs \cup {None}]
      /\ pending \in [Msgs -> Seq(Msgs)] /\ Placed /\ QueueOwned
  BY DEF Inv, TypeOK, AnswerType, TurnType
<1>1. CASE UNCHANGED outcome
  BY <1>1 DEF OutcomesStay
<1>2. CASE ControlDone
  <2>1. SessionOf[command] \in Sessions
    BY <1>2, ConstantsAssumption DEF Inv, TypeOK, LoopType, ControlDone
  <2>2. PICK t \in Msgs \cup {None} : t = slot[SessionOf[command]]
    BY <1>0, <2>1
  <2>3. ASSUME NEW x \in Msgs, outcome[x] # "none", outcome'[x] # outcome[x]
        PROVE  FALSE
    <3>1. \/ x = command
          \/ t # None /\ x \in InSeq(pending[t])
      BY <1>0, <1>2, <2>2, <2>3 DEF ControlDone
    <3>2. QED BY <1>0, <2>3, <3>1, ClosedIsNowhereElse
  <2>4. QED BY <2>3 DEF OutcomesStay
<1>3. ASSUME NEW m \in Msgs, DrainFails(m)
      PROVE  OutcomesStay
  <2>1. PICK k \in 1..Len(Batch(m)) :
          outcome' = [x \in Msgs |-> IF x \in InSeq(SubSeq(pending[m], 1, k))
                                     THEN "dropped" ELSE outcome[x]]
    BY <1>3 DEF DrainFails
  <2>2. k \in 0..Len(pending[m])
    BY <1>0, <1>3, BatchLength, ConstantsAssumption DEF DrainFails, Draining, Inv
  <2>3. pending[m] \in Seq(Msgs) /\ NoRepeat(pending[m])
    BY <1>0 DEF Placed, QueuesDistinct
  <2>4. InSeq(SubSeq(pending[m], 1, k)) \subseteq InSeq(pending[m])
    BY <2>2, <2>3, SplitMembers
  <2>5. QED BY <1>0, <2>1, <2>4, ClosedIsNowhereElse DEF OutcomesStay
<1>4. ASSUME NEW m \in Msgs, NEW result, Live(m), Leave(m, result)
      PROVE  OutcomesStay
  <2>1. outcome' = [x \in Msgs |-> IF x \in ClosedBy(m) THEN result ELSE outcome[x]]
    BY <1>4 DEF Leave
  <2>2. \A x \in Msgs : x \in ClosedBy(m) => x \in inTurn[m] \/ x = m
    BY DEF ClosedBy
  <2>3. QED BY <1>0, <1>4, <2>1, <2>2, ClosedIsNowhereElse DEF OutcomesStay
<1>5. ASSUME NEW m \in Msgs, CancelUnstarted(m) \/ CancelWaiting(m)
      PROVE  OutcomesStay
  <2>1. Live(m)
    BY <1>5 DEF CancelUnstarted, CancelWaiting, Live
  <2>2. \A x \in Msgs \ {m} : outcome'[x] = outcome[x]
    BY <1>0, <1>5 DEF CancelUnstarted, CancelWaiting
  <2>3. QED BY <1>0, <2>1, <2>2, ClosedIsNowhereElse DEF OutcomesStay
<1>6. CASE Outside
  BY <1>1, <1>6 DEF Outside, Close, Send, Submit, Abandon, CallDirect
<1>7. CASE ConsumerStep
  BY <1>1, <1>2, <1>7
  DEF ConsumerStep, StartLoop, ConsumeControl, ConsumeDefer, ConsumeRoute, ConsumeSpawn
<1>8. ASSUME NEW m \in Msgs, TurnStep(m)
      PROVE  OutcomesStay
  <2>1. CASE \/ Start(m) \/ AcquireLock(m) \/ AcquireGate(m) \/ Drain(m) \/ Continue(m)
             \/ Put(m) \/ RunNew(m)
    BY <1>1, <2>1 DEF Start, AcquireLock, AcquireGate, Drain, Continue, Put, RunNew
  <2>2. CASE \/ \E result \in {"answered", "failed"} : Finish(m, result)
             \/ FinishNew(m) \/ CancelTurn(m)
    BY <1>4, <2>2 DEF Finish, FinishNew, CancelTurn, Live
  <2>3. QED BY <1>3, <1>5, <1>8, <2>1, <2>2 DEF TurnStep
<1>9. CASE UNCHANGED vars
  BY <1>1, <1>9
<1>10. QED BY <1>6, <1>7, <1>8, <1>9 DEF Next

\* Whatever the messages, sessions and limits are, no message is answered, dropped or
\* cancelled twice, and an answer is never revised.
THEOREM OutcomesFinal == Spec => OutcomeFinal
<1>1. Inv /\ [Next]_vars => [OutcomesStay]_outcome
  BY StepKeepsOutcomes
<1>2. Spec => [][OutcomesStay]_outcome
  BY <1>1, Invariance, PTL DEF Spec
<1>3. QED BY <1>2 DEF OutcomeFinal, OutcomesStay

-----------------------------------------------------------------------------
(* The concurrency gate. *)

\* The messages may be infinitely many; the turns that run at once are not.
PermitsInv == IsFiniteSet(Gated) /\ WithinPermits

OneMoreRuns(m) == GateOpen /\ \A x \in Gated' : x \in Gated \/ x = m

LEMMA EnterGates ==
  ASSUME TypeOK, NEW m \in Msgs, ReachLock(m) \/ Enter(m) \/ AcquireGate(m)
  PROVE  Gated' \subseteq Gated \/ OneMoreRuns(m)
<1>0. task \in [Msgs -> TaskStates]
  BY DEF TypeOK, TaskType
<1>1. \A x \in Msgs \ {m} : task'[x] = task[x]
  BY <1>0 DEF ReachLock, Enter, AcquireGate
<1>2. \A x \in Gated' : x \in Gated \/ x = m
  BY <1>1 DEF Gated, InTurn
<1>3. CASE GateOpen
  BY <1>2, <1>3 DEF OneMoreRuns
<1>4. CASE ~GateOpen
  <2>1. Kind[m] = "direct" \/ task'[m] \in {"lock", "gate"}
    BY <1>0, <1>4 DEF ReachLock, Enter, AcquireGate
  <2>2. m \notin Gated'
    BY <2>1 DEF Gated, InTurn, InTurnStates
  <2>3. QED BY <1>2, <2>2
<1>5. QED BY <1>3, <1>4

\* The only steps that add a turn found the gate open.
LEMMA GatedSteps ==
  ASSUME TypeOK, [Next]_vars
  PROVE  Gated' \subseteq Gated \/ \E m \in Msgs : OneMoreRuns(m)
<1>0. task \in [Msgs -> TaskStates]
  BY DEF TypeOK, TaskType
<1>1. ASSUME \A x \in Msgs : InTurn(x)' => InTurn(x)
      PROVE  Gated' \subseteq Gated
  BY <1>1 DEF Gated
<1>2. ASSUME UNCHANGED task
      PROVE  Gated' \subseteq Gated
  BY <1>1, <1>2 DEF InTurn
<1>3. CASE Outside
  BY <1>2, <1>3, EnterGates DEF Outside, Close, Send, Submit, Abandon, CallDirect
<1>4. CASE ConsumerStep
  <2>1. ASSUME NEW m \in Msgs, ConsumeSpawn(m)
        PROVE  Gated' \subseteq Gated
    <3>1. task'[m] = "created" /\ \A x \in Msgs \ {m} : task'[x] = task[x]
      BY <1>0, <2>1 DEF ConsumeSpawn
    <3>2. QED BY <1>1, <3>1 DEF InTurn, InTurnStates
  <2>2. QED BY <1>2, <1>4, <2>1
            DEF ConsumerStep, StartLoop, ControlDone, ConsumeControl, ConsumeDefer,
                ConsumeRoute
<1>5. ASSUME NEW m \in Msgs, TurnStep(m)
      PROVE  Gated' \subseteq Gated \/ OneMoreRuns(m)
  <2>1. CASE Start(m) \/ AcquireLock(m) \/ AcquireGate(m)
    BY <2>1, EnterGates DEF Start, AcquireLock
  <2>2. CASE Drain(m) \/ DrainFails(m)
    BY <1>2, <2>2 DEF Drain, DrainFails
  <2>3. CASE Continue(m) \/ Put(m) \/ RunNew(m)
    <3>1. task[m] \in {"running", "putting"} /\ \A x \in Msgs \ {m} : task'[x] = task[x]
      BY <1>0, <2>3 DEF Continue, Put, RunNew
    <3>2. QED BY <1>1, <3>1 DEF InTurn, InTurnStates
  <2>4. CASE \/ \E result \in {"answered", "failed"} : Finish(m, result)
             \/ FinishNew(m) \/ CancelUnstarted(m) \/ CancelWaiting(m) \/ CancelTurn(m)
    <3>1. TaskEnds(m)
      BY <2>4 DEF Finish, FinishNew, CancelUnstarted, CancelWaiting, CancelTurn, Leave
    <3>2. task'[m] = "done" /\ \A x \in Msgs \ {m} : task'[x] = task[x]
      BY <1>0, <3>1 DEF TaskEnds
    <3>3. QED BY <1>1, <3>2 DEF InTurn, InTurnStates
  <2>5. QED BY <1>5, <2>1, <2>2, <2>3, <2>4 DEF TurnStep
<1>6. CASE UNCHANGED vars
  BY <1>2, <1>6
<1>7. QED BY <1>3, <1>4, <1>5, <1>6 DEF Next

LEMMA PermitsStep ==
  ASSUME TypeOK, PermitsInv, [Next]_vars
  PROVE  PermitsInv'
<1>1. CASE Gated' \subseteq Gated
  <2>1. IsFiniteSet(Gated') /\ Cardinality(Gated') <= Cardinality(Gated)
    BY <1>1, FS_Subset DEF PermitsInv
  <2>2. Cardinality(Gated) \in Nat /\ Cardinality(Gated') \in Nat
    BY <2>1, FS_CardinalityType DEF PermitsInv
  <2>3. QED BY <2>1, <2>2, ConstantsAssumption DEF PermitsInv, WithinPermits
<1>2. ASSUME NEW m \in Msgs, OneMoreRuns(m)
      PROVE  PermitsInv'
  <2> DEFINE more == Gated \cup {m}
  <2>1. /\ IsFiniteSet(more) /\ Cardinality(Gated) \in Nat
        /\ Cardinality(more) = Cardinality(Gated) \/ Cardinality(more) = Cardinality(Gated) + 1
    BY FS_AddElement, FS_CardinalityType DEF PermitsInv
  <2>2. Gated' \subseteq more
    BY <1>2 DEF OneMoreRuns
  <2>3. IsFiniteSet(Gated') /\ Cardinality(Gated') <= Cardinality(more)
    BY <2>1, <2>2, FS_Subset
  <2>4. Cardinality(Gated') \in Nat
    BY <2>3, FS_CardinalityType
  <2>5. Permits > 0 => Cardinality(Gated) < Permits
    BY <1>2, ConstantsAssumption DEF OneMoreRuns, GateOpen
  <2>6. Permits > 0 => Cardinality(Gated') <= Permits
    BY <2>1, <2>3, <2>4, <2>5, ConstantsAssumption
  <2>7. QED BY <2>3, <2>6 DEF PermitsInv, WithinPermits
<1>3. QED BY <1>1, <1>2, GatedSteps

\* However many messages and sessions there are, at most Permits turns run at once; a
\* direct call is not counted, for it never takes the gate.
THEOREM PermitsBound == Spec => []WithinPermits
<1>1. Init => PermitsInv
  <2> SUFFICES ASSUME Init PROVE PermitsInv
    OBVIOUS
  <2>1. Gated = {}
    BY DEF Init, Gated, InTurn, InTurnStates
  <2>2. IsFiniteSet(Gated) /\ Cardinality(Gated) = 0
    BY <2>1, FS_EmptySet
  <2>3. QED BY <2>2, ConstantsAssumption DEF PermitsInv, WithinPermits
<1>2. TypeOK /\ PermitsInv /\ [Next]_vars => PermitsInv'
  BY PermitsStep
<1>3. PermitsInv => WithinPermits
  BY DEF PermitsInv
<1>4. QED BY <1>1, <1>2, <1>3, TypeCorrect, PTL DEF Spec

-----------------------------------------------------------------------------
(* A deferred automation turn has a waker. *)

Waker(m) ==
  \/ Live(m) /\ Kind[m] # "direct"
  \/ m \in InSeq(bus) /\ Kind[m] \in {"user", "auto", "new"}
  \/ outcome[m] = "never_started"

Woken(s) == deferred[s] # <<>> => \E m \in Msgs : SessionOf[m] = s /\ Waker(m)

\* The running turn that owns the session's published queue is a waker.
LEMMA WokenByTurn ==
  ASSUME TypeOK', QueueOwned', NEW s \in Sessions, slot'[s] # None
  PROVE  Woken(s)'
<1>1. PICK t \in Msgs : t = slot'[s]
  BY DEF TypeOK, TurnType
<1>2. SessionOf[t] = s /\ task'[t] \in InTurnStates /\ Kind[t] # "direct"
  BY <1>1 DEF QueueOwned, InTurn
<1>3. Waker(t)'
  BY <1>2 DEF Waker, Live, InTurnStates
<1>4. QED BY <1>2, <1>3 DEF Woken

LEMMA StillWoken ==
  ASSUME NEW s \in Sessions, Woken(s), deferred'[s] = deferred[s],
         \A x \in Msgs : SessionOf[x] = s /\ Waker(x) => Waker(x)'
  PROVE  Woken(s)'
BY DEF Woken

\* A step that ends no task and takes nothing from the bus.
LEMMA WokenOn ==
  ASSUME DeferredHasWaker, OutcomesStay, deferred' = deferred,
         \A x \in Msgs : x \in InSeq(bus) => x \in InSeq(bus'),
         \A x \in Msgs : Live(x) => Live(x)'
  PROVE  DeferredHasWaker'
<1>1. \A x \in Msgs : Waker(x) => Waker(x)'
  BY DEF Waker, OutcomesStay
<1>2. \A s \in Sessions : Woken(s)
  BY DEF DeferredHasWaker, Woken, Waker
<1>3. \A s \in Sessions : Woken(s)'
  BY <1>1, <1>2, StillWoken
<1>4. QED BY <1>3 DEF DeferredHasWaker, Woken, Waker

\* The consumer: what it takes from the bus either becomes a task or belongs to a
\* session whose turn is running.
LEMMA WokenConsumer ==
  ASSUME Inv, Inv', DeferredHasWaker, OutcomesStay, NEW m \in Msgs,
         ConsumeControl(m) \/ ConsumeDefer(m) \/ ConsumeRoute(m) \/ ConsumeSpawn(m)
  PROVE  DeferredHasWaker'
<1>1. /\ TypeOK /\ Placed /\ QueueOwned /\ TypeOK' /\ QueueOwned'
      /\ task \in [Msgs -> TaskStates] /\ SessionOf[m] \in Sessions
      /\ deferred \in [Sessions -> Seq(Msgs)]
  BY ConstantsAssumption DEF Inv, TypeOK, TaskType, BusType
<1>2. /\ Consume(m) /\ bus' = Tail(bus) /\ slot' = slot
      /\ \A x \in Msgs \ {m} : task'[x] = task[x]
      /\ \A s \in Sessions \ {SessionOf[m]} : deferred'[s] = deferred[s]
  BY <1>1 DEF ConsumeControl, ConsumeDefer, ConsumeRoute, ConsumeSpawn
<1>3. /\ Located(m, "bus", m) /\ Kind[m] # "direct" /\ InSeq(bus') = InSeq(bus) \ {m}
  BY <1>1, <1>2, HeadOfBus
<1>4. \A x \in Msgs \ {m} : Waker(x) => Waker(x)'
  BY <1>2, <1>3 DEF Waker, OutcomesStay, Live
<1>5. \A s \in Sessions : Woken(s)
  BY DEF DeferredHasWaker, Woken, Waker
<1>6. \A s \in Sessions \ {SessionOf[m]} : Woken(s)'
  BY <1>2, <1>4, <1>5, StillWoken
<1>7. Woken(SessionOf[m])'
  <2>1. CASE Active(m)
    BY <1>1, <1>2, <2>1, WokenByTurn DEF Active
  <2>2. CASE ConsumeControl(m) /\ ~Active(m)
    <3>1. Kind[m] \in {"stop", "discard"}
      BY <2>2 DEF ConsumeControl, RunsInline
    <3>2. deferred' = deferred /\ task' = task
      BY <2>2 DEF ConsumeControl
    <3>3. Waker(m) => Waker(m)'
      BY <3>1, <3>2 DEF Waker, OutcomesStay, Live
    <3>4. QED BY <1>1, <1>4, <1>5, <3>2, <3>3, StillWoken
  <2>3. CASE ConsumeSpawn(m)
    <3>1. deferred' = deferred /\ task'[m] = "created"
      BY <1>1, <2>3 DEF ConsumeSpawn
    <3>2. Waker(m)'
      BY <1>3, <3>1 DEF Waker, Live
    <3>3. QED BY <1>1, <1>4, <1>5, <3>1, <3>2, StillWoken
  <2>4. QED BY <2>1, <2>2, <2>3 DEF ConsumeDefer, ConsumeRoute, MustDefer, Routes
<1>8. QED BY <1>6, <1>7 DEF DeferredHasWaker, Woken, Waker

\* A release puts the oldest deferred turn of the session on the bus.
LEMMA WokenByRelease ==
  ASSUME TypeOK, Placed, NEW s \in Sessions, NEW items \in Seq(Msgs), Release(s, items)
  PROVE  /\ Woken(s)'
         /\ \A x \in InSeq(bus) : x \in InSeq(bus')
         /\ \A r \in Sessions \ {s} : deferred'[r] = deferred[r]
<1>1. bus \in Seq(Msgs) /\ deferred \in [Sessions -> Seq(Msgs)] /\ DeferredOwn
  BY DEF TypeOK, BusType, Placed
<1> DEFINE longer == bus \o items
<1>2. longer \in Seq(Msgs) /\ InSeq(bus) \subseteq InSeq(longer)
  BY <1>1, ConcatMembers
<1> HIDE DEF longer
<1>3. CASE deferred[s] = <<>>
  <2>1. bus' = longer /\ deferred' = deferred
    BY <1>3 DEF Release, longer
  <2>2. QED BY <1>2, <1>3, <2>1 DEF Woken
<1>4. CASE deferred[s] # <<>>
  <2>1. PICK first : first = Head(deferred[s])
    OBVIOUS
  <2>2. first \in Msgs /\ first \in InSeq(deferred[s])
    BY <1>1, <1>4, <2>1, TailMembers DEF Placed, QueuesDistinct
  <2>3. SessionOf[first] = s /\ Kind[first] = "auto"
    BY <1>1, <2>2 DEF DeferredOwn
  <2>4. bus' = Append(longer, first) /\ deferred' = [deferred EXCEPT ![s] = Tail(@)]
    BY <1>4, <2>1 DEF Release, longer
  <2>5. InSeq(bus') = InSeq(longer) \cup {first}
    BY <1>2, <2>2, <2>4, AppendInSeq
  <2>6. Waker(first)'
    BY <2>3, <2>5 DEF Waker
  <2>7. Woken(s)'
    BY <2>2, <2>3, <2>6 DEF Woken
  <2>8. QED BY <1>1, <1>2, <2>4, <2>5, <2>7
<1>5. QED BY <1>3, <1>4

\* The exits: only the task of the session whose turn it was ends.
LEMMA WokenByExit ==
  ASSUME DeferredHasWaker, OutcomesStay, NEW m \in Msgs,
         Woken(SessionOf[m])',
         \A x \in Msgs \ {m} : task'[x] = task[x],
         \A x \in InSeq(bus) : x \in InSeq(bus'),
         \A r \in Sessions \ {SessionOf[m]} : deferred'[r] = deferred[r]
  PROVE  DeferredHasWaker'
<1>1. \A x \in Msgs \ {m} : Waker(x) => Waker(x)'
  BY DEF Waker, OutcomesStay, Live
<1>2. \A s \in Sessions : Woken(s)
  BY DEF DeferredHasWaker, Woken, Waker
<1>3. \A s \in Sessions \ {SessionOf[m]} : Woken(s)'
  BY <1>1, <1>2, StillWoken
<1>4. QED BY <1>3 DEF DeferredHasWaker, Woken, Waker

LEMMA WokenEnds ==
  ASSUME Inv, DeferredHasWaker, OutcomesStay, NEW m \in Msgs,
         \/ \E result \in {"answered", "failed"} : Finish(m, result)
         \/ FinishNew(m) \/ CancelTurn(m) \/ CancelUnstarted(m) \/ CancelWaiting(m)
  PROVE  DeferredHasWaker'
<1>1. /\ TypeOK /\ Placed /\ SessionOf[m] \in Sessions
      /\ task \in [Msgs -> TaskStates] /\ pending \in [Msgs -> Seq(Msgs)]
      /\ outcome \in [Msgs -> Outcomes]
  BY ConstantsAssumption DEF Inv, TypeOK, TaskType, TurnType, AnswerType
<1>2. TaskEnds(m)
  BY DEF Finish, FinishNew, CancelTurn, CancelUnstarted, CancelWaiting, Leave
<1>3. task'[m] = "done" /\ \A x \in Msgs \ {m} : task'[x] = task[x]
  BY <1>1, <1>2 DEF TaskEnds
<1>4. CASE \E items \in Seq(Msgs) : Release(SessionOf[m], items)
  BY <1>1, <1>3, <1>4, WokenByRelease, WokenByExit
<1>5. ASSUME UNCHANGED <<bus, deferred>>, Waker(m) => Waker(m)'
      PROVE  DeferredHasWaker'
  <2>1. \A x \in Msgs : Waker(x) => Waker(x)'
    BY <1>3, <1>5 DEF Waker, OutcomesStay, Live
  <2>2. Woken(SessionOf[m])
    BY <1>1 DEF DeferredHasWaker, Woken, Waker
  <2>3. Woken(SessionOf[m])'
    BY <1>1, <1>5, <2>1, <2>2, StillWoken
  <2>4. QED BY <1>3, <1>5, <2>3, WokenByExit
<1>6. ASSUME NEW result, Leave(m, result)
      PROVE  DeferredHasWaker'
  <2>1. CASE Kind[m] = "direct"
    <3>1. UNCHANGED <<bus, deferred>>
      BY <1>6, <2>1 DEF Leave
    <3>2. Waker(m) => Waker(m)'
      BY <2>1, <3>1 DEF Waker, OutcomesStay
    <3>3. QED BY <1>5, <3>1, <3>2
  <2>2. CASE Kind[m] # "direct"
    BY <1>1, <1>4, <1>6, <2>2 DEF Leave
  <2>3. QED BY <2>1, <2>2
<1>7. CASE CancelUnstarted(m)
  <2>1. UNCHANGED <<bus, deferred>> /\ outcome'[m] = "never_started"
    BY <1>1, <1>7 DEF CancelUnstarted
  <2>2. QED BY <1>5, <2>1 DEF Waker
<1>8. CASE CancelWaiting(m)
  <2>1. <<>> \in Seq(Msgs) /\ Release(SessionOf[m], <<>>)
    BY <1>8 DEF CancelWaiting
  <2>2. QED BY <1>4, <2>1
<1>9. QED BY <1>6, <1>7, <1>8 DEF Finish, FinishNew, CancelTurn

LEMMA WokenSteps ==
  ASSUME Inv, Inv', DeferredHasWaker, [Next]_vars
  PROVE  DeferredHasWaker'
<1>0. /\ OutcomesStay /\ TypeOK /\ task \in [Msgs -> TaskStates] /\ bus \in Seq(Msgs)
  BY StepKeepsOutcomes DEF Inv, TypeOK, TaskType, BusType
<1>1. CASE UNCHANGED <<bus, deferred, task>>
  BY <1>0, <1>1, WokenOn DEF Live
<1>2. CASE Outside
  <2>1. CASE Close \/ \E m \in Msgs : Abandon(m)
    BY <1>1, <2>1 DEF Close, Abandon
  <2>2. ASSUME NEW m \in Msgs, Send(m) \/ Submit(m) \/ CallDirect(m)
        PROVE  DeferredHasWaker'
    <3>1. m \in unsent /\ deferred' = deferred
      BY <2>2 DEF Send, Submit, CallDirect
    <3>2. ~Live(m)
      <4>1. Located(m, "unsent", m)
        BY <3>1, PlaceOf DEF Inv, Placed
      <4>2. QED BY <4>1 DEF Located
    <3>3. CASE bus' = Append(bus, m) /\ task' = task
      <4>1. InSeq(bus') = InSeq(bus) \cup {m}
        BY <1>0, <3>3, AppendInSeq
      <4>2. QED BY <1>0, <3>1, <3>3, <4>1, WokenOn DEF Live
    <3>4. CASE bus' = bus /\ ReachLock(m)
      <4>1. \A x \in Msgs \ {m} : task'[x] = task[x]
        BY <1>0, <3>4, ReachLockTask
      <4>2. \A x \in Msgs : Live(x) => Live(x)'
        BY <3>2, <4>1 DEF Live
      <4>3. QED BY <1>0, <3>1, <3>4, <4>2, WokenOn
    <3>5. QED BY <2>2, <3>3, <3>4 DEF Send, Submit, CallDirect
  <2>3. QED BY <1>2, <2>1, <2>2 DEF Outside
<1>3. CASE ConsumerStep
  <2>1. CASE StartLoop \/ ControlDone
    BY <1>1, <2>1 DEF StartLoop, ControlDone
  <2>2. QED BY <1>0, <1>3, <2>1, WokenConsumer DEF ConsumerStep
<1>4. ASSUME NEW m \in Msgs, TurnStep(m)
      PROVE  DeferredHasWaker'
  <2>1. CASE Start(m) \/ AcquireLock(m)
    <3>1. ReachLock(m) \/ Enter(m)
      BY <2>1 DEF Start, AcquireLock
    <3>2. task'[m] \in {"lock", "gate", "running"} /\ \A x \in Msgs \ {m} : task'[x] = task[x]
      BY <1>0, <3>1, ReachLockTask
    <3>3. \A x \in Msgs : Live(x) => Live(x)'
      BY <3>2 DEF Live
    <3>4. UNCHANGED <<bus, deferred>>
      BY <2>1 DEF Start, AcquireLock
    <3>5. QED BY <1>0, <3>3, <3>4, WokenOn
  <2>2. CASE AcquireGate(m) \/ Continue(m) \/ Put(m) \/ RunNew(m)
    <3>1. /\ task'[m] \in {"running", "wrapping", "putting", "clearing"}
          /\ \A x \in Msgs \ {m} : task'[x] = task[x]
          /\ UNCHANGED <<bus, deferred>>
      BY <1>0, <2>2 DEF AcquireGate, Continue, Put, RunNew
    <3>2. \A x \in Msgs : Live(x) => Live(x)'
      BY <3>1 DEF Live
    <3>3. QED BY <1>0, <3>1, <3>2, WokenOn
  <2>3. CASE Drain(m) \/ DrainFails(m)
    BY <1>1, <2>3 DEF Drain, DrainFails
  <2>4. QED BY <1>0, <1>4, <2>1, <2>2, <2>3, WokenEnds DEF TurnStep
<1>5. CASE UNCHANGED vars
  BY <1>1, <1>5
<1>6. QED BY <1>2, <1>3, <1>4, <1>5 DEF Next

\* For every session: while an automation turn is deferred, a task of the session is
\* alive to publish it, or a message on the bus will become one; the only exit that
\* breaks the chain is a task cancelled before its first step.
THEOREM DeferredKeepsAWaker == Spec => []DeferredHasWaker
<1>1. Init => DeferredHasWaker
  BY DEF Init, DeferredHasWaker
<1>2. Inv /\ Inv' /\ DeferredHasWaker /\ [Next]_vars => DeferredHasWaker'
  BY WokenSteps
<1>3. QED BY <1>1, <1>2, Invariance, PTL DEF Spec
-----------------------------------------------------------------------------
(* Follow-ups and their turn: of one session, and only while the turn runs. *)

RidesAlong ==
  \A x \in Msgs : /\ \A m \in InSeq(pending[x]) \cup inTurn[x] : SessionOf[m] = SessionOf[x]
                  /\ inTurn[x] # {} => InTurn(x)

LEMMA RidersKept ==
  ASSUME RidesAlong, NEW m \in Msgs,
         \A x \in Msgs : InSeq(pending'[x]) \cup inTurn'[x] \subseteq
                           InSeq(pending[x]) \cup inTurn[x] \cup {x},
         \A x \in Msgs \ {m} : inTurn'[x] \subseteq inTurn[x] /\ (InTurn(x) => InTurn(x)'),
         inTurn'[m] # {} => InTurn(m)'
  PROVE  RidesAlong'
<1>1. ASSUME NEW x \in Msgs, NEW y \in InSeq(pending'[x]) \cup inTurn'[x]
      PROVE  SessionOf[y] = SessionOf[x]
  BY <1>1 DEF RidesAlong
<1>2. ASSUME NEW x \in Msgs, inTurn'[x] # {}
      PROVE  InTurn(x)'
  BY <1>2 DEF RidesAlong
<1>3. QED BY <1>1, <1>2 DEF RidesAlong

\* A step that leaves the queues and the follow-ups alone.
LEMMA RidersStay ==
  ASSUME RidesAlong, pending' = pending, inTurn' = inTurn,
         \A x \in Msgs : InTurn(x) => InTurn(x)'
  PROVE  RidesAlong'
BY DEF RidesAlong

LEMMA RidersStep ==
  ASSUME Inv, RidesAlong, [Next]_vars
  PROVE  RidesAlong'
<1>0. /\ TypeOK /\ Placed /\ QueueOwned /\ task \in [Msgs -> TaskStates]
      /\ pending \in [Msgs -> Seq(Msgs)] /\ inTurn \in [Msgs -> SUBSET Msgs]
      /\ slot \in [Sessions -> Msgs \cup {None}] /\ \A x \in Msgs : NoRepeat(pending[x])
  BY DEF Inv, TypeOK, TaskType, TurnType, Placed, QueuesDistinct
<1>1. CASE UNCHANGED <<pending, inTurn, task>>
  BY <1>1, RidersStay DEF InTurn
<1>2. ASSUME NEW m \in Msgs, ~InTurn(m), ReachLock(m) \/ Enter(m), UNCHANGED <<pending, inTurn>>
      PROVE  RidesAlong'
  <2>1. \A x \in Msgs \ {m} : task'[x] = task[x]
    BY <1>0, <1>2, ReachLockTask
  <2>2. \A x \in Msgs : InTurn(x) => InTurn(x)'
    BY <1>2, <2>1 DEF InTurn
  <2>3. QED BY <1>2, <2>2, RidersStay
<1>3. CASE Outside
  <2>1. CASE \/ Close
             \/ \E m \in Msgs : Send(m) \/ Abandon(m)
    BY <1>1, <2>1 DEF Close, Send, Abandon
  <2>2. ASSUME NEW m \in Msgs, Submit(m) \/ CallDirect(m)
        PROVE  RidesAlong'
    <3>1. m \in unsent
      BY <2>2 DEF Submit, CallDirect
    <3>2. Located(m, "unsent", m)
      BY <1>0, <3>1, PlaceOf DEF Placed
    <3>3. ~InTurn(m)
      BY <3>2 DEF Located, Live, InTurn, InTurnStates
    <3>4. QED BY <1>1, <1>2, <2>2, <3>3 DEF Submit, CallDirect
  <2>3. QED BY <1>3, <2>1, <2>2 DEF Outside
<1>4. CASE ControlDone
  <2>1. \A x \in Msgs : InSeq(pending'[x]) \subseteq InSeq(pending[x])
    <3>1. \A x \in Msgs : pending'[x] = pending[x] \/ pending'[x] = <<>>
      BY <1>0, <1>4 DEF ControlDone
    <3>2. QED BY <3>1 DEF InSeq
  <2>2. inTurn' = inTurn /\ task' = task
    BY <1>4 DEF ControlDone
  <2>3. QED BY <2>1, <2>2 DEF RidesAlong, InTurn
<1>5. ASSUME NEW m \in Msgs, ConsumeRoute(m)
      PROVE  RidesAlong'
  <2>1. PICK t \in Msgs : t = slot[SessionOf[m]]
    BY <1>0, <1>5, ConstantsAssumption DEF ConsumeRoute, Routes, Active
  <2>2. SessionOf[t] = SessionOf[m]
    BY <1>0, <2>1, ConstantsAssumption DEF QueueOwned
  <2>3. /\ pending' = [pending EXCEPT ![t] = Append(pending[t], m)]
        /\ inTurn' = inTurn /\ task' = task
    BY <1>5, <2>1 DEF ConsumeRoute
  <2>4. InSeq(Append(pending[t], m)) = InSeq(pending[t]) \cup {m}
    BY <1>0, <2>1, AppendInSeq
  <2>5. /\ InSeq(pending'[t]) = InSeq(pending[t]) \cup {m}
        /\ \A x \in Msgs \ {t} : pending'[x] = pending[x]
    BY <1>0, <2>1, <2>3, <2>4
  <2>6. QED BY <2>2, <2>3, <2>5 DEF RidesAlong, InTurn
<1>6. CASE ConsumerStep
  <2>1. ASSUME NEW m \in Msgs, ConsumeSpawn(m)
        PROVE  RidesAlong'
    <3>1. Located(m, "bus", m)
      BY <1>0, <2>1, HeadOfBus DEF ConsumeSpawn
    <3>2. ~InTurn(m)
      BY <3>1 DEF Located, Live, InTurn, InTurnStates
    <3>3. UNCHANGED <<pending, inTurn>> /\ \A x \in Msgs \ {m} : task'[x] = task[x]
      BY <1>0, <2>1 DEF ConsumeSpawn
    <3>4. \A x \in Msgs : InTurn(x) => InTurn(x)'
      BY <3>2, <3>3 DEF InTurn
    <3>5. QED BY <3>3, <3>4, RidersStay
  <2>2. CASE StartLoop \/ \E m \in Msgs : ConsumeControl(m) \/ ConsumeDefer(m)
    BY <1>1, <2>2 DEF StartLoop, ConsumeControl, ConsumeDefer
  <2>3. QED BY <1>4, <1>5, <1>6, <2>1, <2>2 DEF ConsumerStep
<1>7. ASSUME NEW m \in Msgs, TurnStep(m)
      PROVE  RidesAlong'
  <2>1. CASE Start(m) \/ AcquireLock(m)
    BY <1>2, <2>1 DEF Start, AcquireLock, InTurn, InTurnStates
  <2>2. CASE AcquireGate(m) \/ RunNew(m)
    <3>1. /\ task'[m] \in {"running", "clearing"} /\ UNCHANGED <<pending, inTurn>>
          /\ \A x \in Msgs \ {m} : task'[x] = task[x]
      BY <1>0, <2>2 DEF AcquireGate, RunNew
    <3>2. \A x \in Msgs : InTurn(x) => InTurn(x)'
      BY <3>1 DEF InTurn, InTurnStates
    <3>3. QED BY <3>1, <3>2, RidersStay
  <2>3. CASE Drain(m) \/ DrainFails(m) \/ Continue(m) \/ Put(m)
    <3>1. /\ task[m] \in {"running", "putting"}
          /\ task'[m] \in {"running", "putting", "wrapping"}
      BY <1>0, <2>3 DEF Drain, DrainFails, Draining, Continue, Put
    <3>2. InTurn(m) /\ InTurn(m)'
      BY <3>1 DEF InTurn, InTurnStates
    <3>3. /\ \A x \in Msgs \ {m} : task'[x] = task[x]
          /\ \A x \in Msgs \ {m} : pending'[x] = pending[x] /\ inTurn'[x] = inTurn[x]
      BY <1>0, <2>3 DEF Drain, DrainFails, Continue, Put
    <3>4. InSeq(pending'[m]) \cup inTurn'[m] \subseteq InSeq(pending[m]) \cup inTurn[m] \cup {m}
      <4>0. pending[m] \in Seq(Msgs) /\ NoRepeat(pending[m])
        BY <1>0
      <4>1. CASE Drain(m)
        <5>1. /\ InSeq(Batch(m)) \subseteq InSeq(pending[m])
              /\ InSeq(AfterBatch(m)) \subseteq InSeq(pending[m])
          BY <4>0, <4>1, BatchMembers DEF Drain, Draining
        <5>2. pending'[m] = AfterBatch(m) /\ inTurn'[m] = inTurn[m] \cup InSeq(Batch(m))
          BY <1>0, <4>1 DEF Drain
        <5>3. QED BY <5>1, <5>2
      <4>2. CASE DrainFails(m)
        <5>1. PICK k \in 1..Len(Batch(m)) :
                pending' = [pending EXCEPT ![m] = SubSeq(@, k + 1, Len(@))]
          BY <4>2 DEF DrainFails
        <5>2. k \in 0..Len(pending[m])
          BY <4>0, <4>2, BatchLength DEF DrainFails, Draining
        <5>3. pending'[m] = SubSeq(pending[m], k + 1, Len(pending[m])) /\ inTurn' = inTurn
          BY <1>0, <4>2, <5>1 DEF DrainFails
        <5>4. InSeq(pending'[m]) \subseteq InSeq(pending[m])
          BY <4>0, <5>2, <5>3, SplitMembers
        <5>5. QED BY <5>3, <5>4
      <4>3. CASE Continue(m)
        <5> DEFINE last == cycles[m] < InjectCycles /\ pending[m] # <<>>
                   left == IF last THEN AfterBatch(m) ELSE pending[m]
        <5>1. /\ left \in Seq(Msgs) /\ InSeq(left) \subseteq InSeq(pending[m])
              /\ last => InSeq(Batch(m)) \subseteq InSeq(pending[m])
          BY <4>0, BatchMembers
        <5>2. /\ last \/ inTurn'[m] = inTurn[m]
              /\ inTurn'[m] = inTurn[m] \/ inTurn'[m] = inTurn[m] \cup InSeq(Batch(m))
          <6>1. inTurn' = IF last THEN [inTurn EXCEPT ![m] = @ \cup InSeq(Batch(m))] ELSE inTurn
            BY <4>3 DEF Continue
          <6> HIDE DEF last
          <6>2. QED BY <1>0, <6>1
        <5>3. pending'[m] = Append(left, m) \/ pending'[m] = left
          BY <1>0, <4>3 DEF Continue
        <5> HIDE DEF left, last
        <5>4. InSeq(Append(left, m)) = InSeq(left) \cup {m}
          BY <5>1, AppendInSeq
        <5>5. QED BY <5>1, <5>2, <5>3, <5>4
      <4>4. CASE Put(m)
        <5>1. pending'[m] = Append(pending[m], m) /\ inTurn' = inTurn
          BY <1>0, <4>4 DEF Put
        <5>2. InSeq(Append(pending[m], m)) = InSeq(pending[m]) \cup {m}
          BY <4>0, AppendInSeq
        <5>3. QED BY <5>1, <5>2
      <4>5. QED BY <2>3, <4>1, <4>2, <4>3, <4>4
    <3>5. QED BY <3>2, <3>3, <3>4, RidersKept DEF InTurn, InSeq
  <2>4. CASE \/ \E result \in {"answered", "failed"} : Finish(m, result)
             \/ FinishNew(m) \/ CancelUnstarted(m) \/ CancelWaiting(m) \/ CancelTurn(m)
    <3>1. TaskEnds(m)
      BY <2>4 DEF Finish, FinishNew, CancelUnstarted, CancelWaiting, CancelTurn, Leave
    <3>2. \A x \in Msgs \ {m} : task'[x] = task[x]
      BY <1>0, <3>1 DEF TaskEnds
    <3>3. \A x \in Msgs \ {m} : pending'[x] = pending[x] /\ inTurn'[x] = inTurn[x]
      BY <1>0, <2>4 DEF Finish, FinishNew, CancelUnstarted, CancelWaiting, CancelTurn, Leave
    <3>4. CASE CancelUnstarted(m) \/ CancelWaiting(m)
      <4>1. UNCHANGED <<pending, inTurn>> /\ ~InTurn(m)
        BY <3>4 DEF CancelUnstarted, CancelWaiting, InTurn, InTurnStates
      <4>2. \A x \in Msgs : InTurn(x) => InTurn(x)'
        BY <3>2, <4>1 DEF InTurn
      <4>3. QED BY <4>1, <4>2, RidersStay
    <3>5. CASE ~(CancelUnstarted(m) \/ CancelWaiting(m))
      <4>1. pending'[m] = <<>> /\ inTurn'[m] = {}
        BY <1>0, <2>4, <3>5 DEF Finish, FinishNew, CancelTurn, Leave
      <4>2. InSeq(pending'[m]) = {}
        BY <4>1 DEF InSeq
      <4>3. \A x \in Msgs : InSeq(pending'[x]) \subseteq InSeq(pending[x])
        BY <3>3, <4>2 DEF InSeq
      <4>4. \A x \in Msgs : inTurn'[x] \subseteq inTurn[x]
        BY <3>3, <4>1
      <4>5. QED BY <3>2, <4>1, <4>3, <4>4, RidersKept DEF InTurn
    <3>6. QED BY <3>4, <3>5
  <2>5. QED BY <1>7, <2>1, <2>2, <2>3, <2>4 DEF TurnStep
<1>8. CASE UNCHANGED vars
  BY <1>1, <1>8
<1>9. QED BY <1>3, <1>6, <1>7, <1>8 DEF Next
-----------------------------------------------------------------------------
(* Dispatch implements SerialTurns: every step is a step of it or a stutter.  *)

Rides(m) == \E x \in Msgs : m \in inTurn[x]

\* The standing of a message, read off its place.
Stands ==
  \A m \in Msgs :
    /\ m \in unsent => Standing(m) = "unsent"
    /\ InTurn(m) => Standing(m) = "active"
    /\ Rides(m) => Standing(m) = "riding"
    /\ outcome[m] # "none" => Standing(m) = "closed"
    /\ m \notin unsent /\ ~InTurn(m) /\ ~Rides(m) /\ outcome[m] = "none" => Standing(m) = "waiting"

LEMMA StandingRead == Placed => Stands
<1> SUFFICES ASSUME Placed, NEW m \in Msgs
             PROVE  /\ m \in unsent => Standing(m) = "unsent"
                    /\ InTurn(m) => Standing(m) = "active"
                    /\ Rides(m) => Standing(m) = "riding"
                    /\ outcome[m] # "none" => Standing(m) = "closed"
                    /\ m \notin unsent /\ ~InTurn(m) /\ ~Rides(m) /\ outcome[m] = "none" =>
                         Standing(m) = "waiting"
  BY DEF Stands
<1>1. PICK kind \in PlaceKinds, holder \in Msgs : Located(m, kind, holder)
  BY DEF Placed, OnePlace
<1>2. InTurn(m) => Live(m)
  BY DEF InTurn, InTurnStates, Live
<1>3. /\ m \in unsent => ~InTurn(m) /\ ~Rides(m) /\ outcome[m] = "none"
      /\ InTurn(m) => ~Rides(m) /\ outcome[m] = "none"
      /\ Rides(m) => outcome[m] = "none"
  BY <1>1, <1>2 DEF Located, Rides
<1>4. QED BY <1>3 DEF Standing, Rides

\* The turn of a session, when there is at most one.
TurnRead ==
  \A s \in Sessions :
    /\ \A m \in Msgs : SessionOf[m] = s /\ InTurn(m) => RunningTurn(s) = m
    /\ (\A m \in Msgs : SessionOf[m] = s => ~InTurn(m)) => RunningTurn(s) = None

LEMMA RunningRead == SerialSession => TurnRead
<1> SUFFICES ASSUME SerialSession, NEW s \in Sessions
             PROVE  /\ \A m \in Msgs : SessionOf[m] = s /\ InTurn(m) => RunningTurn(s) = m
                    /\ (\A m \in Msgs : SessionOf[m] = s => ~InTurn(m)) => RunningTurn(s) = None
  BY DEF TurnRead
<1> DEFINE on == {m \in Msgs : SessionOf[m] = s /\ InTurn(m)}
<1>1. RunningTurn(s) = IF on = {} THEN None ELSE CHOOSE m \in on : TRUE
  BY DEF RunningTurn
<1>2. ASSUME NEW m \in Msgs, SessionOf[m] = s, InTurn(m)
      PROVE  RunningTurn(s) = m
  <2>1. m \in on
    BY <1>2
  <2>2. \A x \in on : x = m
    BY <1>2 DEF SerialSession, Holds, InTurn
  <2> HIDE DEF on
  <2>3. (CHOOSE x \in on : TRUE) \in on
    BY <2>1
  <2>4. QED BY <1>1, <2>1, <2>2, <2>3
<1>3. ASSUME \A m \in Msgs : SessionOf[m] = s => ~InTurn(m)
      PROVE  RunningTurn(s) = None
  <2>1. on = {}
    BY <1>3
  <2>2. QED BY <1>1, <2>1
<1>4. QED BY <1>2, <1>3

\* What the refinement proof knows of a state.
Read == Stands /\ TurnRead

\* A message of which nothing that its standing tells changes.
Stays(x) ==
  /\ x \in unsent' <=> x \in unsent
  /\ InTurn(x)' <=> InTurn(x)
  /\ Rides(x)' <=> Rides(x)
  /\ outcome'[x] = "none" <=> outcome[x] = "none"

LEMMA SameStanding ==
  ASSUME Read, Read', NEW x \in Msgs, Stays(x)
  PROVE  Standing(x)' = Standing(x)
<1>1. CASE x \in unsent
  BY <1>1 DEF Read, Stands, Stays
<1>2. CASE InTurn(x)
  BY <1>2 DEF Read, Stands, Stays
<1>3. CASE Rides(x)
  BY <1>3 DEF Read, Stands, Stays
<1>4. CASE outcome[x] # "none"
  BY <1>4 DEF Read, Stands, Stays
<1>5. CASE x \notin unsent /\ ~InTurn(x) /\ ~Rides(x) /\ outcome[x] = "none"
  BY <1>5 DEF Read, Stands, Stays
<1>6. QED BY <1>1, <1>2, <1>3, <1>4, <1>5

\* The turn of a session none of whose turns begins or ends.
LEMMA SameTurn ==
  ASSUME Read, Read', NEW s \in Sessions,
         \A x \in Msgs : SessionOf[x] = s => (InTurn(x)' <=> InTurn(x))
  PROVE  RunningTurn(s)' = RunningTurn(s)
<1>1. CASE \E x \in Msgs : SessionOf[x] = s /\ InTurn(x)
  BY <1>1 DEF Read, TurnRead
<1>2. CASE \A x \in Msgs : SessionOf[x] = s => ~InTurn(x)
  BY <1>2 DEF Read, TurnRead
<1>3. QED BY <1>1, <1>2

abstractVars == <<[m \in Msgs |-> Standing(m)], [s \in Sessions |-> RunningTurn(s)]>>

LEMMA Stutters ==
  ASSUME Read, Read', \A x \in Msgs : Stays(x)
  PROVE  UNCHANGED abstractVars
<1>1. \A x \in Msgs : Standing(x)' = Standing(x)
  BY SameStanding
<1>2. \A s \in Sessions : RunningTurn(s)' = RunningTurn(s)
  BY SameTurn DEF Stays
<1>3. [m \in Msgs |-> Standing(m)]' = [m \in Msgs |-> Standing(m)]
  BY <1>1
<1>4. [s \in Sessions |-> RunningTurn(s)]' = [s \in Sessions |-> RunningTurn(s)]
  BY <1>2
<1>5. QED BY <1>3, <1>4 DEF abstractVars

\* A message leaves its sender for the bus or for a task that has to wait.
LEMMA MapsToSend ==
  ASSUME Read, Read', NEW m \in Msgs, m \in unsent, m \notin unsent',
         ~InTurn(m), ~InTurn(m)', ~Rides(m)', outcome'[m] = "none",
         \A x \in Msgs \ {m} : Stays(x)
  PROVE  Turns!Next
<1>1. Standing(m) = "unsent" /\ Standing(m)' = "waiting"
  BY DEF Read, Stands
<1>2. \A x \in Msgs \ {m} : Standing(x)' = Standing(x)
  BY SameStanding
<1>3. \A s \in Sessions : RunningTurn(s)' = RunningTurn(s)
  BY SameTurn DEF Stays
<1>4. Turns!Send(m)
  BY <1>1, <1>2, <1>3 DEF Turns!Send
<1>5. QED BY <1>4 DEF Turns!Next

\* A turn begins where none of its session runs.
LEMMA MapsToBegin ==
  ASSUME Read, Read', NEW m \in Msgs, Standing(m) \in {"unsent", "waiting"}, InTurn(m)',
         \A x \in Msgs : SessionOf[x] = SessionOf[m] => ~InTurn(x),
         \A x \in Msgs \ {m} : Stays(x)
  PROVE  Turns!Next
<1>0. SessionOf[m] \in Sessions
  BY ConstantsAssumption
<1>1. Standing(m)' = "active" /\ RunningTurn(SessionOf[m]) = None
  BY <1>0 DEF Read, Stands, TurnRead
<1>2. \A x \in Msgs \ {m} : Standing(x)' = Standing(x)
  BY SameStanding
<1>3. RunningTurn(SessionOf[m])' = m
  BY <1>0 DEF Read, TurnRead
<1>4. \A s \in Sessions \ {SessionOf[m]} : RunningTurn(s)' = RunningTurn(s)
  BY SameTurn DEF Stays
<1>5. Turns!Begin(m)
  BY <1>0, <1>1, <1>2, <1>3, <1>4 DEF Turns!Begin
<1>6. QED BY <1>5 DEF Turns!Next

\* A turn takes follow-ups of its session.
LEMMA MapsToAbsorb ==
  ASSUME Read, Read', NEW m \in Msgs, InTurn(m), NEW some \in SUBSET Msgs,
         \A x \in some : /\ SessionOf[x] = SessionOf[m] /\ Kind[x] # "auto"
                         /\ Standing(x) = "waiting" /\ Rides(x)',
         \A x \in Msgs : InTurn(x)' <=> InTurn(x),
         \A x \in Msgs \ some : Stays(x)
  PROVE  Turns!Next
<1>0. SessionOf[m] \in Sessions /\ m # None
  BY ConstantsAssumption
<1>1. RunningTurn(SessionOf[m]) = m
  BY <1>0 DEF Read, TurnRead
<1>2. \A x \in some : Standing(x)' = "riding"
  BY DEF Read, Stands
<1>3. \A x \in Msgs \ some : Standing(x)' = Standing(x)
  BY SameStanding
<1>4. \A s \in Sessions : RunningTurn(s)' = RunningTurn(s)
  BY SameTurn
<1>5. Turns!Absorb(SessionOf[m], some)
  BY <1>0, <1>1, <1>2, <1>3, <1>4 DEF Turns!Absorb
<1>6. QED BY <1>0, <1>5 DEF Turns!Next

\* Messages that wait are closed.
LEMMA MapsToDiscard ==
  ASSUME Read, Read', NEW some \in SUBSET Msgs,
         \A x \in some : Standing(x) = "waiting" /\ outcome'[x] # "none",
         \A x \in Msgs : InTurn(x)' <=> InTurn(x),
         \A x \in Msgs \ some : Stays(x)
  PROVE  Turns!Next
<1>1. \A x \in some : Standing(x)' = "closed"
  BY DEF Read, Stands
<1>2. \A x \in Msgs \ some : Standing(x)' = Standing(x)
  BY SameStanding
<1>3. \A s \in Sessions : RunningTurn(s)' = RunningTurn(s)
  BY SameTurn
<1>4. Turns!Discard(some)
  BY <1>1, <1>2, <1>3 DEF Turns!Discard
<1>5. QED BY <1>4 DEF Turns!Next

\* A turn ends: its follow-ups are closed with it, and it is closed itself unless it
\* queued its own continuation.
LEMMA MapsToEnd ==
  ASSUME Read, Read', NEW m \in Msgs, NEW again \in BOOLEAN, InTurn(m), ~InTurn(m)',
         m \notin unsent', ~Rides(m)',
         again <=> outcome'[m] = "none",
         \A x \in Msgs \ {m} : IF Rides(x) /\ SessionOf[x] = SessionOf[m]
                               THEN outcome'[x] # "none" /\ (InTurn(x)' <=> InTurn(x))
                               ELSE Stays(x)
  PROVE  Turns!Next
<1> DEFINE s == SessionOf[m]
<1>0. s \in Sessions /\ m # None
  BY ConstantsAssumption
<1>1. RunningTurn(s) = m /\ Standing(m) = "active"
  BY <1>0 DEF Read, Stands, TurnRead
<1>2. Standing(m)' = IF again THEN "waiting" ELSE "closed"
  BY DEF Read, Stands
<1>3. \A x \in Msgs \ {m} : InTurn(x)' <=> InTurn(x)
  BY DEF Stays
<1>4. \A x \in Msgs : SessionOf[x] = s => ~InTurn(x)'
  BY <1>0, <1>1, <1>3 DEF Read, TurnRead
<1>5. RunningTurn(s)' = None
  BY <1>0, <1>4 DEF Read, TurnRead
<1>6. \A r \in Sessions \ {s} : RunningTurn(r)' = RunningTurn(r)
  BY <1>3, SameTurn
<1>7. \A x \in Msgs \ {m} : Rides(x) /\ SessionOf[x] = s =>
        Standing(x) = "riding" /\ Standing(x)' = "closed"
  BY DEF Read, Stands
<1>8. \A x \in Msgs \ {m} : ~(Rides(x) /\ SessionOf[x] = s) => Standing(x)' = Standing(x)
  BY SameStanding
<1>9. \A x \in Msgs : Standing(x) = "riding" <=> Rides(x)
  <2>1. \A x \in Msgs : Rides(x) => Standing(x) = "riding"
    BY DEF Read, Stands
  <2>2. \A x \in Msgs : ~Rides(x) => Standing(x) # "riding"
    BY DEF Read, Stands
  <2>3. QED BY <2>1, <2>2
<1>10. Turns!End(s, again)
  <2>1. \A x \in Msgs : Standing(x)' = IF x = m /\ again THEN "waiting"
                                       ELSE IF (SessionOf[x] = s /\ Standing(x) = "riding") \/ x = m
                                       THEN "closed" ELSE Standing(x)
    BY <1>2, <1>7, <1>8, <1>9
  <2>2. Turns!Riders(s) = {x \in Msgs : SessionOf[x] = s /\ Standing(x) = "riding"}
    BY DEF Turns!Riders
  <2>3. QED BY <1>0, <1>1, <1>5, <1>6, <2>1, <2>2 DEF Turns!End
<1>11. QED BY <1>0, <1>10 DEF Turns!Next
Known == Inv /\ SerialSession /\ AutomationIsolated /\ RidesAlong
Maps == Turns!Next \/ UNCHANGED abstractVars

\* A step that touches no turn, follow-up, sender or outcome.
LEMMA MapsToNothing ==
  ASSUME Read, Read', UNCHANGED <<unsent, inTurn, outcome>>,
         \A x \in Msgs : InTurn(x)' <=> InTurn(x)
  PROVE  Maps
<1>1. \A x \in Msgs : Stays(x)
  BY DEF Stays, Rides
<1>2. QED BY <1>1, Stutters DEF Maps

\* A task that reaches its turn, or the queue of the lock or the gate.
LEMMA EntryMaps ==
  ASSUME Known, Read, Read', NEW m \in Msgs,
         \/ Start(m) \/ AcquireLock(m) \/ AcquireGate(m)
         \/ (Submit(m) \/ CallDirect(m)) /\ ReachLock(m)
  PROVE  Maps
<1>0. /\ TypeOK /\ Placed /\ task \in [Msgs -> TaskStates]
      /\ inTurn' = inTurn /\ outcome' = outcome
      /\ unsent' = unsent \/ (m \in unsent /\ unsent' = unsent \ {m})
  BY DEF Known, Inv, TypeOK, TaskType, Start, AcquireLock, AcquireGate, Submit, CallDirect
<1>1. m \in unsent \/ task[m] \in {"created", "lock", "gate"}
  BY DEF Start, AcquireLock, AcquireGate, Submit, CallDirect
<1>2. Live(m) /\ task[m] # "wrapping" => m \notin unsent /\ ~Rides(m) /\ outcome[m] = "none"
  <2>1. task[m] # "wrapping" => m \notin InSeq(pending[m])
    BY <1>0 DEF Placed, OwnContinuation
  <2>2. Live(m) /\ task[m] # "wrapping" => Located(m, "task", m)
    BY <1>0, <2>1, PlaceOf DEF Placed
  <2>3. QED BY <2>2 DEF Located, Rides
<1>3. m \in unsent => ~Live(m) /\ ~Rides(m) /\ outcome[m] = "none"
  <2>1. m \in unsent => Located(m, "unsent", m)
    BY <1>0, PlaceOf DEF Placed
  <2>2. QED BY <2>1 DEF Located, Rides
<1>4. ~InTurn(m) /\ ~Rides(m) /\ outcome[m] = "none"
  BY <1>1, <1>2, <1>3 DEF Live, InTurn, InTurnStates
<1>5. Standing(m) \in {"unsent", "waiting"}
  BY <1>4 DEF Read, Stands
<1>6. \A x \in Msgs \ {m} : task'[x] = task[x]
  BY <1>0 DEF Start, AcquireLock, AcquireGate, Submit, CallDirect, ReachLock, Enter
<1>7. \A x \in Msgs \ {m} : Stays(x)
  BY <1>0, <1>6 DEF Stays, InTurn, Rides
<1>8. CASE InTurn(m)'
  <2>1. \A x \in Msgs : SessionOf[x] = SessionOf[m] => ~InTurn(x)
    <3>1. CASE AcquireGate(m)
      <4>1. Holds(m)
        BY <3>1 DEF AcquireGate, Holds
      <4>2. QED BY <1>4, <4>1 DEF Known, SerialSession, Holds, InTurn
    <3>2. CASE AcquireLock(m)
      BY <3>2 DEF AcquireLock, LockFree, Holds, InTurn
    <3>3. CASE ReachLock(m)
      <4>1. LockFree(SessionOf[m])
        BY <1>0, <1>8, <3>3 DEF ReachLock, InTurn, InTurnStates
      <4>2. QED BY <4>1 DEF LockFree, Holds, InTurn
    <3>4. QED BY <3>1, <3>2, <3>3 DEF Start
  <2>2. QED BY <1>5, <1>7, <1>8, <2>1, MapsToBegin DEF Maps
<1>9. CASE ~InTurn(m)'
  <2>1. CASE unsent' = unsent
    <3>1. \A x \in Msgs : InTurn(x)' <=> InTurn(x)
      BY <1>4, <1>6, <1>9 DEF InTurn
    <3>2. QED BY <1>0, <2>1, <3>1, MapsToNothing
  <2>2. CASE m \in unsent /\ unsent' = unsent \ {m}
    <3>1. m \in unsent /\ m \notin unsent' /\ ~Rides(m)' /\ outcome'[m] = "none"
      BY <1>0, <1>4, <2>2 DEF Rides
    <3>2. QED BY <1>4, <1>7, <1>9, <3>1, MapsToSend DEF Maps
  <2>3. QED BY <1>0, <2>1, <2>2
<1>10. QED BY <1>8, <1>9

LEMMA SenderMaps ==
  ASSUME Known, Read, Read', Outside
  PROVE  Maps
<1>1. CASE Close \/ \E m \in Msgs : Abandon(m)
  BY <1>1, MapsToNothing DEF Close, Abandon, InTurn
<1>2. ASSUME NEW m \in Msgs, (Submit(m) \/ CallDirect(m)) /\ ReachLock(m)
      PROVE  Maps
  BY <1>2, EntryMaps
<1>3. ASSUME NEW m \in Msgs, Send(m) \/ Submit(m), UNCHANGED task
      PROVE  Maps
  <2>1. m \in unsent /\ unsent' = unsent \ {m} /\ UNCHANGED <<inTurn, outcome, task>>
    BY <1>3 DEF Send, Submit
  <2>2. Located(m, "unsent", m)
    BY <2>1, PlaceOf DEF Known, Inv, Placed
  <2>3. ~InTurn(m) /\ ~Rides(m) /\ outcome[m] = "none"
    BY <2>2 DEF Located, InTurn, InTurnStates, Live, Rides
  <2>4. m \notin unsent' /\ ~InTurn(m)' /\ ~Rides(m)' /\ outcome'[m] = "none"
    BY <2>1, <2>3 DEF InTurn, Rides
  <2>5. \A x \in Msgs \ {m} : Stays(x)
    BY <2>1 DEF Stays, InTurn, Rides
  <2>6. QED BY <2>1, <2>3, <2>4, <2>5, MapsToSend DEF Maps
<1>4. QED BY <1>1, <1>2, <1>3 DEF Outside, Send, Submit, CallDirect

\* A queued message that is not its own turn's continuation only waits.
LEMMA QueuedWaits ==
  ASSUME Known, Read, NEW m \in Msgs, NEW x \in Msgs, x \in InSeq(pending[m]), ~InTurn(x)
  PROVE  Standing(x) = "waiting"
<1>1. Located(x, "pending", m)
  BY PlaceOf DEF Known, Inv, Placed
<1>2. x \notin unsent /\ ~Rides(x) /\ outcome[x] = "none"
  BY <1>1 DEF Located, Rides
<1>3. QED BY <1>2 DEF Read, Stands

LEMMA QueuedIdle ==
  ASSUME Known, NEW m \in Msgs, task[m] = "running", NEW x \in InSeq(pending[m])
  PROVE  x \in Msgs /\ x # m /\ ~InTurn(x) /\ Kind[x] # "auto" /\ SessionOf[x] = SessionOf[m]
<1>1. pending[m] \in Seq(Msgs)
  BY DEF Known, Inv, TypeOK, TurnType
<1>2. x \in Msgs
  BY <1>1 DEF InSeq
<1>3. x # m
  BY DEF Known, Inv, Placed, OwnContinuation
<1>4. Located(x, "pending", m)
  BY <1>2, PlaceOf DEF Known, Inv, Placed
<1>5. ~Live(x)
  BY <1>2, <1>3, <1>4 DEF Located
<1>6. ~InTurn(x)
  BY <1>5 DEF Live, InTurn, InTurnStates
<1>7. Kind[x] # "auto" /\ SessionOf[x] = SessionOf[m]
  BY <1>2, <1>3 DEF Known, AutomationIsolated, RidesAlong
<1>8. QED BY <1>2, <1>3, <1>6, <1>7

\* The command is closed, and with it the follow-ups that /stop drops.
LEMMA CommandMaps ==
  ASSUME Known, Read, Read', ControlDone
  PROVE  Maps
<1>0. /\ TypeOK /\ Placed /\ pending \in [Msgs -> Seq(Msgs)]
      /\ slot \in [Sessions -> Msgs \cup {None}] /\ outcome \in [Msgs -> Outcomes]
  BY DEF Known, Inv, TypeOK, TurnType, AnswerType
<1>1. PICK c \in Msgs : c = command
  BY <1>0 DEF ControlDone, TypeOK, LoopType
<1>2. SessionOf[c] \in Sessions
  BY ConstantsAssumption
<1>3. PICK t \in Msgs \cup {None} : t = slot[SessionOf[c]]
  BY <1>0, <1>2
<1>4. UNCHANGED <<unsent, inTurn, task>>
  BY DEF ControlDone
<1>5. PICK emptied : emptied = IF Kind[c] = "stop" /\ t # None THEN InSeq(pending[t]) ELSE {}
  OBVIOUS
<1>6. outcome' = [m \in Msgs |-> IF m = c THEN "control"
                                 ELSE IF m \in emptied /\ ~InTurn(m) THEN "dropped"
                                 ELSE outcome[m]]
  BY <1>1, <1>3, <1>5 DEF ControlDone
<1>7. emptied \subseteq Msgs
  BY <1>0, <1>3, <1>5 DEF InSeq
<1>8. PICK some \in SUBSET Msgs : some = {c} \cup {x \in emptied : ~InTurn(x)}
  BY <1>7
<1>9. Standing(c) = "waiting"
  <2>1. Located(c, "command", c)
    BY <1>0, <1>1, PlaceOf DEF Placed
  <2>2. c \notin InSeq(pending[c])
    BY <2>1 DEF Located
  <2>3. ~InTurn(c) /\ c \notin unsent /\ ~Rides(c) /\ outcome[c] = "none"
    BY <2>1, <2>2 DEF Located, InTurn, InTurnStates, Live, Rides
  <2>4. QED BY <2>3 DEF Read, Stands
<1>10. \A x \in some : Standing(x) = "waiting"
  BY <1>3, <1>5, <1>8, <1>9, QueuedWaits
<1>11. \A x \in some : outcome'[x] # "none"
  BY <1>6, <1>8
<1>12. \A x \in Msgs \ some : outcome'[x] = outcome[x]
  BY <1>6, <1>8
<1>13. \A x \in Msgs \ some : Stays(x)
  BY <1>4, <1>12 DEF Stays, InTurn, Rides
<1>14. \A x \in Msgs : InTurn(x)' <=> InTurn(x)
  BY <1>4 DEF InTurn
<1>15. QED BY <1>10, <1>11, <1>13, <1>14, MapsToDiscard DEF Maps

LEMMA ConsumerMaps ==
  ASSUME Known, Read, Read', ConsumerStep
  PROVE  Maps
<1>1. CASE StartLoop \/ \E m \in Msgs : ConsumeControl(m) \/ ConsumeDefer(m) \/ ConsumeRoute(m)
  BY <1>1, MapsToNothing DEF StartLoop, ConsumeControl, ConsumeDefer, ConsumeRoute, InTurn
<1>2. ASSUME NEW m \in Msgs, ConsumeSpawn(m)
      PROVE  Maps
  <2>1. Located(m, "bus", m) /\ task \in [Msgs -> TaskStates]
    BY <1>2, HeadOfBus DEF ConsumeSpawn, Known, Inv, TypeOK, TaskType
  <2>2. task'[m] = "created" /\ \A x \in Msgs \ {m} : task'[x] = task[x]
    BY <1>2, <2>1 DEF ConsumeSpawn
  <2>3. \A x \in Msgs : InTurn(x)' <=> InTurn(x)
    BY <2>1, <2>2 DEF Located, InTurn, InTurnStates, Live
  <2>4. QED BY <1>2, <2>3, MapsToNothing DEF ConsumeSpawn
<1>3. QED BY <1>1, <1>2, CommandMaps DEF ConsumerStep

\* A drain, whole or failed.
LEMMA DrainMaps ==
  ASSUME Known, Read, Read', NEW m \in Msgs, Drain(m) \/ DrainFails(m)
  PROVE  Maps
<1>0. /\ pending[m] \in Seq(Msgs) /\ NoRepeat(pending[m]) /\ inTurn \in [Msgs -> SUBSET Msgs]
      /\ task[m] = "running" /\ task' = task /\ unsent' = unsent /\ pending[m] # <<>>
  BY DEF Known, Inv, TypeOK, TurnType, Placed, QueuesDistinct, Drain, DrainFails, Draining
<1>1. InTurn(m) /\ \A x \in Msgs : InTurn(x)' <=> InTurn(x)
  BY <1>0 DEF InTurn, InTurnStates
<1>2. CASE Drain(m)
  <2>1. PICK some : some = InSeq(Batch(m))
    OBVIOUS
  <2>2. some \subseteq InSeq(pending[m])
    BY <1>0, <2>1, BatchMembers
  <2>3. \A x \in some : /\ x \in Msgs /\ SessionOf[x] = SessionOf[m] /\ Kind[x] # "auto"
                        /\ Standing(x) = "waiting"
    BY <1>0, <2>2, QueuedIdle, QueuedWaits
  <2>4. /\ inTurn'[m] = inTurn[m] \cup some
        /\ \A x \in Msgs \ {m} : inTurn'[x] = inTurn[x]
    BY <1>0, <1>2, <2>1 DEF Drain
  <2>5. \A x \in some : Rides(x)'
    BY <2>4 DEF Rides
  <2>6. \A x \in Msgs \ some : Rides(x)' <=> Rides(x)
    BY <2>4 DEF Rides
  <2>7. outcome' = outcome
    BY <1>2 DEF Drain
  <2>8. \A x \in Msgs \ some : Stays(x)
    BY <1>0, <1>1, <2>6, <2>7 DEF Stays
  <2>9. some \in SUBSET Msgs
    BY <2>3
  <2>10. QED BY <1>1, <2>3, <2>5, <2>8, <2>9, MapsToAbsorb DEF Maps
<1>3. CASE DrainFails(m)
  <2>1. PICK k \in 1..Len(Batch(m)) :
          outcome' = [x \in Msgs |-> IF x \in InSeq(SubSeq(pending[m], 1, k))
                                     THEN "dropped" ELSE outcome[x]]
    BY <1>3 DEF DrainFails
  <2>2. k \in 0..Len(pending[m])
    BY <1>0, BatchLength
  <2>3. PICK some : some = InSeq(SubSeq(pending[m], 1, k))
    OBVIOUS
  <2>4. some \subseteq InSeq(pending[m])
    BY <1>0, <2>2, <2>3, SplitMembers
  <2>5. \A x \in some : x \in Msgs /\ Standing(x) = "waiting" /\ outcome'[x] # "none"
    BY <1>0, <2>1, <2>3, <2>4, QueuedIdle, QueuedWaits
  <2>6. \A x \in Msgs \ some : outcome'[x] = outcome[x]
    BY <2>1, <2>3
  <2>7. inTurn' = inTurn
    BY <1>3 DEF DrainFails
  <2>8. \A x \in Msgs \ some : Stays(x)
    BY <1>0, <1>1, <2>6, <2>7 DEF Stays, Rides
  <2>9. some \in SUBSET Msgs
    BY <2>5
  <2>10. QED BY <1>1, <2>5, <2>8, <2>9, MapsToDiscard DEF Maps
<1>4. QED BY <1>2, <1>3

\* The last drain of a turn that goes on, and its suspended put.
LEMMA ContinueMaps ==
  ASSUME Known, Read, Read', NEW m \in Msgs, Continue(m)
  PROVE  Maps
<1> DEFINE last == cycles[m] < InjectCycles /\ pending[m] # <<>>
<1>0. /\ pending[m] \in Seq(Msgs) /\ NoRepeat(pending[m]) /\ inTurn \in [Msgs -> SUBSET Msgs]
      /\ task \in [Msgs -> TaskStates] /\ task[m] = "running" /\ unsent' = unsent
      /\ outcome' = outcome
  BY DEF Known, Inv, TypeOK, TurnType, TaskType, Placed, QueuesDistinct, Continue
<1>1. InTurn(m) /\ \A x \in Msgs : InTurn(x)' <=> InTurn(x)
  <2>1. /\ task'[m] \in {"wrapping", "putting"}
        /\ \A x \in Msgs \ {m} : task'[x] = task[x]
    BY <1>0 DEF Continue
  <2>2. QED BY <1>0, <2>1 DEF InTurn, InTurnStates
<1>2. inTurn' = IF last THEN [inTurn EXCEPT ![m] = @ \cup InSeq(Batch(m))] ELSE inTurn
  BY DEF Continue
<1>3. CASE ~last
  BY <1>0, <1>1, <1>2, <1>3, MapsToNothing
<1>4. CASE last
  <2>1. PICK some : some = InSeq(Batch(m))
    OBVIOUS
  <2>2. some \subseteq InSeq(pending[m])
    BY <1>0, <1>4, <2>1, BatchMembers
  <2>3. \A x \in some : /\ x \in Msgs /\ SessionOf[x] = SessionOf[m] /\ Kind[x] # "auto"
                        /\ Standing(x) = "waiting"
    BY <1>0, <2>2, QueuedIdle, QueuedWaits
  <2>4. /\ inTurn'[m] = inTurn[m] \cup some
        /\ \A x \in Msgs \ {m} : inTurn'[x] = inTurn[x]
    BY <1>0, <1>2, <1>4, <2>1
  <2>5. \A x \in some : Rides(x)'
    BY <2>4 DEF Rides
  <2>6. \A x \in Msgs \ some : Rides(x)' <=> Rides(x)
    BY <2>4 DEF Rides
  <2>7. \A x \in Msgs \ some : Stays(x)
    BY <1>0, <1>1, <2>6 DEF Stays
  <2>8. some \in SUBSET Msgs
    BY <2>3
  <2>9. QED BY <1>1, <2>3, <2>5, <2>7, <2>8, MapsToAbsorb DEF Maps
<1>5. QED BY <1>3, <1>4

\* The exit of a turn.
LEMMA LeaveMaps ==
  ASSUME Known, Read, Read', NEW m \in Msgs, NEW result, result # "none", InTurn(m),
         Leave(m, result)
  PROVE  Maps
<1>0. /\ TypeOK /\ Placed /\ pending \in [Msgs -> Seq(Msgs)] /\ inTurn \in [Msgs -> SUBSET Msgs]
      /\ task \in [Msgs -> TaskStates] /\ unsent' = unsent
  BY DEF Known, Inv, TypeOK, TurnType, TaskType, Leave
<1>1. task'[m] = "done" /\ \A x \in Msgs \ {m} : task'[x] = task[x]
  BY <1>0 DEF Leave, TaskEnds
<1>2. ~InTurn(m)' /\ \A x \in Msgs \ {m} : InTurn(x)' <=> InTurn(x)
  BY <1>1 DEF InTurn, InTurnStates
<1>3. inTurn'[m] = {} /\ \A x \in Msgs \ {m} : inTurn'[x] = inTurn[x]
  BY <1>0 DEF Leave
<1>4. outcome' = [x \in Msgs |-> IF x \in ClosedBy(m) THEN result ELSE outcome[x]]
  BY DEF Leave
<1>5. m \notin unsent /\ ~Rides(m) /\ outcome[m] = "none"
  <2>1. Located(m, "task", m) \/ Located(m, "pending", m)
    BY <1>0, PlaceOf DEF Placed, InTurn, InTurnStates, Live
  <2>2. QED BY <2>1 DEF Located, Rides
<1>6. \A x \in inTurn[m] : x \in Msgs /\ x # m /\ SessionOf[x] = SessionOf[m]
  BY <1>0, <1>5 DEF Rides, Known, RidesAlong
<1>7. \A x \in Msgs : Rides(x) /\ SessionOf[x] = SessionOf[m] => x \in inTurn[m]
  <2> SUFFICES ASSUME NEW x \in Msgs, NEW y \in Msgs, x \in inTurn[y], SessionOf[x] = SessionOf[m]
               PROVE  y = m
    BY DEF Rides
  <2>1. InTurn(y) /\ SessionOf[y] = SessionOf[m]
    BY DEF Known, RidesAlong
  <2>2. QED BY <2>1 DEF Known, SerialSession, Holds, InTurn
<1>8. PICK again \in BOOLEAN : again <=> m \in InSeq(pending[m])
  OBVIOUS
<1>9. again <=> outcome'[m] = "none"
  BY <1>4, <1>5, <1>6, <1>8 DEF ClosedBy
<1>10. \A x \in Msgs \ {m} : IF x \in inTurn[m] THEN outcome'[x] # "none"
                             ELSE outcome'[x] = outcome[x]
  BY <1>4 DEF ClosedBy
<1>11. ASSUME NEW x \in Msgs \ {m}
       PROVE  IF Rides(x) /\ SessionOf[x] = SessionOf[m]
              THEN outcome'[x] # "none" /\ (InTurn(x)' <=> InTurn(x))
              ELSE Stays(x)
  <2>1. Rides(x) /\ SessionOf[x] = SessionOf[m] <=> x \in inTurn[m]
    BY <1>6, <1>7 DEF Rides
  <2>2. CASE x \in inTurn[m]
    BY <1>2, <1>10, <2>1, <2>2
  <2>3. CASE x \notin inTurn[m]
    <3>1. Rides(x)' <=> Rides(x)
      BY <1>3, <2>3 DEF Rides
    <3>2. Stays(x)
      BY <1>0, <1>2, <1>10, <2>3, <3>1 DEF Stays
    <3>3. QED BY <2>1, <2>3, <3>2
  <2>4. QED BY <2>2, <2>3
<1>12. m \notin unsent' /\ ~Rides(m)'
  BY <1>0, <1>3, <1>5 DEF Rides
<1>13. QED BY <1>2, <1>9, <1>11, <1>12, MapsToEnd DEF Maps

LEMMA TurnMaps ==
  ASSUME Known, Read, Read', NEW m \in Msgs, TurnStep(m)
  PROVE  Maps
<1>0. task \in [Msgs -> TaskStates] /\ outcome \in [Msgs -> Outcomes]
  BY DEF Known, Inv, TypeOK, TaskType, AnswerType
<1>1. CASE Put(m) \/ RunNew(m)
  <2>1. /\ task[m] \in {"running", "putting"} /\ task'[m] \in {"wrapping", "clearing"}
        /\ \A x \in Msgs \ {m} : task'[x] = task[x]
    BY <1>0, <1>1 DEF Put, RunNew
  <2>2. \A x \in Msgs : InTurn(x)' <=> InTurn(x)
    BY <2>1 DEF InTurn, InTurnStates
  <2>3. QED BY <1>1, <2>2, MapsToNothing DEF Put, RunNew
<1>2. ASSUME NEW result \in {"answered", "failed"}, Finish(m, result)
      PROVE  Maps
  BY <1>2, LeaveMaps DEF Finish, InTurn, InTurnStates
<1>3. CASE FinishNew(m) \/ CancelTurn(m)
  BY <1>3, LeaveMaps DEF FinishNew, CancelTurn, InTurn, InTurnStates
<1>4. CASE CancelUnstarted(m) \/ CancelWaiting(m)
  <2>1. /\ task[m] \in {"created", "lock", "gate"} /\ outcome'[m] # "none"
        /\ \A x \in Msgs \ {m} : outcome'[x] = outcome[x] /\ task'[x] = task[x]
        /\ task'[m] = "done" /\ UNCHANGED <<unsent, inTurn>>
    BY <1>0, <1>4 DEF CancelUnstarted, CancelWaiting, TaskEnds
  <2>2. Located(m, "task", m)
    BY <2>1, RunningNotQueued DEF Known, Inv
  <2>3. Standing(m) = "waiting" /\ ~InTurn(m)
    BY <2>1, <2>2 DEF Located, Rides, InTurn, InTurnStates, Read, Stands
  <2>4. \A x \in Msgs : InTurn(x)' <=> InTurn(x)
    BY <2>1, <2>3 DEF InTurn, InTurnStates
  <2>5. \A x \in Msgs \ {m} : Stays(x)
    BY <2>1, <2>4 DEF Stays, Rides
  <2>6. PICK some \in SUBSET Msgs : some = {m}
    OBVIOUS
  <2>7. QED BY <2>1, <2>3, <2>4, <2>5, <2>6, MapsToDiscard DEF Maps
<1>5. QED BY <1>1, <1>2, <1>3, <1>4, EntryMaps, DrainMaps, ContinueMaps DEF TurnStep

LEMMA StepMaps == Known /\ Read /\ Read' /\ [Next]_vars => Maps
<1> SUFFICES ASSUME Known, Read, Read', [Next]_vars PROVE Maps
  OBVIOUS
<1>1. CASE UNCHANGED vars
  BY <1>1, MapsToNothing DEF InTurn
<1>2. QED BY <1>1, SenderMaps, ConsumerMaps, TurnMaps DEF Next

\* Session dispatch keeps the promise of SerialTurns for any messages, sessions and
\* limits: one turn per session, automation never rides, what rides is closed with its
\* turn, and closing is final.
THEOREM DispatchIsSerial == Spec => SerialTurnsSpec
<1>1. Init => RidesAlong
  BY DEF Init, RidesAlong, InSeq
<1>2. Inv /\ RidesAlong /\ [Next]_vars => RidesAlong'
  BY RidersStep
<1>3. Placed => Stands
  BY StandingRead
<1>4. SerialSession => TurnRead
  BY RunningRead
<1>5. Known => Read
  BY <1>3, <1>4 DEF Known, Inv, Read
<1>6. Spec => []Known
  BY <1>1, <1>2, Invariance, OneTurnPerSession, AutomationNeverInjected, PTL DEF Spec, Known
<1>7. Known /\ Read /\ Read' /\ [Next]_vars => [Turns!Next]_abstractVars
  BY StepMaps DEF Maps
<1>8. Init => Turns!Init
  <2> SUFFICES ASSUME Init PROVE Turns!Init
    OBVIOUS
  <2>1. Placed
    BY InitInv
  <2>2. \A m \in Msgs : m \in unsent /\ ~InTurn(m)
    BY DEF Init, InTurn, InTurnStates
  <2>3. SerialSession
    BY <2>2 DEF Init, SerialSession, Holds, InTurnStates
  <2>4. \A m \in Msgs : Standing(m) = "unsent"
    BY <1>3, <2>1, <2>2 DEF Stands
  <2>5. \A s \in Sessions : RunningTurn(s) = None
    BY <1>4, <2>2, <2>3 DEF TurnRead
  <2>6. QED BY <2>4, <2>5 DEF Turns!Init
<1>9. QED BY <1>5, <1>6, <1>7, <1>8, PTL DEF Spec, SerialTurnsSpec, Turns!Spec, abstractVars
==============================================================================
