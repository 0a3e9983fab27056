--------------------------- MODULE SessionDispatch ---------------------------
(***************************************************************************)
(* Session dispatch of the agent loop: AgentLoop.run consumes the inbound  *)
(* bus, AgentLoop._dispatch runs one turn per session under the session    *)
(* lock and the process-wide concurrency gate, follow-ups are routed into  *)
(* the active turn's bounded queue, automation (cron and local trigger)    *)
(* turns are deferred and awaited through AutomationTurnCoordinator, and   *)
(* /stop, /new and session discard cancel the session's tasks.             *)
(*                                                                         *)
(* One asyncio event loop runs everything, so an action is what runs       *)
(* between two real suspension points.  A dispatch task is named after the *)
(* message it was created for.  Channels here are not the WebUI's: no      *)
(* recovery coordinator admits a message and no follow-up is journalled.   *)
(***************************************************************************)
EXTENDS Integers, Sequences, FiniteSets

CONSTANTS
  Msgs,          \* every message of the run, each one sent once
  Sessions,      \* effective session keys
  SessionOf,     \* the session of each message
  Kind,          \* what each message is (MsgKinds)
  GoalMsgs,      \* turns of a sustained goal: they may hit max_iterations
  None,          \* no message
  PendingCap,    \* maxsize of a turn's pending queue
  InjectLimit,   \* _MAX_INJECTIONS_PER_TURN
  InjectCycles,  \* _MAX_INJECTION_CYCLES
  MaxRounds,     \* _MAX_GOAL_CONTINUATION_ROUNDS
  Permits        \* AUTO_CUT_BOT_MAX_CONCURRENT_REQUESTS, 0 for no gate

MsgKinds == {"user", "auto", "direct", "stop", "discard", "new"}

ASSUME ConstantsAssumption ==
  /\ SessionOf \in [Msgs -> Sessions]
  /\ Kind \in [Msgs -> MsgKinds]
  /\ GoalMsgs \subseteq {m \in Msgs : Kind[m] \in {"user", "auto"}}
  /\ None \notin Msgs
  /\ PendingCap \in Nat \ {0}
  /\ InjectLimit \in Nat \ {0}
  /\ InjectCycles \in Nat
  /\ MaxRounds \in Nat
  /\ Permits \in Nat

VARIABLES
  unsent,    \* messages no one has sent yet
  bus,       \* MessageBus.inbound
  loop,      \* the run() consumer: off, ready, waiting (in a command), closed
  command,   \* the command the consumer awaits
  awaited,   \* the cancelled tasks that command awaits
  task,      \* the dispatch task of each message
  cancel,    \* tasks with a cancellation request not yet delivered
  tracked,   \* members of _active_tasks
  clearing,  \* the tasks each running /new turn awaits
  lockQ,     \* FIFO waiters of each session lock
  gateQ,     \* FIFO waiters of the concurrency gate
  slot,      \* _pending_queues: the task whose queue is published
  pending,   \* the pending queue object of each task
  deferred,  \* _deferred_automation_turns
  inTurn,    \* follow-ups a turn has drained and not yet committed
  cycles,    \* injection cycles a turn has used
  rounds,    \* goal continuation rounds each session has used
  waiter,    \* the submit() future of an automation message
  outcome    \* how the system finished with a message

busVars  == <<unsent, bus>>
loopVars == <<loop, command, awaited>>
taskVars == <<task, cancel, tracked, clearing, lockQ, gateQ>>
turnVars == <<slot, pending, inTurn, cycles, rounds>>
vars == <<busVars, loopVars, taskVars, turnVars, deferred, waiter, outcome>>

-----------------------------------------------------------------------------
TaskStates == {"none", "created", "lock", "gate", "running", "putting",
               "wrapping", "clearing", "done"}
Outcomes == {"none", "answered", "failed", "cancelled", "never_started",
             "never_locked", "dropped", "control"}

\* A turn inside _process_message, and a task that owns its session lock.
InTurnStates == {"running", "putting", "wrapping", "clearing"}
Holds(m)   == task[m] \in InTurnStates \cup {"gate"}
InTurn(m)  == task[m] \in InTurnStates
Live(m)    == task[m] \notin {"none", "done"}
SessionTasks(s) == {m \in tracked : SessionOf[m] = s}

LockFreeByQueue(s) == slot[s] = None
LockFree(s) == \A m \in Msgs : SessionOf[m] = s => ~Holds(m)

\* asyncio lets a newcomer pass when every queued waiter is being cancelled.
Unwaited(q) == \A i \in 1..Len(q) : q[i] \in cancel

\* process_direct takes the session lock only, never the gate.
Gated == {m \in Msgs : Kind[m] # "direct" /\ InTurn(m)}
GateOpenOneMore == Permits = 0 \/ Cardinality(Gated) <= Permits
GateOpen == Permits = 0 \/ Cardinality(Gated) < Permits

InSeq(q) == {q[i] : i \in 1..Len(q)}

\* A cancelled waiter removes its own future from the queue.
Place(q, m) == CHOOSE i \in 1..Len(q) : q[i] = m
Without(q, m) ==
  IF m \in InSeq(q)
  THEN SubSeq(q, 1, Place(q, m) - 1) \o SubSeq(q, Place(q, m) + 1, Len(q))
  ELSE q
Smaller(a, b) == IF a < b THEN a ELSE b

\* A task's exit puts items back on the bus, then one deferred automation turn
\* of its session (publish_next_deferred_turn).
ReleaseDropsDeferred(s, items) ==
  /\ bus' = bus \o items
  /\ UNCHANGED deferred

ReleaseDropsLeftovers(s, items) ==
  IF deferred[s] = <<>>
  THEN UNCHANGED <<bus, deferred>>
  ELSE /\ bus' = Append(bus, Head(deferred[s]))
       /\ deferred' = [deferred EXCEPT ![s] = Tail(@)]

Release(s, items) ==
  IF deferred[s] = <<>>
  THEN bus' = bus \o items /\ UNCHANGED deferred
  ELSE /\ bus' = Append(bus \o items, Head(deferred[s]))
       /\ deferred' = [deferred EXCEPT ![s] = Tail(@)]

\* AutomationTurnCoordinator.complete: only a waiting future is resolved.
ResolveOnlySuccess(m, result) ==
  waiter' = [waiter EXCEPT ![m] = IF @ = "waiting" /\ result = "answered"
                                  THEN result ELSE @]

Resolve(m, result) ==
  waiter' = [waiter EXCEPT ![m] = IF @ = "waiting" THEN result ELSE @]

-----------------------------------------------------------------------------
Init ==
  /\ unsent = Msgs
  /\ bus = <<>>
  /\ loop = "off"
  /\ command = None
  /\ awaited = {}
  /\ task = [m \in Msgs |-> "none"]
  /\ cancel = {}
  /\ tracked = {}
  /\ clearing = [m \in Msgs |-> {}]
  /\ lockQ = [s \in Sessions |-> <<>>]
  /\ gateQ = <<>>
  /\ slot = [s \in Sessions |-> None]
  /\ pending = [m \in Msgs |-> <<>>]
  /\ deferred = [s \in Sessions |-> <<>>]
  /\ inTurn = [m \in Msgs |-> {}]
  /\ cycles = [m \in Msgs |-> 0]
  /\ rounds = [s \in Sessions |-> 0]
  /\ waiter = [m \in Msgs |-> "none"]
  /\ outcome = [m \in Msgs |-> "none"]

-----------------------------------------------------------------------------
(* Entering a turn: the session lock first, then the gate, then the queue is *)
(* published.  Neither acquisition suspends when it is free and unwaited.    *)

Enter(m) ==
  IF Kind[m] = "direct" \/ (GateOpen /\ Unwaited(gateQ))
  THEN /\ task' = [task EXCEPT ![m] = "running"]
       /\ slot' = IF Kind[m] = "direct" THEN slot
                  ELSE [slot EXCEPT ![SessionOf[m]] = m]
       /\ UNCHANGED gateQ
  ELSE /\ task' = [task EXCEPT ![m] = "gate"]
       /\ gateQ' = Append(gateQ, m)
       /\ UNCHANGED slot

ReachLock(m) ==
  LET s == SessionOf[m] IN
  IF LockFree(s) /\ Unwaited(lockQ[s])
  THEN Enter(m) /\ UNCHANGED lockQ
  ELSE /\ task' = [task EXCEPT ![m] = "lock"]
       /\ lockQ' = [lockQ EXCEPT ![s] = Append(@, m)]
       /\ UNCHANGED <<gateQ, slot>>

\* The first step of a task run() created.
Start(m) ==
  /\ task[m] = "created"
  /\ m \notin cancel
  /\ ReachLock(m)
  /\ UNCHANGED <<busVars, loopVars, cancel, tracked, clearing, pending, inTurn,
                 cycles, rounds, deferred, waiter, outcome>>

AcquireLock(m) ==
  LET s == SessionOf[m] IN
  /\ task[m] = "lock"
  /\ m \notin cancel
  /\ LockFree(s)
  /\ lockQ[s] # <<>>
  /\ m = Head(lockQ[s])
  /\ lockQ' = [lockQ EXCEPT ![s] = Tail(@)]
  /\ Enter(m)
  /\ UNCHANGED <<busVars, loopVars, cancel, tracked, clearing, pending, inTurn,
                 cycles, rounds, deferred, waiter, outcome>>

AcquireGate(m) ==
  /\ task[m] = "gate"
  /\ m \notin cancel
  /\ GateOpen
  /\ gateQ # <<>>
  /\ m = Head(gateQ)
  /\ gateQ' = Tail(gateQ)
  /\ task' = [task EXCEPT ![m] = "running"]
  /\ slot' = [slot EXCEPT ![SessionOf[m]] = m]
  /\ UNCHANGED <<busVars, loopVars, cancel, tracked, clearing, lockQ, pending,
                 inTurn, cycles, rounds, deferred, waiter, outcome>>

-----------------------------------------------------------------------------
(* Senders. *)

\* A channel publishes a message or a command to the inbound bus.
Send(m) ==
  /\ m \in unsent
  /\ Kind[m] \in {"user", "stop", "discard", "new"}
  /\ unsent' = unsent \ {m}
  /\ bus' = Append(bus, m)
  /\ UNCHANGED <<loopVars, taskVars, turnVars, deferred, waiter, outcome>>

\* AutomationTurnCoordinator.submit: through the bus while run() is active,
\* otherwise dispatched in the submitter's own task.
Submit(m) ==
  /\ m \in unsent
  /\ Kind[m] = "auto"
  /\ unsent' = unsent \ {m}
  /\ waiter' = [waiter EXCEPT ![m] = "waiting"]
  /\ IF loop \in {"ready", "waiting"}
     THEN bus' = Append(bus, m) /\ UNCHANGED <<task, lockQ, gateQ, slot>>
     ELSE ReachLock(m) /\ UNCHANGED bus
  /\ UNCHANGED <<loopVars, cancel, tracked, clearing, pending, inTurn, cycles,
                 rounds, deferred, outcome>>

\* The submitter is cancelled: its future is forgotten, and a dispatch running
\* inside the submitter's task is cancelled with it.
Abandon(m) ==
  /\ waiter[m] = "waiting"
  /\ waiter' = [waiter EXCEPT ![m] = "abandoned"]
  /\ cancel' = IF Live(m) /\ m \notin tracked THEN cancel \cup {m} ELSE cancel
  /\ UNCHANGED <<busVars, loopVars, task, tracked, clearing, lockQ, gateQ, turnVars,
                 deferred, outcome>>

\* process_direct: an API or SDK call runs in its caller's task.
CallDirect(m) ==
  /\ m \in unsent
  /\ Kind[m] = "direct"
  /\ unsent' = unsent \ {m}
  /\ ReachLock(m)
  /\ UNCHANGED <<bus, loopVars, cancel, tracked, clearing, pending, inTurn, cycles,
                 rounds, deferred, waiter, outcome>>


-----------------------------------------------------------------------------
(* The consumer: AgentLoop.run. *)

AwaitOnly(tasks) == UNCHANGED cancel
Cancel(tasks) == cancel' = cancel \cup tasks

StartLoop ==
  /\ loop = "off"
  /\ loop' = "ready"
  /\ UNCHANGED <<busVars, command, awaited, taskVars, turnVars, deferred, waiter,
                 outcome>>

\* stop(), the end of the consumer's current poll, and aclose(): every tracked
\* task is cancelled.
Close ==
  /\ loop = "ready"
  /\ loop' = "closed"
  /\ Cancel(tracked)
  /\ tracked' = {}
  /\ UNCHANGED <<busVars, command, awaited, task, clearing, lockQ, gateQ, turnVars,
                 deferred, waiter, outcome>>

Active(m) == slot[SessionOf[m]] # None

\* /stop is a priority command and a discard a runtime control; /new is run
\* inline only while its session has a published queue.
RunsInline(m) == Kind[m] \in {"stop", "discard"} \/ (Kind[m] = "new" /\ Active(m))

MustDeferNever(m) == FALSE
MustDefer(m) == Kind[m] = "auto" /\ Active(m)

\* A follow-up goes to the active turn, unless its queue is full.
RoutesPastCap(m) == ~MustDefer(m) /\ Active(m)
Routes(m) ==
  /\ ~MustDefer(m)
  /\ Active(m)
  /\ Len(pending[slot[SessionOf[m]]]) < PendingCap

Consume(m) ==
  /\ loop = "ready"
  /\ bus # <<>>
  /\ m = Head(bus)

\* _cancel_active_tasks from the consumer: the session's tasks leave the
\* registry, are cancelled, and are then awaited one by one.
ConsumeControl(m) ==
  LET mine == SessionTasks(SessionOf[m]) IN
  /\ Consume(m)
  /\ RunsInline(m)
  /\ bus' = Tail(bus)
  /\ loop' = "waiting"
  /\ command' = m
  /\ awaited' = mine
  /\ Cancel(mine)
  /\ tracked' = tracked \ mine
  /\ UNCHANGED <<unsent, task, clearing, lockQ, gateQ, turnVars, deferred, waiter,
                 outcome>>

\* The command returns.  cmd_stop also pops the published queue and empties it.
ControlDone ==
  LET s == SessionOf[command]
      emptied == IF Kind[command] = "stop" /\ slot[s] # None
                 THEN InSeq(pending[slot[s]]) ELSE {}
  IN
  /\ loop = "waiting"
  /\ awaited = {}
  /\ loop' = "ready"
  /\ command' = None
  /\ IF Kind[command] = "stop" /\ slot[s] # None
     THEN /\ slot' = [slot EXCEPT ![s] = None]
          /\ pending' = [pending EXCEPT ![slot[s]] = <<>>]
     ELSE UNCHANGED <<slot, pending>>
  /\ outcome' = [m \in Msgs |-> IF m = command THEN "control"
                                ELSE IF m \in emptied /\ ~InTurn(m) THEN "dropped"
                                ELSE outcome[m]]
  /\ UNCHANGED <<busVars, awaited, taskVars, inTurn, cycles, rounds, deferred, waiter>>

ConsumeDefer(m) ==
  /\ Consume(m)
  /\ MustDefer(m)
  /\ bus' = Tail(bus)
  /\ deferred' = [deferred EXCEPT ![SessionOf[m]] = Append(@, m)]
  /\ UNCHANGED <<unsent, loopVars, taskVars, turnVars, waiter, outcome>>

ConsumeRoute(m) ==
  /\ Consume(m)
  /\ ~RunsInline(m)
  /\ Routes(m)
  /\ bus' = Tail(bus)
  /\ pending' = [pending EXCEPT ![slot[SessionOf[m]]] = Append(@, m)]
  /\ UNCHANGED <<unsent, loopVars, taskVars, slot, inTurn, cycles, rounds,
                 deferred, waiter, outcome>>

\* A task of its own, also for a follow-up that found the queue full.
ConsumeSpawn(m) ==
  /\ Consume(m)
  /\ ~RunsInline(m)
  /\ ~MustDefer(m)
  /\ ~Routes(m)
  /\ bus' = Tail(bus)
  /\ task' = [task EXCEPT ![m] = "created"]
  /\ tracked' = tracked \cup {m}
  /\ UNCHANGED <<unsent, loopVars, cancel, clearing, lockQ, gateQ, turnVars, deferred,
                 waiter, outcome>>

-----------------------------------------------------------------------------
(* A turn: AgentRunner drains follow-ups, a goal turn may queue its own     *)
(* continuation, and the exit returns what is left to the bus.              *)

Draining(m) ==
  /\ task[m] = "running"
  /\ m \notin cancel
  /\ Kind[m] \in {"user", "auto"}
  /\ cycles[m] < InjectCycles
  /\ pending[m] # <<>>

Batch(m) == SubSeq(pending[m], 1, Smaller(InjectLimit, Len(pending[m])))
AfterBatch(m) == SubSeq(pending[m], Smaller(InjectLimit, Len(pending[m])) + 1,
                        Len(pending[m]))

Drain(m) ==
  /\ Draining(m)
  /\ inTurn' = [inTurn EXCEPT ![m] = @ \cup InSeq(Batch(m))]
  /\ pending' = [pending EXCEPT ![m] = AfterBatch(m)]
  /\ cycles' = [cycles EXCEPT ![m] = @ + 1]
  /\ UNCHANGED <<busVars, loopVars, taskVars, slot, rounds, deferred, waiter,
                 outcome>>

\* Building the k-th follow-up raises: the k already taken are lost with it, and
\* the runner goes on as if nothing had been waiting.
DrainFails(m) ==
  /\ Draining(m)
  /\ \E k \in 1..Len(Batch(m)) :
       LET lost == InSeq(SubSeq(pending[m], 1, k)) IN
       /\ pending' = [pending EXCEPT ![m] = SubSeq(@, k + 1, Len(@))]
       /\ outcome' = [x \in Msgs |-> IF x \in lost THEN "dropped" ELSE outcome[x]]
  /\ UNCHANGED <<busVars, loopVars, taskVars, slot, inTurn, cycles, rounds,
                 deferred, waiter>>

\* max_iterations in a sustained goal: the runner's last drain, then
\* maybe_continue_turn's pending_queue.put, which suspends only on a full queue.
Continue(m) ==
  LET s == SessionOf[m]
      last == cycles[m] < InjectCycles /\ pending[m] # <<>>
      left == IF last THEN AfterBatch(m) ELSE pending[m]
      room == Len(left) < PendingCap
  IN
  /\ task[m] = "running"
  /\ m \notin cancel
  /\ m \in GoalMsgs
  /\ rounds[s] < MaxRounds
  /\ rounds' = [rounds EXCEPT ![s] = @ + 1]
  /\ inTurn' = IF last THEN [inTurn EXCEPT ![m] = @ \cup InSeq(Batch(m))] ELSE inTurn
  /\ cycles' = IF last THEN [cycles EXCEPT ![m] = @ + 1] ELSE cycles
  /\ pending' = [pending EXCEPT ![m] = IF room THEN Append(left, m) ELSE left]
  /\ task' = [task EXCEPT ![m] = IF room THEN "wrapping" ELSE "putting"]
  /\ UNCHANGED <<busVars, loopVars, cancel, tracked, clearing, lockQ, gateQ, slot,
                 deferred, waiter, outcome>>

\* The suspended put finds room.  The turn itself no longer drains its queue: only
\* a /stop that empties it does.
Put(m) ==
  /\ task[m] = "putting"
  /\ m \notin cancel
  /\ Len(pending[m]) < PendingCap
  /\ pending' = [pending EXCEPT ![m] = Append(@, m)]
  /\ task' = [task EXCEPT ![m] = "wrapping"]
  /\ UNCHANGED <<busVars, loopVars, cancel, tracked, clearing, lockQ, gateQ, slot,
                 inTurn, cycles, rounds, deferred, waiter, outcome>>

\* A finished task leaves the registry and wakes whoever awaits it.
TaskEnds(m) ==
  /\ task' = [task EXCEPT ![m] = "done"]
  /\ cancel' = cancel \ {m}
  /\ tracked' = tracked \ {m}
  /\ awaited' = awaited \ {m}
  /\ clearing' = [x \in Msgs |-> clearing[x] \ {m}]

\* _dispatch's inner finally: unpublish the queue if it is still this turn's
\* own, return its items to the bus, publish one deferred automation turn.
UnpublishNever(s, m) == UNCHANGED slot
Unpublish(s, m) == slot' = [slot EXCEPT ![s] = IF @ = m THEN None ELSE @]

\* What a turn's end is the end of: its follow-ups, and itself unless it queued
\* its own continuation.
ClosedWithContinuation(m) == inTurn[m] \cup {m}
ClosedAlone(m) == {m} \ InSeq(pending[m])
ClosedBy(m) == inTurn[m] \cup ({m} \ InSeq(pending[m]))

Leave(m, result) ==
  LET s == SessionOf[m] IN
  /\ TaskEnds(m)
  /\ Unpublish(s, m)
  /\ pending' = [pending EXCEPT ![m] = <<>>]
  /\ IF Kind[m] = "direct" THEN UNCHANGED <<bus, deferred>> ELSE Release(s, pending[m])
  /\ outcome' = [x \in Msgs |-> IF x \in ClosedBy(m) THEN result ELSE outcome[x]]
  /\ inTurn' = [inTurn EXCEPT ![m] = {}]
  /\ cycles' = [cycles EXCEPT ![m] = 0]
  /\ UNCHANGED <<unsent, loop, command, lockQ, gateQ, rounds>>

Finish(m, result) ==
  /\ task[m] \in {"running", "wrapping"}
  /\ m \notin cancel
  /\ Kind[m] # "new"
  /\ result \in {"answered", "failed"}
  /\ Resolve(m, result)
  /\ Leave(m, result)

\* /new in a turn of its own: cmd_new cancels every other task of the session
\* and awaits them; the cancellation it sends itself is suppressed.
RunNew(m) ==
  LET mine == SessionTasks(SessionOf[m]) IN
  /\ task[m] = "running"
  /\ m \notin cancel
  /\ Kind[m] = "new"
  /\ task' = [task EXCEPT ![m] = "clearing"]
  /\ clearing' = [clearing EXCEPT ![m] = mine \ {m}]
  /\ Cancel(mine \ {m})
  /\ tracked' = tracked \ mine
  /\ UNCHANGED <<busVars, loopVars, lockQ, gateQ, turnVars, deferred, waiter, outcome>>

FinishNew(m) ==
  /\ task[m] = "clearing"
  /\ clearing[m] = {}
  /\ Leave(m, "answered")
  /\ UNCHANGED waiter

-----------------------------------------------------------------------------
(* Cancellation is delivered at the task's next suspension point. *)

\* A task cancelled before its first step never runs: no finally, no complete.
CancelUnstarted(m) ==
  /\ task[m] = "created"
  /\ m \in cancel
  /\ TaskEnds(m)
  /\ outcome' = [outcome EXCEPT ![m] = "never_started"]
  /\ UNCHANGED <<busVars, loop, command, lockQ, gateQ, turnVars, deferred, waiter>>

\* Cancelled at the lock or the gate: only the outer finally runs.
CancelWaiting(m) ==
  LET s == SessionOf[m] IN
  /\ task[m] \in {"lock", "gate"}
  /\ m \in cancel
  /\ TaskEnds(m)
  /\ lockQ' = [lockQ EXCEPT ![s] = Without(@, m)]
  /\ gateQ' = Without(gateQ, m)
  /\ Release(s, <<>>)
  /\ outcome' = [outcome EXCEPT ![m] = "never_locked"]
  /\ UNCHANGED <<unsent, loop, command, turnVars, waiter>>

CancelTurn(m) ==
  /\ task[m] \in {"running", "putting", "wrapping"}
  /\ m \in cancel
  /\ Resolve(m, "failed")
  /\ Leave(m, "cancelled")

-----------------------------------------------------------------------------
TurnStep(m) ==
  \/ Start(m)
  \/ AcquireLock(m)
  \/ AcquireGate(m)
  \/ Drain(m)
  \/ DrainFails(m)
  \/ Continue(m)
  \/ Put(m)
  \/ \E result \in {"answered", "failed"} : Finish(m, result)
  \/ RunNew(m)
  \/ FinishNew(m)
  \/ CancelUnstarted(m)
  \/ CancelWaiting(m)
  \/ CancelTurn(m)

ConsumerStep ==
  \/ StartLoop
  \/ ControlDone
  \/ \E m \in Msgs : \/ ConsumeControl(m)
                     \/ ConsumeDefer(m)
                     \/ ConsumeRoute(m)
                     \/ ConsumeSpawn(m)

Outside ==
  \/ Close
  \/ \E m \in Msgs : Send(m) \/ Submit(m) \/ Abandon(m) \/ CallDirect(m)

Next ==
  \/ Outside
  \/ ConsumerStep
  \/ \E m \in Msgs : TurnStep(m)

Spec == Init /\ [][Next]_vars

\* The event loop runs every ready task, and a turn's model and tool calls end.
\* Nothing obliges anyone to send, to give up waiting or to shut down.
Fairness ==
  /\ WF_vars(ConsumerStep)
  /\ \A m \in Msgs : WF_vars(TurnStep(m))

FairSpec == Spec /\ Fairness

-----------------------------------------------------------------------------
(* Properties. *)

BusType ==
  /\ unsent \subseteq Msgs
  /\ bus \in Seq(Msgs)
  /\ deferred \in [Sessions -> Seq(Msgs)]

LoopType ==
  /\ loop \in {"off", "ready", "waiting", "closed"}
  /\ command \in Msgs \cup {None}
  /\ loop = "waiting" => command \in Msgs
  /\ awaited \subseteq Msgs

TaskType ==
  /\ task \in [Msgs -> TaskStates]
  /\ cancel \subseteq Msgs
  /\ tracked \subseteq Msgs
  /\ clearing \in [Msgs -> SUBSET Msgs]

QueueType ==
  /\ lockQ \in [Sessions -> Seq(Msgs)]
  /\ gateQ \in Seq(Msgs)

TurnType ==
  /\ slot \in [Sessions -> Msgs \cup {None}]
  /\ pending \in [Msgs -> Seq(Msgs)]
  /\ \A m \in Msgs : Len(pending[m]) <= PendingCap
  /\ inTurn \in [Msgs -> SUBSET Msgs]
  /\ cycles \in [Msgs -> Nat]
  /\ rounds \in [Sessions -> Nat]

AnswerType ==
  /\ waiter \in [Msgs -> {"none", "waiting", "answered", "failed", "abandoned"}]
  /\ outcome \in [Msgs -> Outcomes]

\* Every variable keeps its type, and no turn's queue outgrows its maxsize.
TypeOK == BusType /\ LoopType /\ TaskType /\ QueueType /\ TurnType /\ AnswerType

\* Turns of one session never overlap, whether they came over the bus, inline
\* from a submitter or through process_direct.
SerialSession ==
  \A m, n \in Msgs :
    SessionOf[m] = SessionOf[n] /\ Holds(m) /\ Holds(n) => m = n

\* The process-wide gate bounds the turns that run at once.
WithinPermits == Permits > 0 => Cardinality(Gated) <= Permits

\* The queue published for a session belongs to a turn of that session that is
\* running now, and only such a turn's queue holds messages: the exit of an old
\* turn neither steals a newer turn's queue nor strands what was routed to it.
QueueOwned ==
  /\ \A s \in Sessions : slot[s] # None =>
       SessionOf[slot[s]] = s /\ InTurn(slot[s]) /\ Kind[slot[s]] # "direct"
  /\ \A m \in Msgs : pending[m] # <<>> => InTurn(m)

\* An automation message is never injected into another turn.
AutomationIsolated ==
  \A m, x \in Msgs :
    Kind[m] = "auto" /\ m # x => m \notin InSeq(pending[x]) \cup inTurn[x]

\* Where a message is.  A turn that queued its own continuation is in its queue.
Places(m) ==
     {<<"unsent", x>> : x \in unsent \cap {m}}
  \cup {<<"bus", i>> : i \in {j \in 1..Len(bus) : bus[j] = m}}
  \cup {<<"deferred", i>> : i \in {j \in 1..Len(deferred[SessionOf[m]]) :
                                    deferred[SessionOf[m]][j] = m}}
  \cup (UNION {{<<x, i>> : i \in {j \in 1..Len(pending[x]) : pending[x][j] = m}} :
               x \in Msgs})
  \cup {<<"injected", x>> : x \in {y \in Msgs : m \in inTurn[y]}}
  \cup {<<"task", x>> : x \in {y \in {m} : Live(y) /\ y \notin InSeq(pending[y])}}
  \cup {<<"command", x>> : x \in {command} \cap {m}}
  \cup {<<"closed", x>> : x \in {y \in {m} : outcome[y] # "none"}}

\* No message is lost, duplicated or answered twice: through routing, deferral,
\* injection, leftover republication, continuation and cancellation each is in
\* exactly one place.
Accounted == \A m \in Msgs : Cardinality(Places(m)) = 1

\* A deferred automation turn has someone to publish it: a task of the session,
\* or a message on the bus that will become one.  A task cancelled before its
\* first step breaks the chain; no other exit does.
DeferredHasWaker ==
  \A s \in Sessions : deferred[s] # <<>> =>
    \E m \in Msgs : /\ SessionOf[m] = s
                   /\ \/ Live(m) /\ Kind[m] # "direct"
                      \/ m \in InSeq(bus) /\ Kind[m] \in {"user", "auto", "new"}
                      \/ outcome[m] = "never_started"

\* What the system did with a message is final.
OutcomeFinal ==
  [][\A m \in Msgs : outcome[m] # "none" => outcome'[m] = outcome[m]]_outcome

\* While the loop runs, a submitted automation turn answers its submitter.
WaiterResolved ==
  \A m \in Msgs : waiter[m] = "waiting" ~> waiter[m] # "waiting" \/ loop = "closed"

\* While the loop runs, every message that reached the bus is dealt with.
EveryMessageHandled ==
  \A m \in Msgs : m \in InSeq(bus) ~> outcome[m] # "none" \/ loop = "closed"

\* A command that waits for the tasks it cancelled gives the consumer back.
CommandReturns == loop = "waiting" ~> loop = "ready"

\* Code comment and docstring claims that the code does not meet.

\* "Submit an automation turn and wait for its session response.": a submitter
\* that still waits has a turn that can still answer it.
WaiterHasTurn ==
  \A m \in Msgs : waiter[m] = "waiting" /\ loop # "closed" => outcome[m] = "none"

\* "Queue an internal continuation": queueing it ends.
ContinuationQueued == \A m \in Msgs : task[m] = "putting" ~> task[m] # "putting"

-----------------------------------------------------------------------------
(* Refinement: a message waits on the bus, in a queue, deferred, or in a task *)
(* that has not reached its turn; it is active while its turn runs.           *)

Standing(m) ==
  CASE m \in unsent                      -> "unsent"
    [] InTurn(m)                         -> "active"
    [] \E x \in Msgs : m \in inTurn[x]   -> "riding"
    [] outcome[m] # "none"               -> "closed"
    [] OTHER                             -> "waiting"

RunningTurn(s) ==
  LET on == {m \in Msgs : SessionOf[m] = s /\ InTurn(m)}
  IN IF on = {} THEN None ELSE CHOOSE m \in on : TRUE

Turns == INSTANCE SerialTurns WITH
  Isolated <- {m \in Msgs : Kind[m] = "auto"},
  status <- [m \in Msgs |-> Standing(m)],
  active <- [s \in Sessions |-> RunningTurn(s)]

\* Dispatch keeps the promise of SerialTurns.
SerialTurnsSpec == Turns!Spec
=============================================================================
