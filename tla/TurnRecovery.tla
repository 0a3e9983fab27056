---------------------------- MODULE TurnRecovery ----------------------------
(***************************************************************************)
(* Recovery of interrupted WebUI turns: session/recovery.py and what        *)
(* agent/loop.py does for it, for one session.  The session file is the     *)
(* only thing a crash leaves; what it holds of a turn in flight is          *)
(*                                                                          *)
(*   pendingTurn  the user's message is saved and not answered              *)
(*   checkpoint   the phase of the last safe boundary of the turn           *)
(*   journal      follow-ups accepted into the live turn, not yet in history*)
(*   recovery     what the WebUI shows and may act on                       *)
(*                                                                          *)
(* Metadata changes and their save are one synchronous piece of code, so    *)
(* the session in memory and its file are one state here.  Routing, locks   *)
(* and cancellation in general are SessionDispatch; here a session has one  *)
(* turn at a time, its tasks wait in order, and its queue is bounded.       *)
(*                                                                          *)
(* An item on its way is a message of the user or the continuation of a     *)
(* recovery, which is its recovery id.                                      *)
(***************************************************************************)
EXTENDS Naturals, SequencesExt

CONSTANTS
    Messages,       \* messages the user sends in this session
    NoTurn,
    QueueSize,      \* follow-ups the running turn's queue holds
    MaxCrashes,     \* bound on exits of the gateway
    MaxStops        \* bound on uses of /stop

ASSUME ConstantsAssumption ==
    /\ Messages \cap Nat = {}
    /\ NoTurn \notin Messages \cup Nat
    /\ QueueSize \in Nat /\ MaxCrashes \in Nat /\ MaxStops \in Nat

VARIABLES
    gateway,        \* down, recovering, requeueing, up
    pendingTurn, checkpoint, journal, recovery, unfinished,   \* on disk
    grown,          \* history is longer than when Continue was pressed
    bus,            \* inbound queue
    tasks,          \* dispatch tasks without the session lock, in order
    turn, stage,    \* the item whose turn runs, and how far it is
    queue,          \* the running turn's queue
    injected,       \* follow-ups the running turn has drained
    nextId,         \* recovery ids given out so far
    crashes, stops,
    \* history, which only properties read:
    saved,          \* how often each message was committed to history
    accepted,       \* follow-ups accepted into a live turn
    confirmed, began,   \* per recovery: Continue pressed, turns begun
    dismissed,      \* recoveries the user has dismissed
    dropped         \* items /stop, a failed turn or a failed drain dropped from
                    \* memory, less those a restart finds in the journal again

disk == <<pendingTurn, checkpoint, journal, recovery, unfinished, grown>>
memory == <<bus, tasks, turn, stage, queue, injected>>
counters == <<nextId, crashes, stops>>
history == <<saved, accepted, confirmed, began, dismissed, dropped>>
vars == <<gateway, disk, memory, counters, history>>

RecoveryIds == 1..MaxCrashes
Items == Messages \cup RecoveryIds
\* Every phase but final_response is recovered alike: "tools" stands for them.
Phases == {"none", "tools", "final_response"}
Statuses == {"none", "resuming", "awaiting_user", "recovered", "failed"}
NoRecovery == [status |-> "none", id |-> 0, can |-> FALSE]

-----------------------------------------------------------------------------
IsContinuation(i) == i \in RecoveryIds
Open == recovery.status \in {"resuming", "awaiting_user", "failed"}
Interrupted == pendingTurn \/ checkpoint # "none"
TurnActive == turn # NoTurn
Admissible(i) == IsContinuation(i) => recovery.status = "resuming" /\ recovery.id = i
\* A recovery task is registered from its first step, its admission, to its end.
Registered(t) == IsContinuation(t.item) /\ t.admitted
RecoveryRegistered ==
    IsContinuation(turn) \/ \E k \in DOMAIN tasks : Registered(tasks[k])
\* Follow-ups a turn that ends now takes with it.
Unsaved == IF stage \in {"begun", "working"} THEN injected ELSE {}
State(status, id, can) == [status |-> status, id |-> id, can |-> can]

\* restore_runtime_checkpoint: the partial turn becomes history.
RestoreCheckpoint ==
    /\ checkpoint' = "none"
    /\ pendingTurn' = (pendingTurn /\ checkpoint = "none")
    /\ grown' = (grown \/ checkpoint # "none")
\* ... and restore_pending_interruption, or append_recovery_interruption.
CloseInterrupted ==
    /\ checkpoint' = "none"
    /\ pendingTurn' = FALSE
    /\ grown' = (grown \/ Interrupted)

Init ==
    /\ gateway = "up"
    /\ pendingTurn = FALSE /\ checkpoint = "none" /\ journal = {}
    /\ recovery = NoRecovery /\ unfinished = FALSE /\ grown = FALSE
    /\ bus = <<>> /\ tasks = <<>> /\ turn = NoTurn /\ stage = "idle"
    /\ queue = <<>> /\ injected = {}
    /\ nextId = 0 /\ crashes = 0 /\ stops = 0
    /\ saved = [m \in Messages |-> 0] /\ accepted = {}
    /\ confirmed = [r \in RecoveryIds |-> 0] /\ began = [r \in RecoveryIds |-> 0]
    /\ dismissed = {} /\ dropped = {}

-----------------------------------------------------------------------------
(* The user *)

Known(m) ==
    m \in ToSet(bus) \cup ToSet(queue) \cup injected \cup journal \cup {turn}
          \cup {t.item : t \in ToSet(tasks)}

Send(m) ==
    /\ gateway = "up"
    /\ ~Known(m) /\ saved[m] = 0 /\ m \notin dropped
    /\ bus' = Append(bus, m)
    /\ UNCHANGED <<gateway, disk, tasks, turn, stage, queue, injected, counters,
                   saved, accepted, confirmed, began, dismissed, dropped>>

\* A page acts on the recovery it shows; a stale id is refused.  Only Continue
\* looks at the status: whoever knows the id may dismiss at any time.
Continue(r) ==
    /\ gateway = "up"
    /\ recovery.id = r
    /\ recovery.status \in {"awaiting_user", "failed"} /\ recovery.can
    /\ recovery' = State("resuming", r, TRUE)
    /\ grown' = FALSE
    /\ bus' = Append(bus, r)
    /\ confirmed' = [confirmed EXCEPT ![r] = @ + 1]
    /\ UNCHANGED <<gateway, pendingTurn, checkpoint, journal, unfinished, tasks,
                   turn, stage, queue, injected, counters, saved, accepted,
                   began, dismissed, dropped>>

Dismiss(r) ==
    /\ gateway = "up"
    /\ recovery.id = r
    /\ recovery' = State("recovered", r, TRUE)
    /\ CloseInterrupted
    /\ dismissed' = dismissed \cup {r}
    /\ UNCHANGED <<gateway, journal, unfinished, memory, counters, saved,
                   accepted, confirmed, began, dropped>>

-----------------------------------------------------------------------------
(* Admission: AgentLoop.run and the first steps of _dispatch *)

\* Items whose admission supersedes the recovery: the user's, when it is open.
Supersedes(i) == ~IsContinuation(i) /\ Open

\* A message that supersedes waits for the end of the recovery's task.
RecoveryGoneSoon(i) == TRUE
RecoveryGone(i) == Supersedes(i) => ~RecoveryRegistered

\* admit, without the cancelling: a newer message closes an open recovery.
Admit(i) ==
    IF Supersedes(i)
      THEN CloseInterrupted /\ recovery' = State("recovered", recovery.id, TRUE)
      ELSE UNCHANGED <<pendingTurn, checkpoint, grown, recovery>>

Unadmitted(k) == ~tasks[k].admitted /\ \A j \in 1..(k - 1) : tasks[j].admitted

EndTurnDropping(kept) ==
    /\ turn' = NoTurn /\ stage' = "idle"
    /\ bus' = kept
    /\ queue' = <<>> /\ injected' = {}

\* What the cleanup of a cancelled or ended turn leaves: its queue goes to the bus.
EndTurn(kept) ==
    /\ turn' = NoTurn /\ stage' = "idle"
    /\ bus' = kept \o queue
    /\ queue' = <<>> /\ injected' = {}

\* _cancel_active_recovery, for the message the consumer or a task admits.  The
\* coordinator keeps one task per session, waiting for the lock or in its turn.
CancelRecovery ==
    /\ \/ TurnActive /\ bus # <<>> /\ Supersedes(Head(bus))
       \/ \E k \in DOMAIN tasks : Unadmitted(k) /\ Supersedes(tasks[k].item)
    /\ \/ /\ IsContinuation(turn)
          /\ EndTurn(bus)
          /\ RestoreCheckpoint
          /\ dropped' = dropped \cup Unsaved
          /\ UNCHANGED tasks
       \/ \E k \in DOMAIN tasks :
             /\ Registered(tasks[k])
             /\ tasks' = RemoveAt(tasks, k)
             /\ UNCHANGED <<bus, turn, stage, queue, injected, pendingTurn,
                            checkpoint, grown, dropped>>
    /\ UNCHANGED <<gateway, journal, recovery, unfinished, counters, saved,
                   accepted, confirmed, began, dismissed>>

\* No turn is active: a task of its own, which admits the message first.
ConsumeSpawn ==
    /\ gateway = "up" /\ bus # <<>> /\ ~TurnActive
    /\ tasks' = Append(tasks, [item |-> Head(bus), admitted |-> FALSE])
    /\ bus' = Tail(bus)
    /\ UNCHANGED <<gateway, disk, turn, stage, queue, injected, counters, history>>

PutUnbounded(i) == queue' = Append(queue, i) /\ UNCHANGED tasks

\* put_nowait into the turn's queue; a full one falls back to a task.
Put(i) ==
    \/ /\ Len(queue) < QueueSize
       /\ queue' = Append(queue, i)
       /\ UNCHANGED tasks
    \/ /\ Len(queue) = QueueSize
       /\ tasks' = Append(tasks, [item |-> i, admitted |-> FALSE])
       /\ UNCHANGED queue

\* A turn is active: admit, journal, then queue.
ConsumeRoute ==
    /\ gateway = "up" /\ bus # <<>> /\ TurnActive
    /\ LET i == Head(bus) IN
          /\ bus' = Tail(bus)
          /\ RecoveryGone(i)
          /\ Admit(i)
          /\ IF Admissible(i)
               THEN /\ journal' = journal \cup {i}
                    /\ accepted' = accepted \cup {i}
                    /\ Put(i)
               ELSE UNCHANGED <<journal, accepted, queue, tasks>>
    /\ UNCHANGED <<gateway, unfinished, turn, stage, injected, counters, saved,
                   confirmed, began, dismissed, dropped>>

AdmitTask(k) ==
    /\ Unadmitted(k)
    /\ LET i == tasks[k].item IN
          /\ RecoveryGone(i)
          /\ Admit(i)
          /\ tasks' = IF Admissible(i) THEN [tasks EXCEPT ![k].admitted = TRUE]
                      ELSE RemoveAt(tasks, k)
    /\ UNCHANGED <<gateway, journal, unfinished, bus, turn, stage, queue,
                   injected, counters, history>>

-----------------------------------------------------------------------------
(* A turn *)

\* The lock and the queue; then the session is restored for the new turn.
Begin(k) ==
    /\ ~TurnActive
    /\ tasks[k].admitted /\ \A j \in 1..(k - 1) : ~tasks[j].admitted
    /\ turn' = tasks[k].item
    /\ stage' = "begun"
    /\ tasks' = RemoveAt(tasks, k)
    /\ IF IsContinuation(turn')
         THEN /\ RestoreCheckpoint
              /\ began' = [began EXCEPT ![turn'] = @ + 1]
         ELSE CloseInterrupted /\ UNCHANGED began
    /\ unfinished' = TRUE
    /\ UNCHANGED <<gateway, journal, recovery, bus, queue, injected, counters,
                   saved, accepted, confirmed, dismissed, dropped>>

AcknowledgeNothing(items) == UNCHANGED journal

\* acknowledge_pending_followups, saved with the rows it acknowledges.
Acknowledge(items) == journal' = journal \ items

\* _persist_user_message_early: in history, and acknowledged in the journal.
Persist ==
    /\ stage = "begun"
    /\ stage' = "working"
    /\ IF IsContinuation(turn)
         THEN UNCHANGED <<pendingTurn, journal, saved, grown>>
         ELSE /\ pendingTurn' = TRUE
              /\ Acknowledge({turn})
              /\ saved' = [saved EXCEPT ![turn] = @ + 1]
              /\ grown' = TRUE
    /\ UNCHANGED <<gateway, checkpoint, recovery, unfinished, bus, tasks, turn,
                   queue, injected, counters, accepted, confirmed, began,
                   dismissed, dropped>>

Checkpoint ==
    /\ stage = "working"
    /\ checkpoint' \in Phases \ {"none"}
    /\ UNCHANGED <<gateway, pendingTurn, journal, recovery, unfinished, grown,
                   memory, counters, history>>

DrainAcknowledges ==
    /\ stage = "working" /\ queue # <<>>
    /\ injected' = injected \cup ToSet(queue)
    /\ Acknowledge(ToSet(queue))
    /\ queue' = <<>>
    /\ UNCHANGED <<gateway, pendingTurn, checkpoint, recovery, unfinished, grown,
                   bus, tasks, turn, stage, counters, history>>

Drain ==
    /\ stage = "working" /\ queue # <<>>
    /\ injected' = injected \cup ToSet(queue)
    /\ queue' = <<>>
    /\ UNCHANGED <<gateway, disk, bus, tasks, turn, stage, counters, history>>

\* Building the row of one of the items raises: those taken so far are in neither
\* the queue nor the turn, which goes on as if nothing had been queued.
DrainFails ==
    /\ stage = "working"
    /\ \E k \in DOMAIN queue :
          /\ dropped' = dropped \cup ToSet(SubSeq(queue, 1, k))
          /\ queue' = SubSeq(queue, k + 1, Len(queue))
    /\ UNCHANGED <<gateway, disk, bus, tasks, turn, stage, injected, counters,
                   saved, accepted, confirmed, began, dismissed>>

\* _save_turn and what _save clears: rows, acknowledgements and marks at once.
Commit ==
    /\ stage = "working"
    /\ stage' = "committed"
    /\ pendingTurn' = FALSE /\ checkpoint' = "none" /\ grown' = TRUE
    /\ Acknowledge(injected)
    /\ saved' = [m \in Messages |-> saved[m] + (IF m \in injected THEN 1 ELSE 0)]
    /\ UNCHANGED <<gateway, recovery, unfinished, bus, tasks, turn, queue,
                   injected, counters, accepted, confirmed, began, dismissed,
                   dropped>>

\* An exception: the turn's marks stay for whoever begins next.
Fail ==
    /\ stage \in {"begun", "working"}
    /\ stage' = "failed"
    /\ dropped' = dropped \cup Unsaved \cup (IF stage = "begun" THEN {turn} ELSE {})
    /\ UNCHANGED <<gateway, disk, bus, tasks, turn, queue, injected, counters,
                   saved, accepted, confirmed, began, dismissed>>

CompletedPlain ==
    /\ stage \in {"committed", "failed"}
    /\ stage' = "completed"
    /\ unfinished' = FALSE
    /\ UNCHANGED <<gateway, pendingTurn, checkpoint, journal, recovery, grown, bus,
                   tasks, turn, queue, injected, counters, history>>

\* TurnCompleted, which a failed turn publishes too: turn_end, turn_completed.
Completed ==
    /\ stage \in {"committed", "failed"}
    /\ stage' = "completed"
    /\ unfinished' = FALSE
    /\ recovery' = IF recovery.status = "resuming"
                     THEN State("recovered", recovery.id, TRUE) ELSE recovery
    /\ UNCHANGED <<gateway, pendingTurn, checkpoint, journal, grown, bus, tasks,
                   turn, queue, injected, counters, history>>

End ==
    /\ stage = "completed"
    /\ EndTurn(bus)
    /\ UNCHANGED <<gateway, disk, tasks, counters, history>>

\* /stop cancels the turn and every waiting task; recovery is not told.
Stop ==
    /\ gateway = "up" /\ stops < MaxStops
    /\ TurnActive \/ tasks # <<>>
    /\ stops' = stops + 1
    /\ tasks' = <<>>
    /\ dropped' = dropped \cup {t.item : t \in ToSet(tasks)}
                    \cup Unsaved \cup (IF stage = "begun" THEN {turn} ELSE {})
    /\ IF TurnActive
         THEN EndTurn(bus) /\ RestoreCheckpoint
         ELSE UNCHANGED <<bus, turn, stage, queue, injected, pendingTurn,
                          checkpoint, grown>>
    /\ UNCHANGED <<gateway, journal, recovery, unfinished, nextId, crashes,
                   saved, accepted, confirmed, began, dismissed>>

-----------------------------------------------------------------------------
(* Exits and restarts *)

\* Also an orderly shutdown: it cancels turns and keeps what is on disk.
Crash ==
    /\ gateway # "down" /\ crashes < MaxCrashes
    /\ crashes' = crashes + 1
    /\ gateway' = "down"
    /\ bus' = <<>> /\ tasks' = <<>> /\ turn' = NoTurn /\ stage' = "idle"
    /\ queue' = <<>> /\ injected' = {}
    /\ dropped' = dropped \ journal
    /\ UNCHANGED <<disk, nextId, stops, saved, accepted, confirmed, began, dismissed>>

Start ==
    /\ gateway = "down"
    /\ gateway' = "recovering"
    /\ UNCHANGED <<disk, memory, counters, saved, accepted, confirmed, began,
                   dismissed, dropped>>

NeedsRecovery == Interrupted \/ journal # {} \/ Open \/ unfinished

\* What scan makes of a session, in the order of _recover_session.
NothingInFlight ==
    /\ ~Interrupted
    /\ \/ /\ recovery.status = "resuming"
          /\ recovery' = State(IF grown THEN "recovered" ELSE "awaiting_user",
                               recovery.id, TRUE)
          /\ UNCHANGED nextId
       \/ /\ recovery.status # "resuming" /\ unfinished
          /\ \E can \in BOOLEAN : recovery' = State("awaiting_user", nextId + 1, can)
          /\ nextId' = nextId + 1
       \/ /\ recovery.status # "resuming" /\ ~unfinished
          /\ UNCHANGED <<recovery, nextId>>
    /\ UNCHANGED <<pendingTurn, checkpoint, grown>>

StillWaiting ==
    /\ Interrupted /\ recovery.status \in {"awaiting_user", "failed"}
    /\ UNCHANGED <<pendingTurn, checkpoint, grown, recovery, nextId>>

LoopGuardResumes ==
    /\ Interrupted /\ recovery.status = "resuming"
    /\ UNCHANGED <<pendingTurn, checkpoint, grown, recovery, nextId>>

\* A continuation was interrupted: it is not repeated, the user is asked again.
LoopGuard ==
    /\ Interrupted /\ recovery.status = "resuming"
    /\ CloseInterrupted
    /\ recovery' = State("awaiting_user", recovery.id, TRUE)
    /\ UNCHANGED nextId

Classify ==
    /\ Interrupted /\ ~Open
    /\ nextId' = nextId + 1
    /\ \/ /\ checkpoint # "none"        \* unknown or malformed
          /\ CloseInterrupted
          /\ recovery' = State("awaiting_user", nextId', FALSE)
       \/ /\ checkpoint = "final_response"
          /\ RestoreCheckpoint
          /\ recovery' = State("recovered", nextId', TRUE)
       \/ /\ checkpoint # "final_response"
          /\ RestoreCheckpoint
          /\ recovery' = State("awaiting_user", nextId', TRUE)

Scan ==
    /\ gateway = "recovering"
    /\ \/ /\ ~NeedsRecovery
          /\ gateway' = "up"
          /\ UNCHANGED <<pendingTurn, checkpoint, grown, recovery, nextId>>
       \/ /\ NeedsRecovery
          /\ gateway' = "requeueing"
          /\ NothingInFlight \/ StillWaiting \/ LoopGuard \/ Classify
    /\ UNCHANGED <<journal, unfinished, memory, crashes, stops, history>>

RequeueResuming ==
    /\ gateway = "requeueing"
    /\ gateway' = "up"
    /\ IF recovery.status = "awaiting_user" /\ recovery.can
         THEN /\ bus' = SetToSeq(journal) \o <<recovery.id>>
              /\ recovery' = State("resuming", recovery.id, TRUE)
         ELSE bus' = SetToSeq(journal) /\ UNCHANGED recovery
    /\ UNCHANGED <<pendingTurn, checkpoint, journal, unfinished, grown, tasks, turn,
                   stage, queue, injected, counters, history>>

\* _requeue_pending_followups, before channels accept new input.
Requeue ==
    /\ gateway = "requeueing"
    /\ gateway' = "up"
    /\ bus' = SetToSeq(journal)
    /\ UNCHANGED <<disk, tasks, turn, stage, queue, injected, counters, history>>

\* Recovering the session raised before it changed anything: it is marked, and
\* nothing is requeued.
ScanFails ==
    /\ gateway = "recovering" /\ NeedsRecovery
    /\ gateway' = "up"
    /\ IF recovery.status = "none"
         THEN /\ recovery' = State("failed", nextId + 1, FALSE)
              /\ nextId' = nextId + 1
         ELSE recovery' = State("failed", recovery.id, FALSE) /\ UNCHANGED nextId
    /\ UNCHANGED <<pendingTurn, checkpoint, journal, unfinished, grown, memory,
                   crashes, stops, history>>

-----------------------------------------------------------------------------
UserStep ==
    \/ \E m \in Messages : Send(m)
    \/ \E r \in RecoveryIds : Continue(r) \/ Dismiss(r)
    \/ Stop

AdmissionStep ==
    \/ CancelRecovery \/ ConsumeSpawn \/ ConsumeRoute
    \/ \E k \in DOMAIN tasks : AdmitTask(k)

TurnStep ==
    \/ \E k \in DOMAIN tasks : Begin(k)
    \/ Persist \/ Checkpoint \/ Drain \/ DrainFails \/ Commit \/ Fail
    \/ Completed \/ End

RestartStep == Crash \/ Start \/ Scan \/ Requeue \/ ScanFails

Next == UserStep \/ AdmissionStep \/ TurnStep \/ RestartStep

Spec == Init /\ [][Next]_vars

\* The event loop runs what is ready, turns end one way or the other, and a
\* gateway that is started goes through its startup.
Fairness ==
    /\ WF_vars(CancelRecovery) /\ WF_vars(ConsumeSpawn) /\ WF_vars(ConsumeRoute)
    /\ WF_vars(\E k \in DOMAIN tasks : AdmitTask(k))
    /\ WF_vars(\E k \in DOMAIN tasks : Begin(k))
    /\ WF_vars(Persist) /\ WF_vars(Commit \/ Fail)
    /\ WF_vars(Completed) /\ WF_vars(End)
    /\ WF_vars(Scan \/ ScanFails) /\ WF_vars(Requeue)

FairSpec == Spec /\ Fairness

-----------------------------------------------------------------------------
(* Properties *)

\* Every variable keeps its type, the turn's queue its bound, and a turn is
\* at a stage exactly while there is one.
TypeOK ==
    /\ gateway \in {"down", "recovering", "requeueing", "up"}
    /\ pendingTurn \in BOOLEAN /\ checkpoint \in Phases
    /\ journal \subseteq Items /\ unfinished \in BOOLEAN /\ grown \in BOOLEAN
    /\ recovery \in [status : Statuses, id : 0..nextId, can : BOOLEAN]
    /\ bus \in Seq(Items) /\ queue \in Seq(Items) /\ Len(queue) <= QueueSize
    /\ tasks \in Seq([item : Items, admitted : BOOLEAN])
    /\ turn \in Items \cup {NoTurn} /\ injected \subseteq Items
    /\ stage \in {"idle", "begun", "working", "committed", "failed", "completed"}
    /\ stage = "idle" <=> turn = NoTurn
    /\ nextId \in 0..MaxCrashes /\ crashes \in 0..MaxCrashes /\ stops \in 0..MaxStops
    /\ saved \in [Messages -> Nat] /\ accepted \subseteq Items
    /\ confirmed \in [RecoveryIds -> Nat] /\ began \in [RecoveryIds -> Nat]
    /\ dismissed \subseteq RecoveryIds /\ dropped \subseteq Items

\* A follow-up accepted into a live turn is in the journal until its row is in
\* history, whatever turn fails, is stopped or dies with the gateway.
FollowupsDurable ==
    \A m \in accepted \cap Messages : m \in journal \/ saved[m] > 0

\* A message's row is committed once, although the journal may publish it
\* again at every restart until then.
CommittedOnce == \A m \in Messages : saved[m] <= 1

\* The user confirms every turn that continues an interrupted one: no restart
\* repeats a continuation by itself.
ContinuationsConfirmed == \A r \in RecoveryIds : began[r] <= confirmed[r]

\* A continuation that works is the one the session is resuming: a newer
\* message waits until a superseded one is gone.  (Dismiss does not stop one.)
SupersededStops ==
    IsContinuation(turn) /\ stage \in {"begun", "working"} /\ turn \notin dismissed
        => recovery.status = "resuming" /\ recovery.id = turn

\* When the gateway's startup is over, an interrupted turn has been closed or is
\* offered to the user, a transcript without an end has a recovery to explain
\* it, and nothing is shown as resuming, for nothing runs.
ShownAfterRestart ==
    [][gateway # "up" /\ gateway' = "up"
          => /\ Interrupted' => Open'
             /\ unfinished' => recovery'.status # "none"
             /\ recovery'.status # "resuming"]_vars

\* A message that is in the gateway, or that its restart requeues, is saved,
\* unless it is dropped, with a stopped or failed turn or by a drain that fails, or
\* the gateway exits.  What was dropped before that exit counts again after it when
\* the journal has it.
Served ==
    \A m \in Messages :
        \/ gateway = "up" /\ m \in ToSet(bus) \cup {t.item : t \in ToSet(tasks)}
        \/ gateway = "requeueing" /\ m \in journal
        ~> saved[m] > 0 \/ m \in dropped \/ gateway = "down"

\* A confirmed continuation is concluded or superseded, so that the WebUI does
\* not show it as resuming for ever, when nobody uses /stop.
ResumeConcludes ==
    recovery.status = "resuming"
        ~> recovery.status # "resuming" \/ gateway = "down" \/ stops > 0
=============================================================================
