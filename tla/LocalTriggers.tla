---------------------------- MODULE LocalTriggers ----------------------------
(***************************************************************************)
(* The local trigger queue: LocalTriggerStore keeps triggers and delivery  *)
(* files on disk, `trigger` commands enqueue from their own processes, and *)
(* the gateway's run_local_trigger_queue claims deliveries and submits     *)
(* each one as a session turn.  A FileLock serialises the store's          *)
(* operations, so each is one step; a process may die inside one that      *)
(* writes more than one file.  Everything but the disk is lost with the    *)
(* gateway.  Run records and a trigger's status fields, which the queue    *)
(* writes and never reads, are left out but for the history `recorded`.    *)
(***************************************************************************)
EXTENDS Integers, FiniteSets

CONSTANTS
  Deliveries,   \* numbered as their file names sort: by creation time
  Triggers,
  TriggerOf,    \* the trigger each delivery is for
  NoFile,       \* no delivery file
  None,         \* no delivery
  MaxAttempts,  \* _MAX_DELIVERY_ATTEMPTS
  BatchSize,    \* batch_size of run_local_trigger_queue
  MaxExits      \* bound on gateway exits

ASSUME ConstantsAssumption ==
  /\ Deliveries \subseteq Nat
  /\ TriggerOf \in [Deliveries -> Triggers]
  /\ NoFile \notin Nat
  /\ None \notin Deliveries
  /\ MaxAttempts \in Nat \ {0}
  /\ BatchSize \in Nat \ {0}
  /\ MaxExits \in Nat

VARIABLES
  unsent,      \* deliveries nobody has enqueued yet
  accepted,    \* deliveries whose `trigger` command answered "Queued" (history)
  triggers,    \* triggers.json
  inbox,       \* attempts in each delivery file of inbox/
  processing,  \* ... of processing/
  failed,      \* ... of failed/
  runner,      \* where run_local_trigger_queue is
  held,        \* attempts of the deliveries the runner has claimed
  now,         \* the delivery it is working on
  exits,       \* gateway exits so far
  turns,       \* session turns each delivery has started (history)
  recorded     \* deliveries whose outcome record_delivery has saved (history)

senderVars == <<unsent, accepted>>
runnerVars == <<runner, held, now>>
vars == <<senderVars, triggers, inbox, processing, failed, runnerVars, exits, turns,
          recorded>>

Present(dir) == {d \in Deliveries : dir[d] # NoFile}
HasFile(d) == d \in Present(inbox) \cup Present(processing) \cup Present(failed)

Empty == [d \in Deliveries |-> NoFile]
Removed(dir, gone) == [d \in Deliveries |-> IF d \in gone THEN NoFile ELSE dir[d]]
Of(t) == {d \in Deliveries : TriggerOf[d] = t}

\* Other coroutines of the gateway run only where the runner awaits: in a submitted
\* turn, and in its sleep between two polls.
Awaiting == runner \in {"turn", "polling"}

\* recover_processing_deliveries keeps the store's lock for all its files.
LockFree == runner # "recovering"

-----------------------------------------------------------------------------
Init ==
  /\ unsent = Deliveries
  /\ accepted = {}
  /\ triggers = [t \in Triggers |-> "absent"]
  /\ inbox = Empty
  /\ processing = Empty
  /\ failed = Empty
  /\ runner = "down"
  /\ held = Empty
  /\ now = None
  /\ exits = 0
  /\ turns = [d \in Deliveries |-> 0]
  /\ recorded = {}

-----------------------------------------------------------------------------
(* The `trigger` command: LocalTriggerStore.enqueue. *)

Enqueuing(d) ==
  /\ LockFree
  /\ d \in unsent
  /\ \A e \in unsent : d <= e
  /\ triggers[TriggerOf[d]] = "enabled"
  /\ unsent' = unsent \ {d}

Enqueue(d) ==
  /\ Enqueuing(d)
  /\ inbox' = [inbox EXCEPT ![d] = 0]
  /\ accepted' = accepted \cup {d}
  /\ UNCHANGED <<triggers, processing, failed, runnerVars, exits, turns, recorded>>

\* Its run record or its trigger cannot be saved: the delivery is removed again.
EnqueueRolledBack(d) ==
  /\ Enqueuing(d)
  /\ UNCHANGED <<accepted, triggers, inbox, processing, failed, runnerVars, exits,
                 turns, recorded>>

\* The command dies after the delivery file.
EnqueueTorn(d) ==
  /\ Enqueuing(d)
  /\ inbox' = [inbox EXCEPT ![d] = 0]
  /\ UNCHANGED <<accepted, triggers, processing, failed, runnerVars, exits, turns,
                 recorded>>

-----------------------------------------------------------------------------
(* The chat command /trigger, in the gateway or in another process that runs   *)
(* an agent: LocalTriggerStore.create.  The new identifier is no trigger's yet *)

Create(t) ==
  /\ LockFree
  /\ triggers[t] = "absent"
  /\ triggers' = [triggers EXCEPT ![t] = "enabled"]
  /\ UNCHANGED <<senderVars, inbox, processing, failed, runnerVars, exits, turns,
                 recorded>>

-----------------------------------------------------------------------------
(* The WebUI, in the gateway: LocalTriggerStore.enable and delete. *)

Known(t) == triggers[t] \in {"enabled", "disabled"}

SetEnabled(t, to) ==
  /\ Awaiting
  /\ Known(t)
  /\ triggers[t] # to
  /\ triggers' = [triggers EXCEPT ![t] = to]
  /\ UNCHANGED <<senderVars, inbox, processing, failed, runnerVars, exits, turns,
                 recorded>>

Delete(t) ==
  /\ Awaiting
  /\ Known(t)
  /\ triggers' = [triggers EXCEPT ![t] = "deleted"]
  /\ inbox' = Removed(inbox, Of(t))
  /\ processing' = Removed(processing, Of(t))
  /\ failed' = Removed(failed, Of(t))
  /\ UNCHANGED <<senderVars, runnerVars, exits, turns, recorded>>

-----------------------------------------------------------------------------
(* run_local_trigger_queue. *)

StartGateway ==
  /\ runner = "down"
  /\ runner' = "recovering"
  /\ UNCHANGED <<senderVars, triggers, inbox, processing, failed, held, now, exits,
                 turns, recorded>>

RewriteForever(d, attempts) ==
  /\ inbox' = [inbox EXCEPT ![d] = attempts + 1]
  /\ UNCHANGED failed

RewriteUncharged(d, attempts) ==
  IF attempts + 1 >= MaxAttempts
  THEN failed' = [failed EXCEPT ![d] = attempts + 1] /\ UNCHANGED inbox
  ELSE inbox' = [inbox EXCEPT ![d] = attempts] /\ UNCHANGED failed

\* _retry_delivery_unlocked writes a delivery to its new place: back to the inbox,
\* or to failed/ at the limit.
Rewrite(d, attempts) ==
  IF attempts + 1 >= MaxAttempts
  THEN failed' = [failed EXCEPT ![d] = attempts + 1] /\ UNCHANGED inbox
  ELSE inbox' = [inbox EXCEPT ![d] = attempts + 1] /\ UNCHANGED failed

UnlinkNothing(d) == processing' = processing

\* Only then is its file in processing/ removed.
Unlink(d) == processing' = [processing EXCEPT ![d] = NoFile]

Retried(d, attempts) == Rewrite(d, attempts) /\ Unlink(d)

InterruptedOrFailed(d, attempts) ==
  processing[d] = attempts \/ (failed[d] # NoFile /\ attempts = 0)

Interrupted(d, attempts) == processing[d] = attempts

\* recover_processing_deliveries, one file at a time.
Recover(d) ==
  /\ runner = "recovering"
  /\ \E attempts \in 0..MaxAttempts : Interrupted(d, attempts) /\ Retried(d, attempts)
  /\ UNCHANGED <<senderVars, triggers, runnerVars, exits, turns, recorded>>

SkipsRecovery == runner = "recovering"
Recovers == runner = "recovering" /\ Present(processing) = {}

Recovered ==
  /\ Recovers
  /\ runner' = "idle"
  /\ UNCHANGED <<senderVars, triggers, inbox, processing, failed, held, now, exits,
                 turns, recorded>>

\* The runner has worked off its batch.
Claiming == runner = "idle" /\ Present(held) = {}

\* claim_deliveries: the oldest files of the inbox, up to the batch size.
Oldest == {d \in Present(inbox) : Cardinality({e \in Present(inbox) : e < d}) < BatchSize}

MoveToMemory(some) ==
  /\ inbox' = Removed(inbox, some)
  /\ UNCHANGED processing

MoveClaimed(some) ==
  /\ inbox' = Removed(inbox, some)
  /\ processing' = [d \in Deliveries |-> IF d \in some THEN inbox[d] ELSE processing[d]]

Claim ==
  /\ Claiming
  /\ Oldest # {}
  /\ MoveClaimed(Oldest)
  /\ held' = [d \in Deliveries |-> IF d \in Oldest THEN inbox[d] ELSE NoFile]
  /\ UNCHANGED <<senderVars, triggers, failed, runner, now, exits, turns, recorded>>

\* Nothing to claim: the runner sleeps and claims again.
Sleep ==
  /\ Claiming
  /\ Oldest = {}
  /\ runner' = "polling"
  /\ UNCHANGED <<senderVars, triggers, inbox, processing, failed, held, now, exits,
                 turns, recorded>>

Poll ==
  /\ runner = "polling"
  /\ runner' = "idle"
  /\ UNCHANGED <<senderVars, triggers, inbox, processing, failed, held, now, exits,
                 turns, recorded>>

\* _deliver_delivery up to its await: the delivery becomes a turn; it is dropped when
\* its trigger is missing or disabled or its channel is off; or it goes back, when
\* its run record cannot be written.
Begin(d) ==
  /\ runner = "idle"
  /\ d \in Present(held)
  /\ \A e \in Present(held) : d <= e
  /\ now' = d
  /\ \/ /\ triggers[TriggerOf[d]] = "enabled"
        /\ runner' = "turn"
        /\ turns' = [turns EXCEPT ![d] = @ + 1]
     \/ /\ triggers[TriggerOf[d]] = "enabled"
        /\ runner' = "retry"
        /\ UNCHANGED turns
     \/ /\ runner' = "error"
        /\ UNCHANGED turns
  /\ UNCHANGED <<senderVars, triggers, inbox, processing, failed, held, exits, recorded>>

\* submit_turn returns, raises AutomationTurnError, or fails some other way.
TurnEnds ==
  /\ runner = "turn"
  /\ runner' \in {"ok", "error", "retry"}
  /\ UNCHANGED <<senderVars, triggers, inbox, processing, failed, held, now, exits,
                 turns, recorded>>

\* record_delivery saves the outcome of a good turn, a failed turn or a drop.
RecordOutcome ==
  /\ runner \in {"ok", "error"}
  /\ recorded' = recorded \cup {now}
  /\ runner' = IF runner = "ok" THEN "ackOk" ELSE "ackError"
  /\ UNCHANGED <<senderVars, triggers, inbox, processing, failed, held, now, exits,
                 turns>>

\* Recording or acknowledging a good turn fails, which counts as a failed delivery.
CompletionFails ==
  /\ runner \in {"ok", "ackOk"}
  /\ runner' = "retry"
  /\ UNCHANGED <<senderVars, triggers, inbox, processing, failed, held, now, exits,
                 turns, recorded>>

\* The loop goes on to the next delivery of its batch.
NextDelivery ==
  /\ held' = [held EXCEPT ![now] = NoFile]
  /\ now' = None
  /\ runner' = "idle"

\* complete_delivery.
Acknowledge ==
  /\ runner \in {"ackOk", "ackError"}
  /\ Unlink(now)
  /\ NextDelivery
  /\ UNCHANGED <<senderVars, triggers, inbox, failed, exits, turns, recorded>>

\* retry_delivery.
Retry ==
  /\ runner = "retry"
  /\ Retried(now, held[now])
  /\ NextDelivery
  /\ UNCHANGED <<senderVars, triggers, exits, turns, recorded>>

-----------------------------------------------------------------------------
(* The gateway exits: cleanly only where the runner awaits. *)

Exit ==
  /\ exits < MaxExits
  /\ exits' = exits + 1
  /\ runner' = "down"
  /\ held' = Empty
  /\ now' = None

\* Cancellation in the submitted turn puts the delivery back; the rest of the batch
\* stays in processing/.
Shutdown ==
  /\ runner = "turn"
  /\ Exit
  /\ Retried(now, held[now])
  /\ UNCHANGED <<senderVars, triggers, turns, recorded>>

\* The process dies between two operations, or an error ends the runner and with it
\* the gateway.
Crash ==
  /\ runner # "down"
  /\ Exit
  /\ UNCHANGED <<senderVars, triggers, inbox, processing, failed, turns, recorded>>

\* The process dies inside an operation that writes several files: with some of a
\* batch moved, ...
CrashInClaim ==
  /\ Claiming
  /\ Exit
  /\ \E d \in Oldest : MoveClaimed({e \in Oldest : e <= d})
  /\ UNCHANGED <<senderVars, triggers, failed, turns, recorded>>

\* ... with a delivery written to its new place and not removed from the old, ...
CrashInRetry ==
  /\ \/ runner \in {"turn", "retry"} /\ Rewrite(now, held[now])
     \/ runner = "recovering" /\ \E d \in Present(processing) : Rewrite(d, processing[d])
  /\ Exit
  /\ UNCHANGED <<senderVars, triggers, processing, turns, recorded>>

\* ... with a trigger deleted and some of its delivery files left; they are removed
\* one directory after the other.
CrashInDelete(t) ==
  /\ Awaiting
  /\ Known(t)
  /\ triggers' = [triggers EXCEPT ![t] = "deleted"]
  /\ \E i, p, f \in SUBSET Of(t) :
       /\ p # {} => i = Of(t)
       /\ f # {} => p = Of(t)
       /\ inbox' = Removed(inbox, i)
       /\ processing' = Removed(processing, p)
       /\ failed' = Removed(failed, f)
  /\ Exit
  /\ UNCHANGED <<senderVars, turns, recorded>>

-----------------------------------------------------------------------------
RunnerStep ==
  \/ StartGateway
  \/ \E d \in Deliveries : Recover(d)
  \/ Recovered
  \/ Claim
  \/ Sleep
  \/ Poll
  \/ \E d \in Deliveries : Begin(d)
  \/ TurnEnds
  \/ RecordOutcome
  \/ CompletionFails
  \/ Acknowledge
  \/ Retry

Exits ==
  \/ Shutdown
  \/ Crash
  \/ CrashInClaim
  \/ CrashInRetry
  \/ \E t \in Triggers : CrashInDelete(t)

Users ==
  \/ \E d \in Deliveries : Enqueue(d) \/ EnqueueRolledBack(d) \/ EnqueueTorn(d)
  \/ \E t \in Triggers : Create(t) \/ Delete(t) \/ \E to \in {"enabled", "disabled"} : SetEnabled(t, to)

Next == RunnerStep \/ Exits \/ Users

Spec == Init /\ [][Next]_vars

\* The gateway is started again after an exit, and the runner runs whenever it can.
FairSpec == Spec /\ WF_vars(RunnerStep)

-----------------------------------------------------------------------------
(* Properties. *)

\* Every variable keeps its type; in particular _MAX_DELIVERY_ATTEMPTS bounds the
\* attempts in every file, and failed/ holds only deliveries that used them up.
TypeOK ==
  /\ unsent \subseteq Deliveries
  /\ accepted \subseteq Deliveries
  /\ triggers \in [Triggers -> {"absent", "enabled", "disabled", "deleted"}]
  /\ inbox \in [Deliveries -> 0..(MaxAttempts - 1) \cup {NoFile}]
  /\ processing \in [Deliveries -> 0..(MaxAttempts - 1) \cup {NoFile}]
  /\ failed \in [Deliveries -> {MaxAttempts, NoFile}]
  /\ runner \in {"down", "recovering", "idle", "polling", "turn", "ok", "error", "retry",
                 "ackOk", "ackError"}
  /\ held \in [Deliveries -> 0..(MaxAttempts - 1) \cup {NoFile}]
  /\ now \in Deliveries \cup {None}
  /\ exits \in 0..MaxExits
  /\ turns \in [Deliveries -> Nat]
  /\ recorded \subseteq Deliveries

\* At least once: a delivery whose command answered "Queued" stays on disk until
\* its outcome is saved, whatever process dies in between; only deleting its
\* trigger removes it.
NothingLost ==
  \A d \in accepted : \/ HasFile(d)
                      \/ d \in recorded
                      \/ triggers[TriggerOf[d]] = "deleted"

\* While the gateway runs, a file in processing/ is one the runner holds, and it
\* has no second copy: nothing is stranded there and nothing is claimed twice.
ProcessingOwned ==
  runner \notin {"down", "recovering"} =>
    /\ Present(processing) \subseteq Present(held)
    /\ Present(held) \cap Present(inbox) = {}

\* Each repeated turn of a delivery was charged as an attempt, across restarts, so a
\* delivery that keeps being interrupted runs a bounded number of times.
TurnsCharged ==
  \A d \in Deliveries :
    /\ inbox[d] # NoFile => turns[d] <= inbox[d]
    /\ processing[d] # NoFile => turns[d] <= processing[d] + 1
    /\ turns[d] <= MaxAttempts

\* A delivery that has left the inbox, processing/ and the runner's hands.
Settled(d) ==
  /\ d \notin unsent
  /\ inbox[d] = NoFile
  /\ processing[d] = NoFile
  /\ held[d] = NoFile

\* A delivery that is settled, by its outcome, by its trigger's deletion or in
\* failed/, never comes back: no retry and no restart revives it.
SettledStays == [][\A d \in Deliveries : Settled(d) => Settled(d)']_vars

\* Every delivery in the inbox is settled in the end, if the turns submitted end and
\* the gateway is restarted.
EventuallySettled == \A d \in Deliveries : inbox[d] # NoFile ~> Settled(d)
=============================================================================
