# A formal model of auto_cut_bot

`auto_cut_bot` is an agent server: messages from chat channels, timers and local
commands become *turns* of an LLM agent, one conversation (*session*) at a time.
This directory holds TLA+ modules for the parts whose difficulty is control rather
than data: who may run when, what survives a crash, what must happen in the end.
TLC checks them on small instances, and the TLA+ proof system proves their safety
properties and refinements for every instance. `PROJECT.json` maps every definition to
the lines of the source it models, lists the runs, and lists the hazards of the code
with the properties that would catch them.

Contents: [inventory](#1-inventory) · [plan](#2-plan) ·
[SessionDispatch](#3-sessiondispatch) · [LocalTriggers](#4-localtriggers) ·
[CronService](#5-cronservice) · [GatewayLease](#6-gatewaylease) ·
[TurnRecovery](#7-turnrecovery) · [OutboundDispatch](#8-outbounddispatch) ·
[runs](#9-runs-and-their-bounds) · [proofs](#10-proofs) ·
[disagreements](#11-where-code-and-documents-disagree) ·
[not modelled](#12-what-is-not-modelled)

## 1. Inventory

Paths are below `src/auto_cut_bot/`. Everything in the gateway process shares one
asyncio event loop, so what runs between two real suspension points is atomic; the
disk and its `FileLock`s are shared with other processes.

| Component | State | Operations | Talks to | What is hard |
|---|---|---|---|---|
| **Session dispatch** `agent/loop.py`, `bus/queue.py`, `agent/automation_turns.py`, `session/turn_continuation.py`, `command/builtin.py` | inbound queue, tasks per session, session locks, concurrency gate, bounded pending queue of the running turn, deferred automation turns, submitters' futures | publish, consume and route, dispatch a turn, drain follow-ups, continue a goal, `/stop`, `/new`, direct call, shutdown | every source of messages publishes; cron and triggers await `submit()` | interleavings of the consumer, many tasks and cancellation; queues at their limit; wakers of deferred turns; futures nobody resolves |
| **Local trigger queue** `triggers/` | `triggers.json`, `inbox/`, `processing/`, `failed/` | create, enqueue (another process), claim, submit, record, acknowledge, retry, recover, enable, delete | `submit()` of session dispatch | process death between two file operations; at-least-once against bounded repetition |
| **Cron service** `cron/service.py` | `jobs.json`, `action.jsonl`, the store in memory, its dirty flag, the timer task | register system jobs, start, tick, add, edit, remove, list, manual run; operations logged by other processes | `submit()` for agent jobs; WebUI and the cron tool | the timer task is the task that runs the jobs; a failed save; a log merged under a crash |
| **Turn recovery** `session/recovery.py` | checkpoint of the running turn, journal of follow-ups, recovery state in session metadata | begin, checkpoint, journal, admit, continue, dismiss, supersede | dispatch admits recovered turns; WebUI | crash between journal and bus; stale ids |
| **Client leases** `gateway/runtime.py`, `process_runtime.py` | lease file, process file, three nested file locks | acquire, release, monitor, mark persistent, status, start, stop, restart | TUI and WebUI clients, the gateway's monitor | the last client leaves while another arrives and a shutdown is committed; a status without a lock removes a record |
| **Agent runner** `agent/runner.py` | messages of a turn, iteration count | model call, tool calls, checkpoint, drain | dispatch's queue, providers, tools | drain points, budget, partial tool results |
| **Outbound channel manager** `channels/manager.py` | outbound queue, fingerprints of replies, retry state, registered channel instances | dispatch, send with retries, coalesce deltas, enable and disable a channel | channels, WebUI pages | one dispatcher for all channels; duplicate suppression; a channel replaced while a message is being sent |
| **Provider fallback** `providers/fallback_provider.py` | failure count, time of the trip | call, trip, cool down, probe | runner | concurrent calls around the cooldown |
| **Exec sessions** `agent/tools/exec_session.py` | running shells, limit, owners | start, poll, write, terminate, sweep | tools, `/stop` | limit against removal outside the lock |
| **Subagents** `agent/subagent.py` | background tasks per session | spawn, cancel, announce | bus | results for a session that has moved on |
| **Session store**, **memory**, **pairing**, **usage ledger** | files | load, save, append, compact | loop, WebUI | cursors over files that are compacted |
| **State graph** `agent/state_graph/` | position and retries in a graph | step, review, retry | pipeline | retry bounds |
| Channels, providers, HTTP API, WebUI, CLI, skills, video pipeline, front ends | — | adapters, conversions, presentation | — | not control |

What makes each component correct, as the properties to state:

- *Dispatch*: turns of a session never overlap; every message is in exactly one place
  and is dealt with; an automation turn is never mixed into a user's; submitters are
  answered; `/stop` returns.
- *Triggers*: an accepted delivery is not lost, not stranded, and not repeated without
  bound; a settled one never returns; each is settled in the end.
- *Cron*: an execution that was saved is not repeated; a job that was removed is not
  executed; a due job is executed, whatever failed before; no operation of another
  process is lost.
- *Recovery*: an interrupted turn is continued at most once and only while it is the
  current one; no journalled follow-up is lost or published twice.
- *Leases*: no shutdown while a client holds a lease; no client attaches to a gateway
  that has committed to stop; an orphaned gateway stops.
- *Outbound*: no message overtakes another or vanishes on its way to its channel; only
  repetitions are suppressed; no channel blocks the others for ever.

## 2. Plan

In order of importance to the system. The first six are done.

1. `SessionDispatch`, with the abstract specification `SerialTurns` that it implements.
2. `LocalTriggers`: the durable queue in front of `submit()`.
3. `CronService`: the timer, its store and its crashes.
4. `GatewayLease`, with the abstract specification `SharedGateway` that it implements.
5. `TurnRecovery`: checkpoint, journal and admission, with a crash anywhere. It has its
   own small dispatch (one session, one turn) instead of `SessionDispatch`, whose
   interleavings would multiply with those of crashes.
6. `OutboundDispatch`: the one dispatcher behind all channels.
7. Then: the fallback circuit and exec sessions.

Theorems: every safety invariant, every action property and both refinements that the
passing runs check are proved (section 10). Still worth stating and proving: what the
runs' liveness properties rest on without fairness, such as who can take a step when a
message waits (the part of `CommandReturns`, `TransitionEnds` and `Settled` that is an
invariant); and what the violation runs suggest, that the disagreements of section 11 are
the only way to break the claims they refute (a `BegunOnce` that holds while no call
re-arms the timer, a `LoggedMerged` while no process ends in the merge).

The number of runs is kept small: one for each question. A run that asks on a larger
instance what is also proved for every instance is the first to go when a new
component needs its own.

## 3. SessionDispatch

`SessionDispatch.tla` models `AgentLoop.run`, `_dispatch`, `process_direct`, the
automation coordinator, goal continuations, `/stop`, `/new`, session discard and
shutdown. Tasks are named after the message they were created for.

| State | In the code |
|---|---|
| `bus`, `unsent` | `MessageBus.inbound`, and what nobody has published yet |
| `loop`, `command`, `awaited` | the consumer, and the command in which it waits for cancelled tasks |
| `task`, `cancel`, `tracked`, `clearing` | dispatch tasks, undelivered `cancel()`s, `_active_tasks`, what `/new` awaits |
| `lockQ`, `gateQ` | waiters of the session lock and of the gate semaphore; the owner of a lock is the task in the states of `Holds` |
| `slot`, `pending`, `inTurn`, `cycles`, `rounds` | `_pending_queues`, the queue objects, what a turn has drained, its injection cycles, the session's continuation rounds |
| `deferred`, `waiter`, `outcome` | deferred automation turns, futures of `submit()`, how a message ended |

A task goes `created → lock → gate → running → done`; a turn that queues a continuation
waits in `putting` while its own queue is full, and `/new` waits in `clearing`.
Cancellation is two steps, as in asyncio: the request (`Cancel`) and its delivery at the
task's next suspension (`CancelUnstarted`, `CancelWaiting`, `CancelTurn`); a task that
was cancelled before its first step never runs its `finally`.

The actions of the consumer are `Consume` (control, defer, route, spawn), `ControlDone`
and `StartLoop`; of a task, `Start`, `AcquireLock`, `AcquireGate`, `Drain`, `DrainFails`,
`Continue`, `Put`, `Finish`, `RunNew`, `FinishNew`, `TaskEnds` and the cancellations;
from outside, `Send`, `Submit`, `Abandon`, `CallDirect` and `Close`.

Abstractions. The order of `asyncio.Lock` waiters is kept, including the newcomer that
passes a queue of cancelled waiters. What a turn says, and the model calls within it,
are left out: a turn may at any time drain, continue, end in success or failure. A
sustained goal stays active for its rounds. `stop()`, the end of the consumer's poll
and `aclose` are one step; `wait_for` loses no message; publishing to an unbounded queue
does not suspend. A drain that fails counts what it had taken as absorbed. Out of the
model: admission of recovered turns and the follow-up journal (`TurnRecovery` has
them), the required-session check, other inline commands, shell background commands,
cancellation of subagents and the wait for their results.

`SerialTurns.tla` is what dispatch promises: one active turn per session, a message
waits, is active or rides along, and closing is final; automation messages never ride.
`SessionDispatch!Turns` instantiates it with the refinement mapping `Standing` (where
a message is) and `RunningTurn`; `SerialTurnsSpec` is checked as a property.

Fairness (`FairSpec`): weak fairness of each task's steps and of the consumer's. The
event loop runs every ready callback, and the lock and semaphore wake waiters in order,
so a step that stays enabled is taken. That a running turn ends is an assumption: the
code bounds its iterations, and its model calls and tools have timeouts. Nothing is assumed
of users, submitters or shutdown.

Properties: `SerialSession`, `WithinPermits`, `QueueOwned`, `AutomationIsolated`,
`Accounted` (each message in exactly one place), `DeferredHasWaker`, `OutcomeFinal`,
 `WaiterResolved`, `EveryMessageHandled`, `CommandReturns`,
`SerialTurnsSpec`. Each is stated in words above its definition.

## 4. LocalTriggers

`LocalTriggers.tla` models the store's directories (`inbox`, `processing`, `failed`: the
attempts in each delivery file, or `NoFile`), the runner's control (`runner`, `held`,
`now`) and two histories that properties need: `turns` started and outcomes `recorded`.
A `FileLock` makes each operation of the store one step. Those that write more than
one file can die in between: `EnqueueTorn`, `CrashInClaim`, `CrashInRetry` (the new
file written, the old one not unlinked), `CrashInDelete`. `Crash` is death anywhere else,
`Shutdown` the cancelled runner that puts back what it holds. After an exit
`StartGateway`, `Recover` and `Recovered` are the next process. WebUI calls run only where
the runner awaits, and the `trigger` command only while recovery does not hold the lock.

Abstractions. A crash is the death of a process: what was written stays written and in
order. Every file is written to a temporary name and renamed, so a delivery file or a
`triggers.json` that cannot be parsed is not a state the program reaches, and the code
that sets one aside is not modelled. Run records, names and the status fields of triggers,
which the queue writes and never reads, are left out. `Create` stands for `/trigger`: each
trigger is created at most once, since identifiers are fresh. An error that escapes the runner ends
the gateway and is a `Crash`. `MaxExits` bounds the number of exits.

Fairness: the runner's steps, including the start of the next gateway, are weakly fair:
a service manager or a user restarts it. `EventuallySettled` therefore
assumes that a submitted turn ends; `WaiterHasTurn` (section 11) shows that it may not.

## 5. CronService

`CronService.tla` models the gateway's `CronService`: `disk` (`jobs.json`), `log` (the
last operation `action.jsonl` holds for each job), `store` and `dirty` (`_store`,
`_store_dirty`), the timer task (`timer`, `current`, `occurrence`, `batch`), the timer
tasks that were cancelled and have not ended (`unwinding`), and the manual runs
(`manual`). `Active` is `_active_executions > 0`.

- *Ticks*: `Flush`/`FlushFails` (a dirty store is only saved), `TickBegins` (load, decide
  the batch, begin its first job), `TickContinues` (the next one, without a save),
  `TickEnds` (save, re-arm), `TickIdles` (nothing was due).
- *Calls*: `Add`, `Edit` (`enable_job`, `update_job`), `Remove`, `List`, `RunJob` and
  `RunJobEnds`. Each loads, changes, saves, and, when the save succeeded, re-arms:
  `Rearm` cancels the timer task even while it runs a job. A job in `Lingering` takes
  time to end once it is cancelled (`Unwind`), the others end at once.
- *Failures*: a save that fails leaves the old file or, when only the directory could not
  be flushed, the new one (`SaveFails`); `Crash` and `CrashInMerge` end the process.
- *Other processes*: `OfflineAdd` and `OfflineRemove` append to the log.

Time is abstracted to what the properties tell apart: a schedule computation gives a
recurring job its next *occurrence*, `came` is the last occurrence whose time has come,
and the last one below `Horizon` is the last that comes. A one-shot job has occurrence 1.
The histories `done`, `settled` and `off` are read by properties only; `MCCronRerun` adds
`began` for the one property that needs it.

- *Start*: the gateway registers or removes its own jobs (`System`: dream and heartbeat, as
  its configuration says at that start) before `CronService.start`. Each registration saves
  jobs.json with what the log says while the log stays, so a process that dies between two
  of them (`CrashInStart`) leaves operations to be merged twice.

Abstractions. Jobs are bound to a session, as every job this version adds is; the
conversion of older files is left out. `jobs.json` is written atomically, so the code
that sets a corrupt one aside is not modelled. Run records and changes of a job's
schedule kind are left out. No caller forces a manual run of a disabled job, and agent
processes add and remove but do not edit; a job has one manual run at a time; a callback
does not swallow its cancellation.

Fairness: sleeping timers fire (`TickBegins`, `TickIdles`), jobs and cancelled tasks end
(`TickContinues`, `TickEnds`, `Unwind`), and a save that is tried again and again succeeds
at some time (strong fairness of `Flush`). The last is an assumption about the disk;
without it `_on_timer` by design executes nothing.

`NeverReplayed` is about executions a save was tried for. A tick that is cancelled
after the first of two jobs has saved neither, and a load forgets the first: that is a
consequence of the cancellation reported by `cron_rerun`. `DueServed` excludes the time
while a cancelled tick is still ending, because two ticks can cancel each other for ever:
the first, cancelled by a call, ends late and re-arms, which cancels the second, which
ends late and re-arms. The model has this loop when the clause `unwinding > 0` is removed
from `DueServed`, and so has the code: with a callback that takes 50 ms to end after
cancellation, one `add_job` during an execution led to a job begun 59 times and
completed not once in three seconds.

## 6. GatewayLease

`GatewayLease.tla` models the processes that share one local gateway: the launchers of
the TUI and the WebUI (`Clients`), the operator's `gateway` commands, and the gateway
processes themselves. They share two files, `record` (which gateway runs, and how it was
launched) and the lease (`auto`, `stopping`, `clients`), under three file locks.

A section under both the transition and the lifecycle lock excludes every other and is
one step. The long holder of the transition lock is a stop: it signals a gateway, waits
for it to exit, and kills it after its timeout. That is `job`, with its purpose (`stop`,
`restart`, or the `release` of the last client) and phase; `TransitionFree` is the free
lock. What the code lets happen meanwhile under the lifecycle lock alone are the cleanup
of an exiting gateway (`Exit`) and a waiter that finds the gateway of a committed shutdown
dead (`FinishDeadShutdown`).

`status()` is no pure read: it reads the process file, looks for the process, and unlinks
the file when that process is gone. Within a locked section this is part of the section's
step (`Running`). The launchers and `gateway status` call it without any lock, and there
it is two steps, `ReadRecord` and then `FindsRunning` or `FindsStale`; `read` holds what
was read and not yet judged, and `unlinked` the gateways that were at work when such a
caller removed their record.

- *Clients*: `Acquire` (waits while a shutdown is committed; `WaitFails` gives up),
  `ReadRecord` with `FindsRunning` or `FindsStale`, `StartOnDemand`, `Fail`, `Leave` then `Release` or `ReleaseAndStop`,
  `Detach` (`mark_persistent`), `ClientCrash`.
- *Operator*: `StartBackground`, `BeginStop`, `BeginRestart`, `OperatorCrash`, and `gateway
  status` (`ReadRecord`, `FindsRunning`, `FindsStale`).
- *The holder of the lock*: `Signal`, `Kill`, `VictimGone`, `NothingStopped` and the three
  conclusions.
- *Gateways*: `Launch` (in the foreground), `Claim` or `ClaimFails`, `MonitorPolls`,
  `MonitorBlocks` (the monitor finds the transition lock taken and blocks the event loop),
  `TakesSignal`, `Interrupt`, `Exit`, `GatewayCrash`.

A dead client stays in the file until a reader prunes it; every reader does, so guards
read `LiveClients`.

`SharedGateway.tla` is what the leases promise: users join only while the gateway is not
committed to stop, it commits only without users, and the commitment ends. `SharedSpec`
instantiates it with the live clients as users.

Abstractions. POSIX: the Windows hand-off of the process id is left out. The health
probe is left out: a launcher that does not get a healthy gateway is `Fail`. Process
identities are exact, as the code's start-time check makes them. Each gateway name is one
process; it is started once.

Fairness: processes run, so what is a process's own next step happens, and every wait has
a timeout. Nothing is assumed of users, commands or crashes. A file lock is not fair:
that a process that polls for it gets it relies on `MaxCommands`, which stands for stops
being rare.

`ServingIsRecorded` has an exception, which the code has too. A launcher or `gateway
status` that read the record of a dead gateway and is preempted before its unlink
(`process_runtime.py:191` and `205`) removes the record that a newer gateway has written
meanwhile under its locks. That gateway then serves without a record: another one may
claim the file and serve as well (`gateway/runtime.py:353`), and `gateway stop` finds
nothing running. If the newer gateway was an on-demand child that had not claimed yet, it
claims as if it had been started in the foreground and becomes persistent.
`_release_current_process` (`gateway/runtime.py:387`) compares the record before it
removes it; `status()` does not.

Two more consequences of the code that no property states: when the operator restarts an
on-demand gateway whose last client is gone, the old one's exit clears `auto`, and the new
one stays until it is stopped; an explicit stop forgets clients that are still there
(`forgotten`).

## 7. TurnRecovery

`TurnRecovery.tla` models `session/recovery.py` and what `agent/loop.py` does for it, for
one session. What a crash leaves is on disk: `pendingTurn`, `checkpoint` (its phase),
`journal` (follow-ups accepted into the live turn and not yet in history), `recovery` (status,
id, may it be continued), `unfinished` (a transcript without an end), `grown` (history is
longer than when Continue was pressed). In memory are `bus`, `tasks`, `turn` with its
`stage`, its `queue` and what it `injected`.

- *User*: `Send`, `Continue`, `Dismiss`, `Stop`.
- *Admission*: `ConsumeSpawn`, `ConsumeRoute` (admit, journal, queue), `AdmitTask`,
  `CancelRecovery`. Admission awaits the end of a superseded recovery's task, so that
  cancelling and admitting are two steps with other tasks in between.
- *Turn*: `Begin`, `Persist` (the user's row is saved early), `Checkpoint`, `Drain`, `DrainFails`
  (an exception part-way, which the runner swallows), `Commit`
  (rows, acknowledgements and marks in one save), `Fail`, `Completed`, `End`.
- *Restart*: `Crash` at any point, `Start`, then `Scan` in the order of `_recover_session`
  (`NothingInFlight`, `StillWaiting`, `LoopGuard`, `Classify`), `ScanFails`, `Requeue`.

Abstractions. A session's metadata and their save are one synchronous piece of code, so
memory and file are one state. A checkpoint is its phase; every phase but
`final_response` is recovered alike, and a malformed checkpoint is a choice of `Classify`.
Several sessions do not interact here. An orderly shutdown keeps what is on disk and is a
`Crash`. Follow-ups are requeued in some order; the journal's order is not modelled.

Fairness: the event loop runs what is ready, a turn ends (`Commit \/ Fail`), a startup goes
through its scan. Nothing is assumed of users, of `Start` or of crashes.

What the properties leave out is what the code does: `Dismiss` looks at no status and
cancels nothing, so a dismissed continuation that runs goes on (`SupersededStops` excludes
it); `/stop` leaves the status `resuming` until the next message or restart
(`ResumeConcludes` excludes it); a continuation that fails is marked as recovered, because
`turn_completed` is told of failures too; a follow-up that was injected into a failed or
stopped turn stays in the journal and runs at the next restart, whenever that is; a
follow-up that a failing drain took off the queue (`agent/runner.py:273`) has no reader
left: the turn commits without it, and it runs at the next restart (`dropped`, which
`Served` excludes until that restart and no longer); and requeued follow-ups are admitted
like new messages, so they supersede the recovery of the same session before the user
could review it.

## 8. OutboundDispatch

`OutboundDispatch.tla` models `channels/manager.py`: `_dispatch_outbound`,
`_coalesce_stream_deltas`, `_should_suppress_outbound`, `_send_with_retry`, the enabling and
disabling of channels by the WebUI, and `stop_all`.

| State | In the code |
|---|---|
| `script`, `next`, `outbound` | what the gateway's tasks publish, and `MessageBus.outbound` |
| `pending` | the message coalescing took off the bus and could not merge |
| `current`, `via`, `attempt`, `resting` | the message being sent (by the messages merged in it), the instance looked up for it, its attempts, the sleep before a retry |
| `fingerprints` | `_origin_reply_fingerprints`, a bounded LRU map |
| `live`, `running`, `built`, `job` | `channels`, the instances that were started and not stopped, and the request of each page, which awaits the stop of the old instance |

`Take` is one step: everything between taking a message and its first `send` is
synchronous. A send succeeds, fails with the message delivered or not, and a failure is
final, exhausted or retried; an instance that was stopped fails. The dispatcher keeps its
instance through all retries although the name may be registered for another by then.

`seen`, `delivered` and `fate` are histories for the properties. Messages are published in
one of the orders of `Scripts`, at any time. `Origins` tells under which messages a reply
was remembered: a late answer under the one it answers late (`Origin`) and the one it
answers itself (`Answers`), but when it is suppressed the code returns before the second.
`SuppressedRepeats` compares a reply with those dispatched before it, also the ones whose
sends were given up later.

Abstractions. A message is its kind, channel, stream, text and the ids it answers; one chat
per channel. Reasoning events, retry notices, restart notices, channels that cannot be
built or started, and the delivery deadline of the restart notice are left out. A
`CancelledError` that a channel's own `send` raised would end the dispatcher
(`channels/manager.py:960`, `789`); no channel in the repository lets one out, and the
model has none.

Fairness: a message that is there is taken, a send returns or raises (adapters have
timeouts), a sleep ends.

Two consequences of the code beyond the properties. A reply is remembered before it is
sent, so one that was given up suppresses its own repetition. And two pages that disable
and enable one channel at once can leave a running instance that is not registered:
the disable awaits the stop of the old instance, the enable registers a new one, and the
disable then removes that one unstopped; `stop_all` does not know it either. The model
has one page at a time.

## 9. Runs and their bounds

| Run | Question | Bounds, and why they are enough |
|---|---|---|
| `dispatch_stop` | One session with two user messages, an automation turn of a goal, `/stop` and shutdown: safety, `/stop` returns, refinement of `SerialTurns` | queue, injection and round limits 1, so that each limit is reached: a full queue sends a follow-up to a task of its own |
| `dispatch_live` | Does the gate hold, and are all messages dealt with and submitters answered when nobody stops them? | two sessions contend for one permit; a user's and an automation turn of one session, the latter deferred, both continue a goal; `/new` and a direct call, which takes a lock without the gate, share the other; `PendingCap = 20` as in the code, since the full queue is `dispatch_continuation` |
| `dispatch_waiter`, `dispatch_continuation` | Two claims of the code that it does not meet (section 11) | smallest instances that show them |
| `triggers` | Safety and liveness with exits anywhere | two deliveries in one batch, three attempts, three exits: enough exits for a delivery to be given up, and one that is not |
| `cron` | Safety and liveness of the timer under calls, failing saves, another process and an exit | a recurring, a one-shot and a system job make batches of up to three; two occurrences show a repetition and a next one, and the system job's one shows what a restart makes of it; one edit or removal, one exit |
| `cron_rerun`, `cron_merge` | Two claims of the code that it does not meet | the same instance, `cron_rerun` with a history |
| `lease` | Safety, refinement of `SharedGateway` and liveness with crashes of every process | two clients, so that one comes while the last other leaves; two gateways, so that one replaces the other and may lose its record to a status that read the other's (a third, which then serves beside it, is left to the theorem); two commands, so that a stop meets a restart |
| `lease_cleanup` | A claim of the code that it does not meet | the same with one command |
| `recovery` | Safety and liveness with exits at any point | two messages, so that one is the other's follow-up or supersedes its recovery; two exits, so that a continuation is interrupted and the recovery itself is; a queue of one, so that it fills; one `/stop` |
| `outbound` | Order, accounting, suppression and liveness while channels fail and are replaced | two scripts that put another channel's message, another stream and hidden progress between the deltas of a stream, a late answer that repeats the reply, and one with the same words to the message that answer belongs to; a cache of one entry, so that it evicts; two attempts; one instance beyond those at start |

No run uses symmetry: messages and jobs differ in kind, and deliveries are ordered by
age. Deadlock is not checked anywhere since all these systems may
come to rest: bounded senders have sent everything, or the bounded number of exits is used up.
Absence of stuck states is what the liveness properties say. Each property has a mutant:
a changed definition (`RoutesPastCap`, `KeepsWhileActive`, `LoopGuardResumes`, ...) defined before the one
it replaces, under which TLC finds the property violated.

## 10. Proofs

The proofs hold for any number of messages, sessions, deliveries and triggers, and any
limits that satisfy `ConstantsAssumption` of the module.

`SessionDispatch_proofs.tla`:

- `TypeCorrect`: `TypeOK`, one lemma per action and one group of variables at a time
  (`BusType`, `LoopType`, `TaskType`, `QueueType`, `TurnType`, `AnswerType`). That queues
  do not outgrow `PendingCap` needs the guards of routing and of `Put`.
- `OneTurnPerSession`: `SerialSession` is inductive with `TypeOK`: a task enters `Holds` only in
  `ReachLock` (a fresh task or a direct call) and `AcquireLock`, both under `LockFree`.
- `AutomationNeverInjected`: `AutomationIsolated`, since routing excludes automation
  messages, `Put` adds only the turn's own message, and `Drain` moves messages within
  one turn.

`LocalTriggers_proofs.tla` has one inductive invariant, `TypeOK /\ NowHeld /\ Safe /\
Charged`. `NowHeld`: the delivery worked on is held. `Safe` strengthens `NothingLost` and
`ProcessingOwned` by `RestsEmpty` (nothing is held while no runner works), `AckRecorded` (an
acknowledged delivery is recorded) and `UnsentNowhere` (an unsent delivery has no file):
`Acknowledge` unlinks a file, which is safe only because of `AckRecorded`, and an enqueue
does not give a claimed delivery a second copy because of `UnsentNowhere`. `Charged` relates `turns`
to the attempts in the files and to those `held` in memory. From it follow
`TypeCorrect`, `AtLeastOnce`, `ClaimedOnce`, `TurnsBounded`, and the action property
`SettledForGood`.

`MessagePlaces_proofs.tla` proves `QueuesOwned` and `NothingLostOrDoubled` (`QueueOwned`,
`Accounted`) from `TypeOK /\ Placed /\ QueueOwned`. That a message is in one place is not
inductive with queues as sequences: `Placed` adds that no queue holds a message twice
(`QueuesDistinct`), that only automation is deferred, under its own session
(`DeferredOwn`), that a turn whose own message is in its queue does nothing but end
(`OwnContinuation`), that direct calls are never queued (`DirectAlone`), and that a consumer
that does not wait has no command (`ConsumerFree`). Each action then moves one message, or
those of one queue, and leaves the others (`Still`).

`DispatchSafety_proofs.tla` builds on it. `OutcomesFinal`: a closed message is nowhere that
could close it again. `PermitsBound`: the messages may be infinitely many, so that the
invariant includes that the running turns are finitely many. `DeferredKeepsAWaker`: every
step that ends the last task of a session publishes a deferred turn, has one on the bus, or
is the cancellation that the property names. `DispatchIsSerial`: each step of
`SessionDispatch` is one of `SerialTurns` or a stutter. `Stands` and `TurnRead` say what the
mapping is in a reachable state, and `RidesAlong` that what a turn has drained is of its
session and goes when it ends.

`GatewayLease_proofs.tla`: `ServingIsRecorded` needs `VictimRecorded` (while a stop holds
the transition lock, the process file names the gateway it stops or none). From a section
that finds nothing running follows `NoneServes`: only gateways in `unlinked` are at work.
`OneGatewayServes` thus says, for any number of processes, that the unlink of a `status()`
without a lock is the only step after which a serving gateway is not the recorded one.
`LeaseKept` needs `JobHolder` (whose stop or restart it is, and that nobody joined since the
last one left). `LeasesShareTheGateway` is the step simulation of `SharedGateway`; its
invariant `NobodyLeftBehind` is inherited.

`CronService_proofs.tla`: `OffStaysOff` becomes inductive as `Quiet`: a job that was
switched off is off in memory, on disk and in the log and no tick means to run it, an added
job that is only logged is known nowhere else, and one not yet added nowhere at all. That
is what makes a merge of an old log harmless. `NeverReplayed` follows from `Ledger`, in three
parts: what was executed, and what memory, log and disk have scheduled, are occurrences
the schedule has given, so that the next it gives is new (`Executions`, `Given`); and what
is due next was not executed (`Unexecuted`), on disk only while the next load may read it
and with the exception of what no save was tried for.

`TurnRecovery_proofs.tla`: `Inv` is the conjunction of `Shape` (types, and what is empty
without a turn or a gateway), `OnePlace` (a message, and the one continuation, is once in the
gateway), `OnlyMessages` (no continuation is journalled or drained), `Unwritten` (what waits
or is journalled has no row), `Confirmed` and `Superseded` (the run's properties, and what
they need of tasks that wait). `CommittedOnce` and `ContinuationsConfirmed` count, so that
they need `OnePlace`: a second copy in the bus or among the tasks would be counted again.
`OneOfEach` also justifies the model: the code registers one task of a recovery, and
there is never another to cancel.

`OutboundDispatch_proofs.tla` has `Line`: the message being sent, the one that coalescing
put aside and the bus are, one after the other, the last messages published, and a message has
met its fate exactly if it comes before them. `NothingLost` follows, and with `Out` (what went
out last is being sent or is done) `NothingOvertakes`. `OnlyRepeatsSuppressed` needs
`Repeats`: every entry of the map was made by a reply of the past that no differing one to
the same message followed (`Backed`), and eviction only forgets. How far coalescing
merges is a greatest number with a property; that it exists is the minimum principle of the
well-founded order of the naturals (`Largest`), which is as near to induction as this
prover comes.

Nothing is assumed but `ConstantsAssumption` of each module: the kinds of the constants,
that limits are numbers, positive where the code makes them
so, and that names such as `None` are not messages.

Only model-checked: what needs fairness (`WaiterResolved`, `EveryMessageHandled`,
`CommandReturns`, `EventuallySettled`, `DueServed`, `OrphanStops`, `TransitionEnds`,
`Served`, `ResumeConcludes`, `Settled`), since the prover knows neither liveness nor
`ENABLED`. That the claims of section 11 fail is shown by counterexample.

## 11. Where code and documents disagree

1. *A submitter can wait for ever* (`dispatch_waiter`, `agent/loop.py:1523`). `/stop`
   cancels an automation task before it has the session lock; nothing completes its
   submission, and the cron tick or trigger runner behind it stops.
2. *A continuation can block its own turn* (`dispatch_continuation`,
   `session/turn_continuation.py:132`). It is put on the bounded queue whose only reader is
   the turn that puts it. Only `/stop` frees the session.
3. *Editing any job cancels the job that runs and runs it again* (`cron_rerun`,
   `cron/service.py:521`), and the loop of section 5 may follow.
4. *The log is emptied before the merge is saved* (`cron_merge`, `cron/service.py:312`).
5. *A stop blocks the cleanup it waits for* (`lease_cleanup`, `gateway/runtime.py:512`).
   The gateway's monitor waits for the transition lock on the gateway's event loop; the
   stop that holds it waits for the gateway, times out and kills it.

Three more have no run of their own. A local delivery is charged an attempt for each
interruption, and the tenth moves it to `failed/` though it may never have run
(`triggers/local_store.py:365`), where `docs/chat-commands.md:89` says that the next start
requeues it. And two pages can leave a channel running that `stop_all`, "Stop all channels
and the dispatcher", does not stop (section 8). And a `status()` without a lock may
remove the record of a gateway that serves, where `_claim_current_process` and its locks
are there to let one gateway run at a time (section 6).

## 12. What is not modelled

`PROJECT.json` lists every component with its status. Planned: the fallback circuit and
exec sessions. The agent runner appears only through its drains; subagents only through
their messages. Session files, memory, pairing and the usage ledger are storage formats
with little control. Channels, providers, HTTP API, front ends, configuration and the
video pipeline, which are most of the source, convert and present data: their functions
have hardly any state that two actors share, so a model of them would repeat them.
