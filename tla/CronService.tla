----------------------------- MODULE CronService -----------------------------
(***************************************************************************)
(* The cron service: the gateway's CronService owns jobs.json, a timer     *)
(* task runs the due jobs one after the other, the WebUI and the cron tool *)
(* call the service between its awaits, and agent processes that do not    *)
(* own the store append their operations to action.jsonl.                  *)
(*                                                                         *)
(* Times are occurrences: each schedule computation gives a recurring job  *)
(* its next number, a one-shot job has occurrence 1 only, and `came` is    *)
(* the clock.  A FileLock and one event loop make each call one step; a    *)
(* process may die inside a merge of the action log.                       *)
(***************************************************************************)
EXTENDS Integers, FiniteSets

CONSTANTS
  Jobs,         \* job ids
  Stored,       \* the jobs of the first jobs.json
  System,       \* jobs the gateway registers itself: dream and heartbeat
  OneShot,      \* "at" jobs
  DeleteAfter,  \* one-shot jobs with delete_after_run
  Lingering,    \* jobs whose callback still awaits once it is cancelled
  Absent,       \* no such job
  NoRun,        \* next_run_at_ms is None
  NoOp,         \* nothing in the action log for a job
  NoJob,        \* no job is being executed
  Horizon,      \* bound: this occurrence of each job and later ones never come
  MaxEdits,     \* bound on edits of jobs
  MaxExits      \* bound on gateway exits

ASSUME ConstantsAssumption ==
  /\ Stored \subseteq Jobs
  /\ System \subseteq Jobs
  /\ OneShot \subseteq Jobs \ System
  /\ DeleteAfter \subseteq OneShot
  /\ Lingering \subseteq Jobs
  /\ Horizon \in [Jobs -> Nat \ {0, 1}]
  /\ NoRun \notin Nat
  /\ NoJob \notin Jobs
  /\ Absent # NoOp
  /\ MaxEdits \in Nat
  /\ MaxExits \in Nat

VARIABLES
  disk,       \* jobs.json
  log,        \* what action.jsonl says last of each job
  unborn,     \* jobs nobody has added yet
  up,         \* the gateway's service is running
  store,      \* _store
  dirty,      \* _store_dirty
  timer,      \* the timer task: off, sleeping, running
  current,    \* the job it executes
  occurrence, \* the occurrence it executes it for
  batch,      \* the due jobs it has still to execute
  unwinding,  \* cancelled timer tasks that have not ended
  manual,     \* jobs run_job executes
  sched,      \* the last occurrence scheduled for each job
  came,       \* the last occurrence of each job whose time has come
  edits, exits,
  done,       \* occurrences executed since the last save (history)
  settled,    \* occurrences executed before a save was tried (history)
  off         \* jobs whose removal or disabling was answered (history)

diskVars  == <<disk, log, unborn>>
storeVars == <<store, dirty>>
tickVars  == <<timer, current, occurrence, batch, unwinding>>
clockVars == <<sched, came>>
history   == <<done, settled, off>>
vars == <<diskVars, up, storeVars, tickVars, manual, clockVars, edits, exits, history>>

Job == [on : BOOLEAN, next : Nat \cup {NoRun}]
Stores == [Jobs -> Job \cup {Absent}]

Active == timer = "running" \/ unwinding > 0 \/ manual # {}

-----------------------------------------------------------------------------
(* Schedules. *)

\* _compute_next_run: a later time for a recurring job, the job's own time for a
\* one-shot job unless it has passed.
NextRun(j) ==
  IF j \in OneShot THEN IF came[j] = 0 THEN 1 ELSE NoRun
  ELSE IF sched[j] < Horizon[j] THEN sched[j] + 1 ELSE Horizon[j]

Scheduled(some) ==
  sched' = [j \in Jobs |-> IF j \in some \ OneShot THEN NextRun(j) ELSE sched[j]]

Due(s) == {j \in Jobs : s[j] # Absent /\ s[j].on /\ s[j].next \in 1..came[j]}

\* The end of _execute_job, whatever the callback's result: a one-shot job is
\* deleted or disabled, a recurring one rescheduled, a removed one left alone.
Executed(s, j) ==
  IF s[j] = Absent THEN s
  ELSE [s EXCEPT ![j] = IF j \in DeleteAfter THEN Absent
                        ELSE IF j \in OneShot THEN [on |-> FALSE, next |-> NoRun]
                        ELSE [@ EXCEPT !.next = NextRun(j)]]

-----------------------------------------------------------------------------
(* Loading and saving. *)

NoOps == [j \in Jobs |-> NoOp]
Merged(d) == [j \in Jobs |-> IF log[j] = NoOp THEN d[j] ELSE log[j]]

\* _load_store keeps the store in memory while it is dirty or a job runs.
KeepsWhileActive == Active
Keeps == dirty \/ Active

\* Otherwise it reads jobs.json and merges the action log, which it empties before
\* it saves the result.
Loaded == IF Keeps THEN store ELSE Merged(disk)
LoadsLog == log' = IF Keeps THEN log ELSE NoOps
SavedByLoad == IF Keeps THEN disk ELSE Merged(disk)

\* A save that was tried settles what was executed before it; a load forgets what no
\* save was tried for.
SettleWith(last) ==
  /\ settled' = IF Keeps THEN settled \cup done \cup last ELSE settled
  /\ done' = {}
Settle == SettleWith({})

Save(s) ==
  /\ store' = s
  /\ disk' = s
  /\ dirty' = FALSE

\* A failed write leaves the old file or, when only the directory's fsync failed,
\* the new one.
SaveFails(s, old) ==
  /\ store' = s
  /\ disk' \in {old, s}
  /\ dirty' = TRUE

LoadFails ==
  /\ ~Keeps
  /\ log # NoOps
  /\ log' = NoOps
  /\ SaveFails(Merged(disk), disk)
  /\ Settle

-----------------------------------------------------------------------------
Init ==
  /\ disk = [j \in Jobs |-> IF j \in Stored THEN [on |-> TRUE, next |-> 1] ELSE Absent]
  /\ log = NoOps
  /\ unborn = Jobs \ (Stored \cup System)
  /\ up = FALSE
  /\ store = [j \in Jobs |-> Absent]
  /\ dirty = FALSE
  /\ timer = "off"
  /\ current = NoJob
  /\ occurrence = NoRun
  /\ batch = {}
  /\ unwinding = 0
  /\ manual = {}
  /\ sched = [j \in Jobs |-> IF j \in Stored \cup OneShot THEN 1 ELSE 0]
  /\ came = [j \in Jobs |-> 0]
  /\ edits = 0
  /\ exits = 0
  /\ done = {}
  /\ settled = {}
  /\ off = {}

\* Time passes.
Pass(j) ==
  /\ came[j] < sched[j]
  /\ came[j] + 1 < Horizon[j]
  /\ came' = [came EXCEPT ![j] = @ + 1]
  /\ UNCHANGED <<diskVars, up, storeVars, tickVars, manual, sched, edits, exits,
                 history>>

-----------------------------------------------------------------------------
(* Start and exit. *)

RecomputedNothing(s) == s

\* _recompute_next_runs.
Recomputed(s) ==
  [j \in Jobs |-> IF s[j] # Absent /\ s[j].on THEN [s[j] EXCEPT !.next = NextRun(j)]
                  ELSE s[j]]

\* register_system_job for the system jobs that are enabled, remove_system_job for the
\* others.
Registered(s, enabled) ==
  [j \in Jobs |-> IF j \notin System THEN s[j]
                  ELSE IF j \in enabled THEN [on |-> TRUE, next |-> NextRun(j)]
                  ELSE Absent]

\* The gateway registers its jobs and starts the service: CronService.start.
Start ==
  \E enabled \in SUBSET System :
  LET s == Registered(Merged(disk), enabled) IN
  /\ ~up
  /\ up' = TRUE
  /\ log' = NoOps
  /\ Save(Recomputed(s))
  /\ Settle
  /\ Scheduled({j \in Jobs : s[j] # Absent /\ s[j].on})
  /\ timer' = "sleeping"
  /\ UNCHANGED <<unborn, current, occurrence, batch, unwinding, manual, came, edits,
                 exits, off>>

\* The process ends and everything in memory with it.
Exit ==
  /\ exits < MaxExits
  /\ exits' = exits + 1
  /\ up' = FALSE
  /\ store' = [j \in Jobs |-> Absent]
  /\ dirty' = FALSE
  /\ timer' = "off"
  /\ current' = NoJob
  /\ occurrence' = NoRun
  /\ batch' = {}
  /\ unwinding' = 0
  /\ manual' = {}
  /\ done' = {}
  /\ UNCHANGED <<unborn, sched, came, edits, settled, off>>

Crash ==
  /\ up
  /\ Exit
  /\ UNCHANGED <<disk, log>>

\* It dies when it has registered some jobs, which saves what the log says and leaves
\* the log to the start.
CrashInStart ==
  /\ ~up
  /\ Exit
  /\ \E enabled, reached \in SUBSET System :
       LET s == Registered(Merged(disk), enabled) IN
       /\ \E j \in reached : s[j] # Merged(disk)[j]
       /\ disk' = [j \in Jobs |-> IF j \in reached THEN s[j] ELSE Merged(disk)[j]]
  /\ UNCHANGED log

\* It dies in a load, or its start fails, after the log was emptied.
CrashInMerge ==
  /\ ~up \/ ~Keeps
  /\ log # NoOps
  /\ log' = NoOps
  /\ Exit
  /\ disk' \in {disk, Merged(disk)}

-----------------------------------------------------------------------------
(* The timer: _arm_timer, _on_timer and _execute_job. *)

RearmAround == UNCHANGED tickVars

\* _arm_timer replaces the timer task and cancels the old one, also while it
\* executes a job: it ends at once, or when the job's callback lets it.
Rearm ==
  IF timer # "running" THEN UNCHANGED tickVars
  ELSE /\ timer' = "sleeping"
       /\ current' = NoJob
       /\ occurrence' = NoRun
       /\ batch' = {}
       /\ unwinding' = unwinding + (IF current \in Lingering THEN 1 ELSE 0)

Begin(s, j) ==
  /\ timer' = "running"
  /\ current' = j
  /\ occurrence' = IF s[j] = Absent THEN NoRun ELSE s[j].next

RestUnarmed ==
  /\ timer' = "off"
  /\ current' = NoJob
  /\ occurrence' = NoRun
  /\ batch' = {}

\* The finally of a tick re-arms.
Rest ==
  /\ timer' = "sleeping"
  /\ current' = NoJob
  /\ occurrence' = NoRun
  /\ batch' = {}

FiresClean == up /\ timer = "sleeping" /\ ~dirty

Fires == up /\ timer = "sleeping"

\* A tick with a dirty store only saves it.
Flush ==
  /\ Fires
  /\ dirty
  /\ Save(store)
  /\ Settle
  /\ UNCHANGED <<log, unborn, up, tickVars, manual, clockVars, edits, exits, off>>

FlushFails ==
  /\ Fires
  /\ dirty
  /\ SaveFails(store, disk)
  /\ Settle
  /\ UNCHANGED <<log, unborn, up, tickVars, manual, clockVars, edits, exits, off>>

\* Otherwise it loads, and executes the first due job ...
TickBegins ==
  /\ Fires
  /\ ~dirty
  /\ \E j \in Due(Loaded) : Begin(Loaded, j) /\ batch' = Due(Loaded) \ {j}
  /\ store' = Loaded
  /\ disk' = SavedByLoad
  /\ LoadsLog
  /\ done' = IF Keeps THEN done ELSE {}
  /\ UNCHANGED <<unborn, up, dirty, unwinding, manual, clockVars, edits, exits, settled,
                 off>>

\* ... or saves when none is.
TickIdles ==
  /\ Fires
  /\ ~dirty
  /\ Due(Loaded) = {}
  /\ LoadsLog
  /\ Save(Loaded) \/ SaveFails(Loaded, SavedByLoad)
  /\ Settle
  /\ UNCHANGED <<unborn, up, tickVars, manual, clockVars, edits, exits, off>>

\* A job ends and the next of the batch begins, without a save in between.
TickContinues ==
  /\ timer = "running"
  /\ store' = Executed(store, current)
  /\ Scheduled({current})
  /\ done' = done \cup {<<current, occurrence>>}
  /\ \E j \in batch : Begin(store', j) /\ batch' = batch \ {j}
  /\ UNCHANGED <<diskVars, up, dirty, unwinding, manual, came, edits, exits, settled,
                 off>>

\* The last job ends: save, and re-arm in any case.
TickEnds ==
  /\ timer = "running"
  /\ batch = {}
  /\ LET s == Executed(store, current) IN Save(s) \/ SaveFails(s, disk)
  /\ SettleWith({<<current, occurrence>>})
  /\ Scheduled({current})
  /\ Rest
  /\ UNCHANGED <<log, unborn, up, unwinding, manual, came, edits, exits, off>>

\* A cancelled timer task ends and re-arms the timer, too.
Unwind ==
  /\ unwinding > 0
  /\ IF timer = "running" /\ current \notin Lingering
     THEN Rest /\ unwinding' = unwinding - 1
     ELSE IF timer = "running"
     THEN Rest /\ UNCHANGED unwinding
     ELSE unwinding' = unwinding - 1 /\ UNCHANGED <<timer, current, occurrence, batch>>
  /\ UNCHANGED <<diskVars, up, storeVars, manual, clockVars, edits, exits, history>>

-----------------------------------------------------------------------------
(* Calls in the gateway: each loads, changes the store, saves and re-arms. *)

\* list_jobs, get_job, status: a load, which the store in memory answers as it is.
List ==
  /\ up
  /\ ~Keeps
  /\ LoadsLog
  /\ Save(Loaded)
  /\ Settle
  /\ UNCHANGED <<unborn, up, tickVars, manual, clockVars, edits, exits, off>>

\* Any call fails with its load's save.
CallFails ==
  /\ up
  /\ LoadFails
  /\ UNCHANGED <<unborn, up, tickVars, manual, clockVars, edits, exits, off>>

\* A call that changes the store is answered when the save succeeds; when it fails
\* the change stays in memory and the timer is left alone.
Answered(s) == Save(s) /\ LoadsLog /\ Settle /\ Rearm
Refused(s) == SaveFails(s, SavedByLoad) /\ LoadsLog /\ Settle /\ UNCHANGED tickVars

\* add_job.
Add(j) ==
  LET s == [Loaded EXCEPT ![j] = [on |-> TRUE, next |-> NextRun(j)]] IN
  /\ up
  /\ j \in unborn
  /\ unborn' = unborn \ {j}
  /\ Answered(s) \/ Refused(s)
  /\ Scheduled({j})
  /\ UNCHANGED <<up, manual, came, edits, exits, off>>

\* System jobs are protected from editing, removal and manual runs.
UserJobs == Jobs \ System

Edits == up /\ edits < MaxEdits /\ edits' = edits + 1

\* enable_job, and update_job, which leaves `on` as it is.
Edit(j, on) ==
  LET s == [Loaded EXCEPT ![j] = [on |-> on, next |-> IF on THEN NextRun(j) ELSE NoRun]]
  IN
  /\ Edits
  /\ Loaded[j] # Absent
  /\ \/ Answered(s) /\ off' = IF on THEN off \ {j} ELSE off \cup {j}
     \/ Refused(s) /\ off' = IF on THEN off \ {j} ELSE off
  /\ Scheduled(IF on THEN {j} ELSE {})
  /\ UNCHANGED <<unborn, up, manual, came, exits>>

\* remove_job.
Remove(j) ==
  LET s == [Loaded EXCEPT ![j] = Absent] IN
  /\ Edits
  /\ Loaded[j] # Absent
  /\ \/ Answered(s) /\ off' = off \cup {j}
     \/ Refused(s) /\ off' = off
  /\ UNCHANGED <<unborn, up, manual, clockVars, exits>>

\* run_job up to its await: a dirty store is saved first, then loaded unless a job is
\* being executed.
RunJob(j) ==
  LET base == IF dirty THEN store ELSE disk
      s == IF Active THEN store ELSE Merged(base)
  IN
  /\ up
  /\ j \notin manual
  /\ \/ /\ dirty
        /\ SaveFails(store, disk)
        /\ Settle
        /\ UNCHANGED <<log, manual>>
     \/ /\ ~Active
        /\ log # NoOps
        /\ log' = NoOps
        /\ SaveFails(Merged(base), base)
        /\ Settle
        /\ UNCHANGED manual
     \/ /\ store' = s
        /\ disk' = IF Active THEN base ELSE s
        /\ dirty' = FALSE
        /\ log' = IF Active THEN log ELSE NoOps
        /\ manual' = IF s[j] # Absent /\ s[j].on THEN manual \cup {j} ELSE manual
        /\ IF dirty \/ ~Active THEN Settle ELSE UNCHANGED <<done, settled>>
  /\ UNCHANGED <<unborn, up, tickVars, clockVars, edits, exits, off>>

\* The rest of run_job.  It re-arms only when nothing is being executed any more.
RunJobEnds(j) ==
  LET s == Executed(store, j) IN
  /\ j \in manual
  /\ manual' = manual \ {j}
  /\ Save(s) \/ SaveFails(s, disk)
  /\ Settle
  /\ Scheduled({j})
  /\ UNCHANGED <<log, unborn, up, tickVars, came, edits, exits, off>>

-----------------------------------------------------------------------------
(* An agent process: its CronService reads jobs.json and the log, and appends. *)

OfflineAdd(j) ==
  /\ j \in unborn
  /\ unborn' = unborn \ {j}
  /\ log' = [log EXCEPT ![j] = [on |-> TRUE, next |-> NextRun(j)]]
  /\ Scheduled({j})
  /\ UNCHANGED <<disk, up, storeVars, tickVars, manual, came, edits, exits, history>>

OfflineRemove(j) ==
  /\ edits < MaxEdits
  /\ edits' = edits + 1
  /\ Merged(disk)[j] # Absent
  /\ log' = [log EXCEPT ![j] = Absent]
  /\ UNCHANGED <<disk, unborn, up, storeVars, tickVars, manual, clockVars, exits,
                 history>>

-----------------------------------------------------------------------------
TimerStep ==
  \/ Flush
  \/ FlushFails
  \/ TickBegins
  \/ TickIdles
  \/ TickContinues
  \/ TickEnds
  \/ Unwind

Calls ==
  \/ List
  \/ CallFails
  \/ \E j \in UserJobs : \/ Add(j)
                          \/ Remove(j)
                          \/ RunJob(j)
                          \/ RunJobEnds(j)
                          \/ \E on \in BOOLEAN : Edit(j, on)

Elsewhere ==
  \/ \E j \in Jobs : Pass(j)
  \/ \E j \in UserJobs : OfflineAdd(j) \/ OfflineRemove(j)

Next == Start \/ Crash \/ CrashInStart \/ CrashInMerge \/ TimerStep \/ Calls \/ Elsewhere

Spec == Init /\ [][Next]_vars

\* Sleeping timers fire, jobs and cancelled tasks end, and a save that is tried for
\* ever succeeds at some time.
FairSpec ==
  /\ Spec
  /\ SF_vars(Flush)
  /\ SF_vars(TickBegins)
  /\ SF_vars(TickIdles)
  /\ WF_vars(TickContinues \/ TickEnds)
  /\ WF_vars(Unwind)

-----------------------------------------------------------------------------
(* Properties. *)

\* Every variable keeps its type: the timer is armed exactly while the service runs, and
\* only a running tick executes a job.
TypeOK ==
  /\ disk \in Stores
  /\ log \in [Jobs -> Job \cup {Absent, NoOp}]
  /\ unborn \subseteq Jobs
  /\ up \in BOOLEAN
  /\ store \in Stores
  /\ dirty \in BOOLEAN
  /\ timer \in {"off", "sleeping", "running"}
  /\ up <=> timer # "off"
  /\ current \in Jobs \cup {NoJob}
  /\ timer = "running" <=> current # NoJob
  /\ occurrence \in Nat \cup {NoRun}
  /\ batch \subseteq Jobs
  /\ unwinding \in Nat
  /\ manual \subseteq Jobs
  /\ \A j \in Jobs : sched[j] \in 0..Horizon[j] /\ came[j] \in 0..Horizon[j] - 1
  /\ edits \in 0..MaxEdits
  /\ exits \in 0..MaxExits
  /\ done \cup settled \subseteq Jobs \X (Nat \cup {NoRun})
  /\ off \subseteq Jobs

\* An occurrence below the bound.
Numbered(j, n) == j \in Jobs /\ n \in 1..Horizon[j] - 1

\* An occurrence the timer has executed is not executed again once a save was tried
\* after it: not when that save failed, not when polling callers, other processes or
\* a restart reload the store.
NeverReplayed ==
  Numbered(current, occurrence) => <<current, occurrence>> \notin settled

\* A job whose removal or disabling was answered is not being executed by the timer,
\* although a tick decides what it will execute before its first await.
OffStaysOff == current \notin off

\* The comment's "merge operations on the jobs object from other instances": what
\* another process logged leaves the log only for the store.
LoggedMerged ==
  [][\A j \in Jobs : log[j] # NoOp /\ log'[j] = NoOp =>
       (log[j] = Absent) \in {disk'[j] = Absent, up' /\ store'[j] = Absent}]_vars

\* A user's due job is executed or stops being due, whatever failed before: every tick re-arms
\* the timer.  Not so while cancelled ticks are still ending: each one's end cancels the
\* tick that has replaced it, which may go on for ever.
DueServed ==
  \A j \in UserJobs :
    j \in Due(store) ~> current = j \/ j \notin Due(store) \/ unwinding > 0
=============================================================================
