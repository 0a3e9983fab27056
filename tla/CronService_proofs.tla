-------------------------- MODULE CronService_proofs --------------------------
(***************************************************************************)
(* The cron service, for any jobs and schedules and any number of edits,   *)
(* failed writes, cancelled ticks, agent processes and exits: types, that  *)
(* a job that was switched off is not run by the timer, and that no        *)
(* occurrence is replayed.                                                 *)
(***************************************************************************)
EXTENDS CronService, TLAPS

USE DEF diskVars, storeVars, tickVars, clockVars, history, vars

-----------------------------------------------------------------------------
(* Types.                                                                    *)

StoreType ==
  /\ disk \in Stores /\ store \in Stores /\ dirty \in BOOLEAN
  /\ log \in [Jobs -> Job \cup {Absent, NoOp}]

TickType ==
  /\ up \in BOOLEAN
  /\ timer \in {"off", "sleeping", "running"}
  /\ up <=> timer # "off"
  /\ current \in Jobs \cup {NoJob}
  /\ timer = "running" <=> current # NoJob
  /\ occurrence \in Nat \cup {NoRun}
  /\ batch \subseteq Jobs
  /\ unwinding \in Nat

ClockType ==
  \A j \in Jobs : sched[j] \in 0..Horizon[j] /\ came[j] \in 0..Horizon[j] - 1

RestType ==
  /\ unborn \subseteq Jobs /\ manual \subseteq Jobs /\ off \subseteq Jobs
  /\ edits \in 0..MaxEdits /\ exits \in 0..MaxExits
  /\ done \cup settled \subseteq Jobs \X (Nat \cup {NoRun})

\* What TypeOK does not say: the schedules are functions, and only a running tick has
\* jobs left to execute.
Shape ==
  /\ sched \in [Jobs -> Nat] /\ came \in [Jobs -> Nat]
  /\ timer # "running" => batch = {}

LEMMA TypeParts == TypeOK <=> StoreType /\ TickType /\ ClockType /\ RestType
BY DEF TypeOK, StoreType, TickType, ClockType, RestType

LEMMA NextRunType ==
  ASSUME Shape, ClockType, NEW j \in Jobs
  PROVE  /\ NextRun(j) \in Nat \cup {NoRun}
         /\ j \notin OneShot => NextRun(j) \in 1..Horizon[j] /\ NextRun(j) >= sched[j]
         /\ [on |-> TRUE, next |-> NextRun(j)] \in Job
<1>1. Horizon[j] \in Nat \ {0, 1} /\ sched[j] \in Nat /\ sched[j] <= Horizon[j]
  BY ConstantsAssumption DEF ClockType, Shape
<1>2. /\ NextRun(j) \in Nat \cup {NoRun}
      /\ j \notin OneShot => NextRun(j) \in 1..Horizon[j] /\ NextRun(j) >= sched[j]
  BY <1>1 DEF NextRun
<1>3. QED BY <1>2 DEF Job

LEMMA MergedType ==
  ASSUME StoreType, NEW d \in Stores
  PROVE  Merged(d) \in Stores
BY DEF StoreType, Merged, Stores

LEMMA LoadTypes ==
  ASSUME StoreType
  PROVE  /\ Loaded \in Stores /\ SavedByLoad \in Stores
         /\ Merged(disk) \in Stores /\ Merged(store) \in Stores
         /\ NoOps \in [Jobs -> Job \cup {Absent, NoOp}]
<1>1. Merged(disk) \in Stores /\ Merged(store) \in Stores
  BY MergedType DEF StoreType
<1>2. Loaded \in Stores /\ SavedByLoad \in Stores
  BY <1>1 DEF Loaded, SavedByLoad, StoreType
<1>3. QED BY <1>1, <1>2 DEF NoOps

LEMMA ExecutedType ==
  ASSUME Shape, ClockType, NEW s \in Stores, NEW j \in Jobs
  PROVE  Executed(s, j) \in Stores
<1>1. NextRun(j) \in Nat \cup {NoRun}
  BY NextRunType
<1>2. CASE s[j] = Absent
  BY <1>2 DEF Executed
<1>3. CASE s[j] # Absent
  <2>1. s[j] \in Job
    BY <1>3 DEF Stores
  <2>2. [s[j] EXCEPT !.next = NextRun(j)] \in Job /\ [on |-> FALSE, next |-> NoRun] \in Job
    BY <1>1, <2>1 DEF Job
  <2>3. QED BY <1>3, <2>2 DEF Executed, Stores
<1>4. QED BY <1>2, <1>3

LEMMA SaveTypes ==
  ASSUME NEW s \in Stores, NEW old \in Stores, Save(s) \/ SaveFails(s, old)
  PROVE  disk' \in Stores /\ store' \in Stores /\ dirty' \in BOOLEAN
BY DEF Save, SaveFails

\* What Start and its crash make of jobs.json.
LEMMA StartTypes ==
  ASSUME Shape, ClockType, NEW s \in Stores, NEW enabled
  PROVE  /\ Registered(s, enabled) \in Stores
         /\ Recomputed(s) \in Stores
<1>1. \A j \in Jobs : [on |-> TRUE, next |-> NextRun(j)] \in Job
  BY NextRunType
<1>2. Registered(s, enabled) \in Stores
  BY <1>1 DEF Registered, Stores
<1>3. ASSUME NEW j \in Jobs, s[j] # Absent
      PROVE  [s[j] EXCEPT !.next = NextRun(j)] \in Job
  <2>1. s[j] \in Job /\ NextRun(j) \in Nat \cup {NoRun}
    BY <1>3, NextRunType DEF Stores
  <2>2. QED BY <2>1 DEF Job
<1>4. Recomputed(s) \in Stores
  BY <1>3 DEF Recomputed, Stores
<1>5. QED BY <1>2, <1>4

LEMMA StepStoreType ==
  ASSUME StoreType, ClockType, Shape, TickType, Next
  PROVE  StoreType'
<1> DEFINE LogType == log' \in [Jobs -> Job \cup {Absent, NoOp}]
<1>0. /\ disk \in Stores /\ store \in Stores /\ dirty \in BOOLEAN
      /\ log \in [Jobs -> Job \cup {Absent, NoOp}]
      /\ Loaded \in Stores /\ SavedByLoad \in Stores
      /\ Merged(disk) \in Stores /\ Merged(store) \in Stores
      /\ NoOps \in [Jobs -> Job \cup {Absent, NoOp}]
      /\ [j \in Jobs |-> Absent] \in Stores
  BY LoadTypes DEF StoreType, Stores
<1>1. CASE Start
  <2> PICK enabled \in SUBSET System : Save(Recomputed(Registered(Merged(disk), enabled)))
    BY <1>1 DEF Start
  <2>1. Recomputed(Registered(Merged(disk), enabled)) \in Stores
    BY <1>0, StartTypes
  <2>2. disk' \in Stores /\ store' \in Stores /\ dirty' \in BOOLEAN
    BY <1>0, <2>1, SaveTypes
  <2>3. QED BY <1>0, <1>1, <2>2 DEF Start, StoreType
<1>2. CASE Crash \/ CrashInMerge
  BY <1>0, <1>2 DEF Crash, CrashInMerge, Exit, StoreType
<1>3. CASE CrashInStart
  <2> PICK enabled \in SUBSET System, reached \in SUBSET System :
           disk' = [j \in Jobs |-> IF j \in reached THEN Registered(Merged(disk), enabled)[j]
                                                    ELSE Merged(disk)[j]]
    BY <1>3 DEF CrashInStart
  <2>1. Registered(Merged(disk), enabled) \in Stores
    BY <1>0, StartTypes
  <2>2. disk' \in Stores
    BY <1>0, <2>1 DEF Stores
  <2>3. QED BY <1>0, <1>3, <2>2 DEF CrashInStart, Exit, StoreType
<1>4. CASE TimerStep
  <2>1. CASE Flush \/ FlushFails
    BY <1>0, <2>1, SaveTypes DEF Flush, FlushFails, StoreType
  <2>2. CASE TickBegins
    BY <1>0, <2>2 DEF TickBegins, LoadsLog, StoreType
  <2>3. CASE TickIdles
    BY <1>0, <2>3, SaveTypes DEF TickIdles, LoadsLog, StoreType
  <2>4. CASE TickContinues \/ TickEnds
    <3>1. current \in Jobs
      BY <2>4 DEF TickContinues, TickEnds, TickType
    <3>2. Executed(store, current) \in Stores
      BY <1>0, <3>1, ExecutedType
    <3>3. QED BY <1>0, <2>4, <3>2, SaveTypes DEF TickContinues, TickEnds, StoreType
  <2>5. CASE Unwind
    BY <1>0, <2>5 DEF Unwind, StoreType
  <2>6. QED BY <1>4, <2>1, <2>2, <2>3, <2>4, <2>5 DEF TimerStep
<1>5. CASE List \/ CallFails
  BY <1>0, <1>5, SaveTypes DEF List, CallFails, LoadFails, LoadsLog, StoreType
<1>6. ASSUME NEW j \in Jobs, Add(j) \/ Remove(j) \/ \E on \in BOOLEAN : Edit(j, on)
      PROVE  StoreType'
  <2>1. ASSUME NEW r \in Job \cup {Absent}, Answered([Loaded EXCEPT ![j] = r])
                                           \/ Refused([Loaded EXCEPT ![j] = r])
        PROVE  StoreType'
    <3>1. [Loaded EXCEPT ![j] = r] \in Stores
      BY <1>0 DEF Stores
    <3>2. disk' \in Stores /\ store' \in Stores /\ dirty' \in BOOLEAN
      BY <1>0, <2>1, <3>1, SaveTypes DEF Answered, Refused
    <3>3. QED BY <1>0, <2>1, <3>2 DEF Answered, Refused, LoadsLog, StoreType
  <2>2. NextRun(j) \in Nat \cup {NoRun}
    BY NextRunType
  <2>3. \A on \in BOOLEAN : [on |-> on, next |-> IF on THEN NextRun(j) ELSE NoRun] \in Job
    BY <2>2 DEF Job
  <2>4. [on |-> TRUE, next |-> NextRun(j)] \in Job
    BY <2>2 DEF Job
  <2>5. QED BY <1>6, <2>1, <2>3, <2>4 DEF Add, Remove, Edit
<1>7. ASSUME NEW j \in Jobs, RunJob(j) \/ RunJobEnds(j)
      PROVE  StoreType'
  <2>1. CASE RunJob(j)
    BY <1>0, <2>1, SaveTypes DEF RunJob, StoreType
  <2>2. CASE RunJobEnds(j)
    <3>1. Executed(store, j) \in Stores
      BY <1>0, ExecutedType
    <3>2. QED BY <1>0, <2>2, <3>1, SaveTypes DEF RunJobEnds, StoreType
  <2>3. QED BY <1>7, <2>1, <2>2
<1>8. CASE Elsewhere
  <2>1. CASE \E j \in Jobs : Pass(j)
    BY <1>0, <2>1 DEF Pass, StoreType
  <2>2. ASSUME NEW j \in UserJobs, OfflineAdd(j) \/ OfflineRemove(j)
        PROVE  StoreType'
    <3>1. j \in Jobs /\ [on |-> TRUE, next |-> NextRun(j)] \in Job
      BY NextRunType DEF UserJobs
    <3>2. QED BY <1>0, <2>2, <3>1 DEF OfflineAdd, OfflineRemove, StoreType
  <2>3. QED BY <1>8, <2>1, <2>2 DEF Elsewhere
<1>9. QED BY <1>1, <1>2, <1>3, <1>4, <1>5, <1>6, <1>7, <1>8 DEF Next, Calls, UserJobs


LEMMA RearmTypes ==
  ASSUME TickType, Shape, Rearm \/ (Rest /\ unwinding' = unwinding) \/ UNCHANGED tickVars, timer # "off", up' = up
  PROVE  TickType' /\ (timer' # "running" => batch' = {})
<1>1. CASE UNCHANGED tickVars
  BY <1>1 DEF TickType, Shape
<1>2. CASE Rest /\ unwinding' = unwinding
  BY <1>2 DEF TickType, Rest
<1>3. CASE Rearm
  BY <1>1, <1>3 DEF TickType, Rearm
<1>4. QED BY <1>1, <1>2, <1>3

LEMMA StepTickType ==
  ASSUME StoreType, ClockType, Shape, TickType, Next
  PROVE  TickType' /\ (timer' # "running" => batch' = {})
<1> DEFINE Goal == TickType' /\ (timer' # "running" => batch' = {})
<1>1. CASE UNCHANGED <<tickVars, up>>
  BY <1>1 DEF TickType, Shape
<1>2. CASE Start \/ Crash \/ CrashInStart \/ CrashInMerge
  <2>1. CASE Start
    BY <2>1 DEF Start, TickType, Shape
  <2>2. CASE Exit
    BY <2>2 DEF Exit, TickType
  <2>3. QED BY <1>2, <2>1, <2>2 DEF Crash, CrashInStart, CrashInMerge
<1>3. CASE TimerStep
  <2>1. ASSUME NEW s \in Stores, NEW j \in Jobs, NEW rest \in SUBSET Jobs, Begin(s, j),
               batch' = rest, UNCHANGED <<up, unwinding>>, up
        PROVE  Goal
    BY <2>1, ConstantsAssumption DEF Begin, TickType, Stores, Job
  <2>2. CASE TickBegins
    <3>1. Loaded \in Stores
      BY LoadTypes
    <3>2. \E j \in Jobs : Begin(Loaded, j) /\ batch' \in SUBSET Jobs
      BY <2>2 DEF TickBegins, Due
    <3>3. QED BY <2>1, <2>2, <3>1, <3>2 DEF TickBegins, Fires
  <2>3. CASE TickContinues
    <3>1. store' \in Stores
      BY StepStoreType DEF StoreType
    <3>2. QED BY <2>1, <2>3, <3>1 DEF TickContinues, TickType
  <2>4. CASE TickEnds
    BY <2>4, RearmTypes DEF TickEnds, TickType, Rest
  <2>5. CASE Unwind
    BY <2>5 DEF Unwind, Rest, TickType, Shape
  <2>6. QED BY <1>1, <1>3, <2>2, <2>3, <2>4, <2>5 DEF TimerStep, Flush, FlushFails, TickIdles
<1>4. CASE Calls
  <2>1. CASE \E j \in UserJobs : Add(j) \/ Remove(j) \/ \E on \in BOOLEAN : Edit(j, on)
    <3>0. PICK j \in UserJobs : Add(j) \/ Remove(j) \/ \E on \in BOOLEAN : Edit(j, on)
      BY <2>1
    <3>1. \E s : Answered(s) \/ Refused(s)
      BY <3>0 DEF Add, Remove, Edit
    <3>2. Rearm \/ UNCHANGED tickVars
      BY <3>1 DEF Answered, Refused
    <3>3. up /\ up' = up
      BY <3>0 DEF Add, Remove, Edit, Edits
    <3>4. QED BY <3>2, <3>3, RearmTypes DEF TickType
  <2>2. QED BY <1>1, <1>4, <2>1 DEF Calls, List, CallFails, RunJob, RunJobEnds
<1>5. CASE Elsewhere
  BY <1>1, <1>5 DEF Elsewhere, Pass, OfflineAdd, OfflineRemove
<1>6. QED BY <1>2, <1>3, <1>4, <1>5 DEF Next

LEMMA ScheduledTypes ==
  ASSUME Shape, ClockType, NEW some, Scheduled(some), came' = came
  PROVE  ClockType' /\ sched' \in [Jobs -> Nat] /\ came' \in [Jobs -> Nat]
<1>1. \A j \in Jobs : Horizon[j] \in Nat
  BY ConstantsAssumption
<1>2. \A j \in Jobs : sched[j] \in 0..Horizon[j]
  BY DEF ClockType
<1>3. \A j \in Jobs : sched'[j] \in 0..Horizon[j] /\ sched'[j] \in Nat
  <2>1. TAKE j \in Jobs
  <2>2. j \notin OneShot => NextRun(j) \in 1..Horizon[j]
    BY NextRunType
  <2>3. sched'[j] = IF j \in some \ OneShot THEN NextRun(j) ELSE sched[j]
    BY DEF Scheduled
  <2>4. QED BY <1>1, <1>2, <2>2, <2>3
<1>4. sched' \in [Jobs -> Nat]
  BY <1>3 DEF Scheduled
<1>5. QED BY <1>3, <1>4 DEF ClockType, Shape

LEMMA StepClockType ==
  ASSUME Shape, ClockType, Next
  PROVE  ClockType' /\ sched' \in [Jobs -> Nat] /\ came' \in [Jobs -> Nat]
<1>1. CASE UNCHANGED clockVars
  BY <1>1 DEF ClockType, Shape
<1>2. CASE \E some : Scheduled(some) /\ came' = came
  BY <1>2, ScheduledTypes
<1>3. ASSUME NEW j \in Jobs, Pass(j)
      PROVE  ClockType' /\ sched' \in [Jobs -> Nat] /\ came' \in [Jobs -> Nat]
  <2>1. /\ came[j] \in Nat /\ came[j] + 1 < Horizon[j] /\ Horizon[j] \in Nat
        /\ came' = [came EXCEPT ![j] = came[j] + 1] /\ sched' = sched
    BY <1>3, ConstantsAssumption DEF Pass, Shape
  <2>2. came' \in [Jobs -> Nat]
    BY <2>1 DEF Shape
  <2>3. came'[j] \in 0..Horizon[j] - 1
    BY <2>1 DEF Shape
  <2>4. \A k \in Jobs \ {j} : came'[k] = came[k]
    BY <2>1 DEF Shape
  <2>5. QED BY <2>1, <2>2, <2>3, <2>4 DEF ClockType, Shape
<1>4. CASE Start \/ Crash \/ CrashInStart \/ CrashInMerge
  <2>1. CASE Start
    BY <1>2, <2>1 DEF Start
  <2>2. QED BY <1>1, <1>4, <2>1 DEF Crash, CrashInStart, CrashInMerge, Exit
<1>5. CASE TimerStep
  <2>1. CASE TickContinues \/ TickEnds
    BY <1>2, <2>1 DEF TickContinues, TickEnds
  <2>2. QED BY <1>1, <1>5, <2>1 DEF TimerStep, Flush, FlushFails, TickBegins, TickIdles, Unwind
<1>6. CASE Calls
  <2>1. ASSUME NEW j \in UserJobs, Add(j) \/ RunJobEnds(j) \/ \E on \in BOOLEAN : Edit(j, on)
        PROVE  \E some : Scheduled(some) /\ came' = came
    BY <2>1 DEF Add, RunJobEnds, Edit
  <2>2. QED BY <1>1, <1>2, <1>6, <2>1 DEF Calls, List, CallFails, Remove, RunJob
<1>7. CASE Elsewhere
  <2>1. CASE \E j \in UserJobs : OfflineAdd(j)
    BY <1>2, <2>1 DEF OfflineAdd
  <2>2. QED BY <1>1, <1>3, <1>7, <2>1 DEF Elsewhere, OfflineRemove
<1>8. QED BY <1>4, <1>5, <1>6, <1>7 DEF Next

LEMMA SettleTypes ==
  ASSUME done \cup settled \subseteq Jobs \X (Nat \cup {NoRun}),
         NEW last \in SUBSET (Jobs \X (Nat \cup {NoRun})), SettleWith(last)
  PROVE  done' \cup settled' \subseteq Jobs \X (Nat \cup {NoRun})
BY DEF SettleWith

LEMMA StepRestType ==
  ASSUME RestType, TickType, Next
  PROVE  RestType'
<1> DEFINE P == Jobs \X (Nat \cup {NoRun})
<1>0. {} \in SUBSET P /\ done \cup settled \subseteq P
  BY DEF RestType
<1>1. done' \cup settled' \subseteq P
  <2>1. CASE done' \subseteq done /\ settled' = settled
    BY <1>0, <2>1
  <2>2. CASE Settle
    BY <1>0, <2>2, SettleTypes DEF Settle
  <2>3. CASE TickContinues \/ TickEnds
    <3>1. <<current, occurrence>> \in P
      BY <2>3 DEF TickContinues, TickEnds, TickType
    <3>2. CASE TickContinues
      BY <1>0, <3>1, <3>2 DEF TickContinues
    <3>3. CASE TickEnds
      <4>1. {<<current, occurrence>>} \in SUBSET P
        BY <3>1
      <4>2. QED BY <1>0, <3>3, <4>1, SettleTypes DEF TickEnds
    <3>4. QED BY <2>3, <3>2, <3>3
  <2>4. CASE Start \/ Crash \/ CrashInStart \/ CrashInMerge
    BY <2>1, <2>2, <2>4 DEF Start, Crash, CrashInStart, CrashInMerge, Exit
  <2>5. CASE TimerStep
    BY <2>1, <2>2, <2>3, <2>5 DEF TimerStep, Flush, FlushFails, TickBegins, TickIdles, Unwind
  <2>6. CASE Calls
    <3>1. ASSUME NEW j \in UserJobs, Add(j) \/ Remove(j) \/ RunJob(j) \/ RunJobEnds(j)
                                     \/ \E on \in BOOLEAN : Edit(j, on)
          PROVE  Settle \/ UNCHANGED <<done, settled>>
      BY <3>1 DEF Add, Remove, RunJob, RunJobEnds, Edit, Answered, Refused
    <3>2. QED BY <2>1, <2>2, <2>6, <3>1 DEF Calls, List, CallFails, LoadFails
  <2>7. CASE Elsewhere
    BY <2>1, <2>7 DEF Elsewhere, Pass, OfflineAdd, OfflineRemove
  <2>8. QED BY <2>4, <2>5, <2>6, <2>7 DEF Next
<1>2. edits' \in 0..MaxEdits /\ exits' \in 0..MaxExits
  <2>1. edits' = edits \/ (edits < MaxEdits /\ edits' = edits + 1)
    BY DEF Next, Start, Crash, CrashInStart, CrashInMerge, Exit, TimerStep, Flush, FlushFails,
           TickBegins, TickIdles, TickContinues, TickEnds, Unwind, Calls, List, CallFails, Add,
           Remove, RunJob, RunJobEnds, Edit, Edits, Elsewhere, Pass, OfflineAdd, OfflineRemove
  <2>2. exits' = exits \/ (exits < MaxExits /\ exits' = exits + 1)
    BY DEF Next, Start, Crash, CrashInStart, CrashInMerge, Exit, TimerStep, Flush, FlushFails,
           TickBegins, TickIdles, TickContinues, TickEnds, Unwind, Calls, List, CallFails, Add,
           Remove, RunJob, RunJobEnds, Edit, Edits, Elsewhere, Pass, OfflineAdd, OfflineRemove
  <2>3. QED BY <2>1, <2>2, ConstantsAssumption DEF RestType
<1>3. unborn' \subseteq Jobs /\ manual' \subseteq Jobs /\ off' \subseteq Jobs
  <2>0. unborn \subseteq Jobs /\ manual \subseteq Jobs /\ off \subseteq Jobs /\ UserJobs \subseteq Jobs
    BY DEF RestType, UserJobs
  <2>1. CASE Start \/ Crash \/ CrashInStart \/ CrashInMerge
    BY <2>0, <2>1 DEF Start, Crash, CrashInStart, CrashInMerge, Exit
  <2>2. CASE TimerStep
    BY <2>0, <2>2 DEF TimerStep, Flush, FlushFails, TickBegins, TickIdles, TickContinues,
                      TickEnds, Unwind
  <2>3. CASE Calls
    <3>1. ASSUME NEW j \in UserJobs, Add(j) \/ Remove(j) \/ RunJob(j) \/ RunJobEnds(j)
                                     \/ \E on \in BOOLEAN : Edit(j, on)
          PROVE  /\ unborn' \in {unborn, unborn \ {j}}
                 /\ manual' \in {manual, manual \cup {j}, manual \ {j}}
                 /\ off' \in {off, off \cup {j}, off \ {j}}
      BY <3>1 DEF Add, Remove, RunJob, RunJobEnds, Edit
    <3>2. QED BY <2>0, <2>3, <3>1 DEF Calls, List, CallFails
  <2>4. CASE Elsewhere
    BY <2>0, <2>4 DEF Elsewhere, Pass, OfflineAdd, OfflineRemove
  <2>5. QED BY <2>1, <2>2, <2>3, <2>4 DEF Next
<1>4. QED BY <1>1, <1>2, <1>3 DEF RestType

LEMMA InitTypes == Init => TypeOK /\ Shape
<1> SUFFICES ASSUME Init PROVE TypeOK /\ Shape
  OBVIOUS
<1>1. \A j \in Jobs : Horizon[j] \in Nat \ {0, 1}
  BY ConstantsAssumption
<1>2. StoreType
  BY DEF Init, StoreType, Stores, Job, NoOps
<1>3. TickType
  BY DEF Init, TickType
<1>4. ClockType /\ Shape
  BY <1>1 DEF Init, ClockType, Shape
<1>5. RestType
  BY ConstantsAssumption DEF Init, RestType
<1>6. QED BY <1>2, <1>3, <1>4, <1>5, TypeParts

LEMMA StepTypes == TypeOK /\ Shape /\ [Next]_vars => TypeOK' /\ Shape'
<1> SUFFICES ASSUME TypeOK, Shape, [Next]_vars PROVE TypeOK' /\ Shape'
  OBVIOUS
<1>0. StoreType /\ TickType /\ ClockType /\ RestType
  BY TypeParts
<1>1. CASE UNCHANGED vars
  BY <1>1 DEF TypeOK, Shape
<1>2. CASE Next
  <2>1. StoreType' /\ TickType' /\ ClockType' /\ RestType'
    BY <1>0, <1>2, StepStoreType, StepTickType, StepClockType, StepRestType
  <2>2. TypeOK'
    BY <2>1 DEF TypeOK, StoreType, TickType, ClockType, RestType
  <2>3. Shape'
    BY <1>0, <1>2, StepTickType, StepClockType DEF Shape
  <2>4. QED BY <2>2, <2>3
<1>3. QED BY <1>1, <1>2

LEMMA TypesAlways == Spec => [](TypeOK /\ Shape)
BY InitTypes, StepTypes, PTL DEF Spec

\* Every variable keeps its type, the timer is armed exactly while the service runs and
\* only a running tick executes a job, for any jobs, schedules and bounds.
THEOREM TypeCorrect == Spec => []TypeOK
BY TypesAlways, PTL

-----------------------------------------------------------------------------
(* What a step makes of the records of one job it is not about.              *)

Base(j) == {disk[j], store[j], Merged(disk)[j], Merged(store)[j], Executed(store, j)[j], Absent}

\* Loads, saves, crashes, and the end of any job: the records come from those there were,
\* and a logged operation stays in the log until the store has merged it.
Steady(j) ==
  /\ disk'[j] \in Base(j) /\ store'[j] \in Base(j)
  /\ \/ log'[j] = NoOp
     \/ log'[j] = log[j] /\ store'[j] \in {store[j], Executed(store, j)[j], Absent}

\* A change of the job itself, by a call or by another process.
Changes(j) ==
  /\ j \in UserJobs
  /\ Add(j) \/ (\E on \in BOOLEAN : Edit(j, on)) \/ OfflineAdd(j) \/ OfflineRemove(j)

LEMMA ExecutedElsewhere ==
  ASSUME NEW s \in Stores, NEW j \in Jobs, NEW k \in Jobs
  PROVE  Executed(s, k)[j] = IF j = k THEN Executed(s, j)[j] ELSE s[j]
<1>1. CASE j = k
  BY <1>1
<1>2. CASE j # k
  BY <1>2 DEF Executed, Stores
<1>3. QED BY <1>1, <1>2

LEMMA StepSteady ==
  ASSUME StoreType, TickType, ClockType, Shape, Next, ~Start, NEW j \in Jobs,
         CrashInStart => j \notin System, ~Changes(j)
  PROVE  Steady(j)
<1>0. /\ store \in Stores /\ disk \in Stores /\ Merged(disk) \in Stores /\ Merged(store) \in Stores
      /\ Loaded \in Stores /\ NoOps[j] = NoOp
  BY LoadTypes DEF StoreType, NoOps
<1>1. ASSUME UNCHANGED <<disk, store, log>>
      PROVE  Steady(j)
  BY <1>1 DEF Steady, Base
<1>2. CASE Crash \/ CrashInStart \/ CrashInMerge
  <2>1. store'[j] = Absent
    BY <1>2 DEF Crash, CrashInStart, CrashInMerge, Exit
  <2>2. log'[j] = NoOp \/ log'[j] = log[j]
    BY <1>0, <1>2 DEF Crash, CrashInStart, CrashInMerge
  <2>3. disk'[j] \in {disk[j], Merged(disk)[j]}
    <3>1. CASE CrashInStart
      BY <3>1 DEF CrashInStart, Registered
    <3>2. QED BY <1>2, <3>1 DEF Crash, CrashInMerge
  <2>4. QED BY <2>1, <2>2, <2>3 DEF Steady, Base
<1>3. CASE TimerStep
  <2>1. CASE Flush \/ FlushFails
    BY <2>1 DEF Flush, FlushFails, Save, SaveFails, Steady, Base
  <2>2. CASE TickBegins \/ TickIdles
    <3>1. store' = Loaded /\ disk' \in {Loaded, SavedByLoad}
      BY <2>2 DEF TickBegins, TickIdles, Save, SaveFails
    <3>2. QED BY <1>0, <2>2, <3>1 DEF TickBegins, TickIdles, LoadsLog, Loaded, SavedByLoad, Steady, Base
  <2>3. CASE TickContinues \/ TickEnds
    <3>1. current \in Jobs
      BY <2>3 DEF TickContinues, TickEnds, TickType
    <3>2. store' = Executed(store, current) /\ disk' \in {disk, store'} /\ log' = log
      BY <2>3 DEF TickContinues, TickEnds, Save, SaveFails
    <3>3. store'[j] \in {store[j], Executed(store, j)[j]}
      BY <1>0, <3>1, <3>2, ExecutedElsewhere
    <3>4. QED BY <3>2, <3>3 DEF Steady, Base
  <2>4. QED BY <1>1, <1>3, <2>1, <2>2, <2>3 DEF TimerStep, Unwind
<1>4. CASE List \/ CallFails
  <2>1. store' = Merged(disk) /\ disk' \in {disk, Merged(disk)} /\ log' = NoOps
    BY <1>4 DEF List, CallFails, LoadFails, Loaded, LoadsLog, Save, SaveFails
  <2>2. QED BY <1>0, <2>1 DEF Steady, Base
<1>5. ASSUME NEW k \in UserJobs, Add(k) \/ Remove(k) \/ \E on \in BOOLEAN : Edit(k, on)
      PROVE  Steady(j)
  <2>0. k \in Jobs /\ (k # j \/ Remove(k))
    BY <1>5 DEF Changes, UserJobs
  <2>1. PICK r : /\ Answered([Loaded EXCEPT ![k] = r]) \/ Refused([Loaded EXCEPT ![k] = r])
                 /\ k = j => r = Absent
    BY <1>5, <2>0 DEF Add, Remove, Edit, Changes
  <2>2. /\ store' = [Loaded EXCEPT ![k] = r] /\ disk' \in {store', SavedByLoad}
        /\ log' = IF Keeps THEN log ELSE NoOps
    BY <2>1 DEF Answered, Refused, Save, SaveFails, LoadsLog
  <2>3. store'[j] \in {Loaded[j], Absent}
    BY <1>0, <2>0, <2>1, <2>2 DEF Stores
  <2>4. QED BY <1>0, <2>2, <2>3 DEF Loaded, SavedByLoad, Steady, Base
<1>6. ASSUME NEW k \in Jobs, RunJob(k)
      PROVE  Steady(j)
  <2>1. \/ store' = store /\ disk' \in {disk, store} /\ log' = log
        \/ /\ store' \in {Merged(disk), Merged(store)} /\ log' = NoOps
           /\ disk' \in {disk, store, store'}
    BY <1>6 DEF RunJob, SaveFails
  <2>2. QED BY <1>0, <2>1 DEF Steady, Base
<1>7. ASSUME NEW k \in Jobs, RunJobEnds(k)
      PROVE  Steady(j)
  <2>1. store' = Executed(store, k) /\ disk' \in {disk, store'} /\ log' = log
    BY <1>7 DEF RunJobEnds, Save, SaveFails
  <2>2. store'[j] \in {store[j], Executed(store, j)[j]}
    BY <1>0, <1>7, <2>1, ExecutedElsewhere
  <2>3. QED BY <2>1, <2>2 DEF Steady, Base
<1>8. CASE Elsewhere
  <2>1. ASSUME NEW k \in UserJobs, OfflineAdd(k) \/ OfflineRemove(k)
        PROVE  Steady(j)
    <3>1. k # j
      BY <2>1 DEF Changes
    <3>2. log'[j] = log[j] /\ UNCHANGED <<disk, store>>
      BY <2>1, <3>1 DEF OfflineAdd, OfflineRemove, StoreType
    <3>3. QED BY <3>2 DEF Steady, Base
  <2>2. QED BY <1>1, <1>8, <2>1 DEF Elsewhere, Pass
<1>9. QED BY <1>2, <1>3, <1>4, <1>5, <1>6, <1>7, <1>8 DEF Next, Calls, UserJobs

-----------------------------------------------------------------------------
(* A job that was switched off is not run.                                   *)

IsJob(r) == r # Absent /\ r # NoOp
Silent(r) == r = Absent \/ ~r.on
Waits(j) == j \notin batch /\ j # current

\* Nobody knows a job that has not been added.
Unborn(j) ==
  j \in unborn => /\ j \in UserJobs /\ log[j] = NoOp
                  /\ disk[j] = Absent /\ store[j] = Absent /\ Waits(j)

\* A logged job is new: the gateway has not merged it yet.
NewInLog(j) == IsJob(log[j]) => j \in UserJobs /\ store[j] = Absent /\ Waits(j)

\* A job that was switched off is off in memory and on disk, nothing in the log switches
\* it on again, and no tick still means to execute it.
SwitchedOff(j) ==
  j \in off => /\ j \in UserJobs /\ j \notin unborn /\ ~IsJob(log[j])
               /\ Silent(disk[j]) /\ Silent(store[j]) /\ Waits(j)

Quiet == \A j \in Jobs : Unborn(j) /\ NewInLog(j) /\ SwitchedOff(j)

LEMMA SteadyStores ==
  ASSUME StoreType, NEW j \in Jobs, Unborn(j), SwitchedOff(j), Steady(j)
  PROVE  /\ j \in unborn => disk'[j] = Absent /\ store'[j] = Absent /\ log'[j] = NoOp
         /\ j \in off => Silent(disk'[j]) /\ Silent(store'[j]) /\ ~IsJob(log'[j])
         /\ log'[j] = NoOp \/ (log'[j] = log[j] /\ (store[j] = Absent => store'[j] = Absent))
<1>0. /\ Merged(disk)[j] = (IF log[j] = NoOp THEN disk[j] ELSE log[j])
      /\ Merged(store)[j] = (IF log[j] = NoOp THEN store[j] ELSE log[j])
      /\ store[j] = Absent => Executed(store, j)[j] = Absent
  BY DEF Merged, Executed
<1>1. j \in unborn => disk'[j] = Absent /\ store'[j] = Absent /\ log'[j] = NoOp
  BY <1>0 DEF Steady, Base, Unborn
<1>2. Silent(store[j]) => Silent(Executed(store, j)[j])
  <2>1. CASE store[j] = Absent
    BY <1>0, <2>1 DEF Silent
  <2>2. CASE store[j] # Absent /\ ~store[j].on
    <3>1. store[j] \in Job
      BY <2>2 DEF StoreType, Stores
    <3>2. Executed(store, j)[j] \in {Absent, [on |-> FALSE, next |-> NoRun],
                                     [store[j] EXCEPT !.next = NextRun(j)]}
      BY <2>2 DEF Executed, StoreType, Stores
    <3>3. [store[j] EXCEPT !.next = NextRun(j)].on = store[j].on
      BY <3>1 DEF Job
    <3>4. Silent([store[j] EXCEPT !.next = NextRun(j)])
      BY <2>2, <3>3 DEF Silent
    <3>5. Silent([on |-> FALSE, next |-> NoRun]) /\ Silent(Absent)
      BY DEF Silent
    <3>6. QED BY <3>2, <3>4, <3>5
  <2>3. QED BY <2>1, <2>2 DEF Silent
<1>3. j \in off => Silent(Merged(disk)[j]) /\ Silent(Merged(store)[j])
  BY <1>0 DEF SwitchedOff, IsJob, Silent
<1>4. j \in off => Silent(disk'[j]) /\ Silent(store'[j])
  BY <1>2, <1>3 DEF Steady, Base, SwitchedOff, Silent
<1>5. j \in off => ~IsJob(log'[j])
  <2>1. log'[j] \in {log[j], NoOp}
    BY DEF Steady
  <2>2. QED BY <2>1 DEF SwitchedOff, IsJob
<1>6. QED BY <1>0, <1>1, <1>4, <1>5 DEF Steady

\* A steady step keeps what is quiet about a job, if it begins to execute none that
\* waits but a due one.
LEMMA SteadyQuiet ==
  ASSUME StoreType, NEW j \in Jobs, Unborn(j), NewInLog(j), SwitchedOff(j), Steady(j),
         j \in unborn' => j \in unborn, j \in off' => j \in off /\ j \notin unborn',
         Waits(j) => \/ (j \notin batch' /\ j # current')
                     \/ ~Silent(store'[j])
  PROVE  Unborn(j)' /\ NewInLog(j)' /\ SwitchedOff(j)'
<1>1. /\ j \in unborn => disk'[j] = Absent /\ store'[j] = Absent /\ log'[j] = NoOp
      /\ j \in off => Silent(disk'[j]) /\ Silent(store'[j]) /\ ~IsJob(log'[j])
      /\ log'[j] = NoOp \/ (log'[j] = log[j] /\ (store[j] = Absent => store'[j] = Absent))
  BY SteadyStores
<1>2. Unborn(j)'
  BY <1>1 DEF Unborn, Waits, Silent
<1>3. NewInLog(j)'
  BY <1>1 DEF NewInLog, IsJob, Waits, Silent
<1>4. SwitchedOff(j)'
  BY <1>1 DEF SwitchedOff, Waits, Silent, IsJob
<1>5. QED BY <1>2, <1>3, <1>4

\* Removing or switching off a job: whoever is answered, no tick executes it any more.
LEMMA SwitchingOff ==
  ASSUME StoreType, TickType, Shape, NEW j \in UserJobs, Unborn(j), NewInLog(j), SwitchedOff(j),
         NEW r, Silent(r), Loaded[j] # Absent, unborn' = unborn,
         LET s == [Loaded EXCEPT ![j] = r]
         IN  Answered(s) \/ (Refused(s) /\ off' = off)
  PROVE  Unborn(j)' /\ NewInLog(j)' /\ SwitchedOff(j)'
<1>0. /\ j \in Jobs /\ store \in Stores /\ disk \in Stores /\ Loaded \in Stores
      /\ SavedByLoad \in Stores /\ NoOps[j] = NoOp
      /\ Merged(disk)[j] = (IF log[j] = NoOp THEN disk[j] ELSE log[j])
  BY LoadTypes DEF StoreType, UserJobs, NoOps, Merged
<1>1. j \notin unborn
  BY <1>0 DEF Unborn, Loaded
<1>2. store'[j] = r /\ disk'[j] \in {r, SavedByLoad[j]} /\ log' = IF Keeps THEN log ELSE NoOps
  BY <1>0 DEF Answered, Refused, Save, SaveFails, LoadsLog, Stores
<1>3. ~IsJob(log'[j])
  <2>1. CASE Keeps
    BY <1>2, <2>1 DEF Loaded, NewInLog
  <2>2. CASE ~Keeps
    BY <1>0, <1>2, <2>2 DEF IsJob
  <2>3. QED BY <2>1, <2>2
<1>4. Unborn(j)' /\ NewInLog(j)'
  BY <1>1, <1>3 DEF Unborn, NewInLog
<1>5. CASE Answered([Loaded EXCEPT ![j] = r])
  <2>1. disk'[j] = r
    BY <1>0, <1>5 DEF Answered, Save, Stores
  <2>2. batch' = {} /\ current' = NoJob
    BY <1>5 DEF Answered, Rearm, TickType, Shape
  <2>3. QED BY <1>0, <1>1, <1>2, <1>3, <1>4, <2>1, <2>2, ConstantsAssumption DEF SwitchedOff, Waits
<1>6. CASE Refused([Loaded EXCEPT ![j] = r]) /\ off' = off
  <2>1. UNCHANGED <<batch, current>>
    BY <1>6 DEF Refused
  <2>2. j \in off => Silent(SavedByLoad[j])
    BY <1>0 DEF SavedByLoad, SwitchedOff, Silent, IsJob
  <2>3. j \in off' => Silent(disk'[j])
    BY <1>2, <1>6, <2>2
  <2>4. QED BY <1>1, <1>2, <1>3, <1>4, <1>6, <2>1, <2>3 DEF SwitchedOff, Waits
<1>7. QED BY <1>5, <1>6

\* The changes of a job and of nothing else.
LEMMA ChangeQuiet ==
  ASSUME StoreType, TickType, Shape, NEW j \in UserJobs, Unborn(j), NewInLog(j), SwitchedOff(j),
         Changes(j) \/ Remove(j)
  PROVE  Unborn(j)' /\ NewInLog(j)' /\ SwitchedOff(j)'
<1>0. /\ j \in Jobs /\ store \in Stores /\ disk \in Stores /\ Loaded \in Stores
      /\ NoOps[j] = NoOp
      /\ Merged(disk)[j] = (IF log[j] = NoOp THEN disk[j] ELSE log[j])
  BY LoadTypes DEF StoreType, UserJobs, NoOps, Merged
<1>1. CASE Add(j)
  <2>1. j \in unborn /\ j \notin unborn' /\ off' = off
    BY <1>1 DEF Add
  <2>2. log' = IF Keeps THEN log ELSE NoOps
    BY <1>1 DEF Add, Answered, Refused, LoadsLog
  <2>3. log'[j] = NoOp
    BY <1>0, <2>1, <2>2 DEF Unborn
  <2>4. QED BY <2>1, <2>3 DEF Unborn, NewInLog, SwitchedOff, IsJob
<1>2. CASE Edit(j, TRUE)
  <2>1. unborn' = unborn /\ j \notin off' /\ Loaded[j] # Absent
    BY <1>2 DEF Edit
  <2>2. log' = IF Keeps THEN log ELSE NoOps
    BY <1>2 DEF Edit, Answered, Refused, LoadsLog
  <2>3. j \notin unborn
    BY <1>0, <2>1 DEF Unborn, Loaded
  <2>4. ~IsJob(log'[j])
    <3>1. CASE Keeps
      BY <2>1, <2>2, <3>1 DEF Loaded, NewInLog
    <3>2. CASE ~Keeps
      BY <1>0, <2>2, <3>2 DEF IsJob
    <3>3. QED BY <3>1, <3>2
  <2>5. QED BY <2>1, <2>3, <2>4 DEF Unborn, NewInLog, SwitchedOff
<1>3. CASE Edit(j, FALSE)
  <2>1. Silent([on |-> FALSE, next |-> NoRun])
    BY DEF Silent
  <2>2. /\ unborn' = unborn /\ Loaded[j] # Absent
        /\ LET s == [Loaded EXCEPT ![j] = [on |-> FALSE, next |-> NoRun]]
           IN  Answered(s) \/ (Refused(s) /\ off' = off)
    BY <1>3 DEF Edit
  <2>3. QED BY <2>1, <2>2, SwitchingOff
<1>4. CASE Remove(j)
  <2>1. Silent(Absent)
    BY DEF Silent
  <2>2. /\ unborn' = unborn /\ Loaded[j] # Absent
        /\ LET s == [Loaded EXCEPT ![j] = Absent]
           IN  Answered(s) \/ (Refused(s) /\ off' = off)
    BY <1>4 DEF Remove
  <2>3. QED BY <2>1, <2>2, SwitchingOff
<1>5. CASE OfflineAdd(j)
  <2>1. /\ j \in unborn /\ j \notin unborn' /\ UNCHANGED <<store, batch, current, off>>
    BY <1>5 DEF OfflineAdd
  <2>2. QED BY <2>1 DEF Unborn, NewInLog, SwitchedOff, Waits
<1>6. CASE OfflineRemove(j)
  <2>1. /\ Merged(disk)[j] # Absent /\ log'[j] = Absent
        /\ UNCHANGED <<disk, store, unborn, batch, current, off>>
    BY <1>0, <1>6 DEF OfflineRemove, StoreType
  <2>2. j \notin unborn
    BY <1>0, <2>1 DEF Unborn
  <2>3. QED BY <2>1, <2>2 DEF Unborn, NewInLog, SwitchedOff, Waits, IsJob
<1>7. QED BY <1>1, <1>2, <1>3, <1>4, <1>5, <1>6 DEF Changes

LEMMA StartQuiet ==
  ASSUME StoreType, NEW j \in Jobs, Unborn(j), NewInLog(j), SwitchedOff(j), Start
  PROVE  Unborn(j)' /\ NewInLog(j)' /\ SwitchedOff(j)'
<1>0. PICK enabled \in SUBSET System :
        /\ store' = Recomputed(Registered(Merged(disk), enabled)) /\ disk' = store'
        /\ log' = NoOps
  BY DEF Start, Save
<1>1. UNCHANGED <<unborn, off, batch, current>> /\ log'[j] = NoOp
  BY <1>0 DEF Start, NoOps
<1>2. Merged(disk)[j] = IF log[j] = NoOp THEN disk[j] ELSE log[j]
  BY DEF Merged
<1>3. j \in UserJobs => Registered(Merged(disk), enabled)[j] = Merged(disk)[j]
  BY DEF Registered, UserJobs
<1>4. ASSUME j \in UserJobs, Silent(Merged(disk)[j])
      PROVE  store'[j] = Merged(disk)[j] /\ disk'[j] = Merged(disk)[j]
  BY <1>0, <1>3, <1>4 DEF Recomputed, Silent
<1>5. Unborn(j)'
  BY <1>1, <1>2, <1>4 DEF Unborn, Waits, Silent
<1>6. SwitchedOff(j)'
  <2>1. j \in off => Silent(Merged(disk)[j])
    BY <1>2 DEF SwitchedOff, Silent, IsJob
  <2>2. QED BY <1>1, <1>4, <2>1 DEF SwitchedOff, Waits, IsJob
<1>7. QED BY <1>1, <1>5, <1>6 DEF NewInLog, IsJob

LEMMA StepQuiet == TypeOK /\ Shape /\ Quiet /\ [Next]_vars => Quiet'
<1> SUFFICES ASSUME TypeOK, Shape, Quiet, [Next]_vars, NEW j \in Jobs
             PROVE  Unborn(j)' /\ NewInLog(j)' /\ SwitchedOff(j)'
  BY DEF Quiet
<1>0. /\ StoreType /\ TickType /\ ClockType
      /\ Unborn(j) /\ NewInLog(j) /\ SwitchedOff(j)
  BY TypeParts DEF Quiet
<1>1. CASE UNCHANGED vars
  BY <1>0, <1>1 DEF Unborn, NewInLog, SwitchedOff, Waits
<1>2. CASE Start
  BY <1>0, <1>2, StartQuiet
<1>3. CASE Changes(j) \/ (j \in UserJobs /\ Remove(j))
  BY <1>0, <1>3, ChangeQuiet DEF Changes
<1>4. CASE CrashInStart /\ j \in System
  BY <1>0, <1>4 DEF CrashInStart, Exit, UserJobs, Unborn, NewInLog, SwitchedOff
<1>5. CASE Next /\ ~Start /\ ~Changes(j) /\ ~(j \in UserJobs /\ Remove(j))
           /\ (CrashInStart => j \notin System)
  <2>1. Steady(j)
    BY <1>0, <1>5, StepSteady
  <2>2. /\ unborn' \subseteq unborn
        /\ j \in off' => j \in off
    <3>1. CASE Crash \/ CrashInStart \/ CrashInMerge
      BY <3>1 DEF Crash, CrashInStart, CrashInMerge, Exit
    <3>2. CASE TimerStep
      BY <3>2 DEF TimerStep, Flush, FlushFails, TickBegins, TickIdles, TickContinues, TickEnds,
                  Unwind
    <3>3. CASE Calls
      <4>1. ASSUME NEW k \in UserJobs, Remove(k) \/ \E on \in BOOLEAN : Edit(k, on)
            PROVE  unborn' = unborn /\ (j \in off' => j \in off)
        <5>1. k # j
          BY <1>5, <4>1 DEF Changes
        <5>2. QED BY <4>1, <5>1 DEF Remove, Edit
      <4>2. ASSUME NEW k \in UserJobs, Add(k) \/ RunJob(k) \/ RunJobEnds(k)
            PROVE  unborn' \subseteq unborn /\ off' = off
        BY <4>2 DEF Add, RunJob, RunJobEnds
      <4>3. QED BY <3>3, <4>1, <4>2 DEF Calls, List, CallFails
    <3>4. CASE Elsewhere
      BY <3>4 DEF Elsewhere, Pass, OfflineAdd, OfflineRemove
    <3>5. QED BY <1>5, <3>1, <3>2, <3>3, <3>4 DEF Next
  <2>3. Waits(j) => (j \notin batch' /\ j # current') \/ ~Silent(store'[j])
    <3>0. j # NoJob
      BY ConstantsAssumption
    <3>1. CASE batch' \subseteq batch /\ current' \in {current, NoJob} \cup batch
      BY <3>0, <3>1 DEF Waits
    <3>2. CASE TickBegins
      <4>1. (j \in batch' \/ j = current') => j \in Due(Loaded)
        BY <3>2 DEF TickBegins, Begin
      <4>2. QED BY <3>2, <4>1 DEF TickBegins, Due, Silent
    <3>3. CASE Crash \/ CrashInStart \/ CrashInMerge
      BY <3>1, <3>3 DEF Crash, CrashInStart, CrashInMerge, Exit
    <3>4. CASE TimerStep
      BY <3>1, <3>2, <3>4 DEF TimerStep, Flush, FlushFails, TickIdles, TickContinues, TickEnds,
                  Unwind, Rest, Begin
    <3>5. CASE Calls
      <4>1. ASSUME NEW k \in UserJobs, Add(k) \/ Remove(k) \/ \E on \in BOOLEAN : Edit(k, on)
            PROVE  Rearm \/ UNCHANGED tickVars
        <5>1. \E s : Answered(s) \/ Refused(s)
          BY <4>1 DEF Add, Remove, Edit
        <5>2. QED BY <5>1 DEF Answered, Refused
      <4>2. ASSUME Rearm \/ UNCHANGED tickVars
            PROVE  batch' \subseteq batch /\ current' \in {current, NoJob}
        BY <4>2 DEF Rearm
      <4>3. QED BY <3>1, <3>5, <4>1, <4>2 DEF Calls, List, CallFails, RunJob, RunJobEnds
    <3>6. CASE Elsewhere
      BY <3>1, <3>6 DEF Elsewhere, Pass, OfflineAdd, OfflineRemove
    <3>7. QED BY <1>5, <3>3, <3>4, <3>5, <3>6 DEF Next
  <2>4. QED BY <1>0, <2>1, <2>2, <2>3, SteadyQuiet DEF SwitchedOff
<1>6. QED BY <1>1, <1>2, <1>3, <1>4, <1>5

LEMMA InitQuiet == Init => Quiet
<1> SUFFICES ASSUME Init, NEW j \in Jobs PROVE Unborn(j) /\ NewInLog(j) /\ SwitchedOff(j)
  BY DEF Quiet
<1>1. log[j] = NoOp /\ store[j] = Absent /\ batch = {} /\ current = NoJob /\ off = {}
  BY DEF Init, NoOps
<1>2. j \in unborn => j \in UserJobs /\ disk[j] = Absent
  BY DEF Init, UserJobs
<1>3. Waits(j)
  BY <1>1, ConstantsAssumption DEF Waits
<1>4. QED BY <1>1, <1>2, <1>3 DEF Unborn, NewInLog, SwitchedOff, IsJob

LEMMA QuietAlways == Spec => [](TypeOK /\ Shape /\ Quiet)
BY InitTypes, InitQuiet, StepTypes, StepQuiet, PTL DEF Spec

\* However removals and edits meet ticks that already decided what to execute, failed
\* writes, merges of other processes' logs and restarts, the timer never executes a job
\* whose removal or disabling was answered.
THEOREM SwitchedOffStaysOff == Spec => []OffStaysOff
<1>1. TypeOK /\ Quiet => OffStaysOff
  BY DEF TypeOK, Quiet, SwitchedOff, OffStaysOff, Waits
<1>2. QED BY <1>1, QuietAlways, PTL

-----------------------------------------------------------------------------
(* No occurrence is replayed.                                                *)

\* Occurrence n of j is one that its schedule has already given.
Past(j, n) == IF j \in OneShot THEN came[j] > 0 ELSE n \in Nat => n <= sched[j]
PastNow(j, n) == IF j \in OneShot THEN came'[j] > 0 ELSE n \in Nat => n <= sched'[j]
Fresh(j, n, executed) == Numbered(j, n) => <<j, n>> \notin executed

\* What was executed, what is scheduled in memory, in the log and on disk, and what is
\* being executed, are occurrences that the schedule has given.  (A crash during a start
\* may leave a later one on disk for a job of the gateway, which the next start replaces.)
Executions(j) == \A n \in Nat : <<j, n>> \in done \cup settled => Past(j, n)
Given(j) ==
  /\ came[j] <= sched[j]
  /\ j \notin OneShot =>
       /\ store[j] # Absent => Past(j, store[j].next)
       /\ IsJob(log[j]) => Past(j, log[j].next)
       /\ disk[j] # Absent /\ (up \/ j \notin System) => Past(j, disk[j].next)
  /\ j \in batch /\ j \in OneShot => came[j] > 0
  /\ j = current => Past(j, occurrence)

\* What is due next was not executed: in memory and in the log, and also on disk while
\* the next load may read it, except for what no save was tried for.
Unexecuted(j) ==
  /\ store[j] # Absent /\ (store[j].on \/ j \in batch)
       => Fresh(j, store[j].next, done \cup settled)
  /\ IsJob(log[j]) => Fresh(j, log[j].next, done \cup settled)
  /\ up /\ ~dirty /\ disk[j] # Absent /\ disk[j].on => Fresh(j, disk[j].next, settled)
  /\ j = current => Fresh(j, occurrence, done \cup settled)

Ledger == \A j \in Jobs : Executions(j) /\ Given(j) /\ Unexecuted(j)

\* A schedule's next occurrence is one that was never executed.
LEMMA NextFresh ==
  ASSUME ClockType, Shape, NEW j \in Jobs, Executions(j), Given(j)
  PROVE  Fresh(j, NextRun(j), done \cup settled \cup {<<current, occurrence>>})
<1> SUFFICES ASSUME Numbered(j, NextRun(j)),
                    <<j, NextRun(j)>> \in done \cup settled \cup {<<current, occurrence>>}
             PROVE  FALSE
  BY DEF Fresh
<1>1. /\ Horizon[j] \in Nat \ {0, 1} /\ sched[j] \in Nat /\ came[j] \in Nat /\ NoRun \notin Nat
      /\ sched[j] <= Horizon[j]
  BY ConstantsAssumption DEF Shape, ClockType
<1>2. NextRun(j) \in Nat /\ NextRun(j) < Horizon[j]
  BY <1>1 DEF Numbered
<1>3. Past(j, NextRun(j))
  BY <1>2 DEF Executions, Given
<1>4. CASE j \in OneShot
  BY <1>1, <1>2, <1>3, <1>4 DEF Past, NextRun
<1>5. CASE j \notin OneShot
  <2>1. NextRun(j) = sched[j] + 1
    BY <1>1, <1>2, <1>5 DEF NextRun
  <2>2. QED BY <1>1, <1>2, <1>3, <1>5, <2>1 DEF Past
<1>6. QED BY <1>4, <1>5

LEMMA FreshFewer ==
  ASSUME NEW j \in Jobs, NEW n, NEW A, NEW B, Fresh(j, n, A),
         \A k \in Nat : <<j, k>> \in B => <<j, k>> \in A
  PROVE  Fresh(j, n, B)
BY ConstantsAssumption DEF Fresh, Numbered

\* Time and schedules only go forward.
LEMMA Forward ==
  ASSUME ClockType, Shape, Next, NEW j \in Jobs, came[j] <= sched[j]
  PROVE  /\ sched[j] <= sched'[j] /\ came[j] <= came'[j] /\ came'[j] <= sched'[j]
         /\ \A n : Past(j, n) => PastNow(j, n)
<1>0. sched[j] \in Nat /\ came[j] \in Nat /\ sched'[j] \in Nat /\ came'[j] \in Nat
  BY StepClockType DEF Shape
<1>1. sched[j] <= sched'[j] /\ came[j] <= came'[j] /\ came'[j] <= sched'[j]
  <2>1. CASE UNCHANGED clockVars
    BY <1>0, <2>1
  <2>2. CASE \E some : Scheduled(some) /\ came' = came
    <3>1. sched'[j] \in {sched[j], NextRun(j)} /\ (sched'[j] # sched[j] => j \notin OneShot)
      BY <2>2 DEF Scheduled
    <3>2. j \notin OneShot => NextRun(j) \in Nat /\ NextRun(j) >= sched[j]
      <4>1. Horizon[j] \in Nat
        BY ConstantsAssumption
      <4>2. j \notin OneShot => NextRun(j) \in 1..Horizon[j] /\ NextRun(j) >= sched[j]
        BY NextRunType
      <4>3. QED BY <4>1, <4>2
    <3>3. QED BY <1>0, <2>2, <3>1, <3>2
  <2>3. ASSUME NEW k \in Jobs, Pass(k)
        PROVE  sched[j] <= sched'[j] /\ came[j] <= came'[j] /\ came'[j] <= sched'[j]
    <3>1. came'[j] = (IF j = k THEN came[j] + 1 ELSE came[j]) /\ sched' = sched
          /\ came[k] < sched[k]
      BY <2>3 DEF Pass, Shape
    <3>2. QED BY <1>0, <3>1
  <2>4. CASE Start \/ Crash \/ CrashInStart \/ CrashInMerge
    BY <2>1, <2>2, <2>4 DEF Start, Crash, CrashInStart, CrashInMerge, Exit
  <2>5. CASE TimerStep
    BY <2>1, <2>2, <2>5 DEF TimerStep, Flush, FlushFails, TickBegins, TickIdles, TickContinues,
                           TickEnds, Unwind
  <2>6. CASE Calls
    <3>1. ASSUME NEW k \in UserJobs, Add(k) \/ RunJobEnds(k) \/ \E on \in BOOLEAN : Edit(k, on)
          PROVE  \E some : Scheduled(some) /\ came' = came
      BY <3>1 DEF Add, RunJobEnds, Edit
    <3>2. QED BY <2>1, <2>2, <2>6, <3>1 DEF Calls, List, CallFails, Remove, RunJob
  <2>7. CASE Elsewhere
    BY <2>1, <2>2, <2>3, <2>7 DEF Elsewhere, OfflineAdd, OfflineRemove
  <2>8. QED BY <2>4, <2>5, <2>6, <2>7 DEF Next
<1>2. ASSUME NEW n, Past(j, n)
      PROVE  PastNow(j, n)
  BY <1>0, <1>1, <1>2 DEF Past, PastNow
<1>3. QED BY <1>1, <1>2

\* Where a record in memory comes from, against what was executed meanwhile.
SameJob(j) == store'[j] = store[j] /\ \A n \in Nat :
                <<j, n>> \in done' \cup settled' => <<j, n>> \in done \cup settled
Ended(j) == /\ store'[j] = Executed(store, j)[j]
            /\ j \notin OneShot => sched'[j] = NextRun(j)
            /\ done' \cup settled' \subseteq done \cup settled \cup {<<current, occurrence>>}
Reread(j) == /\ store'[j] = Merged(disk)[j]
             /\ up /\ ~dirty /\ batch = {}
             /\ done' \cup settled' \subseteq settled
Remerged(j) == /\ store'[j] = Merged(store)[j]
               /\ batch = {}
               /\ done' \cup settled' \subseteq done \cup settled
Traced(j) == store'[j] = Absent \/ SameJob(j) \/ Ended(j) \/ Reread(j) \/ Remerged(j)

LEMMA SettledFewer ==
  ASSUME Settle
  PROVE  /\ done' \cup settled' \subseteq done \cup settled
         /\ ~Keeps => done' \cup settled' \subseteq settled
BY DEF Settle, SettleWith

LEMMA LoadTraced ==
  ASSUME Shape, up, NEW j, store'[j] = Loaded[j],
         Settle \/ (UNCHANGED settled /\ done' = IF Keeps THEN done ELSE {})
  PROVE  Traced(j)
<1>1. /\ done' \cup settled' \subseteq done \cup settled
      /\ ~Keeps => done' \cup settled' \subseteq settled
  BY SettledFewer
<1>2. CASE Keeps
  BY <1>1, <1>2 DEF Loaded, Traced, SameJob
<1>3. CASE ~Keeps
  BY <1>1, <1>3 DEF Loaded, Traced, Reread, Keeps, Active, Shape
<1>4. QED BY <1>2, <1>3

LEMMA StepTraced ==
  ASSUME StoreType, TickType, ClockType, Shape, Next, ~Start, NEW j \in Jobs, ~Changes(j)
  PROVE  Traced(j)
<1>0. /\ store \in Stores /\ Loaded \in Stores /\ j # NoJob
  BY LoadTypes, ConstantsAssumption DEF StoreType
<1>1. ASSUME UNCHANGED <<store, done, settled>>
      PROVE  Traced(j)
  BY <1>1 DEF Traced, SameJob
<1>2. ASSUME store' = store, Settle
      PROVE  Traced(j)
  BY <1>2, SettledFewer DEF Traced, SameJob
<1>3. CASE Crash \/ CrashInStart \/ CrashInMerge
  BY <1>3 DEF Crash, CrashInStart, CrashInMerge, Exit, Traced
<1>4. CASE TimerStep
  <2>1. CASE Flush \/ FlushFails
    BY <1>2, <2>1 DEF Flush, FlushFails, Save, SaveFails
  <2>2. CASE TickBegins \/ TickIdles
    BY <2>2, LoadTraced DEF TickBegins, TickIdles, Fires, Save, SaveFails
  <2>3. CASE TickContinues \/ TickEnds
    <3>1. current \in Jobs
      BY <2>3 DEF TickContinues, TickEnds, TickType
    <3>2. store' = Executed(store, current) /\ Scheduled({current})
      BY <2>3 DEF TickContinues, TickEnds, Save, SaveFails
    <3>3. done' \cup settled' \subseteq done \cup settled \cup {<<current, occurrence>>}
      BY <2>3 DEF TickContinues, TickEnds, SettleWith
    <3>4. CASE j = current
      BY <3>2, <3>3, <3>4 DEF Scheduled, Traced, Ended
    <3>5. CASE j # current
      <4>1. store'[j] = store[j]
        BY <1>0, <3>1, <3>2, <3>5, ExecutedElsewhere
      <4>2. QED BY <3>3, <3>5, <4>1 DEF Traced, SameJob
    <3>6. QED BY <3>4, <3>5
  <2>4. QED BY <1>1, <1>4, <2>1, <2>2, <2>3 DEF TimerStep, Unwind
<1>5. CASE List \/ CallFails
  <2>1. store' = Loaded /\ up /\ Settle
    BY <1>5 DEF List, CallFails, LoadFails, Loaded, Save, SaveFails
  <2>2. QED BY <2>1, LoadTraced
<1>6. ASSUME NEW k \in UserJobs, Add(k) \/ Remove(k) \/ \E on \in BOOLEAN : Edit(k, on)
      PROVE  Traced(j)
  <2>0. k \in Jobs /\ (k # j \/ Remove(k)) /\ up
    BY <1>6 DEF Changes, UserJobs, Add, Remove, Edit, Edits
  <2>1. PICK r : /\ Answered([Loaded EXCEPT ![k] = r]) \/ Refused([Loaded EXCEPT ![k] = r])
                 /\ k = j => r = Absent
    BY <1>6, <2>0 DEF Add, Remove, Edit, Changes
  <2>2. store' = [Loaded EXCEPT ![k] = r] /\ Settle
    BY <2>1 DEF Answered, Refused, Save, SaveFails
  <2>3. store'[j] \in {Loaded[j], Absent}
    BY <1>0, <2>0, <2>1, <2>2 DEF Stores
  <2>4. QED BY <2>0, <2>2, <2>3, LoadTraced DEF Traced
<1>7. ASSUME NEW k \in Jobs, RunJob(k)
      PROVE  Traced(j)
  <2>1. CASE store' = store
    <3>1. Settle \/ UNCHANGED <<done, settled>>
      BY <1>7 DEF RunJob
    <3>2. QED BY <1>1, <1>2, <2>1, <3>1
  <2>2. CASE store' # store
    <3>1. ~Active /\ Settle /\ store' = Merged(IF dirty THEN store ELSE disk) /\ up
      BY <1>7, <2>2 DEF RunJob, SaveFails
    <3>2. batch = {}
      BY <3>1 DEF Active, Shape
    <3>3. CASE dirty
      BY <3>1, <3>2, <3>3, SettledFewer DEF Traced, Remerged
    <3>4. CASE ~dirty
      BY <3>1, <3>2, <3>4, SettledFewer DEF Traced, Reread, Keeps
    <3>5. QED BY <3>3, <3>4
  <2>3. QED BY <2>1, <2>2
<1>8. ASSUME NEW k \in Jobs, RunJobEnds(k)
      PROVE  Traced(j)
  <2>1. store' = Executed(store, k) /\ Scheduled({k}) /\ Settle
    BY <1>8 DEF RunJobEnds, Save, SaveFails
  <2>2. CASE j = k
    BY <2>1, <2>2, SettledFewer DEF Scheduled, Traced, Ended
  <2>3. CASE j # k
    <3>1. store'[j] = store[j]
      BY <1>0, <1>8, <2>1, <2>3, ExecutedElsewhere
    <3>2. QED BY <2>1, <3>1, SettledFewer DEF Traced, SameJob
  <2>4. QED BY <2>2, <2>3
<1>9. CASE Elsewhere
  BY <1>1, <1>9 DEF Elsewhere, Pass, OfflineAdd, OfflineRemove
<1>10. QED BY <1>3, <1>4, <1>5, <1>6, <1>7, <1>8, <1>9 DEF Next, Calls, UserJobs

\* What a save leaves on disk.
LEMMA DiskTraced ==
  ASSUME StoreType, TickType, Next
  PROVE  /\ up' /\ ~dirty' => \/ disk' = store'
                              \/ disk' = disk /\ settled' = settled /\ up /\ ~dirty
         /\ up' => up \/ disk' = store'
         /\ \A j \in Jobs : (CrashInStart => j \notin System) =>
              disk'[j] \in {disk[j], store[j], store'[j], Merged(disk)[j]}
<1> DEFINE Saved == /\ up' /\ ~dirty' => \/ disk' = store'
                                         \/ disk' = disk /\ settled' = settled /\ up /\ ~dirty
                    /\ up' => up \/ disk' = store'
           Found(j) == disk'[j] \in {disk[j], store[j], store'[j], Merged(disk)[j]}
<1>1. CASE UNCHANGED <<disk, settled, up, dirty>>
  BY <1>1
<1>2. CASE Start
  BY <1>2 DEF Start, Save
<1>3. CASE Crash \/ CrashInStart \/ CrashInMerge
  <2>1. ~up'
    BY <1>3 DEF Crash, CrashInStart, CrashInMerge, Exit
  <2>2. ASSUME NEW j \in Jobs, CrashInStart => j \notin System
        PROVE  Found(j)
    BY <1>3, <2>2 DEF Crash, CrashInStart, CrashInMerge, Registered
  <2>3. QED BY <2>1, <2>2
<1>4. ASSUME NEW s, NEW old, Save(s) \/ SaveFails(s, old), old \in {disk, store, Merged(disk)},
             up' = up
      PROVE  Saved /\ \A j \in Jobs : Found(j)
  BY <1>4 DEF Save, SaveFails
<1>5. SavedByLoad \in {disk, Merged(disk)}
  BY DEF SavedByLoad
<1>6. CASE TimerStep
  <2>1. CASE Flush \/ FlushFails \/ TickIdles \/ TickEnds
    BY <1>4, <1>5, <2>1 DEF Flush, FlushFails, TickIdles, TickEnds, Save
  <2>2. CASE TickBegins
    BY <2>2 DEF TickBegins, Fires, Loaded, SavedByLoad
  <2>3. QED BY <1>1, <1>6, <2>1, <2>2 DEF TimerStep, TickContinues, Unwind
<1>7. CASE Calls
  <2>1. CASE List \/ CallFails
    BY <1>4, <2>1 DEF List, CallFails, LoadFails
  <2>2. ASSUME NEW k \in UserJobs, Add(k) \/ Remove(k) \/ \E on \in BOOLEAN : Edit(k, on)
        PROVE  Saved /\ \A j \in Jobs : Found(j)
    <3>1. (\E s : Answered(s) \/ Refused(s)) /\ up' = up
      BY <2>2 DEF Add, Remove, Edit
    <3>2. QED BY <1>4, <1>5, <3>1 DEF Answered, Refused
  <2>3. ASSUME NEW k \in UserJobs, RunJob(k)
        PROVE  Saved /\ \A j \in Jobs : Found(j)
    <3>1. CASE \E s, old : SaveFails(s, old) /\ old \in {disk, store}
      BY <1>4, <2>3, <3>1 DEF RunJob
    <3>2. CASE ~\E s, old : SaveFails(s, old) /\ old \in {disk, store}
      BY <2>3, <3>2 DEF RunJob
    <3>3. QED BY <3>1, <3>2
  <2>4. ASSUME NEW k \in UserJobs, RunJobEnds(k)
        PROVE  Saved /\ \A j \in Jobs : Found(j)
    BY <1>4, <2>4 DEF RunJobEnds, Save
  <2>5. QED BY <1>7, <2>1, <2>2, <2>3, <2>4 DEF Calls
<1>8. CASE Elsewhere
  BY <1>1, <1>8 DEF Elsewhere, Pass, OfflineAdd, OfflineRemove
<1>9. QED BY <1>2, <1>3, <1>6, <1>7, <1>8 DEF Next

-----------------------------------------------------------------------------
(* The ledger is kept.                                                       *)

LEMMA ExecutedRecord ==
  ASSUME StoreType, ClockType, Shape, NEW j \in Jobs, Executed(store, j)[j] # Absent
  PROVE  /\ store[j] # Absent
         /\ j \notin OneShot => Executed(store, j)[j].next = NextRun(j)
         /\ j \in OneShot => Executed(store, j)[j].next = NoRun
<1>1. store \in Stores /\ store[j] # Absent
  BY DEF StoreType, Executed
<1>2. store[j] \in Job
  BY <1>1 DEF Stores
<1>3. [store[j] EXCEPT !.next = NextRun(j)].next = NextRun(j)
  BY <1>2 DEF Job
<1>4. QED BY <1>1, <1>3, ConstantsAssumption DEF Executed, Stores

LEMMA MergedRecord ==
  ASSUME NEW j \in Jobs, NEW d
  PROVE  Merged(d)[j] = IF log[j] = NoOp THEN d[j] ELSE log[j]
BY DEF Merged

\* What was executed meanwhile.
LEMMA StepExecuted ==
  ASSUME Next
  PROVE  \/ done' \cup settled' \subseteq done \cup settled
         \/ /\ TickContinues \/ TickEnds
            /\ done' \cup settled' \subseteq done \cup settled \cup {<<current, occurrence>>}
<1>1. CASE Settle \/ (done' \subseteq done /\ settled' = settled)
  BY <1>1, SettledFewer
<1>2. CASE TickContinues \/ TickEnds
  BY <1>2 DEF TickContinues, TickEnds, SettleWith
<1>3. CASE Start \/ Crash \/ CrashInStart \/ CrashInMerge
  BY <1>1, <1>3 DEF Start, Crash, CrashInStart, CrashInMerge, Exit
<1>4. CASE TimerStep
  BY <1>1, <1>2, <1>4 DEF TimerStep, Flush, FlushFails, TickBegins, TickIdles, Unwind
<1>5. CASE Calls
  <2>1. ASSUME NEW k \in UserJobs, Add(k) \/ Remove(k) \/ RunJob(k) \/ RunJobEnds(k)
                                   \/ \E on \in BOOLEAN : Edit(k, on)
        PROVE  Settle \/ UNCHANGED <<done, settled>>
    BY <2>1 DEF Add, Remove, RunJob, RunJobEnds, Edit, Answered, Refused
  <2>2. QED BY <1>1, <1>5, <2>1 DEF Calls, List, CallFails, LoadFails
<1>6. CASE Elsewhere
  BY <1>1, <1>6 DEF Elsewhere, Pass, OfflineAdd, OfflineRemove
<1>7. QED BY <1>3, <1>4, <1>5, <1>6 DEF Next

\* A record of a job in memory after a step that is not about it.
LEMMA TracedRecord ==
  ASSUME StoreType, ClockType, Shape, Next, NEW j \in Jobs,
         Executions(j), Given(j), Unexecuted(j), Traced(j), store'[j] # Absent
  PROVE  /\ j \notin OneShot => PastNow(j, store'[j].next)
         /\ store'[j].on \/ j \in batch => Fresh(j, store'[j].next, done' \cup settled')
<1> DEFINE executed == done \cup settled
           executedNow == done' \cup settled'
<1>0. /\ \A n : Past(j, n) => PastNow(j, n)
      /\ came'[j] \in Nat /\ sched'[j] \in Nat
  BY Forward, StepClockType DEF Given, Shape
<1>1. CASE SameJob(j)
  <2>1. j \notin OneShot => Past(j, store[j].next)
    BY <1>1 DEF SameJob, Given
  <2>2. store'[j].on \/ j \in batch => Fresh(j, store[j].next, executed)
    BY <1>1 DEF SameJob, Unexecuted
  <2>3. ASSUME Fresh(j, store[j].next, executed)
        PROVE  Fresh(j, store[j].next, executedNow)
    BY <1>1, <2>3, FreshFewer DEF SameJob
  <2>4. QED BY <1>0, <1>1, <2>1, <2>2, <2>3 DEF SameJob
<1>2. CASE Ended(j)
  <2>1. /\ j \notin OneShot => store'[j].next = NextRun(j)
        /\ j \in OneShot => store'[j].next = NoRun
    BY <1>2, ExecutedRecord DEF Ended
  <2>2. j \notin OneShot => sched'[j] = NextRun(j)
    BY <1>2 DEF Ended
  <2>3. j \notin OneShot => PastNow(j, store'[j].next)
    BY <1>0, <2>1, <2>2 DEF PastNow
  <2>4. Fresh(j, NextRun(j), executedNow)
    <3>1. \A k \in Nat : <<j, k>> \in executedNow
                           => <<j, k>> \in done \cup settled \cup {<<current, occurrence>>}
      BY <1>2 DEF Ended
    <3>2. QED BY <3>1, NextFresh, FreshFewer
  <2>5. Fresh(j, NoRun, executedNow)
    BY ConstantsAssumption DEF Fresh, Numbered
  <2>6. QED BY <2>1, <2>3, <2>4, <2>5
<1>3. ASSUME NEW d \in {disk, store}, store'[j] = Merged(d)[j], batch = {},
             IsJob(log[j]) \/ d[j] # Absent
               => \A n \in Nat : <<j, n>> \in executedNow => <<j, n>> \in executed,
             log[j] = NoOp /\ j \notin OneShot => Past(j, d[j].next),
             log[j] = NoOp /\ d[j].on => Fresh(j, d[j].next, executedNow)
      PROVE  /\ j \notin OneShot => PastNow(j, store'[j].next)
             /\ store'[j].on \/ j \in batch => Fresh(j, store'[j].next, executedNow)
  <2>1. CASE log[j] = NoOp
    <3>1. store'[j] = d[j]
      BY <1>3, <2>1, MergedRecord
    <3>2. QED BY <1>0, <1>3, <2>1, <3>1
  <2>2. CASE log[j] # NoOp
    <3>1. store'[j] = log[j] /\ IsJob(log[j])
      BY <1>3, <2>2, MergedRecord DEF IsJob
    <3>2. j \notin OneShot => Past(j, log[j].next)
      BY <3>1 DEF Given
    <3>3. Fresh(j, log[j].next, executed)
      BY <3>1 DEF Unexecuted
    <3>4. Fresh(j, log[j].next, executedNow)
      BY <1>3, <3>1, <3>3, FreshFewer
    <3>5. QED BY <1>0, <3>1, <3>2, <3>4
  <2>3. QED BY <2>1, <2>2
<1>4. CASE Reread(j)
  <2>1. /\ store'[j] = Merged(disk)[j] /\ up /\ ~dirty /\ batch = {}
        /\ executedNow \subseteq settled
    BY <1>4 DEF Reread
  <2>2. log[j] = NoOp => disk[j] # Absent
    BY <2>1, MergedRecord
  <2>3. log[j] = NoOp /\ j \notin OneShot => Past(j, disk[j].next)
    BY <2>1, <2>2 DEF Given
  <2>4. ASSUME log[j] = NoOp, disk[j].on
        PROVE  Fresh(j, disk[j].next, executedNow)
    <3>1. Fresh(j, disk[j].next, settled)
      BY <2>1, <2>2, <2>4 DEF Unexecuted
    <3>2. QED BY <2>1, <3>1, FreshFewer
  <2>5. QED BY <1>3, <2>1, <2>3, <2>4
<1>5. CASE Remerged(j)
  <2>1. store'[j] = Merged(store)[j] /\ batch = {} /\ executedNow \subseteq executed
    BY <1>5 DEF Remerged
  <2>2. log[j] = NoOp => store[j] # Absent
    BY <2>1, MergedRecord
  <2>3. log[j] = NoOp /\ j \notin OneShot => Past(j, store[j].next)
    BY <2>2 DEF Given
  <2>4. ASSUME log[j] = NoOp, store[j].on
        PROVE  Fresh(j, store[j].next, executedNow)
    <3>1. Fresh(j, store[j].next, executed)
      BY <2>2, <2>4 DEF Unexecuted
    <3>2. QED BY <2>1, <3>1, FreshFewer
  <2>5. QED BY <1>3, <2>1, <2>3, <2>4
<1>6. QED BY <1>1, <1>2, <1>4, <1>5 DEF Traced

\* A start schedules every job anew that is on, and has no tick.
LEMMA StartRecord ==
  ASSUME StoreType, TickType, ClockType, Shape, NEW j \in Jobs, Start,
         Executions(j), Given(j), store'[j] # Absent
  PROVE  /\ j \notin OneShot => PastNow(j, store'[j].next)
         /\ store'[j].on \/ j \in batch => Fresh(j, store'[j].next, done' \cup settled')
<1> DEFINE Loads(enabled) == Registered(Merged(disk), enabled)
<1>1. PICK enabled \in SUBSET System :
        /\ store' = Recomputed(Loads(enabled))
        /\ Scheduled({k \in Jobs : Loads(enabled)[k] # Absent /\ Loads(enabled)[k].on})
  BY DEF Start, Save
<1>2. /\ ~up /\ batch = {} /\ came' = came
      /\ \A n \in Nat : <<j, n>> \in done' \cup settled'
                          => <<j, n>> \in done \cup settled \cup {<<current, occurrence>>}
  BY SettledFewer DEF Start, TickType, Shape
<1>3. sched[j] \in Nat /\ sched'[j] \in Nat /\ Loads(enabled) \in Stores
  BY StepClockType, LoadTypes, StartTypes DEF Shape, Next
<1>4. CASE Loads(enabled)[j] # Absent /\ Loads(enabled)[j].on
  <2>1. Loads(enabled)[j] \in Job
    BY <1>3, <1>4 DEF Stores
  <2>2. store'[j] = [Loads(enabled)[j] EXCEPT !.next = NextRun(j)]
    BY <1>1, <1>4 DEF Recomputed
  <2>3. store'[j].next = NextRun(j)
    BY <2>1, <2>2 DEF Job
  <2>4. j \notin OneShot => sched'[j] = NextRun(j)
    BY <1>1, <1>4 DEF Scheduled
  <2>5. Fresh(j, NextRun(j), done' \cup settled')
    BY <1>2, NextFresh, FreshFewer
  <2>6. QED BY <1>3, <2>3, <2>4, <2>5 DEF PastNow
<1>5. CASE ~(Loads(enabled)[j] # Absent /\ Loads(enabled)[j].on)
  <2>1. store'[j] = Loads(enabled)[j]
    BY <1>1, <1>5 DEF Recomputed
  <2>2. ~store'[j].on
    BY <1>5, <2>1
  <2>3. j \notin System /\ store'[j] = Merged(disk)[j]
    BY <2>1, <2>2 DEF Registered
  <2>4. j \notin OneShot => Past(j, store'[j].next)
    <3>1. CASE log[j] = NoOp
      BY <2>3, <3>1, MergedRecord DEF Given
    <3>2. CASE log[j] # NoOp
      BY <2>3, <3>2, MergedRecord DEF Given, IsJob
    <3>3. QED BY <3>1, <3>2
  <2>5. \A n : Past(j, n) => PastNow(j, n)
    BY Forward DEF Given, Next
  <2>6. QED BY <1>2, <2>2, <2>4, <2>5
<1>6. QED BY <1>4, <1>5

\* A call that changes the job schedules it anew or not at all.
LEMMA ChangedRecord ==
  ASSUME StoreType, TickType, ClockType, Shape, NEW j \in UserJobs,
         Add(j) \/ \E on \in BOOLEAN : Edit(j, on),
         Executions(j), Given(j), Unexecuted(j)
  PROVE  /\ j \notin OneShot => PastNow(j, store'[j].next)
         /\ store'[j].on \/ j \in batch => Fresh(j, store'[j].next, done' \cup settled')
<1>0. j \in Jobs /\ Loaded \in Stores /\ NoRun \notin Nat /\ Next
  BY LoadTypes, ConstantsAssumption DEF UserJobs, Next, Calls
<1>1. PICK r : /\ Answered([Loaded EXCEPT ![j] = r]) \/ Refused([Loaded EXCEPT ![j] = r])
               /\ \/ r.next = NoRun
                  \/ r.next = NextRun(j) /\ Scheduled({j})
  <2>1. CASE Add(j) \/ Edit(j, TRUE)
    <3> DEFINE r == [on |-> TRUE, next |-> NextRun(j)]
    <3>1. /\ Answered([Loaded EXCEPT ![j] = r]) \/ Refused([Loaded EXCEPT ![j] = r])
          /\ Scheduled({j})
      BY <2>1 DEF Add, Edit
    <3>2. r.next = NextRun(j)
      OBVIOUS
    <3>3. QED BY <3>1, <3>2
  <2>2. CASE Edit(j, FALSE)
    <3> DEFINE r == [on |-> FALSE, next |-> NoRun]
    <3>1. Answered([Loaded EXCEPT ![j] = r]) \/ Refused([Loaded EXCEPT ![j] = r])
      BY <2>2 DEF Edit
    <3>2. r.next = NoRun
      OBVIOUS
    <3>3. QED BY <3>1, <3>2
  <2>3. QED BY <2>1, <2>2
<1>2. store'[j] = r /\ Settle
  BY <1>0, <1>1 DEF Answered, Refused, Save, SaveFails, Stores
<1>3. CASE r.next = NoRun
  BY <1>0, <1>2, <1>3 DEF PastNow, Fresh, Numbered
<1>4. CASE r.next = NextRun(j) /\ Scheduled({j})
  <2>1. j \notin OneShot => sched'[j] = NextRun(j) /\ sched'[j] \in Nat
    BY <1>0, <1>4, StepClockType DEF Scheduled
  <2>2. \A n \in Nat : <<j, n>> \in done' \cup settled'
                         => <<j, n>> \in done \cup settled \cup {<<current, occurrence>>}
    BY <1>2, SettledFewer
  <2>3. Fresh(j, NextRun(j), done' \cup settled')
    BY <1>0, <2>2, NextFresh, FreshFewer
  <2>4. QED BY <1>2, <1>4, <2>1, <2>3 DEF PastNow
<1>5. QED BY <1>1, <1>3, <1>4

LEMMA StoreRecord ==
  ASSUME StoreType, TickType, ClockType, Shape, Next, NEW j \in Jobs,
         Executions(j), Given(j), Unexecuted(j), store'[j] # Absent
  PROVE  /\ j \notin OneShot => PastNow(j, store'[j].next)
         /\ store'[j].on \/ j \in batch => Fresh(j, store'[j].next, done' \cup settled')
<1>1. CASE Start
  BY <1>1, StartRecord
<1>2. CASE j \in UserJobs /\ (Add(j) \/ \E on \in BOOLEAN : Edit(j, on))
  BY <1>2, ChangedRecord
<1>3. CASE OfflineAdd(j) \/ OfflineRemove(j)
  <2>1. Traced(j)
    BY <1>3 DEF OfflineAdd, OfflineRemove, Traced, SameJob
  <2>2. QED BY <2>1, TracedRecord
<1>4. CASE ~Start /\ ~Changes(j)
  BY <1>4, StepTraced, TracedRecord
<1>5. QED BY <1>1, <1>2, <1>3, <1>4 DEF Changes

LEMMA LogRecord ==
  ASSUME StoreType, TickType, ClockType, Shape, Next, NEW j \in Jobs,
         Executions(j), Given(j), Unexecuted(j), NewInLog(j), IsJob(log'[j])
  PROVE  /\ j \notin OneShot => PastNow(j, log'[j].next)
         /\ Fresh(j, log'[j].next, done' \cup settled')
<1>0. /\ \A n : Past(j, n) => PastNow(j, n)
      /\ sched'[j] \in Nat /\ NoOps[j] = NoOp /\ log \in [Jobs -> Job \cup {Absent, NoOp}]
  BY Forward, StepClockType DEF Given, NoOps, StoreType
<1>1. CASE log'[j] = log[j]
  <2>1. j # current /\ Fresh(j, log[j].next, done \cup settled)
    BY <1>1 DEF NewInLog, Waits, Unexecuted
  <2>2. \A n \in Nat : <<j, n>> \in done' \cup settled' => <<j, n>> \in done \cup settled
    BY <2>1, StepExecuted
  <2>3. Fresh(j, log[j].next, done' \cup settled')
    BY <2>1, <2>2, FreshFewer
  <2>4. QED BY <1>0, <1>1, <2>3 DEF Given
<1>2. CASE OfflineAdd(j)
  <2>1. /\ log'[j].next = NextRun(j) /\ UNCHANGED <<done, settled>>
        /\ j \notin OneShot => sched'[j] = NextRun(j)
    BY <1>0, <1>2 DEF OfflineAdd, Scheduled
  <2>2. \A n \in Nat : <<j, n>> \in done' \cup settled'
                         => <<j, n>> \in done \cup settled \cup {<<current, occurrence>>}
    BY <2>1
  <2>3. Fresh(j, NextRun(j), done' \cup settled')
    BY <2>2, NextFresh, FreshFewer
  <2>4. QED BY <1>0, <2>1, <2>3 DEF PastNow
<1>3. CASE OfflineRemove(j)
  BY <1>0, <1>3 DEF OfflineRemove, IsJob
<1>4. log'[j] \in {log[j], NoOp} \/ OfflineAdd(j) \/ OfflineRemove(j)
  <2>1. CASE log' \in {log, NoOps}
    BY <1>0, <2>1
  <2>2. CASE Start \/ Crash \/ CrashInStart \/ CrashInMerge
    BY <2>1, <2>2 DEF Start, Crash, CrashInStart, CrashInMerge
  <2>3. CASE TimerStep
    BY <2>1, <2>3 DEF TimerStep, Flush, FlushFails, TickBegins, TickIdles, TickContinues, TickEnds,
                     Unwind, LoadsLog
  <2>4. CASE Calls
    <3>1. ASSUME NEW k \in UserJobs, Add(k) \/ Remove(k) \/ \E on \in BOOLEAN : Edit(k, on)
          PROVE  log' \in {log, NoOps}
      <4>1. \E s : Answered(s) \/ Refused(s)
        BY <3>1 DEF Add, Remove, Edit
      <4>2. QED BY <4>1 DEF Answered, Refused, LoadsLog
    <3>2. QED BY <2>1, <2>4, <3>1 DEF Calls, List, CallFails, LoadFails, LoadsLog, RunJob, RunJobEnds
  <2>5. CASE Elsewhere
    BY <1>0, <2>5 DEF Elsewhere, Pass, OfflineAdd, OfflineRemove, UserJobs
  <2>6. QED BY <2>2, <2>3, <2>4, <2>5 DEF Next
<1>5. QED BY <1>1, <1>2, <1>3, <1>4 DEF IsJob

\* A job waits, is due or executed as before, or a tick begins with it.
Begun(j) == /\ store'[j] # Absent /\ store'[j].on /\ store'[j].next \in 1..came[j]
            /\ j = current' => occurrence' = store'[j].next

LEMMA TickRecord ==
  ASSUME TickType, Shape, Next, NEW j \in Jobs
  PROVE  /\ j \in batch' => j \in batch \/ (Begun(j) /\ came' = came)
         /\ j = current' =>
              \/ /\ j = current /\ occurrence' = occurrence
                 /\ done' \cup settled' \subseteq done \cup settled
              \/ /\ j \in batch
                 /\ occurrence' = IF store'[j] = Absent THEN NoRun ELSE store'[j].next
              \/ Begun(j) /\ came' = came
<1>0. j # NoJob
  BY ConstantsAssumption
<1>1. CASE batch' \subseteq batch /\ (current' = NoJob \/ (current' = current /\ occurrence' = occurrence
            /\ done' \cup settled' \subseteq done \cup settled))
  BY <1>0, <1>1
<1>2. CASE UNCHANGED tickVars /\ ~TickContinues /\ ~TickEnds
  BY <1>1, <1>2, StepExecuted
<1>3. CASE Rest \/ Rearm \/ Exit
  BY <1>0, <1>3, StepExecuted DEF Rest, Rearm, Exit, TickContinues, TickEnds, Begin
<1>4. CASE TickBegins
  <2>1. (j \in batch' \/ j = current') => j \in Due(Loaded)
    BY <1>4 DEF TickBegins, Begin
  <2>2. store' = Loaded /\ came' = came /\ (j = current' => occurrence' = IF Loaded[j] = Absent THEN NoRun ELSE Loaded[j].next)
    BY <1>4 DEF TickBegins, Begin
  <2>3. (j \in batch' \/ j = current') => Begun(j)
    BY <2>1, <2>2 DEF Due, Begun
  <2>4. QED BY <2>2, <2>3
<1>5. CASE TickContinues
  BY <1>5 DEF TickContinues, Begin
<1>6. CASE Start \/ Crash \/ CrashInStart \/ CrashInMerge
  <2>1. CASE Start
    <3>1. UNCHANGED <<current, occurrence, batch>> /\ done' \cup settled' \subseteq done \cup settled
      BY <2>1, SettledFewer DEF Start
    <3>2. QED BY <1>1, <3>1
  <2>2. QED BY <1>3, <1>6, <2>1 DEF Crash, CrashInStart, CrashInMerge
<1>7. CASE TimerStep
  <2>1. CASE Flush \/ FlushFails \/ TickIdles
    <3>1. UNCHANGED <<current, occurrence, batch>> /\ done' \cup settled' \subseteq done \cup settled
      BY <2>1, SettledFewer DEF Flush, FlushFails, TickIdles
    <3>2. QED BY <1>1, <3>1
  <2>2. CASE Unwind
    BY <1>1, <1>3, <2>2 DEF Unwind
  <2>3. QED BY <1>3, <1>4, <1>5, <1>7, <2>1, <2>2 DEF TimerStep, TickEnds
<1>8. CASE Calls
  <2>1. ASSUME NEW k \in UserJobs, Add(k) \/ Remove(k) \/ RunJob(k) \/ RunJobEnds(k)
                                   \/ \E on \in BOOLEAN : Edit(k, on)
        PROVE  /\ Rearm \/ UNCHANGED tickVars
               /\ Settle \/ UNCHANGED <<done, settled>>
    <3>1. CASE RunJob(k) \/ RunJobEnds(k)
      BY <3>1 DEF RunJob, RunJobEnds
    <3>2. CASE Add(k) \/ Remove(k) \/ \E on \in BOOLEAN : Edit(k, on)
      <4>1. \E s : Answered(s) \/ Refused(s)
        BY <3>2 DEF Add, Remove, Edit
      <4>2. QED BY <4>1 DEF Answered, Refused
    <3>3. QED BY <2>1, <3>1, <3>2
  <2>2. CASE List \/ CallFails
    BY <1>1, <2>2, SettledFewer DEF List, CallFails, LoadFails
  <2>3. ASSUME UNCHANGED tickVars, Settle \/ UNCHANGED <<done, settled>>
        PROVE  batch' \subseteq batch /\ current' = current /\ occurrence' = occurrence
               /\ done' \cup settled' \subseteq done \cup settled
    BY <2>3, SettledFewer
  <2>4. QED BY <1>1, <1>3, <1>8, <2>1, <2>2, <2>3 DEF Calls
<1>9. CASE Elsewhere
  <2>1. UNCHANGED <<current, occurrence, batch, done, settled>>
    BY <1>9 DEF Elsewhere, Pass, OfflineAdd, OfflineRemove
  <2>2. QED BY <1>1, <2>1
<1>10. QED BY <1>6, <1>7, <1>8, <1>9 DEF Next

LEMMA StepLedger == TypeOK /\ Shape /\ Quiet /\ Ledger /\ [Next]_vars => Ledger'
<1> SUFFICES ASSUME TypeOK, Shape, Quiet, Ledger, [Next]_vars, NEW j \in Jobs
             PROVE  Executions(j)' /\ Given(j)' /\ Unexecuted(j)'
  BY DEF Ledger
<1>0. /\ StoreType /\ TickType /\ ClockType
      /\ NewInLog(j) /\ Executions(j) /\ Given(j) /\ Unexecuted(j)
  BY TypeParts DEF Quiet, Ledger
<1>1. CASE UNCHANGED vars
  BY <1>0, <1>1 DEF Executions, Given, Unexecuted, Past, Fresh
<1>2. CASE Next
  <2>1. /\ \A n : Past(j, n) => PastNow(j, n)
        /\ came[j] <= came'[j] /\ came'[j] <= sched'[j]
        /\ came[j] \in Nat /\ came'[j] \in Nat /\ sched'[j] \in Nat /\ NoRun \notin Nat
    BY <1>0, <1>2, Forward, StepClockType, ConstantsAssumption DEF Given, Shape
  <2>2. store'[j] # Absent =>
          /\ j \notin OneShot => PastNow(j, store'[j].next)
          /\ store'[j].on \/ j \in batch => Fresh(j, store'[j].next, done' \cup settled')
    BY <1>0, <1>2, StoreRecord
  <2>3. IsJob(log'[j]) => /\ j \notin OneShot => PastNow(j, log'[j].next)
                          /\ Fresh(j, log'[j].next, done' \cup settled')
    BY <1>0, <1>2, LogRecord
  <2>4. /\ j \in batch' => j \in batch \/ (Begun(j) /\ came' = came)
        /\ j = current' =>
             \/ /\ j = current /\ occurrence' = occurrence
                /\ done' \cup settled' \subseteq done \cup settled
             \/ /\ j \in batch
                /\ occurrence' = IF store'[j] = Absent THEN NoRun ELSE store'[j].next
             \/ Begun(j) /\ came' = came
    BY <1>0, <1>2, TickRecord
  <2>5. Executions(j)'
    <3>1. ASSUME NEW n \in Nat, <<j, n>> \in done' \cup settled'
          PROVE  PastNow(j, n)
      <4>1. <<j, n>> \in done \cup settled \/ (j = current /\ n = occurrence)
        BY <1>2, <3>1, StepExecuted
      <4>2. Past(j, n)
        BY <1>0, <4>1 DEF Executions, Given
      <4>3. QED BY <2>1, <4>2
    <3>2. QED BY <3>1 DEF Executions, Past, PastNow
  <2>6. j \notin OneShot /\ disk'[j] # Absent /\ (up' \/ j \notin System) => PastNow(j, disk'[j].next)
    <3> SUFFICES ASSUME j \notin OneShot, disk'[j] # Absent, up' \/ j \notin System
                 PROVE  PastNow(j, disk'[j].next)
      OBVIOUS
    <3>1. CrashInStart => j \notin System
      BY DEF CrashInStart, Exit
    <3>2. CASE disk'[j] = store'[j]
      BY <2>2, <3>2
    <3>3. CASE disk'[j] = store[j]
      BY <1>0, <2>1, <3>3 DEF Given
    <3>4. CASE disk' # store'
      <4>1. up \/ j \notin System
        BY <1>0, <1>2, <3>4, DiskTraced
      <4>2. CASE disk'[j] = disk[j]
        BY <1>0, <2>1, <4>1, <4>2 DEF Given
      <4>3. CASE disk'[j] = Merged(disk)[j] /\ log[j] # NoOp
        <5>1. disk'[j] = log[j] /\ IsJob(log[j])
          BY <4>3, MergedRecord DEF IsJob
        <5>2. QED BY <1>0, <2>1, <5>1 DEF Given
      <4>4. CASE disk'[j] = Merged(disk)[j] /\ log[j] = NoOp
        BY <4>2, <4>4, MergedRecord
      <4>5. disk'[j] \in {disk[j], store[j], store'[j], Merged(disk)[j]}
        BY <1>0, <1>2, <3>1, DiskTraced
      <4>6. QED BY <3>2, <3>3, <4>2, <4>3, <4>4, <4>5
    <3>5. QED BY <3>2, <3>4
  <2>7. /\ j \in batch' /\ j \in OneShot => came'[j] > 0
        /\ j = current' => PastNow(j, occurrence')
    <3>1. Begun(j) /\ came' = came => came'[j] > 0
      BY <2>1 DEF Begun
    <3>2. j \in batch /\ j \in OneShot => came'[j] > 0
      BY <1>0, <2>1 DEF Given
    <3>3. j \in batch' /\ j \in OneShot => came'[j] > 0
      BY <2>4, <3>1, <3>2
    <3>4. CASE j = current /\ occurrence' = occurrence
      BY <1>0, <2>1, <3>3, <3>4 DEF Given
    <3>5. CASE j \in batch /\ occurrence' = IF store'[j] = Absent THEN NoRun ELSE store'[j].next
      BY <2>1, <2>2, <3>2, <3>3, <3>5 DEF PastNow
    <3>6. CASE j = current' /\ Begun(j) /\ came' = came
      BY <2>2, <3>1, <3>3, <3>6 DEF Begun, PastNow
    <3>7. QED BY <2>4, <3>3, <3>4, <3>5, <3>6
  <2>8. Given(j)'
    BY <2>1, <2>2, <2>3, <2>6, <2>7 DEF Given, Past, PastNow
  <2>9. store'[j] # Absent /\ (store'[j].on \/ j \in batch')
          => Fresh(j, store'[j].next, done' \cup settled')
    BY <2>2, <2>4 DEF Begun
  <2>10. up' /\ ~dirty' /\ disk'[j] # Absent /\ disk'[j].on => Fresh(j, disk'[j].next, settled')
    <3> SUFFICES ASSUME up', ~dirty', disk'[j] # Absent, disk'[j].on
                 PROVE  Fresh(j, disk'[j].next, settled')
      OBVIOUS
    <3>1. CASE disk' = store'
      <4>1. Fresh(j, disk'[j].next, done' \cup settled')
        BY <2>2, <3>1
      <4>2. QED BY <4>1, FreshFewer
    <3>2. CASE disk' = disk /\ settled' = settled /\ up /\ ~dirty
      BY <1>0, <3>2 DEF Unexecuted
    <3>3. QED BY <1>0, <1>2, <3>1, <3>2, DiskTraced
  <2>11. j = current' => Fresh(j, occurrence', done' \cup settled')
    <3>1. CASE /\ j = current /\ occurrence' = occurrence
               /\ done' \cup settled' \subseteq done \cup settled
      <4>1. Fresh(j, occurrence, done \cup settled)
        BY <1>0, <3>1 DEF Unexecuted
      <4>2. QED BY <3>1, <4>1, FreshFewer
    <3>2. CASE j \in batch /\ occurrence' = IF store'[j] = Absent THEN NoRun ELSE store'[j].next
      <4>1. Fresh(j, NoRun, done' \cup settled')
        BY <2>1 DEF Fresh, Numbered
      <4>2. QED BY <2>2, <3>2, <4>1
    <3>3. CASE j = current' /\ Begun(j)
      BY <2>2, <3>3 DEF Begun
    <3>4. QED BY <2>4, <3>1, <3>2, <3>3
  <2>12. Unexecuted(j)'
    BY <2>3, <2>9, <2>10, <2>11 DEF Unexecuted, Fresh, Numbered, IsJob
  <2>13. QED BY <2>5, <2>8, <2>12
<1>3. QED BY <1>1, <1>2

LEMMA InitLedger == Init => Ledger
<1> SUFFICES ASSUME Init, NEW j \in Jobs PROVE Executions(j) /\ Given(j) /\ Unexecuted(j)
  BY DEF Ledger
<1>1. /\ log[j] = NoOp /\ store[j] = Absent /\ batch = {} /\ j # current /\ ~up
      /\ done \cup settled = {}
  BY ConstantsAssumption DEF Init, NoOps
<1>2. came[j] <= sched[j] /\ (disk[j] # Absent => disk[j].next <= sched[j])
  <2>1. came[j] = 0 /\ sched[j] = IF j \in Stored \cup OneShot THEN 1 ELSE 0
    BY DEF Init
  <2>2. disk[j] # Absent => j \in Stored /\ disk[j].next = 1
    BY DEF Init
  <2>3. QED BY <2>1, <2>2
<1>3. Executions(j)
  BY <1>1 DEF Executions
<1>4. Given(j)
  BY <1>1, <1>2 DEF Given, Past, IsJob
<1>5. Unexecuted(j)
  BY <1>1 DEF Unexecuted, IsJob
<1>6. QED BY <1>3, <1>4, <1>5

LEMMA LedgerAlways == Spec => [](TypeOK /\ Shape /\ Quiet /\ Ledger)
BY InitTypes, InitQuiet, InitLedger, StepTypes, StepQuiet, StepLedger, PTL DEF Spec

\* An occurrence that the timer has executed is not executed again once a save was tried
\* after it, however saves fail, callers and other processes make the store reload, ticks
\* are cancelled and the gateway restarts.
THEOREM OccurrencesNotReplayed == Spec => []NeverReplayed
<1>1. TypeOK /\ Ledger => NeverReplayed
  <2> SUFFICES ASSUME Ledger, Numbered(current, occurrence)
               PROVE  <<current, occurrence>> \notin settled
    BY DEF NeverReplayed
  <2>1. Unexecuted(current)
    BY DEF Ledger, Numbered
  <2>2. QED BY <2>1 DEF Unexecuted, Fresh
<1>2. QED BY <1>1, LedgerAlways, PTL
==============================================================================
