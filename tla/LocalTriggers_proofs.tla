------------------------- MODULE LocalTriggers_proofs -------------------------
(* Proofs that LocalTriggers keeps its types and its safety properties, for    *)
(* any deliveries, triggers, attempt limit, batch size and number of exits.    *)
EXTENDS LocalTriggers, TLAPS

Attempts == 0..(MaxAttempts - 1)
File == Attempts \cup {NoFile}

\* The runner states in which it works on a delivery.
Working == {"turn", "ok", "error", "retry", "ackOk", "ackError"}

\* The delivery the runner works on is one it holds.
NowHeld == runner \in Working => now \in Deliveries /\ held[now] # NoFile

-----------------------------------------------------------------------------
(* Types. *)

\* _retry_delivery_unlocked keeps the attempts within the limit.
LEMMA RewriteType ==
  ASSUME TypeOK, NEW d \in Deliveries, NEW attempts \in Attempts, Rewrite(d, attempts)
  PROVE  /\ inbox' \in [Deliveries -> File]
         /\ failed' \in [Deliveries -> {MaxAttempts, NoFile}]
<1>1. MaxAttempts \in Nat \ {0}
  BY ConstantsAssumption
<1>2. /\ inbox \in [Deliveries -> File]
      /\ failed \in [Deliveries -> {MaxAttempts, NoFile}]
  BY DEF TypeOK, File, Attempts
<1>3. CASE attempts + 1 >= MaxAttempts
  <2>1. attempts + 1 = MaxAttempts
    BY <1>1, <1>3 DEF Attempts
  <2>2. failed' = [failed EXCEPT ![d] = MaxAttempts] /\ inbox' = inbox
    BY <1>3, <2>1 DEF Rewrite
  <2> QED
    BY <1>2, <2>2
<1>4. CASE ~(attempts + 1 >= MaxAttempts)
  <2>1. attempts + 1 \in File
    BY <1>1, <1>4 DEF File, Attempts
  <2>2. inbox' = [inbox EXCEPT ![d] = attempts + 1] /\ failed' = failed
    BY <1>4 DEF Rewrite
  <2> QED
    BY <1>2, <2>1, <2>2
<1> QED
  BY <1>3, <1>4

\* Removing files from a directory, or all of them, leaves a directory.
LEMMA RemovedType ==
  ASSUME NEW S, NEW dir \in [Deliveries -> S \cup {NoFile}], NEW gone
  PROVE  Removed(dir, gone) \in [Deliveries -> S \cup {NoFile}]
BY DEF Removed

LEMMA EmptyType == ASSUME NEW S PROVE Empty \in [Deliveries -> S \cup {NoFile}]
BY DEF Empty

\* Type correctness holds in every initial state.
LEMMA InitType == Init => TypeOK /\ NowHeld
<1> SUFFICES ASSUME Init PROVE TypeOK /\ NowHeld
  OBVIOUS
<1>1. /\ Empty \in [Deliveries -> File]
      /\ Empty \in [Deliveries -> {MaxAttempts, NoFile}]
  BY DEF Empty, File
<1>2. NowHeld
  BY DEF Init, NowHeld, Working
<1>3. TypeOK
  BY <1>1, ConstantsAssumption DEF Init, TypeOK, File, Attempts
<1> QED
  BY <1>2, <1>3

LEMMA StepType == TypeOK /\ NowHeld /\ [Next]_vars => TypeOK' /\ NowHeld'
<1> SUFFICES ASSUME TypeOK, NowHeld, [Next]_vars PROVE TypeOK' /\ NowHeld'
  OBVIOUS
<1> USE ConstantsAssumption
<1>1. ASSUME NEW d \in Deliveries, Enqueue(d) \/ EnqueueRolledBack(d) \/ EnqueueTorn(d)
      PROVE  TypeOK' /\ NowHeld'
  <2>1. inbox' \in [Deliveries -> File]
    BY <1>1 DEF TypeOK, Enqueue, EnqueueRolledBack, EnqueueTorn, File, Attempts
  <2>2. unsent' \subseteq Deliveries /\ accepted' \subseteq Deliveries
    BY <1>1 DEF TypeOK, Enqueuing, Enqueue, EnqueueRolledBack, EnqueueTorn
  <2>3. UNCHANGED <<triggers, processing, failed, runner, held, now, exits, turns, recorded>>
    BY <1>1 DEF Enqueue, EnqueueRolledBack, EnqueueTorn, runnerVars
  <2> QED
    BY <2>1, <2>2, <2>3 DEF TypeOK, NowHeld, File, Attempts
<1>2. ASSUME NEW t \in Triggers, NEW to \in {"enabled", "disabled"},
             Create(t) \/ SetEnabled(t, to)
      PROVE  TypeOK' /\ NowHeld'
  BY <1>2 DEF TypeOK, NowHeld, Create, SetEnabled, runnerVars, senderVars
<1>3. ASSUME NEW t \in Triggers, Delete(t)
      PROVE  TypeOK' /\ NowHeld'
  BY <1>3 DEF TypeOK, NowHeld, Delete, Removed, runnerVars, senderVars
<1>4. CASE StartGateway
  BY <1>4 DEF TypeOK, NowHeld, StartGateway, senderVars, Working
<1>5. ASSUME NEW d \in Deliveries, Recover(d)
      PROVE  TypeOK' /\ NowHeld'
  <2>1. PICK attempts \in 0..MaxAttempts : Interrupted(d, attempts) /\ Retried(d, attempts)
    BY <1>5 DEF Recover
  <2>2. attempts \in Attempts
    BY <2>1 DEF Interrupted, TypeOK, Attempts
  <2>3. Rewrite(d, attempts) /\ Unlink(d)
    BY <2>1 DEF Retried
  <2>4. processing' \in [Deliveries -> File]
    BY <2>3 DEF Unlink, TypeOK, File, Attempts
  <2>5. /\ inbox' \in [Deliveries -> File]
        /\ failed' \in [Deliveries -> {MaxAttempts, NoFile}]
    BY <2>2, <2>3, RewriteType
  <2> QED
    BY <1>5, <2>4, <2>5 DEF Recover, TypeOK, NowHeld, senderVars, runnerVars, File, Attempts
<1>6. CASE Recovered
  BY <1>6 DEF TypeOK, NowHeld, Recovered, senderVars, Working
<1>7. CASE Claim
  <2>1. Oldest \subseteq Deliveries
    BY DEF Oldest, Present
  <2>2. /\ inbox' \in [Deliveries -> File]
        /\ processing' \in [Deliveries -> File]
        /\ held' \in [Deliveries -> File]
    BY <1>7, <2>1 DEF Claim, MoveClaimed, Removed, TypeOK, File, Attempts
  <2> QED
    BY <1>7, <2>2 DEF Claim, Claiming, TypeOK, NowHeld, senderVars, Working, File, Attempts
<1>8. CASE Sleep \/ Poll
  BY <1>8 DEF TypeOK, NowHeld, Sleep, Poll, Claiming, senderVars, Working
<1>9. ASSUME NEW d \in Deliveries, Begin(d)
      PROVE  TypeOK' /\ NowHeld'
  <2>1. held[d] # NoFile
    BY <1>9 DEF Begin, Present
  <2>2. turns' \in [Deliveries -> Nat] /\ runner' \in {"turn", "retry", "error"}
    BY <1>9 DEF Begin, TypeOK
  <2> QED
    BY <1>9, <2>1, <2>2 DEF Begin, TypeOK, NowHeld, senderVars, Working
<1>10. CASE TurnEnds
  BY <1>10 DEF TypeOK, NowHeld, TurnEnds, senderVars, Working
<1>11. CASE RecordOutcome
  BY <1>11 DEF TypeOK, NowHeld, RecordOutcome, senderVars, Working
<1>12. CASE CompletionFails
  BY <1>12 DEF TypeOK, NowHeld, CompletionFails, senderVars, Working
<1>13. CASE Acknowledge
  BY <1>13 DEF TypeOK, NowHeld, Acknowledge, Unlink, NextDelivery, senderVars, Working
<1>14. ASSUME runner \in {"turn", "retry"} PROVE now \in Deliveries /\ held[now] \in Attempts
  BY <1>14 DEF TypeOK, NowHeld, Working, Attempts
<1>15. CASE Retry
  <2>1. Rewrite(now, held[now]) /\ Unlink(now)
    BY <1>15 DEF Retry, Retried
  <2>2. /\ inbox' \in [Deliveries -> File]
        /\ failed' \in [Deliveries -> {MaxAttempts, NoFile}]
    BY <1>14, <1>15, <2>1, RewriteType DEF Retry
  <2> QED
    BY <1>15, <2>1, <2>2
    DEF Retry, Unlink, NextDelivery, TypeOK, NowHeld, senderVars, Working, File, Attempts
<1>16. ASSUME Exit
       PROVE  /\ exits' \in 0..MaxExits
              /\ runner' = "down"
              /\ held' \in [Deliveries -> File]
              /\ now' \in Deliveries \cup {None}
              /\ NowHeld'
  BY <1>16 DEF Exit, Empty, TypeOK, NowHeld, Working, File
<1>17. CASE Shutdown
  <2>1. Exit /\ Rewrite(now, held[now]) /\ Unlink(now)
    BY <1>17 DEF Shutdown, Retried
  <2>2. /\ inbox' \in [Deliveries -> File]
        /\ failed' \in [Deliveries -> {MaxAttempts, NoFile}]
    BY <1>14, <1>17, <2>1, RewriteType DEF Shutdown
  <2>3. processing' \in [Deliveries -> File]
    BY <2>1 DEF Unlink, TypeOK, File, Attempts
  <2> QED
    BY <1>16, <1>17, <2>1, <2>2, <2>3 DEF Shutdown, TypeOK, senderVars, File, Attempts
<1>18. CASE Crash
  BY <1>16, <1>18 DEF Crash, TypeOK, senderVars, File, Attempts
<1>19. CASE CrashInClaim
  <2>1. Oldest \subseteq Deliveries
    BY DEF Oldest, Present
  <2>2. /\ inbox' \in [Deliveries -> File]
        /\ processing' \in [Deliveries -> File]
    BY <1>19, <2>1 DEF CrashInClaim, MoveClaimed, Removed, TypeOK, File, Attempts
  <2> QED
    BY <1>16, <1>19, <2>2 DEF CrashInClaim, TypeOK, senderVars, File, Attempts
<1>20. CASE CrashInRetry
  <2>1. \E d \in Deliveries : \E attempts \in Attempts : Rewrite(d, attempts)
    BY <1>14, <1>20 DEF CrashInRetry, Present, TypeOK, Attempts
  <2>2. /\ inbox' \in [Deliveries -> File]
        /\ failed' \in [Deliveries -> {MaxAttempts, NoFile}]
    BY <2>1, RewriteType
  <2> QED
    BY <1>16, <1>20, <2>2 DEF CrashInRetry, TypeOK, senderVars, File, Attempts
<1>21. ASSUME NEW t \in Triggers, CrashInDelete(t)
       PROVE  TypeOK' /\ NowHeld'
  <2>1. /\ inbox' \in [Deliveries -> File]
        /\ processing' \in [Deliveries -> File]
        /\ failed' \in [Deliveries -> {MaxAttempts, NoFile}]
    BY <1>21 DEF CrashInDelete, Removed, TypeOK, File, Attempts
  <2> QED
    BY <1>16, <1>21, <2>1 DEF CrashInDelete, TypeOK, senderVars, File, Attempts
<1>22. CASE UNCHANGED vars
  BY <1>22 DEF vars, senderVars, runnerVars, TypeOK, NowHeld
<1> QED
  BY <1>1, <1>2, <1>3, <1>4, <1>5, <1>6, <1>7, <1>8, <1>9, <1>10, <1>11, <1>12, <1>13,
     <1>15, <1>17, <1>18, <1>19, <1>20, <1>21, <1>22
  DEF Next, RunnerStep, Exits, Users

\* In every behaviour of the trigger queue each variable keeps its type: files never
\* count more than _MAX_DELIVERY_ATTEMPTS attempts.
THEOREM TypeCorrect == Spec => []TypeOK
<1>1. Spec => [](TypeOK /\ NowHeld)
  BY InitType, StepType, PTL DEF Spec
<1> QED
  BY <1>1, PTL

-----------------------------------------------------------------------------
(* Nothing lost, nothing claimed twice.  What the two properties need of the    *)
(* runner: it holds nothing where it does not work on a batch, acknowledges     *)
(* only what is recorded, and knows nothing of what nobody has sent.            *)

RestsEmpty == runner \in {"down", "recovering", "polling"} => Present(held) = {}
AckRecorded == runner \in {"ackOk", "ackError"} => now \in recorded
UnsentNowhere == \A d \in unsent : ~HasFile(d) /\ held[d] = NoFile

Safe == NothingLost /\ ProcessingOwned /\ RestsEmpty /\ AckRecorded /\ UnsentNowhere

LEMMA InitSafe == Init => Safe
BY DEF Init, Safe, NothingLost, ProcessingOwned, RestsEmpty, AckRecorded, UnsentNowhere,
       Present, HasFile, Empty

\* A delivery that is rewritten is in the inbox or in failed/, and every other file
\* of the two directories is as it was.
LEMMA RewriteKeeps ==
  ASSUME TypeOK, NEW d \in Deliveries, NEW attempts \in Attempts, Rewrite(d, attempts)
  PROVE  /\ inbox'[d] # NoFile \/ failed'[d] # NoFile
         /\ \A e \in Deliveries \ {d} : inbox'[e] = inbox[e] /\ failed'[e] = failed[e]
         /\ failed[d] # NoFile => failed'[d] # NoFile
<1>1. attempts + 1 # NoFile
  BY ConstantsAssumption DEF Attempts
<1> QED
  BY <1>1 DEF Rewrite, TypeOK

LEMMA StepSafe == TypeOK /\ NowHeld /\ Safe /\ [Next]_vars => Safe'
<1> SUFFICES ASSUME TypeOK, NowHeld, Safe, [Next]_vars PROVE Safe'
  OBVIOUS
<1> USE ConstantsAssumption
    DEF Safe, NothingLost, ProcessingOwned, RestsEmpty, AckRecorded, UnsentNowhere,
        Present, HasFile
<1>1. ASSUME NEW d \in Deliveries, Enqueue(d) \/ EnqueueRolledBack(d) \/ EnqueueTorn(d)
      PROVE  Safe'
  <2>1. d \in unsent /\ unsent' = unsent \ {d}
    BY <1>1 DEF Enqueuing, Enqueue, EnqueueRolledBack, EnqueueTorn
  <2>2. UNCHANGED <<triggers, processing, failed, runner, held, now, exits, turns, recorded>>
    BY <1>1 DEF Enqueue, EnqueueRolledBack, EnqueueTorn, runnerVars
  <2>3. /\ \A e \in Deliveries \ {d} : inbox'[e] = inbox[e]
        /\ accepted' \subseteq accepted \cup {d}
        /\ d \in accepted' \ accepted => inbox'[d] # NoFile
        /\ inbox'[d] = NoFile => inbox[d] = NoFile
    BY <1>1 DEF Enqueue, EnqueueRolledBack, EnqueueTorn, TypeOK
  <2> HIDE DEF Safe
  <2>4. NothingLost'
    BY <2>1, <2>2, <2>3 DEF Safe, TypeOK
  <2>5. ProcessingOwned'
    <3> SUFFICES ASSUME runner' \notin {"down", "recovering"}, NEW e \in Deliveries
                 PROVE  /\ processing'[e] # NoFile => held'[e] # NoFile
                        /\ held'[e] # NoFile => inbox'[e] = NoFile
      OBVIOUS
    <3>1. /\ processing[e] # NoFile => held[e] # NoFile
          /\ held[e] # NoFile => inbox[e] = NoFile
      BY <2>2 DEF Safe
    <3> QED
      BY <2>1, <2>2, <2>3, <3>1 DEF Safe
  <2>6. UnsentNowhere'
    BY <2>1, <2>2, <2>3 DEF Safe, TypeOK
  <2>7. RestsEmpty' /\ AckRecorded'
    BY <2>2 DEF Safe
  <2> QED
    BY <2>4, <2>5, <2>6, <2>7 DEF Safe
<1>2. ASSUME NEW t \in Triggers, NEW to \in {"enabled", "disabled"},
             Create(t) \/ SetEnabled(t, to)
      PROVE  Safe'
  <2>1. /\ UNCHANGED <<senderVars, inbox, processing, failed, runnerVars, recorded>>
        /\ \A u \in Triggers : triggers[u] = "deleted" => triggers'[u] = "deleted"
    BY <1>2 DEF Create, SetEnabled, Known, TypeOK
  <2>2. \A d \in accepted : TriggerOf[d] \in Triggers
    BY DEF TypeOK
  <2> QED
    BY <2>1, <2>2 DEF runnerVars, senderVars
<1>3. ASSUME NEW t \in Triggers, Delete(t)
      PROVE  Safe'
  BY <1>3 DEF Delete, Removed, Of, runnerVars, senderVars, TypeOK
<1>4. CASE StartGateway
  BY <1>4 DEF StartGateway, senderVars
<1>5. ASSUME NEW d \in Deliveries, Recover(d)
      PROVE  Safe'
  <2>1. PICK attempts \in 0..MaxAttempts : Interrupted(d, attempts) /\ Retried(d, attempts)
    BY <1>5 DEF Recover
  <2>2. attempts \in Attempts /\ processing[d] # NoFile
    BY <2>1 DEF Interrupted, TypeOK, Attempts
  <2>3. Rewrite(d, attempts) /\ Unlink(d)
    BY <2>1 DEF Retried
  <2>4. /\ inbox'[d] # NoFile \/ failed'[d] # NoFile
        /\ \A e \in Deliveries \ {d} : inbox'[e] = inbox[e] /\ failed'[e] = failed[e]
    BY <2>2, <2>3, RewriteKeeps
  <2>5. \A e \in Deliveries \ {d} : processing'[e] = processing[e]
    BY <2>3 DEF Unlink, TypeOK
  <2>6. UNCHANGED <<unsent, accepted, triggers, runner, held, now, recorded>>
        /\ runner = "recovering"
    BY <1>5 DEF Recover, senderVars, runnerVars
  <2> QED
    BY <2>2, <2>4, <2>5, <2>6 DEF TypeOK
<1>6. CASE Recovered
  BY <1>6 DEF Recovered, Recovers, senderVars
<1>7. CASE Claim
  <2>1. Oldest \subseteq Present(inbox)
    BY DEF Oldest
  <2>2. \A e \in Deliveries :
          /\ inbox'[e] = IF e \in Oldest THEN NoFile ELSE inbox[e]
          /\ processing'[e] = IF e \in Oldest THEN inbox[e] ELSE processing[e]
          /\ held'[e] = IF e \in Oldest THEN inbox[e] ELSE NoFile
    BY <1>7 DEF Claim, MoveClaimed, Removed
  <2>3. /\ runner = "idle" /\ Present(held) = {}
        /\ UNCHANGED <<unsent, accepted, triggers, failed, runner, now, recorded>>
    BY <1>7 DEF Claim, Claiming, senderVars
  <2> HIDE DEF Safe
  <2>4. NothingLost'
    BY <2>1, <2>2, <2>3 DEF Safe, TypeOK
  <2>5. ProcessingOwned'
    BY <2>1, <2>2, <2>3 DEF Safe
  <2>6. UnsentNowhere'
    BY <2>1, <2>2, <2>3 DEF Safe, TypeOK
  <2> QED
    BY <2>3, <2>4, <2>5, <2>6 DEF Safe
<1>8. CASE Sleep \/ Poll
  BY <1>8 DEF Sleep, Poll, Claiming, senderVars
<1>9. ASSUME NEW d \in Deliveries, Begin(d)
      PROVE  Safe'
  BY <1>9 DEF Begin, senderVars
<1>10. CASE TurnEnds
  BY <1>10 DEF TurnEnds, senderVars
<1>11. CASE RecordOutcome
  BY <1>11 DEF RecordOutcome, senderVars
<1>12. CASE CompletionFails
  BY <1>12 DEF CompletionFails, senderVars
<1>13. CASE Acknowledge
  <2>1. now \in Deliveries /\ now \in recorded
    BY <1>13 DEF Acknowledge, NowHeld, Working
  <2> QED
    BY <1>13, <2>1 DEF Acknowledge, Unlink, NextDelivery, senderVars, TypeOK
<1>14. ASSUME runner \in {"turn", "retry"} PROVE now \in Deliveries /\ held[now] \in Attempts
  BY <1>14 DEF TypeOK, NowHeld, Working, Attempts
<1>15. ASSUME runner \in {"turn", "retry"}, Retried(now, held[now])
       PROVE  /\ inbox'[now] # NoFile \/ failed'[now] # NoFile
              /\ \A e \in Deliveries \ {now} : /\ inbox'[e] = inbox[e]
                                              /\ failed'[e] = failed[e]
                                              /\ processing'[e] = processing[e]
              /\ processing'[now] = NoFile
  <2>1. Rewrite(now, held[now]) /\ Unlink(now)
    BY <1>15 DEF Retried
  <2> QED
    BY <1>14, <1>15, <2>1, RewriteKeeps DEF Unlink, TypeOK
<1>16. CASE Retry
  <2>1. now \in Deliveries /\ held[now] # NoFile
    BY <1>16 DEF Retry, NowHeld, Working
  <2>2. /\ inbox'[now] # NoFile \/ failed'[now] # NoFile
        /\ \A e \in Deliveries \ {now} : /\ inbox'[e] = inbox[e]
                                        /\ failed'[e] = failed[e]
                                        /\ processing'[e] = processing[e]
        /\ processing'[now] = NoFile
    BY <1>15, <1>16 DEF Retry
  <2>3. /\ held'[now] = NoFile
        /\ \A e \in Deliveries \ {now} : held'[e] = held[e]
        /\ runner = "retry" /\ runner' = "idle"
        /\ UNCHANGED <<unsent, accepted, triggers, recorded>>
    BY <1>16, <2>1 DEF Retry, NextDelivery, senderVars, TypeOK
  <2> HIDE DEF Safe
  <2>4. NothingLost'
    BY <2>1, <2>2, <2>3 DEF Safe, TypeOK
  <2>5. ProcessingOwned'
    <3> SUFFICES ASSUME runner' \notin {"down", "recovering"}, NEW e \in Deliveries
                 PROVE  /\ processing'[e] # NoFile => held'[e] # NoFile
                        /\ held'[e] # NoFile => inbox'[e] = NoFile
      OBVIOUS
    <3>1. /\ processing[e] # NoFile => held[e] # NoFile
          /\ held[e] # NoFile => inbox[e] = NoFile
      BY <2>3 DEF Safe
    <3> QED
      BY <2>1, <2>2, <2>3, <3>1 DEF Safe
  <2>6. UnsentNowhere'
    BY <2>1, <2>2, <2>3 DEF Safe, TypeOK
  <2>7. RestsEmpty' /\ AckRecorded'
    BY <2>3
  <2> QED
    BY <2>4, <2>5, <2>6, <2>7 DEF Safe
<1>17. ASSUME Exit
       PROVE  /\ runner' = "down" /\ Present(held)' = {}
              /\ \A e \in Deliveries : held'[e] = NoFile
  BY <1>17 DEF Exit, Empty
<1>18. CASE Shutdown
  <2>1. now \in Deliveries /\ held[now] # NoFile
    BY <1>18 DEF Shutdown, NowHeld, Working
  <2>2. /\ inbox'[now] # NoFile \/ failed'[now] # NoFile
        /\ \A e \in Deliveries \ {now} : /\ inbox'[e] = inbox[e]
                                        /\ failed'[e] = failed[e]
                                        /\ processing'[e] = processing[e]
    BY <1>15, <1>18 DEF Shutdown
  <2> QED
    BY <1>17, <1>18, <2>1, <2>2 DEF Shutdown, senderVars, TypeOK
<1>19. CASE Crash
  BY <1>17, <1>19 DEF Crash, senderVars, TypeOK
<1>20. CASE CrashInClaim
  <2>1. PICK d \in Oldest : MoveClaimed({e \in Oldest : e <= d})
    BY <1>20 DEF CrashInClaim
  <2> DEFINE some == {e \in Oldest : e <= d}
  <2>2. some \subseteq Present(inbox)
    BY DEF Oldest
  <2> HIDE DEF some
  <2>3. \A e \in Deliveries :
          /\ inbox'[e] = IF e \in some THEN NoFile ELSE inbox[e]
          /\ processing'[e] = IF e \in some THEN inbox[e] ELSE processing[e]
    BY <2>1 DEF MoveClaimed, Removed, some
  <2> QED
    BY <1>17, <1>20, <2>2, <2>3 DEF CrashInClaim, senderVars, TypeOK
<1>21. CASE CrashInRetry
  <2>1. \E d \in Deliveries : \E attempts \in Attempts : Rewrite(d, attempts) /\ d \notin unsent
    BY <1>14, <1>21 DEF CrashInRetry, NowHeld, Working, TypeOK, Attempts
  <2>2. \A e \in Deliveries : /\ HasFile(e) => HasFile(e)'
                              /\ e \in unsent => (HasFile(e)' => HasFile(e))
    BY <1>21, <2>1, RewriteKeeps DEF CrashInRetry
  <2> QED
    BY <1>17, <1>21, <2>2 DEF CrashInRetry, senderVars, TypeOK
<1>22. ASSUME NEW t \in Triggers, CrashInDelete(t)
       PROVE  Safe'
  <2>1. PICK i, p, f \in SUBSET Of(t) : /\ inbox' = Removed(inbox, i)
                                       /\ processing' = Removed(processing, p)
                                       /\ failed' = Removed(failed, f)
    BY <1>22 DEF CrashInDelete
  <2>2. \A e \in Deliveries : /\ HasFile(e)' => HasFile(e)
                              /\ TriggerOf[e] # t => (HasFile(e) => HasFile(e)')
    BY <2>1 DEF Removed, Of
  <2> QED
    BY <1>17, <1>22, <2>2 DEF CrashInDelete, senderVars, TypeOK
<1>23. CASE UNCHANGED vars
  BY <1>23 DEF vars, senderVars, runnerVars
<1> HIDE DEF Safe
<1>24. CASE RunnerStep
  BY <1>4, <1>5, <1>6, <1>7, <1>8, <1>9, <1>10, <1>11, <1>12, <1>13, <1>16, <1>24
  DEF RunnerStep
<1>25. CASE Exits
  BY <1>18, <1>19, <1>20, <1>21, <1>22, <1>25 DEF Exits
<1>26. CASE Users
  BY <1>1, <1>2, <1>3, <1>26 DEF Users
<1> QED
  BY <1>23, <1>24, <1>25, <1>26 DEF Next

LEMMA Invariant == Spec => [](TypeOK /\ NowHeld /\ Safe)
BY InitType, StepType, InitSafe, StepSafe, PTL DEF Spec

\* Whatever process dies and wherever, a delivery whose command answered "Queued" is
\* on disk until its outcome is recorded or its trigger is deleted.
THEOREM AtLeastOnce == Spec => []NothingLost
BY Invariant, PTL DEF Safe

\* While the gateway runs, processing/ holds nothing but the runner's own batch, and
\* no delivery of the batch can be claimed again.
THEOREM ClaimedOnce == Spec => []ProcessingOwned
BY Invariant, PTL DEF Safe

-----------------------------------------------------------------------------
(* Every repeated turn is charged.  What the runner holds counts the turns of    *)
(* earlier claims; the turn it is in is the only one not yet charged.            *)

HeldCharged ==
  \A d \in Deliveries :
    /\ d \in unsent => turns[d] = 0
    /\ held[d] # NoFile => /\ turns[d] <= held[d] + 1
                           /\ d # now \/ runner = "idle" => turns[d] <= held[d]
                           /\ processing[d] \in {held[d], NoFile}

Charged == TurnsCharged /\ HeldCharged

\* A rewritten delivery has room for one turn more.
LEMMA RewriteCharges ==
  ASSUME TypeOK, NEW d \in Deliveries, NEW attempts \in Attempts, Rewrite(d, attempts)
  PROVE  /\ inbox'[d] = attempts + 1 \/ inbox'[d] = inbox[d]
         /\ \A e \in Deliveries \ {d} : inbox'[e] = inbox[e]
BY DEF Rewrite, TypeOK

LEMMA InitCharged == Init => Charged
BY ConstantsAssumption
   DEF Init, Charged, TurnsCharged, HeldCharged, Empty

LEMMA StepCharged == TypeOK /\ NowHeld /\ Safe /\ Charged /\ [Next]_vars => Charged'
<1> SUFFICES ASSUME TypeOK, NowHeld, Safe, Charged, [Next]_vars PROVE Charged'
  OBVIOUS
<1> USE ConstantsAssumption
<1> USE DEF Charged, TurnsCharged, HeldCharged
<1>1. ASSUME NEW d \in Deliveries, Enqueue(d) \/ EnqueueRolledBack(d) \/ EnqueueTorn(d)
      PROVE  Charged'
  <2>1. d \in unsent /\ unsent' = unsent \ {d}
    BY <1>1 DEF Enqueuing, Enqueue, EnqueueRolledBack, EnqueueTorn
  <2>2. UNCHANGED <<processing, runner, held, now, turns>>
    BY <1>1 DEF Enqueue, EnqueueRolledBack, EnqueueTorn, runnerVars
  <2>3. /\ inbox'[d] = inbox[d] \/ inbox'[d] = 0
        /\ \A e \in Deliveries \ {d} : inbox'[e] = inbox[e]
    BY <1>1 DEF Enqueue, EnqueueRolledBack, EnqueueTorn, TypeOK
  <2>4. turns[d] = 0
    BY <2>1
  <2> QED
    BY <2>1, <2>2, <2>3, <2>4 DEF TypeOK
<1>2. ASSUME NEW t \in Triggers, NEW to \in {"enabled", "disabled"},
             Create(t) \/ SetEnabled(t, to)
      PROVE  Charged'
  BY <1>2 DEF Create, SetEnabled, runnerVars, senderVars
<1>3. ASSUME NEW t \in Triggers, Delete(t)
      PROVE  Charged'
  BY <1>3 DEF Delete, Removed, runnerVars, senderVars
<1>4. CASE StartGateway
  BY <1>4 DEF StartGateway, senderVars, Safe, RestsEmpty, Present
<1>5. ASSUME NEW d \in Deliveries, Recover(d)
      PROVE  Charged'
  <2>1. PICK attempts \in 0..MaxAttempts : Interrupted(d, attempts) /\ Retried(d, attempts)
    BY <1>5 DEF Recover
  <2>2. attempts \in Attempts /\ processing[d] = attempts /\ attempts # NoFile
    BY <2>1 DEF Interrupted, TypeOK, Attempts
  <2>3. Rewrite(d, attempts) /\ Unlink(d)
    BY <2>1 DEF Retried
  <2>4. /\ inbox'[d] = attempts + 1 \/ inbox'[d] = inbox[d]
        /\ \A e \in Deliveries \ {d} : inbox'[e] = inbox[e]
    BY <2>2, <2>3, RewriteCharges
  <2>5. /\ processing'[d] = NoFile
        /\ \A e \in Deliveries \ {d} : processing'[e] = processing[e]
    BY <2>3 DEF Unlink, TypeOK
  <2>6. UNCHANGED <<unsent, runner, held, now, turns>>
    BY <1>5 DEF Recover, senderVars, runnerVars
  <2> QED
    BY <2>2, <2>4, <2>5, <2>6 DEF TypeOK
<1>6. CASE Recovered
  BY <1>6 DEF Recovered, Recovers, senderVars, Safe, RestsEmpty, Present
<1>7. CASE Claim
  <2>1. \A e \in Oldest : inbox[e] # NoFile
    BY DEF Oldest, Present
  <2>2. \A e \in Deliveries :
          /\ inbox'[e] = IF e \in Oldest THEN NoFile ELSE inbox[e]
          /\ processing'[e] = IF e \in Oldest THEN inbox[e] ELSE processing[e]
          /\ held'[e] = IF e \in Oldest THEN inbox[e] ELSE NoFile
    BY <1>7 DEF Claim, MoveClaimed, Removed
  <2>3. UNCHANGED <<unsent, runner, now, turns>>
    BY <1>7 DEF Claim, senderVars
  <2> QED
    BY <2>1, <2>2, <2>3 DEF TypeOK
<1>8. CASE Sleep \/ Poll
  BY <1>8 DEF Sleep, Poll, Claiming, senderVars, Safe, RestsEmpty, Present
<1>9. ASSUME NEW d \in Deliveries, Begin(d)
      PROVE  Charged'
  <2>1. /\ held[d] # NoFile /\ runner = "idle" /\ now' = d
        /\ runner' \in {"turn", "retry", "error"}
        /\ UNCHANGED <<unsent, inbox, processing, held>>
    BY <1>9 DEF Begin, Present, senderVars
  <2>2. /\ inbox[d] = NoFile /\ d \notin unsent
        /\ turns[d] <= held[d] /\ held[d] \in Attempts
    BY <2>1 DEF Safe, ProcessingOwned, UnsentNowhere, Present, TypeOK, Attempts
  <2>3. /\ turns'[d] = turns[d] \/ turns'[d] = turns[d] + 1
        /\ \A e \in Deliveries \ {d} : turns'[e] = turns[e]
    BY <1>9 DEF Begin, TypeOK
  <2> QED
    BY <2>1, <2>2, <2>3 DEF TypeOK, Attempts
<1>10. CASE TurnEnds \/ RecordOutcome \/ CompletionFails
  BY <1>10 DEF TurnEnds, RecordOutcome, CompletionFails, senderVars
<1>11. ASSUME NextDelivery, now \in Deliveries
       PROVE  /\ held'[now] = NoFile
              /\ \A e \in Deliveries \ {now} : held'[e] = held[e]
  BY <1>11 DEF NextDelivery, TypeOK
<1>12. CASE Acknowledge
  <2>1. now \in Deliveries /\ NextDelivery /\ Unlink(now)
    BY <1>12 DEF Acknowledge, NowHeld, Working
  <2> QED
    BY <1>11, <1>12, <2>1 DEF Acknowledge, Unlink, senderVars, TypeOK
<1>13. ASSUME runner \in {"turn", "retry"}
       PROVE  now \in Deliveries /\ held[now] \in Attempts /\ turns[now] <= held[now] + 1
  BY <1>13 DEF TypeOK, NowHeld, Working, Attempts
<1>14. ASSUME runner \in {"turn", "retry"}, Rewrite(now, held[now])
       PROVE  \A e \in Deliveries : inbox'[e] # NoFile => turns[e] <= inbox'[e]
  BY <1>13, <1>14, RewriteCharges DEF TypeOK
<1>15. CASE Retry
  <2>1. now \in Deliveries /\ NextDelivery /\ Rewrite(now, held[now]) /\ Unlink(now)
    BY <1>13, <1>15 DEF Retry, Retried
  <2>2. runner' = "idle" /\ UNCHANGED <<unsent, turns>>
    BY <1>15 DEF Retry, NextDelivery, senderVars
  <2>3. \A e \in Deliveries : processing'[e] = IF e = now THEN NoFile ELSE processing[e]
    BY <2>1 DEF Unlink, TypeOK
  <2>4. \A e \in Deliveries : inbox'[e] # NoFile => turns[e] <= inbox'[e]
    BY <1>14, <1>15, <2>1 DEF Retry
  <2> QED
    BY <1>11, <2>1, <2>2, <2>3, <2>4
<1>16. ASSUME Exit
       PROVE  \A e \in Deliveries : held'[e] = NoFile
  BY <1>16 DEF Exit, Empty
<1>17. CASE Shutdown
  <2>1. Exit /\ Rewrite(now, held[now]) /\ Unlink(now) /\ UNCHANGED <<unsent, turns>>
    BY <1>17 DEF Shutdown, Retried, senderVars
  <2>2. \A e \in Deliveries : processing'[e] = NoFile \/ processing'[e] = processing[e]
    BY <2>1 DEF Unlink, TypeOK
  <2> QED
    BY <1>14, <1>16, <1>17, <2>1, <2>2 DEF Shutdown
<1>18. CASE Crash
  BY <1>16, <1>18 DEF Crash, senderVars
<1>19. CASE CrashInClaim
  <2>1. PICK d \in Oldest : MoveClaimed({e \in Oldest : e <= d})
    BY <1>19 DEF CrashInClaim
  <2> DEFINE some == {e \in Oldest : e <= d}
  <2>2. \A e \in some : inbox[e] # NoFile
    BY DEF Oldest, Present
  <2> HIDE DEF some
  <2>3. \A e \in Deliveries :
          /\ inbox'[e] = IF e \in some THEN NoFile ELSE inbox[e]
          /\ processing'[e] = IF e \in some THEN inbox[e] ELSE processing[e]
    BY <2>1 DEF MoveClaimed, Removed, some
  <2>4. Exit /\ UNCHANGED <<unsent, turns>>
    BY <1>19 DEF CrashInClaim, senderVars
  <2> QED
    BY <1>16, <2>2, <2>3, <2>4 DEF TypeOK
<1>20. CASE CrashInRetry
  <2>1. \A e \in Deliveries : inbox'[e] # NoFile => turns[e] <= inbox'[e]
    <3>1. CASE runner \in {"turn", "retry"} /\ Rewrite(now, held[now])
      BY <1>14, <3>1
    <3>2. ASSUME NEW d \in Present(processing), Rewrite(d, processing[d])
          PROVE  \A e \in Deliveries : inbox'[e] # NoFile => turns[e] <= inbox'[e]
      <4>1. d \in Deliveries /\ processing[d] \in Attempts /\ turns[d] <= processing[d] + 1
        BY DEF Present, TypeOK, Attempts
      <4> QED
        BY <3>2, <4>1, RewriteCharges DEF TypeOK
    <3> QED
      BY <1>20, <3>1, <3>2 DEF CrashInRetry
  <2>2. Exit /\ UNCHANGED <<unsent, processing, turns>>
    BY <1>20 DEF CrashInRetry, senderVars
  <2> QED
    BY <1>16, <2>1, <2>2
<1>21. ASSUME NEW t \in Triggers, CrashInDelete(t)
       PROVE  Charged'
  <2>1. \A e \in Deliveries : /\ inbox'[e] \in {inbox[e], NoFile}
                              /\ processing'[e] \in {processing[e], NoFile}
    BY <1>21 DEF CrashInDelete, Removed
  <2>2. Exit /\ UNCHANGED <<unsent, turns>>
    BY <1>21 DEF CrashInDelete, senderVars
  <2> QED
    BY <1>16, <2>1, <2>2
<1>22. CASE UNCHANGED vars
  BY <1>22 DEF vars, senderVars, runnerVars
<1> QED
  BY <1>1, <1>2, <1>3, <1>4, <1>5, <1>6, <1>7, <1>8, <1>9, <1>10, <1>12, <1>15, <1>17,
     <1>18, <1>19, <1>20, <1>21, <1>22
  DEF Next, RunnerStep, Exits, Users

\* However often a delivery is interrupted, and however it is retried and recovered,
\* it starts at most _MAX_DELIVERY_ATTEMPTS turns.
THEOREM TurnsBounded == Spec => []TurnsCharged
<1>1. Spec => [](TypeOK /\ NowHeld /\ Safe /\ Charged)
  BY InitType, StepType, InitSafe, StepSafe, InitCharged, StepCharged, PTL DEF Spec
<1> QED
  BY <1>1, PTL DEF Charged

-----------------------------------------------------------------------------
(* What is settled stays settled. *)

LEMMA StepSettled ==
  ASSUME TypeOK, NowHeld, [Next]_vars, NEW d \in Deliveries, Settled(d)
  PROVE  Settled(d)'
<1> USE ConstantsAssumption DEF Settled
<1>1. ASSUME NEW e \in Deliveries, Enqueue(e) \/ EnqueueRolledBack(e) \/ EnqueueTorn(e)
      PROVE  Settled(d)'
  <2>1. e \in unsent /\ e # d /\ unsent' = unsent \ {e}
    BY <1>1 DEF Enqueuing, Enqueue, EnqueueRolledBack, EnqueueTorn
  <2> QED
    BY <1>1, <2>1 DEF Enqueue, EnqueueRolledBack, EnqueueTorn, runnerVars, TypeOK
<1>2. ASSUME NEW t \in Triggers, NEW to \in {"enabled", "disabled"},
             Create(t) \/ SetEnabled(t, to) \/ Delete(t)
      PROVE  Settled(d)'
  BY <1>2 DEF Create, SetEnabled, Delete, Removed, runnerVars, senderVars
<1>3. CASE StartGateway \/ Recovered \/ Sleep \/ Poll \/ TurnEnds \/ RecordOutcome
           \/ CompletionFails
  BY <1>3 DEF StartGateway, Recovered, Sleep, Poll, TurnEnds, RecordOutcome,
              CompletionFails, senderVars
<1>4. ASSUME NEW e \in Deliveries, Recover(e)
      PROVE  Settled(d)'
  <2>1. PICK attempts \in 0..MaxAttempts : Interrupted(e, attempts) /\ Retried(e, attempts)
    BY <1>4 DEF Recover
  <2>2. attempts \in Attempts /\ e # d
    BY <2>1 DEF Interrupted, TypeOK, Attempts
  <2> QED
    BY <1>4, <2>1, <2>2, RewriteKeeps
    DEF Recover, Retried, Unlink, senderVars, runnerVars, TypeOK
<1>5. d \notin Oldest
  BY DEF Oldest, Present
<1>6. CASE Claim
  BY <1>5, <1>6 DEF Claim, MoveClaimed, Removed, senderVars
<1>7. ASSUME NEW e \in Deliveries, Begin(e)
      PROVE  Settled(d)'
  BY <1>7 DEF Begin, senderVars
<1>8. ASSUME runner \in Working
      PROVE  now \in Deliveries /\ held[now] \in Attempts /\ now # d
  BY <1>8 DEF NowHeld, TypeOK, Attempts
<1>9. ASSUME runner \in Working, Rewrite(now, held[now])
      PROVE  inbox'[d] = NoFile
  BY <1>8, <1>9, RewriteKeeps
<1>10. CASE Acknowledge
  BY <1>8, <1>10 DEF Acknowledge, Unlink, NextDelivery, Working, senderVars, TypeOK
<1>11. CASE Retry
  BY <1>8, <1>9, <1>11 DEF Retry, Retried, Unlink, NextDelivery, Working, senderVars, TypeOK
<1>12. Exit => held'[d] = NoFile
  BY DEF Exit, Empty
<1>13. CASE Shutdown
  BY <1>8, <1>9, <1>12, <1>13 DEF Shutdown, Retried, Unlink, Working, senderVars, TypeOK
<1>14. CASE Crash
  BY <1>12, <1>14 DEF Crash, senderVars
<1>15. CASE CrashInClaim
  BY <1>5, <1>12, <1>15 DEF CrashInClaim, MoveClaimed, Removed, senderVars
<1>16. CASE CrashInRetry
  <2>1. inbox'[d] = NoFile
    <3>1. ASSUME NEW e \in Present(processing), Rewrite(e, processing[e])
          PROVE  inbox'[d] = NoFile
      <4>1. e \in Deliveries /\ e # d /\ processing[e] \in Attempts
        BY DEF Present, TypeOK, Attempts
      <4> QED
        BY <3>1, <4>1, RewriteKeeps
    <3> QED
      BY <1>9, <1>16, <3>1 DEF CrashInRetry, Working
  <2> QED
    BY <1>12, <1>16, <2>1 DEF CrashInRetry, senderVars
<1>17. ASSUME NEW t \in Triggers, CrashInDelete(t)
       PROVE  Settled(d)'
  BY <1>12, <1>17 DEF CrashInDelete, Removed, senderVars
<1>18. CASE UNCHANGED vars
  BY <1>18 DEF vars, senderVars, runnerVars
<1> QED
  BY <1>1, <1>2, <1>3, <1>4, <1>6, <1>7, <1>10, <1>11, <1>13, <1>14, <1>15, <1>16, <1>17,
     <1>18
  DEF Next, RunnerStep, Exits, Users

\* A delivery out of the inbox, processing/ and the runner's hands never comes back,
\* whatever is retried, recovered or torn by a crash.
THEOREM SettledForGood == Spec => SettledStays
<1>1. TypeOK /\ NowHeld /\ [Next]_vars => [\A d \in Deliveries : Settled(d) => Settled(d)']_vars
  BY StepSettled
<1> QED
  BY <1>1, InitType, StepType, PTL DEF Spec, SettledStays
=============================================================================
