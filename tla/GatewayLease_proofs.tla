------------------------- MODULE GatewayLease_proofs -------------------------
(***************************************************************************)
(* The gateway and client leases, for any clients, gateways and number of  *)
(* operator commands: types, one recorded gateway, kept leases, and the    *)
(* refinement of SharedGateway.                                            *)
(***************************************************************************)
EXTENDS GatewayLease, TLAPS

USE DEF lease, looks, vars

-----------------------------------------------------------------------------
(* The inductive invariant: what a stop in progress knows.                   *)

JobType == job \in [by : Clients \cup {Operator}, purpose : Purposes \cup {"none"},
                    victim : Gateways \cup {NoGateway},
                    phase : {"idle", "called", "told", "stopped", "absent", "refused"}]

\* While a stop holds the transition lock nobody replaces the gateway it stops: the
\* process file names that one until it is empty.
VictimRecorded ==
    /\ job.phase \in {"called", "told"} => record.pid \in {job.victim, NoGateway}
    /\ job.phase = "stopped" => record.pid = NoGateway

\* The client whose restart is under way waits for it and keeps its lease; the last
\* client's own stop began with no lease left, and nobody has joined since.
JobHolder ==
    /\ job.purpose = "restart" /\ job.by \in Clients =>
         client[job.by] = "stopping" /\ job.by \in clients \cup forgotten
    /\ job.purpose = "release" => clients = {}

Safe == JobType /\ VictimRecorded /\ ServingIsRecorded
Kept == JobHolder /\ LeaseKept

LEMMA InitSafe == Init => TypeOK /\ Safe /\ Kept
<1> SUFFICES ASSUME Init PROVE TypeOK /\ Safe /\ Kept
  OBVIOUS
<1>1. JobOK /\ JobType
  BY DEF Init, JobOK, JobType, NoJob
<1>2. TypeOK
  <2>1. auto \in BOOLEAN /\ stopping \in BOOLEAN /\ (stopping => auto)
    BY DEF Init
  <2>2. /\ record \in [pid : Gateways \cup {NoGateway}, mode : Modes]
        /\ client \in [Clients -> ClientStates] /\ gateway \in [Gateways -> GatewayStates]
    BY DEF Init, NoRecord, Modes, ClientStates, GatewayStates
  <2>3. commands \in 0..MaxCommands
    BY ConstantsAssumption DEF Init
  <2>4. clients \subseteq Clients /\ told \subseteq Gateways /\ forgotten \subseteq Clients
    BY DEF Init
  <2>5. read \in [Clients \cup {Operator} -> Gateways \cup {NoGateway}] /\ unlinked \subseteq Gateways
    BY DEF Init
  <2>6. QED BY <1>1, <2>1, <2>2, <2>3, <2>4, <2>5 DEF TypeOK
<1>3. VictimRecorded /\ JobHolder
  BY DEF Init, VictimRecorded, JobHolder, NoJob
<1>4. ServingIsRecorded /\ LeaseKept
  BY DEF Init, ServingIsRecorded, LeaseKept, AtWork
<1>5. QED BY <1>1, <1>2, <1>3, <1>4 DEF Safe, Kept

\* The two ways the lease file is written, and the process file.
LEMMA WrittenType ==
  ASSUME NEW a \in BOOLEAN, NEW cs \in SUBSET Clients, stopping \in BOOLEAN,
         WriteLease(a, stopping, cs), stopping => a
  PROVE  /\ auto' \in BOOLEAN /\ stopping' \in BOOLEAN /\ (stopping' => auto')
         /\ clients' \subseteq Clients
BY DEF WriteLease

LEMMA RecordType ==
  ASSUME NEW g \in Gateways
  PROVE  [pid |-> g, mode |-> "background"] \in [pid : Gateways \cup {NoGateway}, mode : Modes]
BY DEF Modes

\* A status() without a lock, of a client or of the operator.
LEMMA StatusTypes ==
  ASSUME TypeOK, Safe, NEW p \in Clients \cup {Operator},
         ReadRecord(p) \/ FindsRunning(p) \/ FindsStale(p)
  PROVE  TypeOK' /\ JobType'
<1>1. /\ read' \in [Clients \cup {Operator} -> Gateways \cup {NoGateway}]
      /\ unlinked' \subseteq Gateways
  BY DEF ReadRecord, FindsRunning, FindsStale, TypeOK
<1>2. record' \in [pid : Gateways \cup {NoGateway}, mode : Modes]
  BY DEF ReadRecord, FindsRunning, FindsStale, NoRecord, Modes, TypeOK
<1>3. client' \in [Clients -> ClientStates]
  BY DEF ReadRecord, FindsRunning, FindsStale, ClientStates, TypeOK
<1>4. commands' \in 0..MaxCommands
  BY ConstantsAssumption DEF ReadRecord, FindsRunning, FindsStale, Command, TypeOK
<1>5. UNCHANGED <<lease, job, gateway, told, forgotten>>
  BY DEF ReadRecord, FindsRunning, FindsStale
<1>6. QED BY <1>1, <1>2, <1>3, <1>4, <1>5 DEF TypeOK, JobOK, Safe, JobType

LEMMA ClientTypes ==
  ASSUME TypeOK, Safe, NEW c \in Clients, ClientStep(c)
  PROVE  TypeOK' /\ JobType'
<1> USE DEF Move, Become, Modes, ClientStates
<1>0. LiveClients \subseteq Clients
  BY DEF LiveClients, TypeOK
<1>1. CASE Acquire(c)
  <2>1. LiveClients \cup {c} \in SUBSET Clients
    BY <1>0
  <2>2. QED BY <1>1, <2>1, WrittenType DEF Acquire, TypeOK, JobOK, Safe, JobType
<1>2. CASE Fail(c) \/ Leave(c) \/ WaitFails(c)
  BY <1>2 DEF Fail, Leave, WaitFails, TypeOK, JobOK, Safe, JobType
<1>3. CASE StartOnDemand(c)
  <2>1. /\ auto' \in BOOLEAN /\ stopping' \in BOOLEAN /\ (stopping' => auto')
        /\ clients' \subseteq Clients
    BY <1>0, <1>3, WrittenType DEF StartOnDemand, TypeOK
  <2>2. record' \in [pid : Gateways \cup {NoGateway}, mode : Modes]
    BY <1>3, RecordType DEF StartOnDemand, Spawned, SpawnFails, NoRecord
  <2>3. gateway' \in [Gateways -> GatewayStates]
    BY <1>3 DEF StartOnDemand, Spawned, SpawnFails, TypeOK, GatewayStates
  <2>4. client' \in [Clients -> ClientStates]
    BY <1>3 DEF StartOnDemand, TypeOK
  <2>5. UNCHANGED <<looks, job, told, forgotten, commands>>
    BY <1>3 DEF StartOnDemand
  <2>6. QED BY <2>1, <2>2, <2>3, <2>4, <2>5 DEF TypeOK, JobOK, Safe, JobType
<1>4. CASE Detach(c)
  BY <1>0, <1>4, WrittenType DEF Detach, TypeOK, JobOK, Safe, JobType
<1>5. CASE Release(c)
  <2>1. LiveClients \ {c} \in SUBSET Clients
    BY <1>0
  <2>2. QED BY <1>5, <2>1, WrittenType DEF Release, TypeOK, JobOK, Safe, JobType
<1>6. CASE ReleaseAndStop(c)
  <2>1. LiveClients \ {c} \in SUBSET Clients
    BY <1>0
  <2>2. /\ auto' \in BOOLEAN /\ stopping' \in BOOLEAN /\ (stopping' => auto')
        /\ clients' \subseteq Clients
    BY <1>6, <2>1, WrittenType DEF ReleaseAndStop, TypeOK
  <2>3. client' \in [Clients -> ClientStates]
    BY <1>6 DEF ReleaseAndStop, TypeOK
  <2>4. JobType' /\ JobOK'
    BY <1>6 DEF ReleaseAndStop, TypeOK, JobOK, Safe, JobType, Purposes
  <2>5. UNCHANGED <<looks, record, gateway, told, forgotten, commands>>
    BY <1>6 DEF ReleaseAndStop
  <2>6. QED BY <2>2, <2>3, <2>4, <2>5 DEF TypeOK
<1>7. CASE ClientCrash(c)
  <2>1. JobType' /\ JobOK'
    BY <1>7 DEF ClientCrash, TypeOK, JobOK, Safe, JobType, NoJob
  <2>2. QED BY <1>7, <2>1 DEF ClientCrash, TypeOK
<1>8. QED BY <1>1, <1>2, <1>3, <1>4, <1>5, <1>6, <1>7, StatusTypes DEF ClientStep

\* The process file and the lease after the cleanup of a shutdown.
LEMMA CleanupTypes ==
  ASSUME TypeOK, Safe, FinishDeadShutdown \/ \E g \in Gateways : Exit(g)
  PROVE  TypeOK' /\ JobType'
<1>1. /\ auto' \in BOOLEAN /\ stopping' \in BOOLEAN /\ (stopping' => auto')
      /\ clients' \subseteq Clients
  BY DEF FinishDeadShutdown, Exit, FinishShutdown, LiveClients, TypeOK
<1>2. record' \in [pid : Gateways \cup {NoGateway}, mode : Modes]
  BY DEF FinishDeadShutdown, Exit, NoRecord, Modes, TypeOK
<1>3. gateway' \in [Gateways -> GatewayStates]
  BY DEF FinishDeadShutdown, Exit, Become, GatewayStates, TypeOK
<1>4. UNCHANGED <<looks, job, client, told, forgotten, commands>>
  BY DEF FinishDeadShutdown, Exit
<1>5. QED BY <1>1, <1>2, <1>3, <1>4 DEF TypeOK, JobOK, Safe, JobType

LEMMA OperatorTypes ==
  ASSUME TypeOK, Safe, OperatorStep \/ \E g \in Gateways : Launch(g)
  PROVE  TypeOK' /\ JobType'
<1>0. LiveClients \subseteq Clients
  BY DEF LiveClients, TypeOK
<1>1. Command => commands' \in 0..MaxCommands
  BY ConstantsAssumption DEF Command, TypeOK
<1>2. CASE StartBackground
  <2>1. /\ auto' \in BOOLEAN /\ stopping' \in BOOLEAN /\ (stopping' => auto')
        /\ clients' \subseteq Clients
    BY <1>0, <1>2, WrittenType DEF StartBackground, TypeOK
  <2>2. record' \in [pid : Gateways \cup {NoGateway}, mode : Modes]
    BY <1>2, RecordType DEF StartBackground, Spawned, SpawnFails, NoRecord, Modes, TypeOK
  <2>3. gateway' \in [Gateways -> GatewayStates]
    BY <1>2 DEF StartBackground, Spawned, SpawnFails, Become, TypeOK, GatewayStates
  <2>4. commands' \in 0..MaxCommands /\ UNCHANGED <<looks, job, client, told, forgotten>>
    BY <1>1, <1>2 DEF StartBackground
  <2>5. QED BY <2>1, <2>2, <2>3, <2>4 DEF TypeOK, JobOK, Safe, JobType
<1>3. CASE BeginStop
  <2>1. JobType' /\ JobOK'
    BY <1>3 DEF BeginStop, TypeOK, JobType, JobOK, Purposes
  <2>2. QED BY <1>1, <1>3, <2>1 DEF BeginStop, TypeOK
<1>4. CASE BeginRestart
  <2>1. JobType' /\ JobOK'
    BY <1>4 DEF BeginRestart, TypeOK, JobType, JobOK, Purposes
  <2>2. client' \in [Clients -> ClientStates]
    BY <1>4 DEF BeginRestart, TypeOK, Move, ClientStates
  <2>3. UNCHANGED <<lease, looks, record, gateway, told, forgotten>>
    BY <1>4 DEF BeginRestart
  <2>4. commands' \in 0..MaxCommands
    BY <1>1, <1>4 DEF BeginRestart
  <2>5. QED BY <2>1, <2>2, <2>3, <2>4 DEF TypeOK
<1>5. CASE OperatorCrash
  <2>1. JobType' /\ JobOK'
    BY <1>5 DEF OperatorCrash, NoJob, JobType, JobOK
  <2>2. QED BY <1>5, <2>1 DEF OperatorCrash, TypeOK
<1>6. ASSUME NEW g \in Gateways, Launch(g)
      PROVE  TypeOK' /\ JobType'
  BY <1>1, <1>6 DEF Launch, Become, TypeOK, JobOK, Safe, JobType, GatewayStates
<1>7. QED BY <1>2, <1>3, <1>4, <1>5, <1>6, StatusTypes DEF OperatorStep

LEMMA JobTypes ==
  ASSUME TypeOK, Safe, JobStep
  PROVE  TypeOK' /\ JobType'
<1>0. JobType /\ LiveClients \subseteq Clients
  BY DEF LiveClients, TypeOK, Safe
<1>1. JobType' => JobOK'
  BY DEF JobType, JobOK
<1>2. CASE Signal \/ VictimGone \/ NothingStopped
  <2>1. JobType'
    BY <1>0, <1>2 DEF Signal, VictimGone, NothingStopped, JobType
  <2>2. record' \in [pid : Gateways \cup {NoGateway}, mode : Modes]
    BY <1>2 DEF Signal, VictimGone, NothingStopped, NoRecord, Modes, TypeOK
  <2>3. told' \subseteq Gateways
    BY <1>2 DEF Signal, VictimGone, NothingStopped, Running, TypeOK
  <2>4. UNCHANGED <<lease, looks, client, gateway, forgotten, commands>>
    BY <1>2 DEF Signal, VictimGone, NothingStopped
  <2>5. QED BY <1>1, <2>1, <2>2, <2>3, <2>4 DEF TypeOK
<1>3. CASE Kill
  BY <1>0, <1>1, <1>3 DEF Kill, Become, TypeOK, JobType, GatewayStates
<1>4. ASSUME NEW state \in ClientStates, Return(state)
      PROVE  JobType' /\ client' \in [Clients -> ClientStates]
  BY <1>4 DEF Return, Move, JobType, NoJob, TypeOK
<1>5. CASE ConcludeStop
  <2>1. JobType' /\ client' \in [Clients -> ClientStates]
    BY <1>4, <1>5 DEF ConcludeStop, ClientStates
  <2>2. /\ auto' \in BOOLEAN /\ stopping' \in BOOLEAN /\ (stopping' => auto')
        /\ clients' \subseteq Clients /\ forgotten' \subseteq Clients
    BY <1>0, <1>5 DEF ConcludeStop, ClearLease, TypeOK
  <2>3. QED BY <1>1, <1>5, <2>1, <2>2 DEF ConcludeStop, TypeOK
<1>6. CASE ConcludeRelease
  <2>1. JobType' /\ client' \in [Clients -> ClientStates]
    BY <1>4, <1>6 DEF ConcludeRelease, ClientStates
  <2>2. /\ auto' \in BOOLEAN /\ stopping' \in BOOLEAN /\ (stopping' => auto')
        /\ clients' \subseteq Clients
    BY <1>0, <1>6, WrittenType DEF ConcludeRelease, ClearLease, TypeOK
  <2>3. QED BY <1>1, <1>6, <2>1, <2>2 DEF ConcludeRelease, TypeOK
<1>7. CASE ConcludeRestart
  <2>1. JobType' /\ client' \in [Clients -> ClientStates]
    BY <1>4, <1>7 DEF ConcludeRestart, ClientStates
  <2>2. record' \in [pid : Gateways \cup {NoGateway}, mode : Modes]
    BY <1>7, RecordType DEF ConcludeRestart, Spawned, SpawnFails, NoRecord, Modes, TypeOK
  <2>3. gateway' \in [Gateways -> GatewayStates]
    BY <1>7 DEF ConcludeRestart, Spawned, SpawnFails, Become, TypeOK, GatewayStates
  <2>4. UNCHANGED <<lease, looks, told, forgotten, commands>>
    BY <1>7 DEF ConcludeRestart
  <2>5. QED BY <1>1, <2>1, <2>2, <2>3, <2>4 DEF TypeOK
<1>8. QED BY <1>2, <1>3, <1>5, <1>6, <1>7 DEF JobStep

LEMMA GatewayTypes ==
  ASSUME TypeOK, Safe, NEW g \in Gateways, GatewayStep(g)
  PROVE  TypeOK' /\ JobType'
<1>0. LiveClients \subseteq Clients /\ {} \subseteq Clients
  BY DEF LiveClients, TypeOK
<1>1. CASE Claim(g)
  <2>1. /\ auto' \in BOOLEAN /\ stopping' \in BOOLEAN /\ (stopping' => auto')
        /\ clients' \subseteq Clients
    <3>1. UNCHANGED lease \/ (~stopping /\ WriteLease(FALSE, stopping, LiveClients))
      BY <1>1 DEF Claim
    <3>2. CASE UNCHANGED lease
      BY <3>2 DEF TypeOK
    <3>3. CASE ~stopping /\ WriteLease(FALSE, stopping, LiveClients)
      BY <1>0, <3>3, WrittenType DEF TypeOK
    <3>4. QED BY <3>1, <3>2, <3>3
  <2>2. record' \in [pid : Gateways \cup {NoGateway}, mode : Modes]
    <3>1. [pid |-> g, mode |-> "foreground"] \in [pid : Gateways \cup {NoGateway}, mode : Modes]
      BY DEF Modes
    <3>2. QED BY <1>1, <3>1 DEF Claim, TypeOK
  <2>3. gateway' \in [Gateways -> GatewayStates]
    BY <1>1 DEF Claim, Become, TypeOK, GatewayStates
  <2>4. UNCHANGED <<looks, job, client, told, forgotten, commands>>
    BY <1>1 DEF Claim
  <2>5. QED BY <2>1, <2>2, <2>3, <2>4 DEF TypeOK, JobOK, Safe, JobType
<1>2. CASE MonitorPolls(g)
  <2>1. /\ auto' \in BOOLEAN /\ stopping' \in BOOLEAN /\ (stopping' => auto')
        /\ clients' \subseteq Clients
    BY <1>0, <1>2 DEF MonitorPolls, WriteLease, TypeOK
  <2>2. gateway' \in [Gateways -> GatewayStates]
    BY <1>2 DEF MonitorPolls, Become, TypeOK, GatewayStates
  <2>3. UNCHANGED <<looks, record, job, client, told, forgotten, commands>>
    BY <1>2 DEF MonitorPolls
  <2>4. QED BY <2>1, <2>2, <2>3 DEF TypeOK, JobOK, Safe, JobType
<1>3. CASE ClaimFails(g) \/ MonitorBlocks(g) \/ TakesSignal(g) \/ Interrupt(g) \/ GatewayCrash(g)
  BY <1>3 DEF ClaimFails, MonitorBlocks, TakesSignal, Interrupt, GatewayCrash, Become, TypeOK,
              JobOK, Safe, JobType, GatewayStates
<1>4. QED BY <1>1, <1>2, <1>3, CleanupTypes, OperatorTypes DEF GatewayStep

LEMMA StepTypes == TypeOK /\ Safe /\ [Next]_vars => TypeOK' /\ JobType'
<1> SUFFICES ASSUME TypeOK, Safe, [Next]_vars PROVE TypeOK' /\ JobType'
  OBVIOUS
<1>1. CASE UNCHANGED vars
  BY <1>1 DEF TypeOK, JobOK, Safe, JobType
<1>2. QED BY <1>1, ClientTypes, CleanupTypes, OperatorTypes, JobTypes, GatewayTypes DEF Next

-----------------------------------------------------------------------------
(* One recorded gateway.                                                     *)

\* With the process file empty or naming a dead process, the gateways that serve are
\* those whose record a lockless status() removed.
NoneServes == \A g \in Gateways : gateway[g] \in AtWork => g \in unlinked

LEMMA NotRunning ==
  ASSUME ServingIsRecorded, \/ ~Running
                            \/ record.pid = NoGateway
                            \/ ~Alive(record.pid)
  PROVE  NoneServes
BY ConstantsAssumption DEF NoneServes, ServingIsRecorded, Running, Alive, AtWork

\* A step that starts to serve no gateway, and leaves the process file alone or
\* clears the record of a gateway that is no longer serving.
LEMMA RecordedKept ==
  ASSUME ServingIsRecorded, unlinked \subseteq unlinked',
         \A g \in Gateways : gateway'[g] \in AtWork => gateway[g] \in AtWork,
         \A g \in Gateways : gateway'[g] \in AtWork =>
                               record'.pid = record.pid \/ g \in unlinked'
  PROVE  ServingIsRecorded'
BY DEF ServingIsRecorded

\* A step that leaves the stop in progress alone replaces no record but by none.
LEMMA VictimKept ==
  ASSUME VictimRecorded, job' = job,
         record'.pid \in {record.pid, NoGateway} \/ TransitionFree
  PROVE  VictimRecorded'
BY DEF VictimRecorded, TransitionFree, NoJob

\* A lockless status() removes a record in two cases: nothing serves under it, or the
\* gateway that does counts as unlinked from now on.
LEMMA StatusRecorded ==
  ASSUME TypeOK, Safe, NEW p \in Clients \cup {Operator},
         ReadRecord(p) \/ FindsRunning(p) \/ FindsStale(p)
  PROVE  ServingIsRecorded' /\ VictimRecorded'
<1>0. ServingIsRecorded /\ VictimRecorded /\ job' = job /\ gateway' = gateway
  BY DEF Safe, ReadRecord, FindsRunning, FindsStale
<1>1. CASE FindsStale(p)
  <2>1. /\ record'.pid = NoGateway
        /\ unlinked' = unlinked \cup {g \in Gateways : g = record.pid /\ gateway[g] \in AtWork}
    BY <1>1 DEF FindsStale, NoRecord
  <2>2. ServingIsRecorded'
    BY <1>0, <2>1 DEF ServingIsRecorded
  <2>3. QED BY <1>0, <2>1, <2>2, VictimKept
<1>2. CASE ReadRecord(p) \/ FindsRunning(p)
  <2>1. UNCHANGED <<record, unlinked>>
    BY <1>2 DEF ReadRecord, FindsRunning
  <2>2. QED BY <1>0, <2>1, VictimKept DEF ServingIsRecorded
<1>3. QED BY <1>1, <1>2

LEMMA StepRecorded == TypeOK /\ Safe /\ [Next]_vars => ServingIsRecorded' /\ VictimRecorded'
<1> SUFFICES ASSUME TypeOK, Safe, [Next]_vars PROVE ServingIsRecorded' /\ VictimRecorded'
  OBVIOUS
<1>0. /\ JobType /\ VictimRecorded /\ ServingIsRecorded
      /\ gateway \in [Gateways -> GatewayStates]
      /\ record \in [pid : Gateways \cup {NoGateway}, mode : Modes]
      /\ NoJob.phase = "idle" /\ NoRecord.pid = NoGateway
  BY DEF Safe, TypeOK, NoJob, NoRecord
<1>1. CASE UNCHANGED <<record, job, gateway, unlinked>>
  BY <1>0, <1>1 DEF ServingIsRecorded, VictimRecorded
<1>2. ASSUME NEW g \in Gateways, Spawned(g), ~Running \/ record.pid = NoGateway,
             unlinked' = unlinked
      PROVE  ServingIsRecorded'
  <2>1. NoneServes
    BY <1>0, <1>2, NotRunning
  <2>2. \A h \in Gateways : gateway'[h] \in AtWork => gateway[h] \in AtWork
    BY <1>0, <1>2 DEF Spawned, Become, AtWork
  <2>3. QED BY <1>2, <2>1, <2>2 DEF NoneServes, ServingIsRecorded
<1>3. ASSUME SpawnFails, ~Running \/ record.pid = NoGateway, unlinked' = unlinked
      PROVE  ServingIsRecorded'
  <2>1. NoneServes
    BY <1>0, <1>3, NotRunning
  <2>2. QED BY <1>3, <2>1 DEF SpawnFails, NoneServes, ServingIsRecorded
<1>4. ASSUME NEW c \in Clients, ClientStep(c)
      PROVE  ServingIsRecorded' /\ VictimRecorded'
  <2>1. CASE StartOnDemand(c)
    <3>1. VictimRecorded'
      BY <1>0, <2>1, VictimKept DEF StartOnDemand
    <3>2. ServingIsRecorded'
      <4>1. CASE SpawnFails \/ \E g \in Gateways : Spawned(g)
        BY <1>2, <1>3, <2>1, <4>1 DEF StartOnDemand
      <4>2. CASE record' = NoRecord /\ \E g \in Gateways : gateway[g] = "unborn" /\ Become(g, "spawned")
        <5>1. NoneServes /\ unlinked' = unlinked
          BY <1>0, <2>1, NotRunning DEF StartOnDemand
        <5>2. \A h \in Gateways : gateway'[h] \in AtWork => gateway[h] \in AtWork
          BY <1>0, <4>2 DEF Become, AtWork
        <5>3. QED BY <5>1, <5>2 DEF NoneServes, ServingIsRecorded
      <4>3. QED BY <2>1, <4>1, <4>2 DEF StartOnDemand
    <3>3. QED BY <3>1, <3>2
  <2>2. CASE ReleaseAndStop(c) \/ ClientCrash(c)
    <3>1. ServingIsRecorded'
      BY <1>0, <2>2 DEF ReleaseAndStop, ClientCrash, ServingIsRecorded
    <3>2. CASE job' = job
      BY <1>0, <2>2, <3>1, <3>2, VictimKept DEF ReleaseAndStop, ClientCrash
    <3>3. CASE job' # job
      <4>1. \/ job'.phase = "idle"
            \/ job'.phase = "called" /\ job'.victim = record.pid /\ record' = record
        BY <1>0, <2>2, <3>3 DEF ReleaseAndStop, ClientCrash
      <4>2. QED BY <3>1, <4>1 DEF VictimRecorded
    <3>4. QED BY <3>1, <3>2, <3>3
  <2>3. CASE ReadRecord(c) \/ FindsRunning(c) \/ FindsStale(c)
    BY <2>3, StatusRecorded
  <2>4. QED BY <1>1, <1>4, <2>1, <2>2, <2>3
            DEF ClientStep, Acquire, Fail, Leave, Detach, Release, WaitFails
<1>5. CASE FinishDeadShutdown
  <2>1. NoneServes
    BY <1>0, <1>5, NotRunning DEF FinishDeadShutdown
  <2>2. QED BY <1>0, <1>5, <2>1, VictimKept DEF FinishDeadShutdown, NoneServes, ServingIsRecorded
<1>6. CASE OperatorStep
  <2>1. CASE StartBackground
    BY <1>0, <1>2, <1>3, <2>1, VictimKept DEF StartBackground, ServingIsRecorded
  <2>2. CASE BeginStop \/ BeginRestart \/ OperatorCrash
    <3>1. UNCHANGED <<record, gateway, unlinked>>
      BY <2>2 DEF BeginStop, BeginRestart, OperatorCrash
    <3>2. \/ job'.phase = "idle"
          \/ job'.phase = "called" /\ job'.victim = record.pid
      BY <1>0, <2>2 DEF BeginStop, BeginRestart, OperatorCrash
    <3>3. QED BY <1>0, <3>1, <3>2 DEF ServingIsRecorded, VictimRecorded
  <2>3. QED BY <1>6, <2>1, <2>2, StatusRecorded DEF OperatorStep
<1>7. CASE JobStep
  <2>1. CASE Signal \/ NothingStopped
    <3>1. \/ record' = record
          \/ record' = NoRecord /\ ~Running /\ job'.phase = "absent"
      BY <1>0, <2>1 DEF Signal, NothingStopped, JobType
    <3>2. gateway' = gateway /\ job'.phase # "stopped" /\ unlinked' = unlinked
      BY <1>0, <2>1 DEF Signal, NothingStopped, JobType
    <3>3. job'.phase = "told" => job'.victim = job.victim /\ job.phase = "called"
      BY <1>0, <2>1 DEF Signal, NothingStopped, JobType
    <3>4. job'.phase # "called"
      BY <1>0, <2>1 DEF Signal, NothingStopped, JobType
    <3>5. VictimRecorded'
      BY <1>0, <3>1, <3>2, <3>3, <3>4 DEF VictimRecorded
    <3>6. ServingIsRecorded'
      BY <1>0, <3>1, <3>2, NotRunning DEF NoneServes, ServingIsRecorded
    <3>7. QED BY <3>5, <3>6
  <2>2. CASE Kill
    <3>1. \A g \in Gateways : gateway'[g] \in {gateway[g], "dead"}
      BY <1>0, <2>2 DEF Kill, Become
    <3>2. QED BY <1>0, <2>2, <3>1, RecordedKept, VictimKept DEF Kill, AtWork
  <2>3. CASE VictimGone
    <3>1. record.pid = NoGateway \/ ~Alive(record.pid)
      BY <1>0, <2>3 DEF VictimGone, VictimRecorded
    <3>2. NoneServes
      BY <1>0, <3>1, NotRunning
    <3>3. /\ job'.phase = "stopped" /\ record' = NoRecord
          /\ gateway' = gateway /\ unlinked' = unlinked
      BY <1>0, <2>3 DEF VictimGone, JobType
    <3>4. QED BY <1>0, <3>2, <3>3 DEF NoneServes, ServingIsRecorded, VictimRecorded
  <2>4. CASE ConcludeStop \/ ConcludeRelease \/ ConcludeRestart
    <3>1. job' = NoJob /\ unlinked' = unlinked
      BY <2>4 DEF ConcludeStop, ConcludeRelease, ConcludeRestart, Return
    <3>2. VictimRecorded'
      BY <1>0, <3>1 DEF VictimRecorded
    <3>3. CASE UNCHANGED <<record, gateway>>
      BY <1>0, <3>1, <3>2, <3>3 DEF ServingIsRecorded
    <3>4. CASE ConcludeRestart /\ ~UNCHANGED <<record, gateway>>
      <4>1. record.pid = NoGateway
        BY <1>0, <3>4 DEF ConcludeRestart, VictimRecorded
      <4>2. QED BY <1>2, <1>3, <3>1, <3>2, <3>4, <4>1 DEF ConcludeRestart
    <3>5. QED BY <2>4, <3>2, <3>3, <3>4 DEF ConcludeStop, ConcludeRelease
  <2>5. QED BY <1>7, <2>1, <2>2, <2>3, <2>4 DEF JobStep
<1>8. ASSUME NEW g \in Gateways, GatewayStep(g)
      PROVE  ServingIsRecorded' /\ VictimRecorded'
  <2>0. job' = job /\ unlinked' = unlinked /\ \A h \in Gateways \ {g} : gateway'[h] = gateway[h]
    BY <1>0, <1>8 DEF GatewayStep, Launch, Claim, ClaimFails, MonitorPolls, MonitorBlocks,
                     TakesSignal, Interrupt, Exit, GatewayCrash, Become
  <2>1. CASE Claim(g)
    <3>1. TransitionFree
      BY <2>1 DEF Claim
    <3>2. VictimRecorded'
      BY <1>0, <2>0, <3>1, VictimKept
    <3>3. CASE Become(g, "dead") /\ record' = record
      <4>1. gateway'[g] = "dead"
        BY <1>0, <3>3 DEF Become
      <4>2. QED BY <1>0, <2>0, <3>2, <3>3, <4>1 DEF ServingIsRecorded, AtWork
    <3>4. CASE (~Running \/ record.pid = g) /\ record'.pid = g
      <4>1. \A h \in Gateways \ {g} : gateway[h] \in AtWork => h \in unlinked
        BY <1>0, <3>4, NotRunning DEF NoneServes, ServingIsRecorded
      <4>2. QED BY <2>0, <3>2, <3>4, <4>1 DEF ServingIsRecorded
    <3>5. CASE ~Running \/ record.pid = g
      <4>1. CASE record' = [pid |-> g, mode |-> "foreground"]
        BY <3>4, <3>5, <4>1
      <4>2. CASE record.pid = g /\ record' = record
        BY <3>4, <4>2
      <4>3. QED BY <2>1, <3>3, <3>5, <4>1, <4>2 DEF Claim
    <3>6. QED BY <2>1, <3>3, <3>5 DEF Claim
  <2>2. CASE Exit(g)
    <3>1. gateway'[g] = "dead" /\ record' = IF record.pid = g THEN NoRecord ELSE record
      BY <1>0, <2>2 DEF Exit, Become
    <3>2. VictimRecorded'
      BY <1>0, <2>0, <3>1, VictimKept
    <3>3. QED BY <1>0, <2>0, <3>1, <3>2 DEF ServingIsRecorded, AtWork
  <2>3. CASE ~Claim(g) /\ ~Exit(g)
    <3>1. record' = record
      BY <1>8, <2>3 DEF GatewayStep, Launch, ClaimFails, MonitorPolls, MonitorBlocks,
                       TakesSignal, Interrupt, GatewayCrash
    <3>2. \/ gateway'[g] \in {"spawned", "dead"}
          \/ gateway[g] \in {"serving", "blocked"}
      BY <1>0, <1>8, <2>3 DEF GatewayStep, Launch, ClaimFails, MonitorPolls, MonitorBlocks,
                             TakesSignal, Interrupt, GatewayCrash, Become
    <3>3. VictimRecorded'
      BY <1>0, <2>0, <3>1, VictimKept
    <3>4. QED BY <1>0, <2>0, <3>1, <3>2, <3>3, RecordedKept DEF AtWork
  <2>4. QED BY <2>1, <2>2, <2>3
<1>9. CASE UNCHANGED vars
  BY <1>1, <1>9
<1>10. QED BY <1>4, <1>5, <1>6, <1>7, <1>8, <1>9 DEF Next

LEMMA SafeAlways == Spec => [](TypeOK /\ Safe)
<1>1. Init => TypeOK /\ Safe
  BY InitSafe
<1>2. TypeOK /\ Safe /\ [Next]_vars => TypeOK' /\ Safe'
  BY StepTypes, StepRecorded DEF Safe
<1>3. QED BY <1>1, <1>2, PTL DEF Spec

\* Every variable keeps its type and an orphan shutdown is only committed for an
\* on-demand gateway, for any clients, gateways and number of commands.
THEOREM TypeCorrect == Spec => []TypeOK
BY SafeAlways, PTL

\* However many gateways are started and by whomever, one that serves is the one the
\* process file names, unless a status() without a lock, having read the record of a
\* gateway that died, removed the record of this one.  No other step of any process
\* lets a second gateway serve.
THEOREM OneGatewayServes == Spec => []ServingIsRecorded
<1>1. Safe => ServingIsRecorded
  BY DEF Safe
<1>2. QED BY <1>1, SafeAlways, PTL

-----------------------------------------------------------------------------
(* Leases are kept.                                                          *)

HeldStates == {"held", "attached", "failing", "leaving"}

\* A step that loses no registered live client and gives nobody a lease.
LEMMA LeasesStay ==
  ASSUME LeaseKept,
         \A c \in Clients : client'[c] \in HeldStates =>
           client[c] \in HeldStates /\ (c \in clients => c \in clients' \cup forgotten'),
         forgotten \subseteq forgotten'
  PROVE  LeaseKept'
BY DEF LeaseKept, HeldStates

\* A step that leaves the stop in progress and its client alone.
LEMMA HolderStays ==
  ASSUME JobHolder, JobType, job' = job, forgotten \subseteq forgotten',
         \A c \in Clients : client[c] = "stopping" =>
           client'[c] = "stopping" /\ (c \in clients => c \in clients'),
         job.purpose = "release" => clients' = {}
  PROVE  JobHolder'
BY DEF JobHolder, JobType

\* Pruning drops the dead only.
LEMMA Pruned ==
  ASSUME NEW c \in clients, client[c] # "gone"
  PROVE  c \in LiveClients
BY DEF LiveClients

\* A status() without a lock registers and releases nobody.
StatusOf(p) == ReadRecord(p) \/ FindsRunning(p) \/ FindsStale(p)

LEMMA StatusKept ==
  ASSUME TypeOK, Safe, Kept, NEW p \in Clients \cup {Operator}, StatusOf(p)
  PROVE  Kept'
<1>0. /\ JobType /\ JobHolder /\ LeaseKept /\ client \in [Clients -> ClientStates]
  BY DEF Safe, Kept, TypeOK
<1>1. UNCHANGED <<clients, forgotten, job>>
  BY DEF StatusOf, ReadRecord, FindsRunning, FindsStale
<1>2. \A c \in Clients : /\ client[c] = "stopping" => client'[c] = "stopping"
                         /\ client'[c] \in HeldStates => client[c] \in HeldStates
  BY <1>0 DEF StatusOf, ReadRecord, FindsRunning, FindsStale, HeldStates
<1>3. LeaseKept'
  BY <1>0, <1>1, <1>2, LeasesStay
<1>4. job.purpose = "release" => clients' = {}
  BY <1>0, <1>1 DEF JobHolder
<1>5. JobHolder'
  BY <1>0, <1>1, <1>2, <1>4, HolderStays
<1>6. QED BY <1>3, <1>5 DEF Kept

LEMMA ClientKept ==
  ASSUME TypeOK, Safe, Kept, NEW c \in Clients, ClientStep(c)
  PROVE  Kept'
<1> SUFFICES ASSUME ~StatusOf(c) PROVE Kept'
  BY StatusKept
<1> USE DEF StatusOf, At
<1>0. /\ JobType /\ JobHolder /\ LeaseKept /\ client \in [Clients -> ClientStates]
      /\ clients \subseteq Clients /\ NoJob.purpose = "none" /\ LiveClients \subseteq Clients
  BY DEF Safe, Kept, TypeOK, NoJob, LiveClients
<1>1. \A d \in Clients \ {c} : client'[d] = client[d]
  BY <1>0 DEF ClientStep, Acquire, StartOnDemand, Fail, Leave, Detach, Release,
              ReleaseAndStop, WaitFails, ClientCrash, Move
<1>2. forgotten' = forgotten
  BY DEF ClientStep, Acquire, StartOnDemand, Fail, Leave, Detach, Release,
         ReleaseAndStop, WaitFails, ClientCrash
<1>3. CASE ClientCrash(c)
  <2>1. client'[c] = "gone" /\ clients' = clients /\ job' = IF job.by = c THEN NoJob ELSE job
    BY <1>0, <1>3 DEF ClientCrash, Move
  <2>2. LeaseKept'
    BY <1>0, <1>1, <1>2, <2>1, LeasesStay DEF HeldStates
  <2>3. CASE job' = job /\ job.by # c
    BY <1>0, <1>1, <1>2, <2>1, <2>2, <2>3 DEF JobHolder, Kept
  <2>4. CASE job' = NoJob
    BY <1>0, <2>2, <2>4 DEF JobHolder, Kept
  <2>5. QED BY <2>1, <2>3, <2>4
<1>4. CASE ~ClientCrash(c)
  <2>0. client[c] \notin {"stopping", "gone"}
    BY <1>4 DEF ClientStep, Acquire, StartOnDemand, Fail, Leave, Detach, Release,
         ReleaseAndStop, WaitFails
  <2>1. \A d \in clients \ {c} : client[d] # "gone" => d \in clients'
    <3>1. clients' = clients \/ LiveClients \ {c} \subseteq clients'
      BY <1>4 DEF ClientStep, Acquire, StartOnDemand, Fail, Leave, Detach, Release,
           ReleaseAndStop, WaitFails, WriteLease
    <3>2. QED BY <3>1, Pruned
  <2>2. client'[c] \in HeldStates => c \in clients' \cup forgotten
    <3>1. CASE Acquire(c)
      BY <3>1 DEF Acquire, WriteLease
    <3>2. CASE Release(c) \/ ReleaseAndStop(c)
      BY <1>0, <3>2 DEF Release, ReleaseAndStop, Move, HeldStates
    <3>3. CASE StartOnDemand(c) \/ Fail(c) \/ Leave(c) \/ Detach(c) \/ WaitFails(c)
      <4>1. clients' = clients \/ clients' = LiveClients
        BY <3>3 DEF StartOnDemand, Fail, Leave, Detach, WaitFails, WriteLease
      <4>2. client'[c] \in HeldStates => client[c] \in HeldStates
        BY <1>0, <3>3 DEF StartOnDemand, Fail, Leave, Detach, WaitFails, HeldStates, Move
      <4>3. client[c] \in HeldStates => c \in clients \cup forgotten
        BY <1>0 DEF LeaseKept, HeldStates
      <4>4. QED BY <2>0, <4>1, <4>2, <4>3, Pruned
    <3>4. QED BY <1>4, <3>1, <3>2, <3>3 DEF ClientStep
  <2>3. LeaseKept'
    <3>1. ASSUME NEW d \in Clients, client'[d] \in HeldStates
          PROVE  d \in clients' \cup forgotten'
      <4>1. CASE d = c
        BY <1>2, <2>2, <3>1, <4>1
      <4>2. CASE d # c
        BY <1>0, <1>1, <1>2, <2>1, <3>1, <4>2 DEF LeaseKept, HeldStates
      <4>3. QED BY <4>1, <4>2
    <3>2. QED BY <3>1 DEF LeaseKept, HeldStates
  <2>4. CASE job' = job
    <3>1. job.purpose = "release" => clients' = {}
      <4>1. TransitionFree \/ clients' = clients
        BY <1>4 DEF ClientStep, Acquire, StartOnDemand, Fail, Leave, Detach, Release,
             ReleaseAndStop, WaitFails
      <4>2. QED BY <1>0, <4>1 DEF TransitionFree, JobHolder
    <3>2. \A d \in Clients : client[d] = "stopping" =>
            client'[d] = "stopping" /\ (d \in clients => d \in clients')
      BY <1>1, <2>0, <2>1
    <3>3. QED BY <1>0, <1>2, <2>3, <2>4, <3>1, <3>2, HolderStays DEF Kept
  <2>5. CASE job' # job
    <3>1. ReleaseAndStop(c)
      BY <1>4, <2>5 DEF ClientStep, Acquire, StartOnDemand, Fail, Leave, Detach,
                        Release, WaitFails
    <3>2. job'.purpose = "release" /\ clients' = {}
      BY <2>5, <3>1 DEF ReleaseAndStop, WriteLease
    <3>3. QED BY <2>3, <3>2 DEF JobHolder, Kept
  <2>6. QED BY <2>4, <2>5
<1>5. QED BY <1>3, <1>4

\* Everything but a client's own step and the end of a stop.
LEMMA OthersKept ==
  ASSUME TypeOK, Safe, Kept, client' = client, job' = job, forgotten' = forgotten,
         \/ clients' = clients
         \/ clients' = LiveClients
         \/ TransitionFree /\ \A c \in clients : client[c] # "gone" => c \in clients'
  PROVE  Kept'
<1>0. /\ JobType /\ JobHolder /\ LeaseKept /\ NoJob.purpose = "none"
  BY DEF Safe, Kept, NoJob
<1>1. \A c \in clients : client[c] # "gone" => c \in clients'
  BY Pruned
<1>2. LeaseKept'
  BY <1>0, <1>1, LeasesStay DEF HeldStates
<1>3. job.purpose = "release" => clients' = {}
  BY <1>0 DEF JobHolder, TransitionFree, LiveClients
<1>4. JobHolder'
  BY <1>0, <1>1, <1>3, HolderStays
<1>5. QED BY <1>2, <1>4 DEF Kept

LEMMA StopKept ==
  ASSUME TypeOK, Safe, Kept, ConcludeStop \/ ConcludeRelease \/ ConcludeRestart
  PROVE  Kept'
<1>0. /\ JobType /\ JobHolder /\ LeaseKept /\ client \in [Clients -> ClientStates]
      /\ NoJob.purpose = "none"
  BY DEF Safe, Kept, TypeOK, NoJob
<1>1. job' = NoJob
  BY DEF ConcludeStop, ConcludeRelease, ConcludeRestart, Return
<1>2. JobHolder'
  BY <1>0, <1>1 DEF JobHolder
<1>3. CASE ConcludeStop
  <2>1. \A c \in Clients : client'[c] = client[c] \/ client'[c] = "gone"
    BY <1>0, <1>3 DEF ConcludeStop, Return, Move
  <2>2. \/ clients' = clients /\ forgotten' = forgotten
        \/ forgotten' = forgotten \cup LiveClients
    BY <1>3 DEF ConcludeStop
  <2>3. \A c \in Clients : client'[c] \in HeldStates =>
          client[c] \in HeldStates /\ (c \in clients => c \in clients' \cup forgotten')
    BY <2>1, <2>2, Pruned DEF HeldStates
  <2>4. LeaseKept'
    BY <1>0, <2>2, <2>3, LeasesStay
  <2>5. QED BY <1>2, <2>4 DEF Kept
<1>4. CASE ConcludeRelease
  <2>1. \A c \in Clients : client'[c] = client[c] \/ client'[c] = "gone"
    BY <1>0, <1>4 DEF ConcludeRelease, Return, Move
  <2>2. clients = {} /\ forgotten' = forgotten
    BY <1>0, <1>4 DEF ConcludeRelease, JobHolder
  <2>3. LeaseKept'
    BY <1>0, <2>1, <2>2, LeasesStay DEF HeldStates
  <2>4. QED BY <1>2, <2>3 DEF Kept
<1>5. CASE ConcludeRestart
  <2>1. UNCHANGED <<clients, forgotten>> /\ job.purpose = "restart"
    BY <1>5 DEF ConcludeRestart
  <2>2. \A c \in Clients : c # job.by => client'[c] = client[c]
    BY <1>0, <1>5 DEF ConcludeRestart, Return, Move
  <2>3. job.by \in Clients => job.by \in clients \cup forgotten
    BY <1>0, <2>1 DEF JobHolder
  <2>4. LeaseKept'
    BY <1>0, <2>1, <2>2, <2>3 DEF LeaseKept
  <2>5. QED BY <1>2, <2>4 DEF Kept
<1>6. QED BY <1>3, <1>4, <1>5

LEMMA StepKept == TypeOK /\ Safe /\ Kept /\ [Next]_vars => Kept'
<1> SUFFICES ASSUME TypeOK, Safe, Kept, [Next]_vars PROVE Kept'
  OBVIOUS
<1>0. /\ JobType /\ JobHolder /\ LeaseKept /\ client \in [Clients -> ClientStates]
      /\ NoJob.purpose = "none"
  BY DEF Safe, Kept, TypeOK, NoJob
<1>1. CASE FinishDeadShutdown
  BY <1>1, OthersKept DEF FinishDeadShutdown, FinishShutdown
<1>2. CASE OperatorStep
  <2>1. CASE StartBackground
    BY <2>1, OthersKept DEF StartBackground, WriteLease
  <2>2. CASE BeginStop \/ OperatorCrash
    <3>1. UNCHANGED <<clients, client, forgotten>> /\ job'.purpose \in {"stop", "none"}
      BY <1>0, <2>2 DEF BeginStop, OperatorCrash
    <3>2. QED BY <1>0, <3>1 DEF Kept, LeaseKept, JobHolder
  <2>3. CASE BeginRestart
    <3>1. UNCHANGED <<clients, forgotten>> /\ job'.purpose = "restart"
      BY <2>3 DEF BeginRestart
    <3>2. /\ \A c \in Clients : client'[c] = client[c] \/ client'[c] = "stopping"
          /\ job'.by \in Clients => client[job'.by] = "held" /\ client'[job'.by] = "stopping"
      BY <1>0, <2>3, ConstantsAssumption DEF BeginRestart, At, Move
    <3>3. LeaseKept'
      BY <1>0, <3>1, <3>2 DEF LeaseKept
    <3>4. JobHolder'
      BY <1>0, <3>1, <3>2 DEF LeaseKept, JobHolder
    <3>5. QED BY <3>3, <3>4 DEF Kept
  <2>4. QED BY <1>2, <2>1, <2>2, <2>3, StatusKept DEF OperatorStep, StatusOf
<1>3. CASE JobStep
  <2>1. CASE Kill
    BY <2>1, OthersKept DEF Kill
  <2>2. CASE Signal \/ VictimGone \/ NothingStopped
    <3>1. /\ UNCHANGED <<clients, client, forgotten>>
          /\ job'.purpose = job.purpose /\ job'.by = job.by
      BY <1>0, <2>2 DEF Signal, VictimGone, NothingStopped, JobType
    <3>2. QED BY <1>0, <3>1 DEF Kept, LeaseKept, JobHolder
  <2>3. QED BY <1>3, <2>1, <2>2, StopKept DEF JobStep
<1>4. ASSUME NEW g \in Gateways, GatewayStep(g)
      PROVE  Kept'
  <2>1. UNCHANGED <<client, job, forgotten>>
    BY <1>4 DEF GatewayStep, Launch, Claim, ClaimFails, MonitorPolls, MonitorBlocks, TakesSignal,
                Interrupt, Exit, GatewayCrash
  <2>2. clients' = clients \/ clients' = LiveClients
    BY <1>4 DEF GatewayStep, Launch, Claim, ClaimFails, MonitorPolls, MonitorBlocks, TakesSignal,
                Interrupt, Exit, GatewayCrash, FinishShutdown, WriteLease
  <2>3. QED BY <2>1, <2>2, OthersKept
<1>5. CASE UNCHANGED vars
  BY <1>5, OthersKept
<1>6. QED BY <1>1, <1>2, <1>3, <1>4, <1>5, ClientKept DEF Next

LEMMA KeptAlways == Spec => [](TypeOK /\ Safe /\ Kept)
<1>1. Init => Kept
  BY InitSafe
<1>2. TypeOK /\ Safe /\ Kept /\ [Next]_vars => Kept'
  BY StepKept
<1>3. QED BY <1>1, <1>2, SafeAlways, PTL DEF Spec

\* Whoever stops, restarts or crashes a gateway, a client that has not released its
\* lease stays registered, unless an explicit stop discarded the lease.
THEOREM LeasesKept == Spec => []LeaseKept
<1>1. Kept => LeaseKept
  BY DEF Kept
<1>2. QED BY <1>1, KeptAlways, PTL

-----------------------------------------------------------------------------
(* The leases implement the shared gateway.                                  *)

\* What a step of the gateway is to the shared gateway that is not a Join, a Close,
\* a Reopen or a Forget: one user leaves, or nothing happens.
Departs(c) == LiveClients' = LiveClients \ {c} /\ stopping' = stopping
Stutters == LiveClients' = LiveClients /\ stopping' = stopping

LEMMA MapsToLeave ==
  ASSUME NEW c \in Clients, Departs(c) \/ Stutters
  PROVE  [Shared!Next]_(Shared!vars)
<1>1. CASE Stutters \/ c \notin LiveClients
  <2>1. LiveClients' = LiveClients /\ stopping' = stopping
    BY <1>1 DEF Departs, Stutters
  <2>2. QED BY <2>1 DEF Shared!vars
<1>2. CASE Departs(c) /\ c \in LiveClients
  <2>1. Shared!Leave(c)
    BY <1>2 DEF Departs, Shared!Leave
  <2>2. QED BY <2>1 DEF Shared!Next
<1>3. QED BY <1>1, <1>2

LEMMA MapsToStutter ==
  ASSUME Stutters
  PROVE  [Shared!Next]_(Shared!vars)
BY DEF Stutters, Shared!vars

\* Writing the lease of the live clients changes neither them nor the commitment.
LEMMA RewrittenUsers ==
  ASSUME TypeOK, clients' \in {clients, LiveClients},
         \A c \in Clients : client'[c] = "gone" <=> client[c] = "gone"
  PROVE  LiveClients' = LiveClients
BY DEF LiveClients, TypeOK

\* One client leaves: it unregisters or it dies.
LEMMA OneLeaves ==
  ASSUME TypeOK, NEW c \in Clients,
         \A d \in Clients \ {c} : client'[d] = client[d],
         \/ clients' = LiveClients \ {c}
         \/ clients' \in {clients, LiveClients} /\ client'[c] = "gone"
  PROVE  LiveClients' = LiveClients \ {c}
BY DEF LiveClients, TypeOK

LEMMA CommitmentKept ==
  ASSUME TypeOK, NEW a \in BOOLEAN, NEW cs, WriteLease(a, stopping, cs),
         stopping => a
  PROVE  stopping' = stopping
BY DEF WriteLease, TypeOK

LEMMA StatusMaps ==
  ASSUME TypeOK, NEW p \in Clients \cup {Operator}, StatusOf(p)
  PROVE  [Shared!Next]_(Shared!vars)
<1>1. UNCHANGED lease
  BY DEF StatusOf, ReadRecord, FindsRunning, FindsStale
<1>2. \A c \in Clients : client'[c] = "gone" <=> client[c] = "gone"
  BY DEF StatusOf, ReadRecord, FindsRunning, FindsStale, TypeOK
<1>3. QED BY <1>1, <1>2, RewrittenUsers, MapsToStutter DEF Stutters

LEMMA ClientMaps ==
  ASSUME TypeOK, Safe, NEW c \in Clients, ClientStep(c)
  PROVE  [Shared!Next]_(Shared!vars)
<1> SUFFICES ASSUME ~StatusOf(c) PROVE [Shared!Next]_(Shared!vars)
  BY StatusMaps
<1> USE DEF StatusOf, At
<1>0. /\ client \in [Clients -> ClientStates] /\ stopping \in BOOLEAN /\ auto \in BOOLEAN
      /\ clients \subseteq Clients /\ (stopping => auto) /\ FALSE \in BOOLEAN
  BY DEF TypeOK
<1>1. \A d \in Clients \ {c} : client'[d] = client[d]
  BY <1>0 DEF ClientStep, Acquire, StartOnDemand, Fail, Leave, Detach, Release,
              ReleaseAndStop, WaitFails, ClientCrash, Move
<1>2. CASE Acquire(c)
  <2>1. client'[c] = "held" /\ clients' = LiveClients \cup {c} /\ ~stopping /\ stopping' = FALSE
    BY <1>0, <1>2 DEF Acquire, Move, WriteLease
  <2>2. LiveClients' = LiveClients \cup {c}
    BY <1>0, <1>1, <2>1 DEF LiveClients
  <2>3. Shared!Join(c)
    BY <2>1, <2>2, <1>0 DEF Shared!Join
  <2>4. QED BY <2>3 DEF Shared!Next
<1>3. CASE Release(c) \/ ReleaseAndStop(c)
  <2>1. clients' = LiveClients \ {c} /\ stopping' = stopping
    BY <1>0, <1>3 DEF Release, ReleaseAndStop, WriteLease
  <2>2. QED BY <1>1, <2>1, OneLeaves, MapsToLeave DEF Departs
<1>4. CASE StartOnDemand(c) \/ Fail(c) \/ Leave(c) \/ Detach(c) \/ WaitFails(c)
           \/ ClientCrash(c)
  <2>1. clients' \in {clients, LiveClients} /\ stopping' = stopping
    BY <1>0, <1>4 DEF StartOnDemand, Fail, Leave, Detach, WaitFails, ClientCrash, WriteLease
  <2>2. client[c] # "gone"
    BY <1>4 DEF StartOnDemand, Fail, Leave, Detach, WaitFails, ClientCrash
  <2>3. CASE client'[c] = "gone"
    BY <1>1, <2>1, <2>3, OneLeaves, MapsToLeave DEF Departs
  <2>4. CASE client'[c] # "gone"
    BY <1>1, <2>1, <2>2, <2>4, RewrittenUsers, MapsToStutter DEF Stutters
  <2>5. QED BY <2>3, <2>4
<1>5. QED BY <1>2, <1>3, <1>4 DEF ClientStep

LEMMA CleanupMaps ==
  ASSUME TypeOK, FinishDeadShutdown \/ \E g \in Gateways : Exit(g)
  PROVE  [Shared!Next]_(Shared!vars)
<1>1. clients' = LiveClients /\ client' = client /\ stopping' = FALSE
  BY DEF FinishDeadShutdown, Exit, FinishShutdown
<1>2. LiveClients' = LiveClients
  BY <1>1, RewrittenUsers
<1>3. CASE stopping
  <2>1. Shared!Reopen
    BY <1>1, <1>2, <1>3 DEF Shared!Reopen
  <2>2. QED BY <2>1 DEF Shared!Next
<1>4. CASE ~stopping
  <2>1. stopping' = stopping
    BY <1>1, <1>4 DEF TypeOK
  <2>2. QED BY <1>2, <2>1, MapsToStutter DEF Stutters
<1>5. QED BY <1>3, <1>4

LEMMA OperatorMaps ==
  ASSUME TypeOK, OperatorStep
  PROVE  [Shared!Next]_(Shared!vars)
<1> SUFFICES ASSUME ~StatusOf(Operator) PROVE [Shared!Next]_(Shared!vars)
  BY StatusMaps
<1> USE DEF StatusOf
<1>1. clients' \in {clients, LiveClients} /\ stopping' = stopping
  <2>1. CASE StartBackground
    BY <2>1 DEF StartBackground, WriteLease, TypeOK
  <2>2. QED BY <2>1 DEF OperatorStep, BeginStop, BeginRestart, OperatorCrash
<1>2. \A c \in Clients : client'[c] = "gone" <=> client[c] = "gone"
  <2>1. CASE BeginRestart
    BY <2>1, ConstantsAssumption DEF BeginRestart, At, Move, TypeOK
  <2>2. QED BY <2>1 DEF OperatorStep, StartBackground, BeginStop, OperatorCrash
<1>3. QED BY <1>1, <1>2, RewrittenUsers, MapsToStutter DEF Stutters

LEMMA JobMaps ==
  ASSUME TypeOK, Safe, Kept, JobStep
  PROVE  [Shared!Next]_(Shared!vars)
<1>0. /\ JobType /\ JobHolder /\ client \in [Clients -> ClientStates] /\ TRUE \in BOOLEAN
      /\ stopping \in BOOLEAN
  BY DEF Safe, Kept, TypeOK
<1>1. CASE Signal \/ Kill \/ VictimGone \/ NothingStopped
  <2>1. UNCHANGED <<lease, client>>
    BY <1>1 DEF Signal, Kill, VictimGone, NothingStopped
  <2>2. QED BY <2>1, RewrittenUsers, MapsToStutter DEF Stutters
<1>2. CASE ClearLease
  <2>1. LiveClients' = {} /\ stopping' = FALSE
    BY <1>2 DEF ClearLease, LiveClients
  <2>2. Shared!Forget
    BY <2>1 DEF Shared!Forget
  <2>3. QED BY <2>2 DEF Shared!Next
<1>3. CASE (ConcludeStop \/ ConcludeRelease) /\ ~ClearLease
  <2>1. clients' \in {clients, LiveClients} /\ stopping' = stopping
    BY <1>0, <1>3, CommitmentKept DEF ConcludeStop, ConcludeRelease, WriteLease
  <2>2. Return("gone")
    BY <1>3 DEF ConcludeStop, ConcludeRelease
  <2>3. CASE job.by \in Clients
    <3>1. /\ client'[job.by] = "gone"
          /\ \A d \in Clients \ {job.by} : client'[d] = client[d]
      BY <1>0, <2>2, <2>3 DEF Return, Move
    <3>2. LiveClients' = LiveClients \ {job.by}
      BY <2>1, <2>3, <3>1, OneLeaves
    <3>3. QED BY <2>1, <2>3, <3>2, MapsToLeave DEF Departs
  <2>4. CASE job.by \notin Clients
    BY <2>1, <2>2, <2>4, RewrittenUsers, MapsToStutter DEF Return, Stutters
  <2>5. QED BY <2>3, <2>4
<1>4. CASE ConcludeRestart
  <2>1. UNCHANGED lease
    BY <1>4 DEF ConcludeRestart
  <2>2. job.by \in Clients => client[job.by] = "stopping"
    BY <1>0, <1>4 DEF ConcludeRestart, JobHolder
  <2>3. \A c \in Clients : client'[c] = "gone" <=> client[c] = "gone"
    BY <1>0, <1>4, <2>2 DEF ConcludeRestart, Return, Move
  <2>4. QED BY <2>1, <2>3, RewrittenUsers, MapsToStutter DEF Stutters
<1>5. QED BY <1>1, <1>2, <1>3, <1>4 DEF JobStep

LEMMA GatewayMaps ==
  ASSUME TypeOK, NEW g \in Gateways, GatewayStep(g)
  PROVE  [Shared!Next]_(Shared!vars)
<1>0. /\ auto \in BOOLEAN /\ stopping \in BOOLEAN /\ (stopping => auto) /\ FALSE \in BOOLEAN
  BY DEF TypeOK
<1>1. CASE Exit(g)
  BY <1>1, CleanupMaps
<1>2. CASE MonitorPolls(g) /\ auto /\ LiveClients = {} /\ WriteLease(auto, TRUE, {})
  <2>1. LiveClients' = {} /\ stopping' = TRUE
    BY <1>0, <1>2 DEF WriteLease, LiveClients
  <2>2. CASE stopping
    <3>1. stopping' = stopping
      BY <1>0, <2>1, <2>2
    <3>2. QED BY <1>2, <2>1, <3>1, MapsToStutter DEF Stutters
  <2>3. CASE ~stopping
    <3>1. Shared!Close
      BY <1>2, <2>1, <2>3 DEF Shared!Close
    <3>2. QED BY <3>1 DEF Shared!Next
  <2>4. QED BY <2>2, <2>3
<1>3. CASE clients' \in {clients, LiveClients} /\ client' = client /\ stopping' = stopping
  BY <1>3, RewrittenUsers, MapsToStutter DEF Stutters
<1>4. CASE MonitorPolls(g) /\ ~(auto /\ LiveClients = {} /\ WriteLease(auto, TRUE, {}))
  <2>1. WriteLease(auto, stopping, LiveClients) /\ client' = client
    BY <1>4 DEF MonitorPolls
  <2>2. clients' = LiveClients /\ stopping' = stopping
    BY <1>0, <2>1, CommitmentKept DEF WriteLease
  <2>3. QED BY <1>3, <2>1, <2>2
<1>5. CASE Claim(g)
  <2>1. \/ UNCHANGED lease
        \/ ~stopping /\ WriteLease(FALSE, stopping, LiveClients)
    BY <1>5 DEF Claim
  <2>2. clients' \in {clients, LiveClients} /\ stopping' = stopping
    <3>1. CASE UNCHANGED lease
      BY <3>1
    <3>2. CASE ~stopping /\ WriteLease(FALSE, stopping, LiveClients)
      BY <1>0, <3>2, CommitmentKept DEF WriteLease
    <3>3. QED BY <2>1, <3>1, <3>2
  <2>3. QED BY <1>3, <1>5, <2>2 DEF Claim
<1>6. CASE Launch(g) \/ ClaimFails(g) \/ MonitorBlocks(g) \/ TakesSignal(g) \/ Interrupt(g)
           \/ GatewayCrash(g)
  BY <1>3, <1>6 DEF Launch, ClaimFails, MonitorBlocks, TakesSignal, Interrupt, GatewayCrash
<1>7. QED BY <1>1, <1>2, <1>4, <1>5, <1>6 DEF GatewayStep

\* The leases promise what SharedGateway says: a gateway commits to shut down only
\* while no live client holds a lease, and none gets one until the commitment ends.
THEOREM LeasesShareTheGateway == Spec => SharedSpec
<1>1. Init => Shared!Init
  BY DEF Init, Shared!Init, LiveClients
<1>2. TypeOK /\ Safe /\ Kept /\ [Next]_vars => [Shared!Next]_(Shared!vars)
  <2> SUFFICES ASSUME TypeOK, Safe, Kept, [Next]_vars PROVE [Shared!Next]_(Shared!vars)
    OBVIOUS
  <2>1. CASE UNCHANGED vars
    BY <2>1, RewrittenUsers, MapsToStutter DEF Stutters
  <2>2. QED BY <2>1, ClientMaps, CleanupMaps, OperatorMaps, JobMaps, GatewayMaps DEF Next
<1>3. QED BY <1>1, <1>2, KeptAlways, PTL DEF Spec, SharedSpec, Shared!Spec


\* Hence no live client with a lease is ever left behind by a committed shutdown.
THEOREM NobodyIsLeftBehind == Spec => []Shared!NobodyLeftBehind
<1>1. Shared!Init => Shared!NobodyLeftBehind
  BY DEF Shared!Init, Shared!NobodyLeftBehind
<1>2. Shared!NobodyLeftBehind /\ [Shared!Next]_(Shared!vars) => Shared!NobodyLeftBehind'
  BY DEF Shared!NobodyLeftBehind, Shared!Next, Shared!vars, Shared!Join, Shared!Leave,
         Shared!Close, Shared!Reopen, Shared!Forget
<1>3. QED BY <1>1, <1>2, LeasesShareTheGateway, PTL DEF SharedSpec, Shared!Spec
==============================================================================
