---------------------------- MODULE GatewayLease ----------------------------
(***************************************************************************)
(* Client leases of the shared local gateway: gateway/runtime.py, over     *)
(* process_runtime.py.  TUI and WebUI launchers, the operator's            *)
(* `gateway --background | stop | restart`, and the gateway itself are     *)
(* separate processes that share two files under three file locks:         *)
(*                                                                         *)
(*   record  the process file: which gateway runs, and how it was launched *)
(*   lease   [auto, stopping, clients]; an absent file is the empty lease  *)
(*                                                                         *)
(* Sections under `transition` and `lifecycle` are single steps, since no  *)
(* other section runs meanwhile.  The one long holder of `transition` is   *)
(* a stop: it signals a gateway and waits for it to exit.  That is `job`;  *)
(* the lock is free when job = NoJob.  `lifecycle` alone guards what may   *)
(* happen meanwhile: an exiting gateway's cleanup, and a waiter that finds *)
(* the gateway of a committed shutdown dead.                               *)
(*                                                                         *)
(* status() reads the record, looks for the process and unlinks a stale    *)
(* record.  Within a locked section that is part of the section's step;    *)
(* launchers and `gateway status` call it without any lock, and there the  *)
(* read and the rest are two steps (ReadRecord; FindsRunning, FindsStale). *)
(*                                                                         *)
(* A dead client stays in the file until a reader prunes it (_live_state); *)
(* every reader does, so guards read LiveClients.                          *)
(***************************************************************************)
EXTENDS Naturals, FiniteSets

CONSTANTS
    Clients,        \* processes of `agent` (TUI) and `webui`
    Gateways,       \* gateway processes; each is started at most once
    Operator,       \* whoever runs `gateway stop`, `restart` and `status`
    NoGateway,      \* an empty process file
    MaxCommands     \* bound on commands of the operator

ASSUME ConstantsAssumption ==
    /\ Operator \notin Clients
    /\ NoGateway \notin Gateways
    /\ MaxCommands \in Nat

VARIABLES
    auto,       \* lease: stop the gateway when the last client is gone
    stopping,   \* lease: an orphan shutdown is committed
    clients,    \* lease: the registered clients
    record,     \* process file
    job,        \* the stop that holds the transition lock
    client,     \* where each client process is
    gateway,    \* where each gateway process is
    told,       \* gateways that were sent SIGTERM
    forgotten,  \* clients whose lease an explicit stop discarded (history)
    read,       \* what each lockless status() has read and not yet judged
    unlinked,   \* serving gateways whose record one removed (history)
    commands    \* commands issued so far

lease == <<auto, stopping, clients>>
looks == <<read, unlinked>>
vars == <<auto, stopping, clients, record, job, client, gateway, told,
          forgotten, read, unlinked, commands>>

Modes == {"background", "foreground", "none"}
NoRecord == [pid |-> NoGateway, mode |-> "none"]
Purposes == {"stop", "restart", "release"}
NoJob == [by |-> Operator, purpose |-> "none", victim |-> NoGateway, phase |-> "idle"]

\* new: wants a lease; held: has one, no gateway yet; attached: uses the
\* gateway; failing: gives up and will stop what it started; leaving: will
\* release without waiting; stopping: waits in release or restart.
ClientStates == {"new", "held", "attached", "failing", "leaving", "stopping", "gone"}
\* spawned: not yet claimed the process file; blocked: its event loop waits
\* for the transition lock; leaving: shuts down in order.
GatewayStates == {"unborn", "spawned", "serving", "blocked", "leaving", "dead"}
AtWork == {"serving", "blocked", "leaving"}

-----------------------------------------------------------------------------
LiveClients == {c \in clients : client[c] # "gone"}
Alive(g) == gateway[g] \notin {"unborn", "dead"}
\* What status() answers in a locked section.
Running == record.pid \in Gateways /\ Alive(record.pid)
TransitionFree == job = NoJob
\* A client that is not inside a lockless status().
At(c, states) == client[c] \in states /\ read[c] = NoGateway
Move(c, state) == client' = [client EXCEPT ![c] = state]
Become(g, state) == gateway' = [gateway EXCEPT ![g] = state]

\* An empty, not auto-stopping lease is the absent file (_write_or_clear).
WriteLease(a, s, cs) ==
    /\ auto' = a
    /\ stopping' = (s /\ (a \/ cs # {}))
    /\ clients' = cs
ClearLease == auto' = FALSE /\ stopping' = FALSE /\ clients' = {}
\* Mutants of FinishShutdown: it leaves the commitment, in one way or the other,
\* or forgets the clients.
FinishShutdownHalf ==
    /\ stopping' = stopping
    /\ auto' = (auto /\ LiveClients # {})
    /\ clients' = LiveClients
FinishShutdownUnlinks == stopping' = FALSE /\ auto' = FALSE /\ clients' = {}
\* _finish_shutdown_locked: the commitment ends; with no client the file goes.
FinishShutdown ==
    /\ stopping' = FALSE
    /\ auto' = (auto /\ LiveClients # {})
    /\ clients' = LiveClients

\* _start_background: the child is up after a moment, or it already exited.
Spawned(g) ==
    /\ gateway[g] = "unborn"
    /\ Become(g, "spawned")
    /\ record' = [pid |-> g, mode |-> "background"]
SpawnFails == record' = NoRecord /\ UNCHANGED gateway

Command ==
    /\ commands < MaxCommands
    /\ commands' = commands + 1

Init ==
    /\ auto = FALSE /\ stopping = FALSE /\ clients = {}
    /\ record = NoRecord
    /\ job = NoJob
    /\ client = [c \in Clients |-> "new"]
    /\ gateway = [g \in Gateways |-> "unborn"]
    /\ told = {} /\ forgotten = {}
    /\ read = [p \in Clients \cup {Operator} |-> NoGateway] /\ unlinked = {}
    /\ commands = 0

-----------------------------------------------------------------------------
(* Clients *)

\* Mutant of Acquire: without looking at the commitment once it has the locks.
AcquireUnchecked(c) ==
    /\ client[c] = "new"
    /\ TransitionFree
    /\ WriteLease(auto, stopping, LiveClients \cup {c})
    /\ Move(c, "held")
    /\ UNCHANGED <<looks, record, job, gateway, told, forgotten, commands>>

Acquire(c) ==
    /\ client[c] = "new"
    /\ TransitionFree /\ ~stopping
    /\ WriteLease(auto, stopping, LiveClients \cup {c})
    /\ Move(c, "held")
    /\ UNCHANGED <<looks, record, job, gateway, told, forgotten, commands>>

\* A client that is not yet attached asks whether a gateway runs, one that is
\* attached asks it again and again.
ReadRecord(p) ==
    /\ record.pid \in Gateways /\ read[p] = NoGateway
    /\ \/ p \in Clients /\ client[p] \in {"held", "attached"} /\ UNCHANGED commands
       \/ p = Operator /\ Command
    /\ read' = [read EXCEPT ![p] = record.pid]
    /\ UNCHANGED <<lease, record, job, client, gateway, told, forgotten, unlinked>>

\* The process whose pid was read runs: the client uses it, or goes on doing so.
FindsRunning(p) ==
    /\ read[p] # NoGateway /\ Alive(read[p])
    /\ read' = [read EXCEPT ![p] = NoGateway]
    /\ client' = [c \in Clients |->
                     IF c = p /\ client[c] = "held" THEN "attached" ELSE client[c]]
    /\ UNCHANGED <<lease, record, job, gateway, told, forgotten, unlinked, commands>>

\* It does not: the record is removed, whichever record it is by now.
FindsStale(p) ==
    /\ read[p] # NoGateway /\ ~Alive(read[p])
    /\ read' = [read EXCEPT ![p] = NoGateway]
    /\ record' = NoRecord
    /\ unlinked' = unlinked \cup {g \in Gateways : g = record.pid /\ gateway[g] \in AtWork}
    /\ client' = [c \in Clients |->
                     IF c = p /\ client[c] = "attached" THEN "leaving" ELSE client[c]]
    /\ UNCHANGED <<lease, job, gateway, told, forgotten, commands>>

StartOnDemand(c) ==
    /\ At(c, {"held"})
    /\ TransitionFree /\ ~stopping
    /\ ~Running
    /\ WriteLease(TRUE, stopping, LiveClients)
    /\ \/ \E g \in Gateways : Spawned(g) /\ Move(c, "attached")
       \/ SpawnFails /\ \E next \in {"failing", "leaving"} : Move(c, next)
       \* the client dies before it has recorded the child
       \/ /\ \E g \in Gateways : gateway[g] = "unborn" /\ Become(g, "spawned")
          /\ Move(c, "gone")
          /\ record' = NoRecord
    /\ UNCHANGED <<looks, job, told, forgotten, commands>>

\* A client that cannot use the gateway it found or started.
Fail(c) ==
    /\ At(c, {"held"})
    /\ \E next \in {"failing", "leaving"} : Move(c, next)
    /\ UNCHANGED <<lease, looks, record, job, gateway, told, forgotten, commands>>

Leave(c) ==
    /\ At(c, {"attached"})
    /\ Move(c, "leaving")
    /\ UNCHANGED <<lease, looks, record, job, gateway, told, forgotten, commands>>

\* /detach: mark_persistent, then the launcher leaves.
Detach(c) ==
    /\ At(c, {"attached"})
    /\ TransitionFree /\ ~stopping
    /\ WriteLease(FALSE, stopping, LiveClients)
    /\ Move(c, "leaving")
    /\ UNCHANGED <<looks, record, job, gateway, told, forgotten, commands>>

\* release(wait_for_stop=False): the monitor does the rest.
Release(c) ==
    /\ client[c] = "leaving"
    /\ TransitionFree /\ ~stopping
    /\ WriteLease(auto, stopping, LiveClients \ {c})
    /\ Move(c, "gone")
    /\ UNCHANGED <<looks, record, job, gateway, told, forgotten, commands>>

\* release(): the last client of an on-demand gateway stops it itself.
ReleaseAndStop(c) ==
    /\ client[c] = "failing"
    /\ TransitionFree /\ ~stopping
    /\ WriteLease(auto, stopping, LiveClients \ {c})
    /\ \/ /\ LiveClients \ {c} # {} \/ ~auto
          /\ Move(c, "gone")
          /\ UNCHANGED job
       \/ /\ LiveClients \ {c} = {} /\ auto
          /\ Move(c, "stopping")
          /\ job' = [by |-> c, purpose |-> "release",
                     victim |-> record.pid, phase |-> "called"]
    /\ UNCHANGED <<looks, record, gateway, told, forgotten, commands>>

\* wait_for_shutdown gives up while the gateway is still shutting down.
WaitFails(c) ==
    /\ At(c, {"new", "held", "attached", "failing", "leaving"})
    /\ stopping /\ Running
    /\ \/ client[c] \in {"new", "failing", "leaving"} /\ Move(c, "gone")
       \/ client[c] = "held" /\ \E next \in {"failing", "leaving"} : Move(c, next)
       \/ client[c] = "attached" /\ Move(c, "leaving")
    /\ UNCHANGED <<lease, looks, record, job, gateway, told, forgotten, commands>>

ClientCrash(c) ==
    /\ client[c] # "gone"
    /\ Move(c, "gone")
    /\ job' = IF job.by = c THEN NoJob ELSE job
    /\ read' = [read EXCEPT ![c] = NoGateway]
    /\ UNCHANGED <<lease, unlinked, record, gateway, told, forgotten, commands>>

\* Any process in wait_for_shutdown; it takes no transition lock.
FinishDeadShutdown ==
    /\ \/ \E c \in Clients : At(c, {"new", "held", "failing", "leaving"})
       \/ \E g \in Gateways : gateway[g] = "spawned"
    /\ stopping /\ ~Running
    /\ FinishShutdown
    /\ record' = NoRecord
    /\ UNCHANGED <<looks, job, client, gateway, told, forgotten, commands>>

-----------------------------------------------------------------------------
(* The operator *)

\* `gateway --background`: start one, or make the running one persistent.
StartBackground ==
    /\ Command
    /\ TransitionFree /\ ~stopping
    /\ WriteLease(FALSE, stopping, LiveClients)
    /\ \/ Running /\ UNCHANGED <<gateway, record>>
       \/ ~Running /\ (SpawnFails \/ \E g \in Gateways : Spawned(g))
    /\ UNCHANGED <<looks, job, client, told, forgotten>>

BeginStop ==
    /\ Command
    /\ TransitionFree
    /\ job' = [by |-> Operator, purpose |-> "stop",
               victim |-> record.pid, phase |-> "called"]
    /\ UNCHANGED <<lease, looks, record, client, gateway, told, forgotten>>

\* By the operator, or by a WebUI launcher whose configuration changed.
BeginRestart ==
    /\ Command
    /\ TransitionFree
    /\ Running /\ record.mode # "foreground"
    /\ \E by \in Clients \cup {Operator} :
          /\ \/ by = Operator /\ UNCHANGED client
             \/ by \in Clients /\ At(by, {"held"}) /\ Move(by, "stopping")
          /\ job' = [by |-> by, purpose |-> "restart",
                     victim |-> record.pid, phase |-> "called"]
    /\ UNCHANGED <<lease, looks, record, gateway, told, forgotten>>

OperatorCrash ==
    /\ job # NoJob /\ job.by = Operator
    /\ job' = NoJob
    /\ UNCHANGED <<lease, looks, record, client, gateway, told, forgotten, commands>>

-----------------------------------------------------------------------------
(* The stop that holds the transition lock: _stop, then what follows it *)

Signal ==
    /\ job.phase = "called"
    /\ Running
    /\ told' = told \cup {record.pid}
    /\ job' = [job EXCEPT !.phase = "told"]
    /\ UNCHANGED <<lease, looks, record, client, gateway, forgotten, commands>>

\* Mutant of Kill: only a gateway that has begun to shut down is killed.
KillLeaving ==
    /\ job.phase = "told"
    /\ gateway[job.victim] = "leaving"
    /\ Become(job.victim, "dead")
    /\ UNCHANGED <<lease, looks, record, job, client, told, forgotten, commands>>

\* _wait_for_exit ran out: SIGKILL.
Kill ==
    /\ job.phase = "told"
    /\ Alive(job.victim)
    /\ Become(job.victim, "dead")
    /\ UNCHANGED <<lease, looks, record, job, client, told, forgotten, commands>>

VictimGone ==
    /\ job.phase = "told"
    /\ ~Alive(job.victim)
    /\ record' = NoRecord
    /\ job' = [job EXCEPT !.phase = "stopped"]
    /\ UNCHANGED <<lease, looks, client, gateway, told, forgotten, commands>>

\* Nothing ran, or whether the recorded process is ours cannot be told.
NothingStopped ==
    /\ job.phase = "called"
    /\ \/ ~Running /\ record' = NoRecord /\ job' = [job EXCEPT !.phase = "absent"]
       \/ Running /\ UNCHANGED record /\ job' = [job EXCEPT !.phase = "refused"]
    /\ UNCHANGED <<lease, looks, client, gateway, told, forgotten, commands>>

Return(state) ==
    /\ job' = NoJob
    /\ IF job.by \in Clients THEN Move(job.by, state) ELSE UNCHANGED client

ConcludeStop ==
    /\ job.purpose = "stop" /\ job.phase \in {"stopped", "absent", "refused"}
    /\ IF job.phase = "refused"
         THEN UNCHANGED <<lease, forgotten>>
         ELSE ClearLease /\ forgotten' = forgotten \cup LiveClients
    /\ Return("gone")
    /\ UNCHANGED <<looks, record, gateway, told, commands>>

ConcludeRelease ==
    /\ job.purpose = "release" /\ job.phase \in {"stopped", "absent", "refused"}
    /\ IF job.phase = "refused"
         THEN WriteLease(TRUE, stopping, LiveClients)
         ELSE ClearLease
    /\ Return("gone")
    /\ UNCHANGED <<looks, record, gateway, told, forgotten, commands>>

ConcludeRestart ==
    /\ job.purpose = "restart" /\ job.phase \in {"stopped", "absent", "refused"}
    /\ \/ /\ job.phase = "stopped"
          /\ \/ \E g \in Gateways : Spawned(g) /\ Return("attached")
             \/ SpawnFails /\ Return("leaving")
       \/ /\ job.phase # "stopped"
          /\ Return("leaving")
          /\ UNCHANGED <<record, gateway>>
    /\ UNCHANGED <<lease, looks, told, forgotten, commands>>

-----------------------------------------------------------------------------
(* Gateways *)

\* A user starts `gateway` in the foreground.
Launch(g) ==
    /\ Command
    /\ gateway[g] = "unborn"
    /\ Become(g, "spawned")
    /\ UNCHANGED <<lease, looks, record, job, client, told, forgotten>>

\* Mutant of Claim: it does not look for another gateway.
ClaimUnchecked(g) ==
    /\ gateway[g] = "spawned"
    /\ TransitionFree /\ ~stopping
    /\ Become(g, "serving")
    /\ record' = [pid |-> g, mode |-> "foreground"]
    /\ WriteLease(FALSE, stopping, LiveClients)
    /\ UNCHANGED <<looks, job, client, told, forgotten, commands>>

\* _claim_current_process: one gateway only; foreground means persistent.
Claim(g) ==
    /\ gateway[g] = "spawned"
    /\ TransitionFree
    /\ \/ /\ Running /\ record.pid # g
          /\ Become(g, "dead")
          /\ UNCHANGED <<lease, record>>
       \/ /\ ~Running \/ record.pid = g
          /\ ~stopping
          /\ Become(g, "serving")
          /\ IF record.pid = g
               THEN UNCHANGED <<lease, record>>
               ELSE /\ record' = [pid |-> g, mode |-> "foreground"]
                    /\ WriteLease(FALSE, stopping, LiveClients)
    /\ UNCHANGED <<looks, job, client, told, forgotten, commands>>

\* The claim waits in vain for a committed shutdown, possibly its own.
ClaimFails(g) ==
    /\ gateway[g] = "spawned"
    /\ stopping /\ Running
    /\ Become(g, "dead")
    /\ UNCHANGED <<lease, looks, record, job, client, told, forgotten, commands>>

\* Mutant of MonitorPolls: it counts dead clients.
MonitorPollsUnpruned(g) ==
    /\ gateway[g] \in {"serving", "blocked"}
    /\ TransitionFree
    /\ \/ /\ auto /\ clients = {}
          /\ WriteLease(auto, TRUE, {})
          /\ Become(g, "leaving")
       \/ /\ ~auto \/ clients # {}
          /\ Become(g, "serving")
          /\ UNCHANGED lease
    /\ UNCHANGED <<looks, record, job, client, told, forgotten, commands>>

\* monitor_gateway_clients, once a second: begin_orphan_shutdown.
MonitorPolls(g) ==
    /\ gateway[g] \in {"serving", "blocked"}
    /\ TransitionFree
    /\ \/ /\ auto /\ LiveClients = {}
          /\ WriteLease(auto, TRUE, {})
          /\ Become(g, "leaving")
       \/ /\ ~auto \/ LiveClients # {}
          /\ WriteLease(auto, stopping, LiveClients)
          /\ Become(g, "serving")
    /\ UNCHANGED <<looks, record, job, client, told, forgotten, commands>>

\* The poll takes the lock on the event loop: meanwhile nothing else runs there.
MonitorBlocks(g) ==
    /\ gateway[g] = "serving"
    /\ ~TransitionFree
    /\ Become(g, "blocked")
    /\ UNCHANGED <<lease, looks, record, job, client, told, forgotten, commands>>

\* SIGTERM: a handler on the event loop once it runs, the default before.
TakesSignal(g) ==
    /\ g \in told
    /\ \/ gateway[g] = "serving" /\ Become(g, "leaving")
       \/ gateway[g] = "spawned" /\ Become(g, "dead")
    /\ UNCHANGED <<lease, looks, record, job, client, told, forgotten, commands>>

\* The terminal's Ctrl-C, or a failure of one of the gateway's tasks.
Interrupt(g) ==
    /\ gateway[g] = "serving"
    /\ Become(g, "leaving")
    /\ UNCHANGED <<lease, looks, record, job, client, told, forgotten, commands>>

\* _release_current_process needs only the lifecycle lock.
Exit(g) ==
    /\ gateway[g] = "leaving"
    /\ Become(g, "dead")
    /\ record' = IF record.pid = g THEN NoRecord ELSE record
    /\ FinishShutdown
    /\ UNCHANGED <<looks, job, client, told, forgotten, commands>>

GatewayCrash(g) ==
    /\ Alive(g)
    /\ Become(g, "dead")
    /\ UNCHANGED <<lease, looks, record, job, client, told, forgotten, commands>>
-----------------------------------------------------------------------------
ClientStep(c) ==
    \/ Acquire(c) \/ ReadRecord(c) \/ FindsRunning(c) \/ FindsStale(c)
    \/ StartOnDemand(c) \/ Fail(c) \/ Leave(c)
    \/ Detach(c) \/ Release(c) \/ ReleaseAndStop(c) \/ WaitFails(c)
    \/ ClientCrash(c)

OperatorStep ==
    \/ StartBackground \/ BeginStop \/ BeginRestart \/ OperatorCrash
    \/ ReadRecord(Operator) \/ FindsRunning(Operator) \/ FindsStale(Operator)

JobStep ==
    \/ Signal \/ Kill \/ VictimGone \/ NothingStopped
    \/ ConcludeStop \/ ConcludeRelease \/ ConcludeRestart

GatewayStep(g) ==
    \/ Launch(g) \/ Claim(g) \/ ClaimFails(g) \/ MonitorPolls(g)
    \/ MonitorBlocks(g) \/ TakesSignal(g) \/ Interrupt(g) \/ Exit(g)
    \/ GatewayCrash(g)

Next ==
    \/ \E c \in Clients : ClientStep(c)
    \/ FinishDeadShutdown
    \/ OperatorStep
    \/ JobStep
    \/ \E g \in Gateways : GatewayStep(g)

Spec == Init /\ [][Next]_vars

-----------------------------------------------------------------------------
(* Scheduling.  Processes run, so what is theirs to do next happens; a wait
   has a timeout; the commands of users and crashes are nobody's duty.  A
   file lock is not fair: the bound on commands stands for stops being rare. *)
Fairness ==
    /\ WF_vars(JobStep)
    /\ WF_vars(FinishDeadShutdown)
    /\ \A c \in Clients :
          /\ WF_vars(Acquire(c) \/ WaitFails(c))
          /\ WF_vars(Release(c))
          /\ WF_vars(ReleaseAndStop(c))
    /\ \A g \in Gateways :
          /\ WF_vars(Claim(g) \/ ClaimFails(g))
          /\ WF_vars(MonitorPolls(g))
          /\ WF_vars(TakesSignal(g))
          /\ WF_vars(Exit(g))

FairSpec == Spec /\ Fairness

-----------------------------------------------------------------------------
(* Properties *)

JobOK ==
    /\ job.by \in Clients \cup {Operator}
    /\ job.purpose \in Purposes \cup {"none"}
    /\ job.victim \in Gateways \cup {NoGateway}
    /\ job.phase \in {"idle", "called", "told", "stopped", "absent", "refused"}

\* The types, and that only an on-demand gateway commits to an orphan shutdown
\* (begin_orphan_shutdown, _try_mark_persistent_locked).
TypeOK ==
    /\ auto \in BOOLEAN /\ stopping \in BOOLEAN /\ (stopping => auto)
    /\ clients \subseteq Clients
    /\ record \in [pid : Gateways \cup {NoGateway}, mode : Modes]
    /\ JobOK
    /\ client \in [Clients -> ClientStates]
    /\ gateway \in [Gateways -> GatewayStates]
    /\ told \subseteq Gateways /\ forgotten \subseteq Clients
    /\ read \in [Clients \cup {Operator} -> Gateways \cup {NoGateway}]
    /\ unlinked \subseteq Gateways
    /\ commands \in 0..MaxCommands

\* The gateway that serves is the one the process file names, through claims,
\* restarts, crashes and cleanups, so that `stop` and the leases are about that
\* one (_claim_current_process, _release_current_process).  The exception is what
\* a lockless status() leaves behind when it unlinks a record that was written
\* after the one it read: then another gateway may claim the file and serve too.
ServingIsRecorded ==
    \A g \in Gateways : gateway[g] \in AtWork => record.pid = g \/ g \in unlinked

\* A client that has a lease and has not released it stays registered, whatever
\* gateways stop or die meanwhile, unless an explicit stop forgot it
\* (_finish_shutdown_locked keeps live clients; _clear_locked does not).
LeaseKept ==
    \A c \in Clients :
        client[c] \in {"held", "attached", "failing", "leaving"}
            => c \in clients \cup forgotten

\* The shared gateway: it commits to stop only when no live client holds a
\* lease, and nobody joins a gateway that has committed.
Shared == INSTANCE SharedGateway WITH users <- LiveClients, closing <- stopping
SharedSpec == Shared!Spec

\* An on-demand gateway without a live client stops, unless somebody comes or
\* makes it persistent (monitor_gateway_clients; docs/cli-reference.md:126).
OrphanStops ==
    \A g \in Gateways :
        (gateway[g] \in {"serving", "blocked"} /\ auto /\ LiveClients = {})
            ~> (gateway[g] = "dead" \/ LiveClients # {} \/ ~auto)

\* A stop lets go of the transition lock, also when the gateway it waits for
\* does not react (_stop, _terminate_posix).
TransitionEnds == ~TransitionFree ~> TransitionFree

\* "Serialize long lifecycle transitions without blocking child cleanup"
\* (gateway/runtime.py:230): the gateway that a stop waits for is not itself
\* waiting for the lock of that stop.
CleanupNotBlocked ==
    \A g \in Gateways : gateway[g] = "blocked" => job.victim # g
=============================================================================
