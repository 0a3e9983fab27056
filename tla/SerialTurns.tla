----------------------------- MODULE SerialTurns -----------------------------
(***************************************************************************)
(* What session dispatch promises.  Each session runs one turn at a time.  *)
(* A waiting message gets a turn of its own or, unless it is an automation *)
(* message, rides along with the running turn and is closed with it.  A    *)
(* turn that ends is closed or asks for another turn.  Closing is final.   *)
(***************************************************************************)
CONSTANTS Msgs, Sessions, SessionOf, Isolated, None

VARIABLES
  status,  \* where each message stands
  active   \* the turn each session runs

Statuses == {"unsent", "waiting", "active", "riding", "closed"}

Init ==
  /\ status = [m \in Msgs |-> "unsent"]
  /\ active = [s \in Sessions |-> None]

Send(m) ==
  /\ status[m] = "unsent"
  /\ status' = [status EXCEPT ![m] = "waiting"]
  /\ UNCHANGED active

\* A caller that finds its session idle is served at once.
Begin(m) ==
  /\ status[m] \in {"unsent", "waiting"}
  /\ active[SessionOf[m]] = None
  /\ status' = [status EXCEPT ![m] = "active"]
  /\ active' = [active EXCEPT ![SessionOf[m]] = m]

Absorb(s, some) ==
  /\ active[s] # None
  /\ some \subseteq {m \in Msgs \ Isolated : SessionOf[m] = s /\ status[m] = "waiting"}
  /\ status' = [m \in Msgs |-> IF m \in some THEN "riding" ELSE status[m]]
  /\ UNCHANGED active

Riders(s) == {m \in Msgs : SessionOf[m] = s /\ status[m] = "riding"}

End(s, again) ==
  /\ active[s] # None
  /\ status' = [m \in Msgs |-> IF m = active[s] /\ again THEN "waiting"
                              ELSE IF m \in Riders(s) \cup {active[s]} THEN "closed"
                              ELSE status[m]]
  /\ active' = [active EXCEPT ![s] = None]

Discard(some) ==
  /\ some \subseteq {m \in Msgs : status[m] = "waiting"}
  /\ status' = [m \in Msgs |-> IF m \in some THEN "closed" ELSE status[m]]
  /\ UNCHANGED active

Next ==
  \/ \E m \in Msgs : Send(m) \/ Begin(m)
  \/ \E s \in Sessions, some \in SUBSET Msgs : Absorb(s, some)
  \/ \E s \in Sessions, again \in BOOLEAN : End(s, again)
  \/ \E some \in SUBSET Msgs : Discard(some)

Spec == Init /\ [][Next]_<<status, active>>
==============================================================================
