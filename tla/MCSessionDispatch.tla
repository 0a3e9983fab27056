-------------------------- MODULE MCSessionDispatch --------------------------
(* Instances of SessionDispatch: which messages are sent and what they are.   *)
EXTENDS SessionDispatch

CONSTANTS
  goal, user, more, auto, late, direct, stop, new,   \* messages
  s1, s2                                       \* sessions

\* The name of a message says what it is.
MCKind == [m \in Msgs |-> CASE m \in {goal, user, more} -> "user"
                            [] m \in {auto, late}       -> "auto"
                            [] m = direct               -> "direct"
                            [] m = stop                 -> "stop"
                            [] m = new                  -> "new"]

\* Everything in one session, where turns compete for one lock and one queue.
OneSession == [m \in Msgs |-> s1]

\* /new and the direct call belong to a second session, which competes with the
\* first, the user's and the automation turns', for the gate only.
TwoSessions == [m \in Msgs |-> IF m \in {new, direct} THEN s2 ELSE s1]
=============================================================================
