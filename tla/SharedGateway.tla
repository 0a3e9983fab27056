--------------------------- MODULE SharedGateway ---------------------------
(***************************************************************************)
(* What the client leases promise: a gateway shared by interactive clients *)
(* commits to shut down only while nobody uses it, and while it is         *)
(* committed nobody joins.  The commitment ends when the shutdown is over; *)
(* an explicit stop forgets every user.                                    *)
(***************************************************************************)
CONSTANT Clients

VARIABLES
    users,      \* the clients the gateway counts as using it
    closing     \* it has committed to stop

vars == <<users, closing>>

TypeOK == users \subseteq Clients /\ closing \in BOOLEAN

Init == users = {} /\ closing = FALSE

Join(c) ==
    /\ ~closing
    /\ users' = users \cup {c}
    /\ UNCHANGED closing

\* Clients leave one at a time, by releasing their lease or by dying.
Leave(c) ==
    /\ c \in users
    /\ users' = users \ {c}
    /\ UNCHANGED closing

Close ==
    /\ ~closing
    /\ users = {}
    /\ closing' = TRUE
    /\ UNCHANGED users

Reopen ==
    /\ closing
    /\ closing' = FALSE
    /\ UNCHANGED users

Forget ==
    /\ users' = {}
    /\ closing' = FALSE

Next ==
    \/ \E c \in Clients : Join(c) \/ Leave(c)
    \/ Close \/ Reopen \/ Forget

Spec == Init /\ [][Next]_vars

\* A committed shutdown has no user.
NobodyLeftBehind == closing => users = {}
=============================================================================
