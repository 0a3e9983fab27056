--------------------------- MODULE MCTurnRecovery ---------------------------
(* A session of two messages whose gateway exits at most twice. *)
EXTENDS TurnRecovery
=============================================================================
