---------------------------- MODULE MCCronService ----------------------------
(* Instances of CronService: names for the jobs.                              *)
EXTENDS CronService

CONSTANTS
  beat,  \* a user's recurring job
  once,  \* a user's one-shot job
  dream  \* the gateway's own

\* Two occurrences of the users' jobs come, one of the gateway's.
MCHorizon == [j \in Jobs |-> IF j = dream THEN 2 ELSE 3]
=============================================================================
