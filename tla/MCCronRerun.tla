----------------------------- MODULE MCCronRerun -----------------------------
(* The instance of CronService with a history of what its timer has begun to  *)
(* execute.                                                                   *)
EXTENDS MCCronService

VARIABLE began

Begins == timer' = "running" /\ <<current', occurrence'>> # <<current, occurrence>>

HistoryInit == Init /\ began = {}

HistoryNext ==
  /\ Next
  /\ began' = IF Begins THEN began \cup {<<current', occurrence'>>} ELSE began

HistorySpec == HistoryInit /\ [][HistoryNext]_<<vars, began>>

\* The regression test's "Each job should have run exactly once, not looped": the timer
\* begins no occurrence twice.
BegunOnce ==
  [][Begins /\ Numbered(current', occurrence') => <<current', occurrence'>> \notin began
    ]_<<vars, began>>
=============================================================================
