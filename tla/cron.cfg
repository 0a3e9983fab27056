\* A recurring job whose cancellation lingers, a one-shot job that is added, and a job
\* of the gateway, with edits, failing saves, manual runs, an agent process and one gateway exit.
SPECIFICATION FairSpec
CONSTANTS
  beat = beat
  once = once
  dream = dream
  Jobs = {beat, once, dream}
  Stored = {beat}
  System = {dream}
  OneShot = {once}
  DeleteAfter = {}
  Lingering = {beat}
  Absent = Absent
  NoRun = NoRun
  NoOp = NoOp
  NoJob = NoJob
  Horizon <- MCHorizon
  MaxEdits = 1
  MaxExits = 1
INVARIANTS
  TypeOK
  NeverReplayed
  OffStaysOff
PROPERTIES
  DueServed
CHECK_DEADLOCK FALSE
