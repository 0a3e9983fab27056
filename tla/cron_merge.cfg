\* An agent process logs an operation and the gateway dies while it merges it.
SPECIFICATION Spec
CONSTANTS
  beat = beat
  once = once
  dream = dream
  Jobs = {beat, once, dream}
  Stored = {beat}
  System = {dream}
  OneShot = {once}
  DeleteAfter = {}
  Lingering = {beat}
  Absent = Absent
  NoRun = NoRun
  NoOp = NoOp
  NoJob = NoJob
  Horizon <- MCHorizon
  MaxEdits = 1
  MaxExits = 1
PROPERTIES
  LoggedMerged
CHECK_DEADLOCK FALSE
