\* A job is added while the timer executes another one.
SPECIFICATION HistorySpec
CONSTANTS
  beat = beat
  once = once
  dream = dream
  Jobs = {beat, once, dream}
  Stored = {beat}
  System = {dream}
  OneShot = {once}
  DeleteAfter = {}
  Lingering = {beat}
  Absent = Absent
  NoRun = NoRun
  NoOp = NoOp
  NoJob = NoJob
  Horizon <- MCHorizon
  MaxEdits = 1
  MaxExits = 1
PROPERTIES
  BegunOnce
CHECK_DEADLOCK FALSE
