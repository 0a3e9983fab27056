\* Does a turn that hits its budget always queue its continuation?
SPECIFICATION FairSpec
CONSTANTS
  goal = goal
  user = user
  more = more
  auto = auto
  late = late
  direct = direct
  stop = stop
  new = new
  s1 = s1
  s2 = s2
  None = None
  Msgs = {goal, user, more}
  Sessions = {s1}
  SessionOf <- OneSession
  Kind <- MCKind
  GoalMsgs = {goal}
  PendingCap = 1
  InjectLimit = 1
  InjectCycles = 1
  MaxRounds = 1
  Permits = 0
PROPERTIES
  ContinuationQueued
CHECK_DEADLOCK FALSE
