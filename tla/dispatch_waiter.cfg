\* Does a submitter that still waits have a turn that can answer it?
SPECIFICATION Spec
CONSTANTS
  goal = goal
  user = user
  more = more
  auto = auto
  late = late
  direct = direct
  stop = stop
  new = new
  s1 = s1
  s2 = s2
  None = None
  Msgs = {user, auto, stop}
  Sessions = {s1}
  SessionOf <- OneSession
  Kind <- MCKind
  GoalMsgs = {}
  PendingCap = 1
  InjectLimit = 1
  InjectCycles = 1
  MaxRounds = 0
  Permits = 0
INVARIANTS
  WaiterHasTurn
CHECK_DEADLOCK FALSE
