\* Follow-ups, one automation turn of a sustained goal and /stop in one session.
SPECIFICATION FairSpec
CONSTANTS
  goal = goal
  user = user
  more = more
  auto = auto
  late = late
  direct = direct
  stop = stop
  new = new
  s1 = s1
  s2 = s2
  None = None
  Msgs = {user, more, auto, stop}
  Sessions = {s1}
  SessionOf <- OneSession
  Kind <- MCKind
  GoalMsgs = {auto}
  PendingCap = 1
  InjectLimit = 1
  InjectCycles = 1
  MaxRounds = 1
  Permits = 0
INVARIANTS
  TypeOK
  SerialSession
  QueueOwned
  AutomationIsolated
  Accounted
  DeferredHasWaker
PROPERTIES
  OutcomeFinal
  CommandReturns
  SerialTurnsSpec
CHECK_DEADLOCK FALSE
