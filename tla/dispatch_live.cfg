\* A user's and an automation turn of sustained goals in one session, /new and a
\* direct call in another, and one permit for both; nobody stops anything.
SPECIFICATION FairSpec
CONSTANTS
  goal = goal
  user = user
  more = more
  auto = auto
  late = late
  direct = direct
  stop = stop
  new = new
  s1 = s1
  s2 = s2
  None = None
  Msgs = {user, auto, direct, new}
  Sessions = {s1, s2}
  SessionOf <- TwoSessions
  Kind <- MCKind
  GoalMsgs = {user, auto}
  PendingCap = 20
  InjectLimit = 1
  InjectCycles = 1
  MaxRounds = 1
  Permits = 1
INVARIANTS
  WithinPermits
PROPERTIES
  WaiterResolved
  EveryMessageHandled
CHECK_DEADLOCK FALSE
