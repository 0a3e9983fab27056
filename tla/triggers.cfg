\* Two deliveries of one trigger, claimed in one batch, and up to three gateway exits.
SPECIFICATION FairSpec
CONSTANTS
  t1 = t1
  t2 = t2
  Deliveries = {1, 2}
  Triggers = {t1}
  TriggerOf <- MCTriggerOf
  NoFile = NoFile
  None = None
  MaxAttempts = 3
  BatchSize = 2
  MaxExits = 3
INVARIANTS
  TypeOK
  NothingLost
  ProcessingOwned
  TurnsCharged
PROPERTIES
  SettledStays
  EventuallySettled
CHECK_DEADLOCK FALSE
