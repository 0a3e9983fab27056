SPECIFICATION FairSpec
CONSTANTS
    Clients = {c1, c2}
    Gateways = {g1, g2}
    Operator = Operator
    NoGateway = NoGateway
    MaxCommands = 2
INVARIANTS
    TypeOK
    ServingIsRecorded
    LeaseKept
PROPERTIES
    SharedSpec
    OrphanStops
    TransitionEnds
CHECK_DEADLOCK FALSE
