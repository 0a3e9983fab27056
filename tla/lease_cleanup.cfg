SPECIFICATION Spec
CONSTANTS
    Clients = {c1, c2}
    Gateways = {g1, g2}
    Operator = Operator
    NoGateway = NoGateway
    MaxCommands = 1
INVARIANT CleanupNotBlocked
CHECK_DEADLOCK FALSE
