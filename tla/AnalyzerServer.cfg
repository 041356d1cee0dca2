CONSTANTS
    Clients = {c1, c2, c3, c4}
    NoClient = NoClient
    MaxWorkers = 3
    QueueSize = 2
    ForkMayFail = TRUE
SPECIFICATION FairSpec
INVARIANT SlotsFit
INVARIANT HandlerNeverBlocks
PROPERTY ImplementsPool
PROPERTY ClientsAccepted
CHECK_DEADLOCK FALSE
