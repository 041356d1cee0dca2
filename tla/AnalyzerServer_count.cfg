CONSTANTS
    Clients = {c1, c2, c3}
    NoClient = NoClient
    MaxWorkers = 2
    QueueSize = 2
    ForkMayFail = FALSE
SPECIFICATION FairSpec
INVARIANT SlotsCountActiveWorkers
CHECK_DEADLOCK FALSE
