\* A deadline beyond INT_MAX.
CONSTANTS
    c1 = c1
    c2 = c2
    Client <- Clients
    Server = Server
    Notifier = Notifier
    None = None
    Requests <- LongRequests
    PqCapacity = 2
    INT_MAX = 7
    MaxTime = 4
    MaxSince = 0
SPECIFICATION Spec
INVARIANTS
    PromisesKept
CHECK_DEADLOCK FALSE
