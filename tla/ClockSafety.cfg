\* Every request, with a place in pq for each client.
CONSTANTS
    c1 = c1
    c2 = c2
    Client <- Clients
    Server = Server
    Notifier = Notifier
    None = None
    Requests <- AllRequests
    PqCapacity = 2
    INT_MAX = 15
    MaxTime = 3
    MaxSince = 1
SPECIFICATION Spec
SYMMETRY Symmetry
INVARIANTS
    CallersHeld
    PromisesKept
    PanicsForCause
PROPERTIES
    DelaysLast
\* The bound on time, the exit of the server and a panic stop the system.
CHECK_DEADLOCK FALSE
