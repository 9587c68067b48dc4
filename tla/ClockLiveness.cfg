\* Progress under the fairness of LiveSpec, with more clients than places in pq.
CONSTANTS
    c1 = c1
    c2 = c2
    Client <- Clients
    Server = Server
    Notifier = Notifier
    None = None
    Requests <- LiveRequests
    PqCapacity = 1
    INT_MAX = 15
    MaxTime = 2
    MaxSince = 0
SPECIFICATION LiveSpec
INVARIANTS ClockTypeOK
PROPERTIES
    RequestsEnd
\* A panic and the exit of the server stop the system.
CHECK_DEADLOCK FALSE
