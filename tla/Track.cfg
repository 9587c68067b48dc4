CONSTANTS
    TrackIds = {"A", "B"}
SPECIFICATION TrackSpec
INVARIANTS
    NoLoopWithoutSensor SensorsAsTravelled NormalizeFindsTrain
    DistancesOptimal RouteLeadsThere 
\* A trip ends where it would repeat itself, a search with the path.
CHECK_DEADLOCK FALSE
