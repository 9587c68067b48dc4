CONSTANTS
    TrackIds = {"A"}
    MAX_TRAINS = 2
    Trains = {58}
    Starts = {70}
    Paces = {100}
    Breaks <- Faults
    QueryTicks = {20}
    Clients = {"cmd"}
    MaxAge = 600
    Commands <- UserCommands
    MaxCommands = 3
SPECIFICATION TurnSpec
INVARIANTS ProgramTypeOK VelocitySettles  
PROPERTIES WokenThere 
\* A panic stops the program.
CHECK_DEADLOCK FALSE
VIEW Seen
