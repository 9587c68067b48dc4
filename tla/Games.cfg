CONSTANTS
    Task = {2, 3, 4, 5, 6, 7, 8}
    Name = {"RPSServer", "a", "b"}
    Length <- Characters
    MAX_NAMES = 2
    ARENA = 4
    RpsServer = 2
    Players = {3, 4, 5, 6}
    RPS_SERVER = "RPSServer"
    NUM_GAMES = 2
    Guests = {7, 8}
    MaxCalls = 2
SPECIFICATION Spec
INVARIANTS RpsTypeOK SeatsSound
PROPERTIES RoundsAreFair  DirectoryKept CallsReturn
\* The players go, or wait for ever.
CHECK_DEADLOCK FALSE
