CONSTANTS
    FifoSize <- Fifos
    RxLevel <- Levels
    Patient = {"COM1"}
    IOBUF_SIZE = 2
    COM1_WAITING_FOR_DOWN_TIMEOUT = 1
    Clients = {1, 2}
    Scenarios <- AllScenarios
SPECIFICATION LiveSpec
INVARIANTS UartTypeOK WireInOrder ReadInOrder
PROPERTIES CtsRespected FlushHonest EveryoneServed
\* The calls come to an end.
CHECK_DEADLOCK FALSE
