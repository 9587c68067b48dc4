CONSTANTS
    FifoSize <- Fifos
    RxLevel <- Levels
    Patient = {"COM1"}
    IOBUF_SIZE = 4
    COM1_WAITING_FOR_DOWN_TIMEOUT = 1
    Clients = {1, 2}
    Scenarios <- ReaderAndWriter
SPECIFICATION LiveSpec
PROPERTY BufferedIsSent
\* The calls come to an end.
CHECK_DEADLOCK FALSE
