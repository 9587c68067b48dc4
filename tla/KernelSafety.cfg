\* Two interrupt lines, so that two tasks can be woken by one interrupt.
CONSTANTS
    MAX_SCHEDULED_TASKS = 3
    Priorities = {0, 1}
    Events = {5, 52}
    VicLines = {5, 52}
SPECIFICATION OrderlySpec
INVARIANTS
    TypeOK
    ReadyQueueSound
    EventSlotsSound
    NoSentinelSeen
    SendQueuesSound
    NeverPanics
    NoEarlyReturn
PROPERTIES
    HighestPriorityFirst
