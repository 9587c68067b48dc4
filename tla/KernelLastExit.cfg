\* A stored interrupt keeps run() from returning.
CONSTANTS
    MAX_SCHEDULED_TASKS = 3
    Priorities = {0, 1}
    Events = {5}
    VicLines = {5}
SPECIFICATION LiveSpec
PROPERTIES
    StopsAfterLastExit
