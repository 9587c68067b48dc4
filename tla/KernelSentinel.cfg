\* Programs that create a task while a stale entry of its tid is queued.
CONSTANTS
    MAX_SCHEDULED_TASKS = 3
    Priorities = {0, 1}
    Events = {5}
    VicLines = {5}
SPECIFICATION Spec
INVARIANTS
    NoSentinelSeen
