\* Rendezvous implemented, and progress under the fairness of LiveSpec.
CONSTANTS
    MAX_SCHEDULED_TASKS = 3
    Priorities = {0, 1}
    Events = {5}
    VicLines = {5}
SPECIFICATION LiveSpec
PROPERTIES
    ImplementsRendezvous
    TopPriorityRuns
