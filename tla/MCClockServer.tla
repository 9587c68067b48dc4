--------------------------- MODULE MCClockServer ---------------------------
(***************************************************************************)
(* ClockServer for TLC: two clients; the requests of each run.             *)
(***************************************************************************)
EXTENDS ClockServer, TLC

CONSTANTS c1, c2

Clients == {c1, c2}
Symmetry == Permutations(Clients)

Asking(tag, args) == [tag : {tag}, arg : args]

\* Delays that have passed (0), that end at the next tick, and the shortest of
\* which DelaysLast says anything.
AllRequests ==
    Asking("Time", {0}) \cup Asking("Delay", {0, 1, 3}) \cup
    Asking("DelayUntil", {2}) \cup Asking("Shutdown", {0})

LiveRequests == Asking("Delay", {1}) \cup Asking("DelayUntil", {2}) \cup Asking("Shutdown", {0})

\* A delay that is legal as an int and ends beyond the largest one.
LongRequests == Asking("Time", {0}) \cup Asking("Delay", {1, INT_MAX})
=============================================================================
