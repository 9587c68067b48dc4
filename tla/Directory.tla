----------------------------- MODULE Directory -----------------------------
(***************************************************************************)
(* What the name server promises its callers: a map of names to tasks in   *)
(* which a call takes effect at one instant between the moment it is made  *)
(* and the moment it returns.  A new binding replaces the old one; a look- *)
(* up finds the last.  The machine may stop when a task registers, but for *)
(* a name that is known only when the map is full.                         *)
(***************************************************************************)
EXTENDS Integers, FiniteSets

CONSTANTS
    Task,      \* the tids of the callers
    Name,
    Capacity   \* how many names the map holds

UNKNOWN_NAME == -2
INVALID_TID  == -1

VARIABLES
    dir,       \* the task each name is bound to, or UNKNOWN_NAME
    call,      \* per task, its call
    state      \* of the server: "running", "exited", or the machine has "halted"

dvars == <<dir, call, state>>

Kinds   == {"WhoIs", "RegisterAs", "Shutdown"}
Request == [at : {"sent"}, kind : Kinds, name : Name, code : {0}]
Bound   == {n \in Name : dir[n] # UNKNOWN_NAME}

DInit == /\ dir = [n \in Name |-> UNKNOWN_NAME]
         /\ call = [t \in Task |-> [at |-> "none"]]
         /\ state = "running"

-----------------------------------------------------------------------------
Asks(t) == /\ state = "running" /\ call[t].at = "none"
           /\ \E r \in Request : call' = [call EXCEPT ![t] = r]
           /\ UNCHANGED <<dir, state>>

Returned(c, code) == [c EXCEPT !.at = "back", !.code = code]

Answers(t, code) == call' = [call EXCEPT ![t] = Returned(@, code)]

Pending(t, kind) == state = "running" /\ call[t].at = "sent" /\ call[t].kind = kind

LooksUp(t) == /\ Pending(t, "WhoIs")
              /\ Answers(t, dir[call[t].name])
              /\ UNCHANGED <<dir, state>>

Binds(t) == /\ Pending(t, "RegisterAs")
            /\ dir' = [dir EXCEPT ![call[t].name] = t]
            /\ Answers(t, 0)
            /\ UNCHANGED state

Fails(t) == /\ Pending(t, "RegisterAs")
            /\ call[t].name \in Bound => Cardinality(Bound) >= Capacity
            /\ state' = "halted"
            /\ UNCHANGED <<dir, call>>

\* Every call under way fails but the one that stops the server.
Stops(t) == /\ Pending(t, "Shutdown")
            /\ call' = [u \in Task |->
                          IF u = t THEN Returned(call[u], 0)
                          ELSE IF call[u].at = "sent" THEN Returned(call[u], INVALID_TID)
                          ELSE call[u]]
            /\ state' = "exited"
            /\ UNCHANGED dir

AsksNobody(t) == /\ state = "exited" /\ call[t].at = "none"
                 /\ \E r \in Request : call' = [call EXCEPT ![t] = Returned(r, INVALID_TID)]
                 /\ UNCHANGED <<dir, state>>

\* A task goes on with the result; Shutdown insists on having been served.
GoesOn(t) == /\ state # "halted" /\ call[t].at = "back"
             /\ IF call[t].kind = "Shutdown" /\ call[t].code = INVALID_TID
                THEN state' = "halted" /\ UNCHANGED call
                ELSE call' = [call EXCEPT ![t] = [at |-> "none"]] /\ UNCHANGED state
             /\ UNCHANGED dir

DNext == \E t \in Task : \/ Asks(t) \/ LooksUp(t) \/ Binds(t) \/ Fails(t)
                         \/ Stops(t) \/ AsksNobody(t) \/ GoesOn(t)

DSpec == DInit /\ [][DNext]_dvars

=============================================================================
