----------------------------- MODULE NameServer -----------------------------
(***************************************************************************)
(* The name server and the calls of its clients: a table of entries, read  *)
(* from the start, whose strings lie in an arena that only grows.  A call  *)
(* waits in the server's send queue until the server receives it.  A panic *)
(* or a failed assertion halts the machine.                                *)
(***************************************************************************)
EXTENDS Integers, FiniteSets, Sequences

CONSTANTS
    Task,        \* the tids of the callers
    Name,
    Length,      \* of each name, in characters
    MAX_NAMES,   \* entries of names[]
    ARENA        \* characters of the arena

ASSUME NameServerAssumption ==
    /\ Task \subseteq Nat
    /\ Length \in [Name -> Nat]
    /\ MAX_NAMES \in Nat /\ ARENA \in Nat

UNKNOWN_NAME == -2
INVALID_TID  == -1
Kinds        == {"WhoIs", "RegisterAs", "Shutdown"}

VARIABLES
    names,    \* the entries below names_head
    index,    \* where the arena's next string goes
    inbox,    \* the tasks whose call waits to be received
    call,     \* per task, its call
    state     \* of the server: "running", "exited", or the machine has "halted"

nvars == <<names, index, inbox, call, state>>

NInit == /\ names = <<>> /\ index = 0
         /\ inbox = <<>>
         /\ call = [t \in Task |-> [at |-> "none"]]
         /\ state = "running"

\* The first entry of a name, and the task it is bound to.
Known(table, n)  == \E i \in DOMAIN table : table[i].name = n
Find(table, n)   == CHOOSE i \in DOMAIN table :
                      table[i].name = n /\ \A j \in 1 .. i - 1 : table[j].name # n
Lookup(table, n) == IF Known(table, n) THEN table[Find(table, n)].tid ELSE UNKNOWN_NAME

Rebind(table, n, t) == [table EXCEPT ![Find(table, n)].tid = t]

-----------------------------------------------------------------------------
(* The clients: RegisterAs(), WhoIs() and Shutdown().                      *)

Sent(kind, n) == [at |-> "sent", kind |-> kind, name |-> n, code |-> 0]

Returned(c, code) == [c EXCEPT !.at = "back", !.code = code]

Send(t, kind, n) == /\ state = "running" /\ call[t].at = "none"
                    /\ call' = [call EXCEPT ![t] = Sent(kind, n)]
                    /\ inbox' = Append(inbox, t)
                    /\ UNCHANGED <<names, index, state>>

\* There is no task to send to.
SendFails(t, kind, n) == /\ state = "exited" /\ call[t].at = "none"
                         /\ call' = [call EXCEPT ![t] = Returned(Sent(kind, n), INVALID_TID)]
                         /\ UNCHANGED <<names, index, inbox, state>>

\* Shutdown() asserts that the server answered.
Return(t) == /\ state # "halted" /\ call[t].at = "back"
             /\ IF call[t].kind = "Shutdown" /\ call[t].code = INVALID_TID
                THEN state' = "halted" /\ UNCHANGED call
                ELSE call' = [call EXCEPT ![t] = [at |-> "none"]] /\ UNCHANGED state
             /\ UNCHANGED <<names, index, inbox>>

-----------------------------------------------------------------------------
(* The server.                                                             *)

Receive(t, kind) == /\ state = "running" /\ inbox # <<>>
                    /\ t = Head(inbox) /\ call[t].kind = kind
                    /\ inbox' = Tail(inbox)

Reply(t, code) == call' = [call EXCEPT ![t] = Returned(@, code)]

WhoIs(t) == LET n == call[t].name IN
    /\ Receive(t, "WhoIs")
    /\ Reply(t, Lookup(names, n))
    /\ UNCHANGED <<names, index, state>>

\* The limit is tested before the name is looked up.
TableFull == Len(names) >= MAX_NAMES

\* Mutant: the end of the string is forgotten.
ArenaOverfull(n) == index + Length[n] > ARENA

ArenaFull(n) == index + Length[n] >= ARENA

Panic == state' = "halted" /\ UNCHANGED <<names, index, call>>

\* Mutant: a known name keeps its task.
KeepsTask(t, n) == UNCHANGED <<names, index>>

RegisterKnown(t, n) == /\ names' = Rebind(names, n, t)
                       /\ UNCHANGED index

RegisterNew(t, n) == /\ names' = Append(names, [name |-> n, tid |-> t])
                     /\ index' = index + Length[n] + 1

RegisterAs(t) == LET n == call[t].name IN
    /\ Receive(t, "RegisterAs")
    /\ \/ (TableFull \/ (~ Known(names, n) /\ ArenaFull(n))) /\ Panic
       \/ /\ ~ TableFull
          /\ \/ Known(names, n) /\ RegisterKnown(t, n)
             \/ ~ Known(names, n) /\ ~ ArenaFull(n) /\ RegisterNew(t, n)
          /\ Reply(t, 0)
          /\ UNCHANGED state

\* Mutant: the calls that wait are left waiting.
LeavesCalls(t) == /\ Receive(t, "Shutdown")
                  /\ Reply(t, 0)
                  /\ state' = "exited"
                  /\ UNCHANGED <<names, index>>

\* The server returns: the kernel fails the calls that wait.
Shutdown(t) ==
    /\ Receive(t, "Shutdown")
    /\ call' = [u \in Task |-> IF u = t THEN Returned(call[u], 0)
                               ELSE IF call[u].at = "sent" THEN Returned(call[u], INVALID_TID)
                               ELSE call[u]]
    /\ state' = "exited"
    /\ UNCHANGED <<names, index>>

Serve == \E t \in Task : WhoIs(t) \/ RegisterAs(t) \/ Shutdown(t)

Client(t) == \/ \E kind \in Kinds, n \in Name : Send(t, kind, n) \/ SendFails(t, kind, n)
             \/ Return(t)

NNext == Serve \/ \E t \in Task : Client(t)
NSpec == NInit /\ [][NNext]_nvars

-----------------------------------------------------------------------------
(* The abstract directory: a name is bound to the task of its first entry. *)

Map == INSTANCE Directory WITH
         Capacity <- MAX_NAMES,
         dir <- [n \in Name |-> Lookup(names, n)]

\* What the name server answers is what a map of names to tasks answers, though it searches a
\* table that only grows; and it gives up only when a new name finds no room or the table is
\* full (nameserver.cc:96-155).
DirectoryKept == Map!DSpec

=============================================================================
