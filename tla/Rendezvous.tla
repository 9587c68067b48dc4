----------------------------- MODULE Rendezvous -----------------------------
(***************************************************************************)
(* What the kernel promises its tasks, without queues, tables or tickets:  *)
(* one task runs at a time; a Send that finds the receiver busy waits in   *)
(* the receiver's mailbox, first come first served; the sender runs again  *)
(* only after a Reply, or after the receiver has exited; a task asleep     *)
(* runs again only after an interrupt; and no task runs before the call    *)
(* that blocked it has a result.                                           *)
(***************************************************************************)
EXTENDS Integers, Sequences, FiniteSets

CONSTANTS
    Task,      \* the names tasks can have
    None,      \* not a task
    Initial    \* the tasks there at first

Phases  == {"absent", "active", "sending", "receiving", "replying", "sleeping"}
Results == {"pending", "done", "incomplete"}
Waiting == {"sending", "receiving", "replying", "sleeping"}

VARIABLES
    phase,
    mailbox,    \* the senders waiting for each task, the earliest first
    result,     \* of the last call of each task
    running     \* the task that runs, or None

rvars == <<phase, mailbox, result, running>>

RTypeOK == /\ phase \in [Task -> Phases]
           /\ mailbox \in [Task -> Seq(Task)]
           /\ result \in [Task -> Results]
           /\ running \in Task \cup {None}

RInit ==
    /\ phase = [t \in Task |-> IF t \in Initial THEN "active" ELSE "absent"]
    /\ mailbox = [t \in Task |-> <<>>]
    /\ result = [t \in Task |-> "done"]
    /\ running = None

-----------------------------------------------------------------------------
Run(t) == /\ running = None /\ phase[t] = "active"
          /\ running' = t
          /\ UNCHANGED <<phase, mailbox, result>>

\* The running task gives the processor back, its call having ended in v.
Ends(t, v) == /\ running = t
              /\ running' = None
              /\ result' = [result EXCEPT ![t] = v]

Work(t) == /\ \E v \in Results \ {"pending"} : Ends(t, v)
           /\ UNCHANGED <<phase, mailbox>>

Spawn(t, c) == /\ phase[c] = "absent"
               /\ phase' = [phase EXCEPT ![c] = "active"]
               /\ Ends(t, "done")
               /\ UNCHANGED mailbox

\* The message waits, also when it is the task's own mailbox.
Deposit(t, r) == /\ phase[r] \notin {"absent", "receiving"}
                 /\ phase' = [phase EXCEPT ![t] = "sending"]
                 /\ mailbox' = [mailbox EXCEPT ![r] = Append(@, t)]
                 /\ Ends(t, "pending")

Meet(t, r) == /\ phase[r] = "receiving"
              /\ phase' = [phase EXCEPT ![r] = "active", ![t] = "replying"]
              /\ running = t /\ running' = None
              /\ result' = [result EXCEPT ![r] = "done", ![t] = "pending"]
              /\ UNCHANGED mailbox

Open(t) == /\ mailbox[t] = <<>>
           /\ phase' = [phase EXCEPT ![t] = "receiving"]
           /\ Ends(t, "pending")
           /\ UNCHANGED mailbox

Take(t) == /\ mailbox[t] # <<>>
           /\ phase' = [phase EXCEPT ![Head(mailbox[t])] = "replying"]
           /\ mailbox' = [mailbox EXCEPT ![t] = Tail(@)]
           /\ Ends(t, "done")

Answer(t, s) == /\ phase[s] = "replying"
                /\ phase' = [phase EXCEPT ![s] = "active"]
                /\ running = t /\ running' = None
                /\ result' = [result EXCEPT ![s] = "done", ![t] = "done"]
                /\ UNCHANGED mailbox

Sleep(t) == /\ phase' = [phase EXCEPT ![t] = "sleeping"]
            /\ Ends(t, "pending")
            /\ UNCHANGED mailbox

Senders(t) == {mailbox[t][i] : i \in DOMAIN mailbox[t]}

\* Whoever waits in the mailbox of a task that exits learns that it failed.
Leave(t) ==
    /\ running = t /\ running' = None
    /\ phase' = [s \in Task |-> IF s = t THEN "absent"
                               ELSE IF s \in Senders(t) THEN "active" ELSE phase[s]]
    /\ result' = [s \in Task |-> IF s = t THEN "done"
                                ELSE IF s \in Senders(t) THEN "incomplete" ELSE result[s]]
    /\ mailbox' = [mailbox EXCEPT ![t] = <<>>]

\* Interrupts wake the sleepers in W and take the processor from its task.
Interrupt(W) ==
    /\ \A t \in W : phase[t] = "sleeping"
    /\ phase' = [t \in Task |-> IF t \in W THEN "active" ELSE phase[t]]
    /\ result' = [t \in Task |-> IF t \in W \cup {running} THEN "done" ELSE result[t]]
    /\ running' = None
    /\ UNCHANGED mailbox

RNext ==
    \/ \E W \in SUBSET Task : Interrupt(W)
    \/ \E t \in Task :
         \/ Run(t) \/ Work(t) \/ Open(t) \/ Take(t) \/ Sleep(t) \/ Leave(t)
         \/ \E u \in Task : Spawn(t, u) \/ Deposit(t, u) \/ Meet(t, u) \/ Answer(t, u)

RSpec == RInit /\ [][RNext]_rvars

=============================================================================
