---------------------------- MODULE ClockServer ----------------------------
(***************************************************************************)
(* The clock server, its notifier and the tasks that call it, over the     *)
(* Send-Receive-Reply service of the kernel (Rendezvous).  One action is   *)
(* the stretch of a program up to and including its next system call;      *)
(* between two calls any task may run, as if all had the top priority.     *)
(***************************************************************************)
EXTENDS Integers, Sequences, FiniteSets

CONSTANTS
    Client, Server, Notifier, None,
    Requests,      \* what clients may ask: records with a tag and an argument, an int
    PqCapacity,    \* places of pq
    INT_MAX,       \* the largest int
    MaxTime,       \* bound: the timer stops when current_time is this large
    MaxSince       \* bound: since[c] counts no further

Tags == {"Time", "Delay", "DelayUntil", "Shutdown"}

ASSUME ClockAssumption ==
    /\ Server # Notifier /\ {Server, Notifier} \cap Client = {}
    /\ None \notin Client \cup {Server, Notifier}
    /\ INT_MAX \in Nat /\ PqCapacity \in Nat /\ MaxTime \in Nat /\ MaxSince \in Nat
    /\ Requests \subseteq [tag : Tags, arg : -(INT_MAX + 1) .. INT_MAX]

Nothing == [tag |-> "Nothing", arg |-> 0]

Task    == Client \cup {Server, Notifier}
Initial == Client \cup {Server}

VARIABLES
    phase, mailbox, result, running,   \* the kernel's
    up,             \* FALSE after a panic or a failed assert
    tick_stored,    \* event_queue[5] holds data of an interrupt not awaited
    notifier_pc,    \* "await" or "send": the call the notifier makes next
    shutdown,       \* the notifier's variable of that name
    server_pc,
    tid,            \* the sender that the last Receive() of the server wrote
    stopper,        \* the sender of the Shutdown request
    current_time,
    pq,             \* in ticket order, as in Kernel
    req,            \* the request of each client's call, Nothing between calls
    since,          \* history: timer interrupts since the call
    floor           \* history: the time it must be, as far as the client knows

kernel   == <<phase, mailbox, result, running>>
notifier == <<notifier_pc, shutdown>>
server   == <<server_pc, tid, stopper, current_time, pq>>
clients  == <<req, since, floor>>
vars     == <<kernel, up, tick_stored, notifier, server, clients>>

K == INSTANCE Rendezvous

ServerPCs == {"create", "register", "receive", "handle", "waking", "last",
              "farewell", "exit", "gone"}

\* Two's complement arithmetic on int.
Wrap(n) == ((n + INT_MAX + 1) % (2 * (INT_MAX + 1))) - (INT_MAX + 1)

-----------------------------------------------------------------------------
(* PriorityQueue<DelayedTask, 32>, up to the heap that stores it.          *)

Priority(e) == Wrap(-e.tick_threshold)

\* Mutant: the latest deadline first.
LatestFirst(i, q) ==
    \A j \in DOMAIN q : \/ Priority(q[j]) > Priority(q[i])
                        \/ Priority(q[j]) = Priority(q[i]) /\ i <= j

\* The entry peek() and pop() give: the highest priority, then the first ticket.
IsFirst(i, q) ==
    \A j \in DOMAIN q : \/ Priority(q[j]) < Priority(q[i])
                        \/ Priority(q[j]) = Priority(q[i]) /\ i <= j

IsExpired(e) == e.tick_threshold <= current_time

\* The head of pq is to be woken.
IsDue(i)  == IsFirst(i, pq) /\ IsExpired(pq[i])
NobodyDue == ~ \E i \in DOMAIN pq : IsDue(i)

\* Mutant: off by one.
HasRoomForOneMore == Len(pq) <= PqCapacity

HasRoom == Len(pq) < PqCapacity

\* Mutant: pop() leaves the entry where it is.
WithoutNone(i) == pq

Without(i) == [j \in 1 .. Len(pq) - 1 |-> IF j < i THEN pq[j] ELSE pq[j + 1]]

-----------------------------------------------------------------------------
Init ==
    /\ K!RInit
    /\ up = TRUE
    /\ tick_stored = FALSE
    /\ notifier_pc = "await" /\ shutdown = FALSE
    /\ server_pc = "create" /\ tid = None /\ stopper = None
    /\ current_time = 0 /\ pq = <<>>
    /\ req = [c \in Client |-> Nothing]
    /\ since = [c \in Client |-> 0]
    /\ floor = [c \in Client |-> 0]

\* panic() and a failed assert() end the whole system.
Panic == /\ up' = FALSE
         /\ UNCHANGED <<kernel, tick_stored, notifier, server, clients>>

-----------------------------------------------------------------------------
(* The kernel: who runs, and the underflow interrupt of timer 2.           *)

Run(t) == /\ K!Run(t)
          /\ UNCHANGED <<up, tick_stored, notifier, server, clients>>

\* An interrupt of another line takes the processor away.
Preempt == /\ running # None
           /\ K!Interrupt({})
           /\ UNCHANGED <<up, tick_stored, notifier, server, clients>>

Stopping == server_pc \in {"last", "farewell", "exit", "gone"}

\* Interrupts that nobody waits for leave one mark, however many they are.
TimerInterrupt ==
    /\ current_time < MaxTime \/ Stopping
    /\ IF phase[Notifier] = "sleeping"
       THEN K!Interrupt({Notifier}) /\ UNCHANGED tick_stored
       ELSE K!Interrupt({}) /\ tick_stored' = TRUE
    /\ since' = [c \in Client |-> IF since[c] < MaxSince THEN since[c] + 1 ELSE since[c]]
    /\ UNCHANGED <<up, notifier, server, req, floor>>

-----------------------------------------------------------------------------
(* Send() to the server: it is gone, or waits in Receive(), or is busy.    *)

SendToServer(t) ==
    \/ /\ phase[Server] = "absent"
       /\ K!Ends(t, "done")
       /\ UNCHANGED <<phase, mailbox, tid>>
    \/ K!Meet(t, Server) /\ tid' = t
    \/ K!Deposit(t, Server) /\ UNCHANGED tid

(* Notifier().                                                             *)

\* Mutant: the mark of a stored interrupt is never taken off.
AwaitKeepingTick ==
    /\ IF tick_stored THEN K!Ends(Notifier, "done") /\ UNCHANGED <<phase, mailbox>>
                      ELSE K!Sleep(Notifier)
    /\ UNCHANGED tick_stored

\* AwaitEvent(5).
AwaitEvent ==
    /\ IF tick_stored THEN K!Ends(Notifier, "done") /\ UNCHANGED <<phase, mailbox>>
                      ELSE K!Sleep(Notifier)
    /\ tick_stored' = FALSE

AwaitTick ==
    /\ running = Notifier /\ notifier_pc = "await" /\ ~shutdown
    /\ AwaitEvent
    /\ notifier_pc' = "send"
    /\ UNCHANGED <<up, shutdown, server, clients>>

SendTick ==
    /\ running = Notifier /\ notifier_pc = "send"
    /\ SendToServer(Notifier)
    /\ notifier_pc' = "await"
    /\ UNCHANGED <<up, tick_stored, shutdown, server_pc, stopper, current_time,
                   pq, clients>>

NotifierExit ==
    /\ running = Notifier /\ notifier_pc = "await" /\ shutdown
    /\ K!Leave(Notifier)
    /\ UNCHANGED <<up, tick_stored, notifier, server, clients>>

NotifierStep == AwaitTick \/ SendTick \/ NotifierExit

-----------------------------------------------------------------------------
(* Time(), Delay(), DelayUntil(), Shutdown(): the caller's side.           *)

Call(c, r) ==
    /\ running = c
    /\ SendToServer(c)
    /\ req' = [req EXCEPT ![c] = IF phase[Server] = "absent" THEN Nothing ELSE r]
    /\ since' = [since EXCEPT ![c] = 0]
    /\ UNCHANGED <<up, tick_stored, notifier, server_pc, stopper, current_time,
                   pq, floor>>

-----------------------------------------------------------------------------
(* Server().                                                               *)

At(pc) == running = Server /\ server_pc = pc

\* The timer is programmed before, so interrupts may have come already.
CreateNotifier ==
    /\ At("create")
    /\ K!Spawn(Server, Notifier)
    /\ server_pc' = "register"
    /\ UNCHANGED <<up, tick_stored, notifier, tid, stopper, current_time, pq, clients>>

\* RegisterAs() blocks on the name server, which always answers.
Register ==
    /\ At("register")
    /\ K!Ends(Server, "done")
    /\ server_pc' = "receive"
    /\ UNCHANGED <<phase, mailbox, up, tick_stored, notifier, tid, stopper,
                   current_time, pq, clients>>

\* Receive(): a sender is there, or the server blocks and SendToServer writes tid.
ReceiveThen(pc) ==
    /\ \/ K!Take(Server) /\ tid' = Head(mailbox[Server])
       \/ K!Open(Server) /\ running = Server /\ UNCHANGED tid
    /\ server_pc' = pc

Receive ==
    /\ At("receive") \/ (At("waking") /\ NobodyDue)
    /\ ReceiveThen("handle")
    /\ UNCHANGED <<up, tick_stored, notifier, stopper, current_time, pq, clients>>

Max(m, n) == IF m < n THEN n ELSE m

\* What a client that gets the answer to r, with time v if it is one of Time(),
\* knows of the clock: a delay has passed since the last time it knew of.
Known(c, r, v) ==
    CASE r.tag = "Time"       -> v
      [] r.tag = "Delay"      -> floor[c] + Max(r.arg, 0)
      [] r.tag = "DelayUntil" -> Max(floor[c], r.arg)
      [] OTHER                -> floor[c]

\* Reply(): without effect on a task that does not wait for one.
Reply(t) == \/ K!Answer(Server, t)
            \/ phase[t] # "replying" /\ K!Ends(Server, "done") /\ UNCHANGED <<phase, mailbox>>

\* v: the number in the Response, if there is one.
ReplyTo(c, v) ==
    /\ Reply(c)
    /\ floor' = [floor EXCEPT ![c] = Known(c, req[c], v)]
    /\ req' = [req EXCEPT ![c] = Nothing]
    /\ since' = [since EXCEPT ![c] = 0]

\* Mutant: the notifier gets no reply.
LeaveNotifier(flag) == UNCHANGED <<kernel, shutdown>>

TellNotifier(flag) == Reply(Notifier) /\ shutdown' = flag

HandleTick ==
    /\ At("handle") /\ tid = Notifier
    /\ TellNotifier(FALSE)
    /\ current_time' = Wrap(current_time + 1)
    /\ server_pc' = "waking"
    /\ UNCHANGED <<up, tick_stored, notifier_pc, tid, stopper, pq, clients>>

Wake(i) ==
    /\ At("waking") /\ IsDue(i)
    /\ ReplyTo(pq[i].tid, 0)
    /\ pq' = Without(i)
    /\ UNCHANGED <<up, tick_stored, notifier, server_pc, tid, stopper, current_time>>

Asks(tag) == At("handle") /\ tid \in Client /\ req[tid].tag = tag

HandleTime ==
    /\ Asks("Time")
    /\ \/ current_time >= INT_MAX /\ Panic
       \/ /\ current_time < INT_MAX
          /\ ReplyTo(tid, current_time)
          /\ server_pc' = "receive"
          /\ UNCHANGED <<up, tick_stored, notifier, tid, stopper, current_time, pq>>

HasPassed(r) == \/ r.tag = "Delay" /\ r.arg <= 0
                \/ r.tag = "DelayUntil" /\ r.arg <= current_time

HandlePassed ==
    /\ Asks("Delay") \/ Asks("DelayUntil")
    /\ HasPassed(req[tid])
    /\ ReplyTo(tid, 0)
    /\ server_pc' = "receive"
    /\ UNCHANGED <<up, tick_stored, notifier, tid, stopper, current_time, pq>>

\* Mutant: a delay counts from the tick before.
ThresholdOneShort(r) ==
    IF r.tag = "Delay" THEN Wrap(current_time + r.arg - 1) ELSE r.arg

Threshold(r) == IF r.tag = "Delay" THEN Wrap(current_time + r.arg) ELSE r.arg

\* enqueue_task(); it asserts that the head of pq is not later than the new entry.
Enqueue ==
    /\ Asks("Delay") \/ Asks("DelayUntil")
    /\ ~HasPassed(req[tid])
    /\ LET threshold == Threshold(req[tid])
           q == Append(pq, [tid |-> tid, tick_threshold |-> threshold])
       IN  IF HasRoom /\ \A i \in DOMAIN q : IsFirst(i, q) => q[i].tick_threshold <= threshold
           THEN /\ pq' = q
                /\ server_pc' = "receive"
                /\ UNCHANGED <<kernel, up, tick_stored, notifier, tid, stopper,
                               current_time, clients>>
           ELSE Panic

\* Only the notifier may send now.
HandleShutdown ==
    /\ Asks("Shutdown")
    /\ ReceiveThen("last")
    /\ stopper' = tid
    /\ UNCHANGED <<up, tick_stored, notifier, current_time, pq, clients>>

HandleLast ==
    /\ At("last")
    /\ \/ tid # Notifier /\ Panic
       \/ /\ tid = Notifier
          /\ TellNotifier(TRUE)
          /\ server_pc' = "farewell"
          /\ UNCHANGED <<up, tick_stored, notifier_pc, tid, stopper,
                         current_time, pq, clients>>

Farewell ==
    /\ At("farewell")
    /\ ReplyTo(stopper, 0)
    /\ server_pc' = "exit"
    /\ UNCHANGED <<up, tick_stored, notifier, tid, stopper, current_time, pq>>

\* The kernel answers -2 to those who still wait to be received.
ServerExit ==
    /\ At("exit")
    /\ K!Leave(Server)
    /\ req' = [c \in Client |-> IF c \in K!Senders(Server) THEN Nothing ELSE req[c]]
    /\ server_pc' = "gone"
    /\ UNCHANGED <<up, tick_stored, notifier, tid, stopper, current_time, pq,
                   since, floor>>

ServerStep ==
    \/ CreateNotifier \/ Register \/ Receive
    \/ HandleTick \/ (\E i \in DOMAIN pq : Wake(i))
    \/ HandleTime \/ HandlePassed \/ Enqueue
    \/ HandleShutdown \/ HandleLast \/ Farewell \/ ServerExit

-----------------------------------------------------------------------------
Next ==
    /\ up
    /\ \/ \E t \in Task : Run(t)
       \/ Preempt
       \/ TimerInterrupt
       \/ NotifierStep
       \/ ServerStep
       \/ \E c \in Client, r \in Requests : Call(c, r)

Spec == Init /\ [][Next]_vars

\* The server and its notifier have the top priority, and a task that runs gets
\* to its next call before interrupts stop it for ever.  Timer 2 goes on, and
\* the kernel takes the processor away from any client in the end.
LiveSpec ==
    /\ Spec
    /\ SF_vars(up /\ Run(Server)) /\ SF_vars(up /\ ServerStep)
    /\ SF_vars(up /\ Run(Notifier)) /\ SF_vars(up /\ NotifierStep)
    /\ WF_vars(up /\ TimerInterrupt)
    /\ WF_vars(up /\ Preempt)
-----------------------------------------------------------------------------
(* Properties.                                                             *)

Int32 == -(INT_MAX + 1) .. INT_MAX

\* Every variable has its type, and pq is within its capacity.
ClockTypeOK ==
    /\ K!RTypeOK
    /\ up \in BOOLEAN /\ tick_stored \in BOOLEAN
    /\ notifier_pc \in {"await", "send"} /\ shutdown \in BOOLEAN
    /\ server_pc \in ServerPCs
    /\ tid \in Task \cup {None} /\ stopper \in Client \cup {None}
    /\ current_time \in Int32
    /\ pq \in Seq([tid : Client, tick_threshold : Int32]) /\ Len(pq) <= PqCapacity
    /\ req \in [Client -> Requests \cup {Nothing}]
    /\ since \in [Client -> 0 .. MaxSince]
    /\ floor \in [Client -> Int]

InPq(c) == \E i \in DOMAIN pq : pq[i].tid = c

\* The places where the server keeps a caller it has received: pq, its hand
\* (the request being handled), and the Shutdown it still has to answer.
InHand(c)     == server_pc = "handle" /\ phase[Server] = "active" /\ tid = c
IsStopper(c)  == server_pc \in {"last", "farewell"} /\ stopper = c
IsIntruder(c) == server_pc = "last" /\ phase[Server] = "active" /\ tid = c

\* While the server lives, a caller it has received is in exactly one of the
\* places from which the server will reply to it, and nobody else is: no caller
\* is forgotten, none is answered twice (clockserver.cc:99-167, where the
\* handlers of Delay and DelayUntil break out without a reply).  And nobody is held
\* too long: when the server waits for its next request, everybody in pq whose time
\* has come has been woken (clockserver.cc:106-117).
CallersHeld ==
    up /\ phase[Server] # "absent" =>
        /\ phase[Server] = "receiving" /\ server_pc = "handle" =>
             \A i \in DOMAIN pq : pq[i].tick_threshold > current_time
        /\ \A i, j \in DOMAIN pq : pq[i].tid = pq[j].tid => i = j
        /\ \A c \in Client :
             LET places == {p \in 1 .. 4 : <<InPq(c), InHand(c), IsStopper(c), IsIntruder(c)>>[p]}
             IN  Cardinality(places) = IF phase[c] = "replying" THEN 1 ELSE 0

\* The clock is never behind what the answers of the server told a client: Time()
\* never goes back, and after Delay(n) or DelayUntil(n) it is at least as late as
\* the caller may conclude ("10-millisecond resolution", kernel.md:918).
PromisesKept == \A c \in Client : floor[c] <= current_time

\* A delay of n ticks lasts at least n - 2 interrupts of timer 2: one tick can be
\* on its way in the notifier and one more be stored when it is called.  The
\* server counts messages, so this is about notifier and event queue too.
DelaysLast ==
    [][\A c \in Client :
         req[c].tag = "Delay" /\ phase[c] = "replying" /\ phase'[c] = "active"
            => since[c] >= req[c].arg - 2]_vars

\* The system panics only when pq is full, when current_time has reached INT_MAX, or
\* when a client calls after a Shutdown and before the next tick.  The asserts of
\* enqueue_task() and of the tick (clockserver.cc:68, 101) hold however requests
\* come, as long as no deadline overflows.
PanicsForCause ==
    ~up => \/ server_pc = "last" /\ tid \in Client
           \/ server_pc = "handle" /\ (Len(pq) = PqCapacity \/ current_time = INT_MAX)

\* A task that waits for the server is received, and a task that is delayed is
\* woken, in the end, unless the server has been told to stop; the timer of the
\* model stops at MaxTime, so deadlines beyond are left out.  A Shutdown is carried
\* out: the server and the notifier exit, and the caller is answered ("cleanly exits
\* the clock server and notifier", kernel.md:953), unless another request comes in
\* between, which panics.
RequestsEnd ==
    /\ \A c \in Client :
        /\ phase[c] = "sending" ~> phase[c] # "sending" \/ ~up
        /\ (\E i \in DOMAIN pq : pq[i].tid = c /\ pq[i].tick_threshold <= MaxTime)
              ~> ~InPq(c) \/ Stopping \/ ~up
    /\ server_pc = "last" ~> \/ ~up
                             \/ /\ phase[Server] = "absent" /\ phase[Notifier] = "absent"
                                /\ phase[stopper] # "replying"
=============================================================================
