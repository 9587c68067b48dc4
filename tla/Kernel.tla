------------------------------- MODULE Kernel -------------------------------
(***************************************************************************)
(* The choochoos microkernel: task table, ready queue, event queue and the *)
(* system calls, as seen by user tasks whose programs are arbitrary.       *)
(*                                                                         *)
(* The kernel runs with interrupts disabled, so everything from the entry  *)
(* of a system call or of an interrupt to the end of driver::activate() is *)
(* one step: the handler, then the re-queueing of the task that was        *)
(* running.  User code runs between steps; it may be interrupted anywhere. *)
(***************************************************************************)
EXTENDS Integers, Sequences, FiniteSets

CONSTANTS
    MAX_SCHEDULED_TASKS,   \* size of the task table and of the ready queue
    Priorities,            \* the priorities programs pass to Create
    Events,                \* the event numbers AwaitEvent accepts
    VicLines               \* the interrupt lines initialize() unmasks

ASSUME KernelAssumption ==
    /\ MAX_SCHEDULED_TASKS \in Nat /\ MAX_SCHEDULED_TASKS >= 2
    /\ Priorities \subseteq Nat /\ 0 \in Priorities
    /\ Events \subseteq Nat /\ IsFiniteSet(Events)
    /\ VicLines \subseteq Events

Tid    == 0 .. MAX_SCHEDULED_TASKS - 1
NoTid  == -1                       \* std::nullopt, and current_task at boot
Stored == -2                       \* an event_queue slot holding VolatileData

\* What a system call leaves in the saved r0 of a task.  Results that are not
\* negative (lengths, tids, volatile data) are all abstracted to Ok.
Ok         == 0
Invalid    == -1
Incomplete == -2
Blocked    == -3    \* "this will be overwritten when a sender shows up"
Queued     == -4    \* "it should be overwritten by Reply()"

Tags  == {"FREE", "READY", "SEND_WAIT", "RECV_WAIT", "REPLY_WAIT", "EVENT_WAIT"}
Modes == {"loop", "user", "returned", "shutdown", "panic", "user_error"}

VARIABLES
    tag,               \* state.tag of each descriptor; "FREE": no descriptor
    priority,
    send_queue_head, send_queue_tail,
    next,              \* state.send_wait.next, meaningful in SEND_WAIT only
    r0,                \* what the task finds in r0 when it next runs
    ready_queue,       \* in ticket order: elements of equal priority are FIFO
    event_queue,       \* [Events -> a waiting Tid, Stored or NoTid (empty)]
    current_task,
    mode               \* "loop": in run(); "user": current_task is executing

vars == <<tag, priority, send_queue_head, send_queue_tail, next, r0,
          ready_queue, event_queue, current_task, mode>>

sendQueues == <<send_queue_head, send_queue_tail, next>>

Live(t)    == tag[t] # "FREE"
Running(t) == mode = "user" /\ current_task = t

-----------------------------------------------------------------------------
(* PriorityQueue<Tid, MAX_SCHEDULED_TASKS>, up to the heap that stores it. *)

Element(t, p) == [tid |-> t, priority |-> p]

\* Mutants: the comparison of Element the wrong way round, in the priority and
\* in the ticket.
LowestFirst(i, q) ==
    \A j \in DOMAIN q : \/ q[i].priority < q[j].priority
                        \/ q[j].priority = q[i].priority /\ i <= j

LatestFirst(i, q) ==
    \A j \in DOMAIN q : \/ q[j].priority < q[i].priority
                        \/ q[j].priority = q[i].priority /\ j <= i

\* The element pop() returns: the highest priority, then the lowest ticket.
IsNext(i, q) ==
    \A j \in DOMAIN q : \/ q[j].priority < q[i].priority
                        \/ q[j].priority = q[i].priority /\ i <= j

Without(q, i) == [j \in 1 .. Len(q) - 1 |-> IF j < i THEN q[j] ELSE q[j + 1]]

HasRoom(q, n) == Len(q) + n <= MAX_SCHEDULED_TASKS

\* push(); a caller that looks at PriorityQueueErr tests HasRoom first.
Push(q, t) == IF HasRoom(q, 1) THEN Append(q, Element(t, priority[t])) ELSE q

\* The tasks of w pushed one after the other.
PushAll(q, w) == q \o [i \in DOMAIN w |-> Element(w[i], priority[w[i]])]

OnReadyQueue(t) == \E i \in DOMAIN ready_queue : ready_queue[i].tid = t

-----------------------------------------------------------------------------
(* The end of activate(), and kpanic().                                    *)

\* After _activate_task returns, a task whose state is READY is queued again.
\* q is the ready queue the handler leaves.
EndActivation(state, q) ==
    /\ ready_queue' = IF state = "READY" THEN Push(q, current_task) ELSE q
    /\ mode' = IF state = "READY" /\ ~HasRoom(q, 1) THEN "panic" ELSE "loop"
    /\ UNCHANGED current_task

\* kpanic and a failed kassert end the system; what they leave is not seen.
Panic ==
    /\ mode' = "panic"
    /\ UNCHANGED <<tag, priority, sendQueues, r0, ready_queue, event_queue,
                   current_task>>

\* handle_syscall() after a handler that changed nothing else: v goes to r0.
ReturnValue(v) ==
    /\ r0' = [r0 EXCEPT ![current_task] = v]
    /\ EndActivation(tag[current_task], ready_queue)
    /\ UNCHANGED <<tag, priority, sendQueues, event_queue>>

-----------------------------------------------------------------------------
Init ==
    /\ tag = [t \in Tid |-> IF t \in {0, 1} THEN "READY" ELSE "FREE"]
    /\ priority = [t \in Tid |-> 0]
    /\ send_queue_head = [t \in Tid |-> NoTid]
    /\ send_queue_tail = [t \in Tid |-> NoTid]
    /\ next = [t \in Tid |-> NoTid]
    /\ r0 = [t \in Tid |-> Ok]
    /\ ready_queue = <<Element(1, 0), Element(0, 0)>>   \* name server first
    /\ event_queue = [e \in Events |-> NoTid]
    /\ current_task = NoTid
    /\ mode = "loop"

(* The loop of run(). *)

\* The entry of a task that has exited is dropped; the loop goes round again.
Schedule ==
    /\ mode = "loop"
    /\ \E i \in DOMAIN ready_queue :
          /\ IsNext(i, ready_queue)
          /\ ready_queue' = Without(ready_queue, i)
          /\ current_task' = ready_queue[i].tid
          /\ mode' = IF Live(ready_queue[i].tid) THEN "user" ELSE "loop"
    /\ UNCHANGED <<tag, priority, sendQueues, r0, event_queue>>

NumEventBlockedTasks == Cardinality({e \in Events : event_queue[e] # NoTid})

\* Mutant: no look at event_queue.
RunReturnsWhenIdle ==
    /\ mode = "loop" /\ ready_queue = <<>>
    /\ mode' = "returned"
    /\ UNCHANGED <<tag, priority, sendQueues, r0, ready_queue, event_queue,
                   current_task>>

RunReturns ==
    /\ mode = "loop" /\ ready_queue = <<>>
    /\ NumEventBlockedTasks = 0
    /\ mode' = "returned"
    /\ UNCHANGED <<tag, priority, sendQueues, r0, ready_queue, event_queue,
                   current_task>>

-----------------------------------------------------------------------------
(* Interrupts. *)

\* The lines of S that a task waits on, and those tasks.
Awaited(S) == {e \in S : event_queue[e] \in Tid}
Woken(S)   == {event_queue[e] : e \in Awaited(S)}

\* The lines of A in the order handle_interrupt() serves them.
Ascending(A) ==
    {lines \in [1 .. Cardinality(A) -> A] :
        \A i, j \in 1 .. Cardinality(A) : i < j => lines[i] < lines[j]}

\* The ready queue after the tasks waiting on lines were pushed in that order.
QueueAfter(lines) ==
    PushAll(ready_queue, [i \in DOMAIN lines |-> event_queue[lines[i]]])

\* The kasserts of service_interrupt(), and room for every task it wakes.
Serviceable(S) == /\ \A t \in Woken(S) : Live(t)
                  /\ HasRoom(ready_queue, Cardinality(Awaited(S)))

\* Mutant: get() of the slot where the code has take().
ServiceInterruptsKeepingSlots(S) ==
    /\ tag' = [t \in Tid |-> IF t \in Woken(S) THEN "READY" ELSE tag[t]]
    /\ next' = [t \in Tid |-> IF t \in Woken(S) THEN NoTid ELSE next[t]]
    /\ event_queue' = [e \in Events |->
          IF e \in S /\ e \notin Awaited(S) THEN Stored ELSE event_queue[e]]
    /\ UNCHANGED <<priority, send_queue_head, send_queue_tail>>

\* service_interrupt() on every asserted line of S: a waiting task is woken;
\* on a line nobody waits on the data is stored, over data stored before.
ServiceInterrupts(S) ==
    /\ tag' = [t \in Tid |-> IF t \in Woken(S) THEN "READY" ELSE tag[t]]
    /\ next' = [t \in Tid |-> IF t \in Woken(S) THEN NoTid ELSE next[t]]
    /\ event_queue' = [e \in Events |->
          IF e \in Awaited(S) THEN NoTid
          ELSE IF e \in S THEN Stored ELSE event_queue[e]]
    /\ UNCHANGED <<priority, send_queue_head, send_queue_tail>>

\* run() halts the processor; the asserted lines are served without a task.
Idle(S) ==
    /\ mode = "loop" /\ ready_queue = <<>>
    /\ NumEventBlockedTasks # 0
    /\ IF Serviceable(S)
       THEN /\ ServiceInterrupts(S)
            /\ r0' = [t \in Tid |-> IF t \in Woken(S) THEN Ok ELSE r0[t]]
            /\ \E lines \in Ascending(Awaited(S)) : ready_queue' = QueueAfter(lines)
            /\ UNCHANGED <<current_task, mode>>
       ELSE Panic

\* An interrupt in user code; current_task's own r0 is saved and restored.
Preempt(S) ==
    /\ mode = "user"
    /\ IF Serviceable(S)
       THEN /\ ServiceInterrupts(S)
            /\ r0' = [t \in Tid |-> IF t \in Woken(S) \cup {current_task}
                                   THEN Ok ELSE r0[t]]
            /\ \E lines \in Ascending(Awaited(S)) :
                  EndActivation(tag'[current_task], QueueAfter(lines))
       ELSE Panic

Interrupt(S) == S # {} /\ (Idle(S) \/ Preempt(S))

-----------------------------------------------------------------------------
(* System calls of current_task. *)

\* Yield() and Perf(): r0 is the caller's own.
Yield == mode = "user" /\ ReturnValue(Ok)

\* MyTid() and MyParentTid() answer without touching the kernel's state; the
\* name server and the first task have no parent.
MyTid == mode = "user" /\ \E v \in {Ok, Invalid} : ReturnValue(v)

FreeTids == {t \in Tid : ~Live(t)}

\* next_tid(): the lowest free one.
IsNextTid(t) == t \in FreeTids /\ \A u \in FreeTids : t <= u

\* Mutant: a negative priority reaches create_task().
CreateAnyPriority(p) ==
    /\ mode = "user"
    /\ FreeTids # {} /\ HasRoom(ready_queue, 1)
    /\ \E t \in Tid :
          /\ IsNextTid(t)
          /\ tag' = [tag EXCEPT ![t] = "READY"]
          /\ priority' = [priority EXCEPT ![t] = p]
          /\ r0' = [r0 EXCEPT ![t] = Ok, ![current_task] = Ok]
          /\ EndActivation(tag[current_task], Append(ready_queue, Element(t, p)))
          /\ UNCHANGED <<sendQueues, event_queue>>

Create(p) ==
    /\ mode = "user"
    /\ IF p < 0 THEN ReturnValue(Invalid)
       ELSE IF FreeTids = {} THEN ReturnValue(Incomplete)
       ELSE IF ~HasRoom(ready_queue, 1) THEN Panic
       ELSE \E t \in Tid :
              /\ IsNextTid(t)
              /\ tag' = [tag EXCEPT ![t] = "READY"]
              /\ priority' = [priority EXCEPT ![t] = p]
              /\ r0' = [r0 EXCEPT ![t] = Ok, ![current_task] = Ok]
              /\ EndActivation(tag[current_task], Append(ready_queue, Element(t, p)))
              /\ UNCHANGED <<sendQueues, event_queue>>

\* q is the list of senders reset_task() walks from t's send_queue_head.
IsSendQueue(q, t) ==
    /\ send_queue_head[t] = (IF q = <<>> THEN NoTid ELSE q[1])
    /\ \A i \in DOMAIN q :
          /\ tag[q[i]] = "SEND_WAIT"
          /\ next[q[i]] = (IF i = Len(q) THEN NoTid ELSE q[i + 1])

\* The lists of senders a walk can visit: when it comes to a task twice, the
\* kassert on its state fails.
Senders     == {t \in Tid : tag[t] = "SEND_WAIT"}
SenderLists == UNION {[1 .. n -> Senders] : n \in 0 .. Cardinality(Senders)}

CanRelease(q) ==
    /\ IsSendQueue(q, current_task)
    /\ \A i, j \in DOMAIN q : q[i] = q[j] => i = j
    /\ HasRoom(ready_queue, Len(q))

Members(q) == {q[i] : i \in DOMAIN q}

\* The senders are released with -2 and the descriptor is dropped; activate()
\* still reads it, so a task that exits READY leaves an entry behind.
Exit ==
    /\ mode = "user"
    /\ IF \E q \in SenderLists : CanRelease(q)
       THEN \E q \in SenderLists :
              LET released == Members(q)
                  stale    == IF current_task \in released THEN "READY"
                                                           ELSE tag[current_task]
              IN  /\ CanRelease(q)
                  /\ tag' = [t \in Tid |-> IF t = current_task THEN "FREE"
                                            ELSE IF t \in released THEN "READY"
                                            ELSE tag[t]]
                  /\ r0' = [t \in Tid |-> IF t = current_task THEN Ok
                                           ELSE IF t \in released THEN Incomplete
                                           ELSE r0[t]]
                  /\ next' = [t \in Tid |-> IF t \in released \cup {current_task}
                                             THEN NoTid ELSE next[t]]
                  /\ priority' = [priority EXCEPT ![current_task] = 0]
                  /\ send_queue_head' = [send_queue_head EXCEPT ![current_task] = NoTid]
                  /\ send_queue_tail' = [send_queue_tail EXCEPT ![current_task] = NoTid]
                  /\ EndActivation(stale, PushAll(ready_queue, q))
                  /\ UNCHANGED event_queue
       ELSE Panic

\* Mutant: the receiver is made READY and never pushed.
MeetUnqueued(r) ==
    /\ tag' = [tag EXCEPT ![r] = "READY", ![current_task] = "REPLY_WAIT"]
    /\ next' = [next EXCEPT ![current_task] = NoTid]
    /\ r0' = [r0 EXCEPT ![r] = Ok, ![current_task] = Blocked]
    /\ EndActivation("REPLY_WAIT", ready_queue)
    /\ UNCHANGED <<priority, send_queue_head, send_queue_tail, event_queue>>

\* Send() to a task blocked in Receive(): the message is copied at once.
Meet(r) ==
    /\ tag' = [tag EXCEPT ![r] = "READY", ![current_task] = "REPLY_WAIT"]
    /\ next' = [next EXCEPT ![current_task] = NoTid]
    /\ r0' = [r0 EXCEPT ![r] = Ok, ![current_task] = Blocked]
    /\ EndActivation("REPLY_WAIT", Push(ready_queue, r))
    /\ UNCHANGED <<priority, send_queue_head, send_queue_tail, event_queue>>

\* The kasserts on r's send queue, the sender's state being SEND_WAIT already.
CanDeposit(r) ==
    LET old_tail == send_queue_tail[r]
    IN  /\ tag[current_task] = "READY"
        /\ IF send_queue_head[r] = NoTid
           THEN old_tail = NoTid
           ELSE /\ old_tail # NoTid
                /\ old_tail # current_task =>
                       tag[old_tail] = "SEND_WAIT" /\ next[old_tail] = NoTid

\* Mutant: the new sender is linked and send_queue_tail not moved to it.
DepositKeepingTail(r) ==
    LET first == send_queue_head[r] = NoTid
        link  == IF first THEN next
                 ELSE [next EXCEPT ![send_queue_tail[r]] = current_task]
    IN  /\ tag' = [tag EXCEPT ![current_task] = "SEND_WAIT"]
        /\ next' = link
        /\ send_queue_head' = IF first
                              THEN [send_queue_head EXCEPT ![r] = current_task]
                              ELSE send_queue_head
        /\ send_queue_tail' = IF first
                              THEN [send_queue_tail EXCEPT ![r] = current_task]
                              ELSE send_queue_tail
        /\ r0' = [r0 EXCEPT ![current_task] = Queued]
        /\ EndActivation("SEND_WAIT", ready_queue)
        /\ UNCHANGED <<priority, event_queue>>

\* Send() to any other task: the sender joins the end of r's send queue.
Deposit(r) ==
    LET first == send_queue_head[r] = NoTid
        fresh == [next EXCEPT ![current_task] = NoTid]
    IN  /\ tag' = [tag EXCEPT ![current_task] = "SEND_WAIT"]
        /\ next' = IF first THEN fresh
                   ELSE [fresh EXCEPT ![send_queue_tail[r]] = current_task]
        /\ send_queue_head' = IF first
                              THEN [send_queue_head EXCEPT ![r] = current_task]
                              ELSE send_queue_head
        /\ send_queue_tail' = [send_queue_tail EXCEPT ![r] = current_task]
        /\ r0' = [r0 EXCEPT ![current_task] = Queued]
        /\ EndActivation("SEND_WAIT", ready_queue)
        /\ UNCHANGED <<priority, event_queue>>

NoSuchTask(t) == t \notin Tid \/ ~Live(t)

Send(r) ==
    /\ mode = "user"
    /\ IF NoSuchTask(r) THEN ReturnValue(Invalid)
       ELSE IF tag[r] = "RECV_WAIT" THEN Meet(r)
       ELSE IF CanDeposit(r) THEN Deposit(r)
       ELSE Panic

\* Receive() with nobody in the send queue.
Open ==
    /\ tag' = [tag EXCEPT ![current_task] = "RECV_WAIT"]
    /\ r0' = [r0 EXCEPT ![current_task] = Blocked]
    /\ EndActivation("RECV_WAIT", ready_queue)
    /\ UNCHANGED <<priority, sendQueues, event_queue>>

\* Mutant: send_queue_tail is left behind when the queue becomes empty.
TakeKeepingTail(s) ==
    /\ tag' = [tag EXCEPT ![s] = "REPLY_WAIT"]
    /\ next' = [next EXCEPT ![s] = NoTid]
    /\ send_queue_head' = [send_queue_head EXCEPT ![current_task] = next[s]]
    /\ r0' = [r0 EXCEPT ![current_task] = Ok]
    /\ EndActivation("READY", ready_queue)
    /\ UNCHANGED <<send_queue_tail, priority, event_queue>>

\* Receive() takes the message of the head of the send queue, s.
Take(s) ==
    /\ tag' = [tag EXCEPT ![s] = "REPLY_WAIT"]
    /\ next' = [next EXCEPT ![s] = NoTid]
    /\ send_queue_head' = [send_queue_head EXCEPT ![current_task] = next[s]]
    /\ send_queue_tail' = IF next[s] = NoTid
                          THEN [send_queue_tail EXCEPT ![current_task] = NoTid]
                          ELSE send_queue_tail
    /\ r0' = [r0 EXCEPT ![current_task] = Ok]
    /\ EndActivation("READY", ready_queue)
    /\ UNCHANGED <<priority, event_queue>>

Receive ==
    LET s == send_queue_head[current_task]
    IN  /\ mode = "user"
        /\ IF tag[current_task] # "READY" THEN ReturnValue(Invalid)
           ELSE IF s = NoTid THEN Open
           ELSE IF /\ tag[s] = "SEND_WAIT"
                   /\ next[s] # NoTid => send_queue_tail[current_task] # NoTid
                THEN Take(s)
           ELSE Panic

\* Mutant: the sender's result is not written.
AnswerWithoutResult(t) ==
    /\ tag' = [tag EXCEPT ![t] = "READY"]
    /\ r0' = [r0 EXCEPT ![current_task] = Ok]
    /\ EndActivation(tag'[current_task], Push(ready_queue, t))
    /\ UNCHANGED <<priority, sendQueues, event_queue>>

\* Any task may answer any task that waits for a reply.
Answer(t) ==
    /\ tag' = [tag EXCEPT ![t] = "READY"]
    /\ r0' = [r0 EXCEPT ![t] = Ok, ![current_task] = Ok]
    /\ EndActivation(tag'[current_task], Push(ready_queue, t))
    /\ UNCHANGED <<priority, sendQueues, event_queue>>

\* Mutant: a task whose message was not received yet is answered too.
ReplyToAnySender(t) ==
    /\ mode = "user"
    /\ IF NoSuchTask(t) THEN ReturnValue(Invalid)
       ELSE IF tag[t] \in {"REPLY_WAIT", "SEND_WAIT"} THEN Answer(t)
       ELSE ReturnValue(Incomplete)

Reply(t) ==
    /\ mode = "user"
    /\ IF NoSuchTask(t) THEN ReturnValue(Invalid)
       ELSE IF tag[t] = "REPLY_WAIT" THEN Answer(t)
       ELSE ReturnValue(Incomplete)

\* The data of an interrupt nobody was waiting for.
TakeStored(e) ==
    /\ event_queue' = [event_queue EXCEPT ![e] = NoTid]
    /\ r0' = [r0 EXCEPT ![current_task] = Ok]
    /\ EndActivation("READY", ready_queue)
    /\ UNCHANGED <<tag, priority, sendQueues>>

Sleep(e) ==
    /\ event_queue' = [event_queue EXCEPT ![e] = current_task]
    /\ tag' = [tag EXCEPT ![current_task] = "EVENT_WAIT"]
    /\ next' = [next EXCEPT ![current_task] = NoTid]
    /\ r0' = [r0 EXCEPT ![current_task] = Blocked]
    /\ EndActivation("EVENT_WAIT", ready_queue)
    /\ UNCHANGED <<priority, send_queue_head, send_queue_tail>>

\* AwaitEvent() of no event, or of one a task already waits for: kpanic.
UserError ==
    /\ mode' = "user_error"
    /\ UNCHANGED <<tag, priority, sendQueues, r0, ready_queue, event_queue,
                   current_task>>

AwaitEvent(e) ==
    /\ mode = "user"
    /\ IF e \notin Events \/ event_queue[e] \in Tid THEN UserError
       ELSE IF event_queue[e] = NoTid THEN Sleep(e)
       ELSE IF tag[current_task] = "READY" THEN TakeStored(e)
       ELSE Panic

Shutdown ==
    /\ mode = "user"
    /\ mode' = "shutdown"
    /\ UNCHANGED <<tag, priority, sendQueues, r0, ready_queue, event_queue,
                   current_task>>

-----------------------------------------------------------------------------
(* Specifications. *)

\* run() has returned, or kexit() stopped the processor.
Halted == mode \notin {"loop", "user"} /\ UNCHANGED vars

NoSuchTid   == -1     \* arguments the handlers refuse
NoSuchEvent == -1
BadPriority == -1

SystemCall ==
    \/ Yield \/ MyTid \/ Exit \/ Receive \/ Shutdown
    \/ \E t \in Tid \cup {NoSuchTid} : Send(t) \/ Reply(t)
    \/ \E e \in Events \cup {NoSuchEvent} : AwaitEvent(e)

Creation == \E p \in Priorities \cup {BadPriority} : Create(p)

CoreNext ==
    \/ Schedule \/ RunReturns \/ SystemCall \/ Halted
    \/ \E S \in SUBSET VicLines : Interrupt(S)

Next == CoreNext \/ Creation

Spec == Init /\ [][Next]_vars

\* The tid Create() would hand out has no entry left on the ready queue.
Settled == \A t \in Tid : IsNextTid(t) => ~OnReadyQueue(t)

\* Programs that never create a task while the entry of the exited task whose
\* tid it would reuse is still queued.
OrderlyNext == CoreNext \/ (Settled /\ Creation)

OrderlySpec == Init /\ [][OrderlyNext]_vars

\* run() never stops between two tasks, a task makes a system call or is
\* interrupted in the end, and a device whose line is not served keeps it
\* asserted (or asserts it again).
UserStep == SystemCall \/ (Settled /\ Creation) \/ \E S \in SUBSET VicLines : S # {} /\ Preempt(S)

Served(e) == \E S \in SUBSET VicLines : e \in S /\ Interrupt(S)

LiveSpec ==
    /\ OrderlySpec
    /\ WF_vars(Schedule) /\ WF_vars(RunReturns) /\ WF_vars(UserStep)
    /\ \A e \in VicLines : SF_vars(Served(e))

-----------------------------------------------------------------------------
(* Correctness. *)

Entry == [tid : Tid, priority : Priorities]

TypeOK ==
    /\ tag \in [Tid -> Tags]
    /\ priority \in [Tid -> Priorities]
    /\ send_queue_head \in [Tid -> Tid \cup {NoTid}]
    /\ send_queue_tail \in [Tid -> Tid \cup {NoTid}]
    /\ next \in [Tid -> Tid \cup {NoTid}]
    /\ r0 \in [Tid -> {Ok, Invalid, Incomplete, Blocked, Queued}]
    /\ ready_queue \in Seq(Entry) /\ Len(ready_queue) <= MAX_SCHEDULED_TASKS
    /\ event_queue \in [Events -> Tid \cup {NoTid, Stored}]
    /\ current_task \in Tid \cup {NoTid}
    /\ mode \in Modes

Alive == mode \in {"loop", "user"}

\* Every entry of the ready queue belongs to a different task, one that is READY
\* and not running, at its own priority; or it is what an exited task leaves.
QueueEntriesSound ==
    Alive =>
      \A i \in DOMAIN ready_queue :
        LET t == ready_queue[i].tid
        IN  /\ \A j \in DOMAIN ready_queue : ready_queue[j].tid = t => j = i
            /\ ~Running(t)
            /\ tag[t] \in {"READY", "FREE"}
            /\ tag[t] = "READY" => ready_queue[i].priority = priority[t]

\* kernel.md:569: a READY task "is on the ready_queue, waiting to be scheduled",
\* unless it is the one that runs; no wake-up is lost in reply.cc, send.cc, exit.cc or irq_handler.cc.
ReadyMeansQueued ==
    Alive => \A t \in Tid : tag[t] = "READY" => Running(t) \/ OnReadyQueue(t)

\* The ready queue and the states of the tasks agree, both ways.
ReadyQueueSound == QueueEntriesSound /\ ReadyMeansQueued

\* The task that runs is READY: nothing blocks it while it runs.
RunningIsReady == mode = "user" => tag[current_task] = "READY"

\* A task waits for an event exactly when one event_queue slot names it.
EventSlotsSound ==
    Alive =>
      /\ \A t \in Tid : tag[t] = "EVENT_WAIT" <=> \E e \in Events : event_queue[e] = t
      /\ \A e, f \in Events :
            event_queue[e] = event_queue[f] /\ event_queue[e] \in Tid => e = f

\* A task that can run has the result of its call: -3 and -4 are overwritten
\* (the comments at send.cc:54, send.cc:76 and receive.cc:19).
ReadyHasResult ==
    Alive => \A t \in Tid : tag[t] \in {"READY", "FREE"} => r0[t] \notin {Blocked, Queued}

NoSentinelSeen == mode = "user" => r0[current_task] \notin {Blocked, Queued}

Distinct(q) == \A i, j \in DOMAIN q : q[i] = q[j] => i = j

SendQueuesOf(t) == {q \in SenderLists : Distinct(q) /\ IsSendQueue(q, t)}

\* A list that is broken counts as empty.
SendQueue(t) == IF SendQueuesOf(t) = {} THEN <<>>
                ELSE CHOOSE q \in SendQueuesOf(t) : TRUE

\* Every task's send queue is a list that ends at its tail; a SEND_WAIT task is
\* in exactly one of them; a task blocked in Receive() has an empty one.
SendQueuesSound ==
    Alive =>
      /\ \A r \in Tid :
            /\ SendQueuesOf(r) # {}
            /\ send_queue_tail[r] = (IF SendQueue(r) = <<>> THEN NoTid
                                     ELSE SendQueue(r)[Len(SendQueue(r))])
            /\ tag[r] \in {"RECV_WAIT", "FREE"} => SendQueue(r) = <<>>
      /\ \A t \in Tid :
            tag[t] = "SEND_WAIT" =>
              \E r \in Tid : \A u \in Tid : t \in Members(SendQueue(u)) <=> u = r

\* No kassert fails and the ready queue never overflows, whatever the programs
\* do; the kpanics left are AwaitEvent()'s own.
NeverPanics == mode # "panic"

\* run() returns only when no task could ever run again.
NoEarlyReturn ==
    mode = "returned" => \A t \in Tid : tag[t] \notin {"READY", "EVENT_WAIT"}

\* The processor never goes to a task while one of higher priority is READY.
HighestPriorityFirst ==
    [][mode = "loop" /\ mode' = "user" =>
         \A t \in Tid : tag[t] = "READY" => priority[t] <= priority[current_task']]_vars

TopPriority == CHOOSE p \in Priorities : \A o \in Priorities : o <= p

\* A task of the highest priority that is READY, or waits for a line the VIC
\* lets through, runs in the end: equals take turns, and no wake-up is lost.
CanBeServed(t) ==
    /\ priority[t] = TopPriority
    /\ tag[t] = "READY" \/ \E e \in VicLines : event_queue[e] = t

TopPriorityRuns == \A t \in Tid : Alive /\ CanBeServed(t) ~> Running(t) \/ ~Alive

-----------------------------------------------------------------------------
(* The kernel implements Rendezvous. *)

PhaseOf(state) ==
    CASE state = "FREE"       -> "absent"
      [] state = "READY"      -> "active"
      [] state = "SEND_WAIT"  -> "sending"
      [] state = "RECV_WAIT"  -> "receiving"
      [] state = "REPLY_WAIT" -> "replying"
      [] state = "EVENT_WAIT" -> "sleeping"

R == INSTANCE Rendezvous WITH
        Task    <- Tid,
        None    <- NoTid,
        Initial <- {0, 1},
        phase   <- [t \in Tid |-> PhaseOf(tag[t])],
        mailbox <- [t \in Tid |-> SendQueue(t)],
        result  <- [t \in Tid |-> CASE r0[t] \in {Blocked, Queued} -> "pending"
                                     [] r0[t] = Incomplete         -> "incomplete"
                                     [] OTHER                      -> "done"],
        running <- IF mode = "user" THEN current_task ELSE NoTid

\* Every step of the kernel is a step of Rendezvous or leaves it unchanged.
ImplementsRendezvous == R!RSpec

=============================================================================
