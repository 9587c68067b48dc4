---------------------------- MODULE KernelProofs ----------------------------
(***************************************************************************)
(* Proofs about Kernel for every number of descriptors, set of priorities, *)
(* events and unmasked lines, in four parts: types; the ready queue, the   *)
(* events and the scheduler; the send queues; and that Kernel implements   *)
(* Rendezvous.                                                             *)
(***************************************************************************)
EXTENDS Kernel, FiniteSetTheorems, FunctionTheorems, WellFoundedInduction, TLAPS

-----------------------------------------------------------------------------
(* Sets of naturals have a least element: what is left of induction here.  *)

LEMMA LeastNatural ==
  ASSUME NEW T \in SUBSET Nat, T # {}
  PROVE  \E m \in T : \A n \in T : m <= n
  <1> DEFINE less == OpToRel(<, Nat)
  <1>1. \A a, b \in Nat : <<a, b>> \in less <=> a < b
    BY DEF OpToRel
  <1>2. IsWellFoundedOn(less, Nat)
    BY NatLessThanWellFounded
  <1> HIDE DEF less
  <1>3. PICK m \in T : \A n \in T : ~(<<n, m>> \in less)
    BY <1>2, WFMin
  <1>4. m \in Nat /\ \A n \in T : n \in Nat
    OBVIOUS
  <1>5. \A n \in T : ~(n < m)
    BY <1>1, <1>3, <1>4
  <1> QED BY <1>4, <1>5

-----------------------------------------------------------------------------
(* The ready queue as a sequence. *)

LEMMA TidType == /\ Tid \subseteq Nat /\ 0 \in Tid /\ 1 \in Tid
                 /\ NoTid \notin Tid /\ Stored \notin Tid
  BY KernelAssumption DEF Tid, NoTid, Stored

LEMMA WithoutType ==
  ASSUME NEW S, NEW q \in Seq(S), NEW i \in DOMAIN q
  PROVE  /\ Without(q, i) \in Seq(S)
         /\ Len(Without(q, i)) = Len(q) - 1
  <1> DEFINE w == Without(q, i)
  <1>1. Len(q) \in Nat /\ DOMAIN q = 1 .. Len(q)
    OBVIOUS
  <1>2. w \in [1 .. Len(q) - 1 -> S]
    BY <1>1 DEF Without
  <1>3. Len(q) - 1 \in Nat
    BY <1>1
  <1>4. w \in Seq(S)
    BY <1>2, <1>3
  <1>5. Len(w) = Len(q) - 1
    BY <1>2, <1>3, <1>4
  <1> QED BY <1>4, <1>5

\* Pushing a list of tasks appends one entry for each, in order.
LEMMA PushAllType ==
  ASSUME NEW q \in Seq(Entry), NEW n \in Nat, NEW w \in [1 .. n -> Tid],
         priority \in [Tid -> Priorities]
  PROVE  /\ PushAll(q, w) \in Seq(Entry)
         /\ Len(PushAll(q, w)) = Len(q) + n
         /\ \A i \in 1 .. Len(q) : PushAll(q, w)[i] = q[i]
         /\ \A i \in 1 .. n : /\ PushAll(q, w)[Len(q) + i].tid = w[i]
                               /\ PushAll(q, w)[Len(q) + i].priority = priority[w[i]]
  <1> DEFINE e == [i \in DOMAIN w |-> Element(w[i], priority[w[i]])]
  <1>1. e \in [1 .. n -> Entry]
    BY DEF Element, Entry
  <1>2. e \in Seq(Entry) /\ Len(e) = n
    BY <1>1
  <1>3. \A i \in 1 .. n : e[i].tid = w[i] /\ e[i].priority = priority[w[i]]
    BY DEF Element
  <1>4. PushAll(q, w) = q \o e
    BY DEF PushAll
  <1> HIDE DEF e
  <1>5. /\ q \o e \in Seq(Entry)
        /\ Len(q \o e) = Len(q) + n
    BY <1>2
  <1>6. \A i \in 1 .. Len(q) : (q \o e)[i] = q[i]
    BY <1>2
  <1>7. \A i \in 1 .. n : (q \o e)[Len(q) + i] = e[i]
    BY <1>2
  <1> QED BY <1>3, <1>4, <1>5, <1>6, <1>7

-----------------------------------------------------------------------------
(* Type correctness, of every program: Spec does not ask for orderly ones. *)

TypeInv == TypeOK /\ (mode = "user" => current_task \in Tid)

TypeOfQueue(q) == q \in Seq(Entry) /\ Len(q) <= MAX_SCHEDULED_TASKS

LEMMA PushTypeOK ==
  ASSUME TypeOK, NEW q, TypeOfQueue(q), NEW t \in Tid
  PROVE  TypeOfQueue(Push(q, t))
  <1>1. Element(t, priority[t]) \in Entry
    BY DEF Element, Entry, TypeOK
  <1>2. MAX_SCHEDULED_TASKS \in Nat
    BY KernelAssumption
  <1> QED BY <1>1, <1>2 DEF Push, HasRoom, TypeOfQueue

LEMMA EndActivationTypeOK ==
  ASSUME TypeInv, mode = "user", NEW q, TypeOfQueue(q), NEW state,
         EndActivation(state, q)
  PROVE  /\ TypeOfQueue(ready_queue')
         /\ mode' \in {"loop", "panic"}
         /\ current_task' = current_task /\ current_task \in Tid
  BY PushTypeOK DEF TypeInv, EndActivation

\* The tasks that lines wake, pushed in the order of the lines.
LEMMA QueueAfterType ==
  ASSUME TypeOK, NEW S \in SUBSET VicLines, NEW lines \in Ascending(Awaited(S)),
         Serviceable(S)
  PROVE  /\ Cardinality(Awaited(S)) \in Nat
         /\ [i \in DOMAIN lines |-> event_queue[lines[i]]]
               \in [1 .. Cardinality(Awaited(S)) -> Tid]
         /\ TypeOfQueue(QueueAfter(lines))
  <1> DEFINE A == Awaited(S)
             w == [i \in DOMAIN lines |-> event_queue[lines[i]]]
  <1>1. IsFiniteSet(A)
    <2>1. A \subseteq Events
      BY KernelAssumption DEF Awaited
    <2> QED BY <2>1, FS_Subset, KernelAssumption
  <1>2. Cardinality(A) \in Nat
    BY <1>1, FS_CardinalityType
  <1>3. lines \in [1 .. Cardinality(A) -> A]
    BY DEF Ascending
  <1>4. \A e \in A : event_queue[e] \in Tid
    BY DEF Awaited
  <1>5. w \in [1 .. Cardinality(A) -> Tid]
    BY <1>3, <1>4
  <1>6. HasRoom(ready_queue, Cardinality(A))
    BY DEF Serviceable
  <1>7. ready_queue \in Seq(Entry) /\ priority \in [Tid -> Priorities]
    BY DEF TypeOK
  <1> HIDE DEF A, w
  <1>8. /\ PushAll(ready_queue, w) \in Seq(Entry)
        /\ Len(PushAll(ready_queue, w)) = Len(ready_queue) + Cardinality(A)
    BY <1>2, <1>5, <1>7, PushAllType
  <1>9. QueueAfter(lines) = PushAll(ready_queue, w)
    BY DEF QueueAfter, w
  <1> QED BY <1>2, <1>5, <1>6, <1>8, <1>9 DEF A, w, TypeOfQueue, HasRoom

LEMMA ServiceTypeOK ==
  ASSUME TypeOK, NEW S \in SUBSET VicLines, ServiceInterrupts(S)
  PROVE  /\ tag' \in [Tid -> Tags]
         /\ next' \in [Tid -> Tid \cup {NoTid}]
         /\ event_queue' \in [Events -> Tid \cup {NoTid, Stored}]
         /\ UNCHANGED <<priority, send_queue_head, send_queue_tail>>
  <1>1. tag' \in [Tid -> Tags]
    BY DEF TypeOK, ServiceInterrupts, Tags
  <1>2. next' \in [Tid -> Tid \cup {NoTid}]
    BY DEF TypeOK, ServiceInterrupts
  <1>3. event_queue' \in [Events -> Tid \cup {NoTid, Stored}]
    BY DEF TypeOK, ServiceInterrupts
  <1> QED BY <1>1, <1>2, <1>3 DEF ServiceInterrupts

\* The walk of reset_task() visits different tasks, all of them in SEND_WAIT.
LEMMA SenderListType ==
  ASSUME NEW q \in SenderLists
  PROVE  /\ Len(q) \in Nat /\ q \in [1 .. Len(q) -> Senders]
         /\ q \in [1 .. Len(q) -> Tid] /\ DOMAIN q = 1 .. Len(q)
         /\ Members(q) \subseteq Senders
  <1>1. PICK n \in 0 .. Cardinality(Senders) : q \in [1 .. n -> Senders]
    BY DEF SenderLists
  <1>2. Senders \subseteq Tid
    BY DEF Senders
  <1>3. IsFiniteSet(Senders)
    <2>1. IsFiniteSet(Tid)
      BY KernelAssumption, FS_Interval DEF Tid
    <2> QED BY <1>2, <2>1, FS_Subset
  <1>4. n \in Nat
    BY <1>3, FS_CardinalityType
  <1>5. q \in Seq(Senders) /\ Len(q) = n
    BY <1>1, <1>4
  <1> QED BY <1>1, <1>2, <1>4, <1>5 DEF Members

\* A handler that leaves a typed queue and typed fields keeps TypeInv.
LEMMA HandlerTypeInv ==
  ASSUME TypeInv, mode = "user", NEW q, TypeOfQueue(q), NEW state,
         EndActivation(state, q),
         tag' \in [Tid -> Tags],
         priority' \in [Tid -> Priorities],
         send_queue_head' \in [Tid -> Tid \cup {NoTid}],
         send_queue_tail' \in [Tid -> Tid \cup {NoTid}],
         next' \in [Tid -> Tid \cup {NoTid}],
         r0' \in [Tid -> {Ok, Invalid, Incomplete, Blocked, Queued}],
         event_queue' \in [Events -> Tid \cup {NoTid, Stored}]
  PROVE  TypeInv'
  <1>1. /\ TypeOfQueue(ready_queue')
        /\ mode' \in {"loop", "panic"}
        /\ current_task' = current_task /\ current_task \in Tid
    BY EndActivationTypeOK
  <1> QED BY <1>1 DEF TypeInv, TypeOK, TypeOfQueue, Modes

LEMMA ReturnValueTypeInv ==
  ASSUME TypeInv, mode = "user", NEW v \in {Ok, Invalid, Incomplete}, ReturnValue(v)
  PROVE  TypeInv'
  <1>1. current_task \in Tid /\ TypeOfQueue(ready_queue)
    BY DEF TypeInv, TypeOK, TypeOfQueue
  <1>2. EndActivation(tag[current_task], ready_queue)
    BY DEF ReturnValue
  <1> QED BY <1>1, <1>2, HandlerTypeInv DEF ReturnValue, TypeInv, TypeOK, sendQueues

LEMMA PanicTypeInv ==
  ASSUME TypeInv, Panic
  PROVE  TypeInv'
  BY DEF TypeInv, TypeOK, Panic, sendQueues, Modes

LEMMA InitTypeInv == Init => TypeInv
  <1> SUFFICES ASSUME Init PROVE TypeInv
    OBVIOUS
  <1>1. Element(1, 0) \in Entry /\ Element(0, 0) \in Entry
    BY TidType, KernelAssumption DEF Element, Entry
  <1>2. ready_queue \in Seq(Entry) /\ Len(ready_queue) <= MAX_SCHEDULED_TASKS
    BY <1>1, KernelAssumption DEF Init
  <1> QED BY <1>2, KernelAssumption, TidType DEF Init, TypeInv, TypeOK, Tags, Modes

LEMMA ScheduleTypeInv == TypeInv /\ Schedule => TypeInv'
  <1> SUFFICES ASSUME TypeInv, Schedule PROVE TypeInv'
    OBVIOUS
  <1>1. PICK i \in DOMAIN ready_queue :
            /\ ready_queue' = Without(ready_queue, i)
            /\ current_task' = ready_queue[i].tid
            /\ mode' = IF Live(ready_queue[i].tid) THEN "user" ELSE "loop"
    BY DEF Schedule
  <1>2. ready_queue[i] \in Entry
    BY DEF TypeInv, TypeOK
  <1>3. /\ Without(ready_queue, i) \in Seq(Entry)
        /\ Len(Without(ready_queue, i)) = Len(ready_queue) - 1
    BY WithoutType DEF TypeInv, TypeOK
  <1>4. Len(ready_queue) \in Nat /\ MAX_SCHEDULED_TASKS \in Nat
    BY KernelAssumption DEF TypeInv, TypeOK
  <1>5. ready_queue' \in Seq(Entry) /\ Len(ready_queue)' <= MAX_SCHEDULED_TASKS
    BY <1>1, <1>3, <1>4 DEF TypeInv, TypeOK
  <1>6. current_task' \in Tid /\ mode' \in Modes
    BY <1>1, <1>2 DEF Entry, Modes
  <1> QED BY <1>5, <1>6 DEF Schedule, TypeInv, TypeOK, sendQueues

LEMMA InterruptTypeInv ==
  ASSUME TypeInv, NEW S \in SUBSET VicLines, Interrupt(S)
  PROVE  TypeInv'
  <1>0. TypeOK
    BY DEF TypeInv
  <1>1. CASE ~Serviceable(S)
    BY <1>1, PanicTypeInv DEF Interrupt, Idle, Preempt
  <1>2. CASE Idle(S) /\ Serviceable(S)
    <2>1. ServiceInterrupts(S)
      BY <1>2 DEF Idle
    <2>2. PICK lines \in Ascending(Awaited(S)) : ready_queue' = QueueAfter(lines)
      BY <1>2 DEF Idle
    <2>3. ready_queue' \in Seq(Entry) /\ Len(ready_queue)' <= MAX_SCHEDULED_TASKS
      BY <1>0, <1>2, <2>2, QueueAfterType DEF TypeOfQueue
    <2>4. r0' \in [Tid -> {Ok, Invalid, Incomplete, Blocked, Queued}]
      BY <1>0, <1>2 DEF Idle, TypeOK
    <2> QED BY <1>2, <2>1, <2>3, <2>4, ServiceTypeOK DEF Idle, TypeInv, TypeOK
  <1>3. CASE Preempt(S) /\ Serviceable(S)
    <2>1. mode = "user" /\ ServiceInterrupts(S)
      BY <1>3 DEF Preempt
    <2>2. PICK lines \in Ascending(Awaited(S)) :
              EndActivation(tag'[current_task], QueueAfter(lines))
      BY <1>3 DEF Preempt
    <2>3. TypeOfQueue(QueueAfter(lines))
      BY <1>0, <1>3, QueueAfterType
    <2>4. r0' \in [Tid -> {Ok, Invalid, Incomplete, Blocked, Queued}]
      BY <1>0, <1>3 DEF Preempt, TypeOK
    <2>5. /\ tag' \in [Tid -> Tags]
          /\ next' \in [Tid -> Tid \cup {NoTid}]
          /\ event_queue' \in [Events -> Tid \cup {NoTid, Stored}]
          /\ UNCHANGED <<priority, send_queue_head, send_queue_tail>>
      BY <1>0, <2>1, ServiceTypeOK
    <2> QED BY <2>1, <2>2, <2>3, <2>4, <2>5, HandlerTypeInv DEF TypeInv, TypeOK
  <1> QED BY <1>1, <1>2, <1>3 DEF Interrupt

LEMMA CreateTypeInv ==
  ASSUME TypeInv, NEW p \in Priorities \cup {BadPriority}, Create(p)
  PROVE  TypeInv'
  <1>0. /\ TypeOK /\ mode = "user" /\ current_task \in Tid
        /\ Priorities \subseteq Nat /\ MAX_SCHEDULED_TASKS \in Nat
    BY KernelAssumption DEF TypeInv, Create
  <1>1. CASE p < 0
    BY <1>0, <1>1, ReturnValueTypeInv DEF Create
  <1>2. CASE ~(p < 0) /\ FreeTids = {}
    BY <1>0, <1>2, ReturnValueTypeInv DEF Create
  <1>3. CASE ~(p < 0) /\ FreeTids # {} /\ ~HasRoom(ready_queue, 1)
    BY <1>3, PanicTypeInv DEF Create
  <1>4. CASE ~(p < 0) /\ FreeTids # {} /\ HasRoom(ready_queue, 1)
    <2>1. PICK t \in Tid :
              /\ tag' = [tag EXCEPT ![t] = "READY"]
              /\ priority' = [priority EXCEPT ![t] = p]
              /\ r0' = [r0 EXCEPT ![t] = Ok, ![current_task] = Ok]
              /\ EndActivation(tag[current_task], Append(ready_queue, Element(t, p)))
              /\ UNCHANGED <<sendQueues, event_queue>>
      BY <1>4 DEF Create
    <2>2. p \in Priorities
      BY <1>4 DEF BadPriority
    <2>3. Element(t, p) \in Entry
      BY <2>2 DEF Element, Entry
    <2>4. TypeOfQueue(Append(ready_queue, Element(t, p)))
      BY <1>0, <1>4, <2>3 DEF TypeOfQueue, TypeOK, HasRoom
    <2>5. tag' \in [Tid -> Tags] /\ priority' \in [Tid -> Priorities]
      BY <1>0, <2>1, <2>2 DEF TypeOK, Tags
    <2>6. r0' \in [Tid -> {Ok, Invalid, Incomplete, Blocked, Queued}]
      BY <1>0, <2>1 DEF TypeOK
    <2> QED BY <1>0, <2>1, <2>4, <2>5, <2>6, HandlerTypeInv DEF TypeOK, sendQueues
  <1> QED BY <1>1, <1>2, <1>3, <1>4

LEMMA ExitTypeInv == TypeInv /\ Exit => TypeInv'
  <1> SUFFICES ASSUME TypeInv, Exit PROVE TypeInv'
    OBVIOUS
  <1>0. /\ TypeOK /\ mode = "user" /\ current_task \in Tid
        /\ MAX_SCHEDULED_TASKS \in Nat /\ 0 \in Priorities
    BY KernelAssumption DEF TypeInv, Exit
  <1>1. CASE ~(\E q \in SenderLists : CanRelease(q))
    BY <1>1, PanicTypeInv DEF Exit
  <1>2. CASE \E q \in SenderLists : CanRelease(q)
    <2>1. PICK q \in SenderLists :
              /\ CanRelease(q)
              /\ tag' = [t \in Tid |-> IF t = current_task THEN "FREE"
                                        ELSE IF t \in Members(q) THEN "READY"
                                        ELSE tag[t]]
              /\ r0' = [t \in Tid |-> IF t = current_task THEN Ok
                                       ELSE IF t \in Members(q) THEN Incomplete
                                       ELSE r0[t]]
              /\ next' = [t \in Tid |-> IF t \in Members(q) \cup {current_task}
                                         THEN NoTid ELSE next[t]]
              /\ priority' = [priority EXCEPT ![current_task] = 0]
              /\ send_queue_head' = [send_queue_head EXCEPT ![current_task] = NoTid]
              /\ send_queue_tail' = [send_queue_tail EXCEPT ![current_task] = NoTid]
              /\ EndActivation(IF current_task \in Members(q) THEN "READY"
                                ELSE tag[current_task], PushAll(ready_queue, q))
              /\ UNCHANGED event_queue
      BY <1>2 DEF Exit
    <2>2. Len(q) \in Nat /\ q \in [1 .. Len(q) -> Tid]
      BY SenderListType
    <2>3. /\ PushAll(ready_queue, q) \in Seq(Entry)
          /\ Len(PushAll(ready_queue, q)) = Len(ready_queue) + Len(q)
      BY <1>0, <2>2, PushAllType DEF TypeOK
    <2>4. TypeOfQueue(PushAll(ready_queue, q))
      BY <2>1, <2>3 DEF TypeOfQueue, CanRelease, HasRoom
    <2>5. /\ tag' \in [Tid -> Tags]
          /\ next' \in [Tid -> Tid \cup {NoTid}]
          /\ r0' \in [Tid -> {Ok, Invalid, Incomplete, Blocked, Queued}]
      BY <1>0, <2>1 DEF TypeOK, Tags
    <2>6. /\ priority' \in [Tid -> Priorities]
          /\ send_queue_head' \in [Tid -> Tid \cup {NoTid}]
          /\ send_queue_tail' \in [Tid -> Tid \cup {NoTid}]
          /\ event_queue' \in [Events -> Tid \cup {NoTid, Stored}]
      BY <1>0, <2>1 DEF TypeOK
    <2>7. EndActivation(IF current_task \in Members(q) THEN "READY"
                        ELSE tag[current_task], PushAll(ready_queue, q))
      BY <2>1
    <2> QED BY <1>0, <2>4, <2>5, <2>6, <2>7, HandlerTypeInv
  <1> QED BY <1>1, <1>2

LEMMA SendTypeInv ==
  ASSUME TypeInv, NEW r \in Tid \cup {NoSuchTid}, Send(r)
  PROVE  TypeInv'
  <1>0. /\ TypeOK /\ mode = "user" /\ current_task \in Tid
        /\ TypeOfQueue(ready_queue)
    BY DEF TypeInv, TypeOK, TypeOfQueue, Send
  <1>1. CASE NoSuchTask(r)
    BY <1>0, <1>1, ReturnValueTypeInv DEF Send
  <1>2. CASE r \in Tid /\ Meet(r)
    <2>1. TypeOfQueue(Push(ready_queue, r))
      BY <1>0, <1>2, PushTypeOK
    <2>2. EndActivation("REPLY_WAIT", Push(ready_queue, r))
      BY <1>2 DEF Meet
    <2>3. tag' \in [Tid -> Tags]
      BY <1>0, <1>2 DEF Meet, TypeOK, Tags
    <2>4. /\ next' \in [Tid -> Tid \cup {NoTid}]
          /\ r0' \in [Tid -> {Ok, Invalid, Incomplete, Blocked, Queued}]
      BY <1>0, <1>2 DEF Meet, TypeOK
    <2> QED BY <1>0, <1>2, <2>1, <2>2, <2>3, <2>4, HandlerTypeInv DEF Meet, TypeOK
  <1>3. CASE r \in Tid /\ Deposit(r)
    <2>1. EndActivation("SEND_WAIT", ready_queue)
      BY <1>3 DEF Deposit
    <2>2. tag' \in [Tid -> Tags]
      BY <1>0, <1>3 DEF Deposit, TypeOK, Tags
    <2>3. /\ next' \in [Tid -> Tid \cup {NoTid}]
          /\ r0' \in [Tid -> {Ok, Invalid, Incomplete, Blocked, Queued}]
      BY <1>0, <1>3 DEF Deposit, TypeOK
    <2>4. /\ send_queue_head' \in [Tid -> Tid \cup {NoTid}]
          /\ send_queue_tail' \in [Tid -> Tid \cup {NoTid}]
      BY <1>0, <1>3 DEF Deposit, TypeOK
    <2>5. UNCHANGED <<priority, event_queue>>
      BY <1>3 DEF Deposit
    <2> QED BY <1>0, <2>1, <2>2, <2>3, <2>4, <2>5, HandlerTypeInv DEF TypeOK
  <1> QED BY <1>1, <1>2, <1>3, PanicTypeInv DEF Send, NoSuchTask

LEMMA ReceiveTypeInv == TypeInv /\ Receive => TypeInv'
  <1> SUFFICES ASSUME TypeInv, Receive PROVE TypeInv'
    OBVIOUS
  <1> DEFINE s == send_queue_head[current_task]
  <1>0. /\ TypeOK /\ mode = "user" /\ current_task \in Tid
        /\ TypeOfQueue(ready_queue) /\ s \in Tid \cup {NoTid}
    BY DEF TypeInv, TypeOK, TypeOfQueue, Receive
  <1>1. CASE ReturnValue(Invalid)
    BY <1>0, <1>1, ReturnValueTypeInv
  <1>2. CASE Open
    <2>1. EndActivation("RECV_WAIT", ready_queue)
      BY <1>2 DEF Open
    <2>2. tag' \in [Tid -> Tags]
      BY <1>0, <1>2 DEF Open, TypeOK, Tags
    <2>3. r0' \in [Tid -> {Ok, Invalid, Incomplete, Blocked, Queued}]
      BY <1>0, <1>2 DEF Open, TypeOK
    <2> QED BY <1>0, <1>2, <2>1, <2>2, <2>3, HandlerTypeInv DEF Open, TypeOK, sendQueues
  <1>3. CASE s \in Tid /\ Take(s)
    <2>1. EndActivation("READY", ready_queue)
      BY <1>3 DEF Take
    <2>2. tag' \in [Tid -> Tags]
      BY <1>0, <1>3 DEF Take, TypeOK, Tags
    <2>3. /\ next' \in [Tid -> Tid \cup {NoTid}]
          /\ r0' \in [Tid -> {Ok, Invalid, Incomplete, Blocked, Queued}]
      BY <1>0, <1>3 DEF Take, TypeOK
    <2>4. /\ send_queue_head' \in [Tid -> Tid \cup {NoTid}]
          /\ send_queue_tail' \in [Tid -> Tid \cup {NoTid}]
      BY <1>0, <1>3 DEF Take, TypeOK
    <2>5. UNCHANGED <<priority, event_queue>>
      BY <1>3 DEF Take
    <2> QED BY <1>0, <2>1, <2>2, <2>3, <2>4, <2>5, HandlerTypeInv DEF TypeOK
  <1> QED BY <1>0, <1>1, <1>2, <1>3, PanicTypeInv DEF Receive

LEMMA ReplyTypeInv ==
  ASSUME TypeInv, NEW t \in Tid \cup {NoSuchTid}, Reply(t)
  PROVE  TypeInv'
  <1>0. /\ TypeOK /\ mode = "user" /\ current_task \in Tid
        /\ TypeOfQueue(ready_queue)
    BY DEF TypeInv, TypeOK, TypeOfQueue, Reply
  <1>1. CASE t \in Tid /\ Answer(t)
    <2>1. TypeOfQueue(Push(ready_queue, t))
      BY <1>0, <1>1, PushTypeOK
    <2>2. EndActivation(tag'[current_task], Push(ready_queue, t))
      BY <1>1 DEF Answer
    <2>3. tag' \in [Tid -> Tags]
      BY <1>0, <1>1 DEF Answer, TypeOK, Tags
    <2>4. r0' \in [Tid -> {Ok, Invalid, Incomplete, Blocked, Queued}]
      BY <1>0, <1>1 DEF Answer, TypeOK
    <2> QED BY <1>0, <1>1, <2>1, <2>2, <2>3, <2>4, HandlerTypeInv
            DEF Answer, TypeOK, sendQueues
  <1> QED BY <1>0, <1>1, ReturnValueTypeInv DEF Reply, NoSuchTask

LEMMA AwaitEventTypeInv ==
  ASSUME TypeInv, NEW e \in Events \cup {NoSuchEvent}, AwaitEvent(e)
  PROVE  TypeInv'
  <1>0. /\ TypeOK /\ mode = "user" /\ current_task \in Tid
        /\ TypeOfQueue(ready_queue)
    BY DEF TypeInv, TypeOK, TypeOfQueue, AwaitEvent
  <1>1. CASE UserError
    BY <1>1 DEF UserError, TypeInv, TypeOK, sendQueues, Modes
  <1>2. CASE e \in Events /\ Sleep(e)
    <2>1. EndActivation("EVENT_WAIT", ready_queue)
      BY <1>2 DEF Sleep
    <2>2. tag' \in [Tid -> Tags]
      BY <1>0, <1>2 DEF Sleep, TypeOK, Tags
    <2>3. /\ next' \in [Tid -> Tid \cup {NoTid}]
          /\ r0' \in [Tid -> {Ok, Invalid, Incomplete, Blocked, Queued}]
          /\ event_queue' \in [Events -> Tid \cup {NoTid, Stored}]
      BY <1>0, <1>2 DEF Sleep, TypeOK
    <2> QED BY <1>0, <1>2, <2>1, <2>2, <2>3, HandlerTypeInv DEF Sleep, TypeOK
  <1>3. CASE e \in Events /\ TakeStored(e)
    <2>1. EndActivation("READY", ready_queue)
      BY <1>3 DEF TakeStored
    <2>2. /\ r0' \in [Tid -> {Ok, Invalid, Incomplete, Blocked, Queued}]
          /\ event_queue' \in [Events -> Tid \cup {NoTid, Stored}]
      BY <1>0, <1>3 DEF TakeStored, TypeOK
    <2> QED BY <1>0, <1>3, <2>1, <2>2, HandlerTypeInv DEF TakeStored, TypeOK, sendQueues
  <1> QED BY <1>0, <1>1, <1>2, <1>3, PanicTypeInv DEF AwaitEvent

LEMMA NextTypeInv == TypeInv /\ [Next]_vars => TypeInv'
  <1> SUFFICES ASSUME TypeInv, [Next]_vars PROVE TypeInv'
    OBVIOUS
  <1>1. CASE UNCHANGED vars
    BY <1>1 DEF vars, sendQueues, TypeInv, TypeOK
  <1>2. CASE RunReturns \/ Shutdown
    BY <1>2 DEF RunReturns, Shutdown, sendQueues, TypeInv, TypeOK, Modes
  <1>3. CASE Yield \/ MyTid
    BY <1>3, ReturnValueTypeInv DEF Yield, MyTid
  <1>4. CASE SystemCall
    BY <1>2, <1>3, <1>4, ExitTypeInv, ReceiveTypeInv, SendTypeInv, ReplyTypeInv,
       AwaitEventTypeInv DEF SystemCall
  <1>5. CASE Creation
    BY <1>5, CreateTypeInv DEF Creation
  <1>6. CASE \E S \in SUBSET VicLines : Interrupt(S)
    BY <1>6, InterruptTypeInv
  <1> QED BY <1>1, <1>2, <1>4, <1>5, <1>6, ScheduleTypeInv DEF Next, CoreNext, Halted

\* Type correctness: no program, orderly or not, takes the kernel's variables
\* out of their types; in particular the ready queue stays within its capacity
\* and the task that runs is one of the table's.
THEOREM TypeCorrect == Spec => []TypeOK
  <1>1. TypeInv => TypeOK
    BY DEF TypeInv
  <1> QED BY <1>1, InitTypeInv, NextTypeInv, PTL DEF Spec

-----------------------------------------------------------------------------
(***************************************************************************)
(* The scheduler of Kernel under orderly programs: what is on the ready    *)
(* queue, who sleeps on which event, and what a task finds when it runs.   *)
(***************************************************************************)

-----------------------------------------------------------------------------
(* Sound queues: the names on q, their states in tg, their priorities in pr.*)

Names(q) == {q[i].tid : i \in DOMAIN q}

MayBeQueued(e, tg, pr) == /\ tg[e.tid] \in {"READY", "FREE"}
                          /\ tg[e.tid] = "READY" => e.priority = pr[e.tid]

Sound(q, tg, pr) ==
    /\ q \in Seq(Entry)
    /\ \A i, j \in DOMAIN q : q[i].tid = q[j].tid => i = j
    /\ \A i \in DOMAIN q : MayBeQueued(q[i], tg, pr)

LEMMA SoundType ==
  ASSUME NEW q, NEW tg, NEW pr, Sound(q, tg, pr)
  PROVE  /\ q \in Seq(Entry) /\ Len(q) \in Nat /\ DOMAIN q = 1 .. Len(q)
         /\ \A i \in DOMAIN q : q[i] \in Entry /\ q[i].tid \in Tid
         /\ \A i \in DOMAIN q : q[i].tid \in Names(q)
         /\ Names(q) \subseteq Tid
  <1>1. q \in Seq(Entry) /\ Len(q) \in Nat /\ DOMAIN q = 1 .. Len(q)
    BY DEF Sound
  <1>2. \A i \in DOMAIN q : q[i] \in Entry
    BY <1>1
  <1>3. \A i \in DOMAIN q : q[i].tid \in Tid
    BY <1>2 DEF Entry
  <1> QED BY <1>1, <1>2, <1>3 DEF Names

LEMMA SoundAgrees ==
  ASSUME NEW q, NEW tg, NEW pr, NEW tg2, NEW pr2, Sound(q, tg, pr),
         \A t \in Names(q) : tg2[t] = tg[t] /\ pr2[t] = pr[t]
  PROVE  Sound(q, tg2, pr2)
  BY DEF Sound, Names, MayBeQueued

\* A task that was not on the queue joins it.
LEMMA SoundAppend ==
  ASSUME NEW q, NEW tg, NEW pr, Sound(q, tg, pr), NEW e \in Entry,
         e.tid \notin Names(q), MayBeQueued(e, tg, pr)
  PROVE  /\ Sound(Append(q, e), tg, pr)
         /\ Names(Append(q, e)) = Names(q) \cup {e.tid}
  <1> DEFINE a == Append(q, e)
  <1>1. /\ q \in Seq(Entry) /\ Len(q) \in Nat /\ DOMAIN q = 1 .. Len(q)
        /\ a \in Seq(Entry) /\ DOMAIN a = 1 .. Len(q) + 1
        /\ \A i \in 1 .. Len(q) : a[i] = q[i]
        /\ a[Len(q) + 1] = e
    BY DEF Sound
  <1> HIDE DEF a
  <1>2. \A i \in DOMAIN a : i \in DOMAIN q \/ i = Len(q) + 1
    BY <1>1
  <1>3. \A i, j \in DOMAIN a : a[i].tid = a[j].tid => i = j
    <2> SUFFICES ASSUME NEW i \in DOMAIN a, NEW j \in DOMAIN a, a[i].tid = a[j].tid
                 PROVE  i = j
      OBVIOUS
    <2>1. CASE i \in DOMAIN q /\ j \in DOMAIN q
      BY <1>1, <2>1 DEF Sound
    <2>2. CASE i \in DOMAIN q /\ j = Len(q) + 1
      BY <1>1, <2>2 DEF Names
    <2>3. CASE i = Len(q) + 1 /\ j \in DOMAIN q
      BY <1>1, <2>3 DEF Names
    <2> QED BY <1>2, <2>1, <2>2, <2>3
  <1>4. \A i \in DOMAIN a : MayBeQueued(a[i], tg, pr)
    BY <1>1, <1>2 DEF Sound
  <1>5. Names(a) = Names(q) \cup {e.tid}
    <2>1. \A t \in Names(a) : t \in Names(q) \cup {e.tid}
      BY <1>1, <1>2 DEF Names
    <2>2. \A t \in Names(q) : t \in Names(a)
      BY <1>1 DEF Names
    <2>3. e.tid \in Names(a)
      BY <1>1 DEF Names
    <2> QED BY <2>1, <2>2, <2>3
  <1> QED BY <1>1, <1>3, <1>4, <1>5 DEF Sound, a

\* A list of different tasks joins the queue.
LEMMA SoundPushAll ==
  ASSUME NEW q, NEW tg, NEW pr, Sound(q, tg, pr),
         priority \in [Tid -> Priorities],
         NEW n \in Nat, NEW w \in [1 .. n -> Tid],
         \A i, j \in 1 .. n : w[i] = w[j] => i = j,
         \A i \in 1 .. n : /\ w[i] \notin Names(q)
                           /\ tg[w[i]] = "READY" /\ pr[w[i]] = priority[w[i]]
  PROVE  /\ Sound(PushAll(q, w), tg, pr)
         /\ Names(PushAll(q, w)) = Names(q) \cup {w[i] : i \in 1 .. n}
  <1> DEFINE a == PushAll(q, w)
             m == Len(q)
  <1>0. /\ q \in Seq(Entry) /\ m \in Nat /\ DOMAIN q = 1 .. m
        /\ \A i \in 1 .. m : q[i].tid \in Names(q)
    BY SoundType
  <1>1. /\ a \in Seq(Entry) /\ Len(a) = m + n
        /\ \A i \in 1 .. m : a[i] = q[i]
        /\ \A i \in 1 .. n : a[m + i].tid = w[i] /\ a[m + i].priority = priority[w[i]]
    <2>1. q \in Seq(Entry)
      BY <1>0
    <2> QED BY ONLY <2>1, n \in Nat, w \in [1 .. n -> Tid],
               priority \in [Tid -> Priorities], PushAllType
  <1> HIDE DEF a, m
  <1>2. DOMAIN a = 1 .. m + n
    BY <1>0, <1>1
  <1>3. \A i \in DOMAIN a : i \in 1 .. m \/ \E k \in 1 .. n : i = m + k
    <2> SUFFICES ASSUME NEW i \in 1 .. m + n, i \notin 1 .. m
                 PROVE  \E k \in 1 .. n : i = m + k
      BY <1>2
    <2>1. i - m \in 1 .. n /\ i = m + (i - m)
      BY <1>0
    <2> QED BY <2>1
  <1>4. \A i \in 1 .. m : i \in DOMAIN a /\ a[i].tid \in Names(q)
    BY <1>0, <1>1, <1>2
  <1>5. \A k \in 1 .. n : m + k \in DOMAIN a /\ a[m + k].tid = w[k]
    <2> SUFFICES ASSUME NEW k \in 1 .. n
                 PROVE  m + k \in 1 .. m + n /\ a[m + k].tid = w[k]
      BY <1>2
    <2>1. a[m + k].tid = w[k]
      BY <1>1
    <2> QED BY <1>0, <2>1
  <1>6. \A i, j \in DOMAIN a : a[i].tid = a[j].tid => i = j
    <2> SUFFICES ASSUME NEW i \in DOMAIN a, NEW j \in DOMAIN a, a[i].tid = a[j].tid
                 PROVE  i = j
      OBVIOUS
    <2>1. CASE i \in 1 .. m /\ j \in 1 .. m
      BY <1>0, <1>1, <2>1 DEF Sound
    <2>2. CASE i \in 1 .. m /\ \E k \in 1 .. n : j = m + k
      BY <1>4, <1>5, <2>2
    <2>3. CASE j \in 1 .. m /\ \E k \in 1 .. n : i = m + k
      BY <1>4, <1>5, <2>3
    <2>4. CASE (\E k \in 1 .. n : i = m + k) /\ (\E k \in 1 .. n : j = m + k)
      BY <1>5, <2>4
    <2> QED BY <1>3, <2>1, <2>2, <2>3, <2>4
  <1>7. \A i \in DOMAIN a : MayBeQueued(a[i], tg, pr)
    <2> SUFFICES ASSUME NEW i \in DOMAIN a PROVE MayBeQueued(a[i], tg, pr)
      OBVIOUS
    <2>1. CASE i \in 1 .. m
      BY <1>0, <1>1, <2>1 DEF Sound
    <2>2. CASE \E k \in 1 .. n : i = m + k
      BY <1>1, <2>2 DEF MayBeQueued
    <2> QED BY <1>3, <2>1, <2>2
  <1>8. Names(a) = Names(q) \cup {w[i] : i \in 1 .. n}
    <2>1. \A t \in Names(a) : t \in Names(q) \cup {w[i] : i \in 1 .. n}
      BY <1>3, <1>4, <1>5 DEF Names
    <2>2. \A t \in Names(q) : t \in Names(a)
      BY <1>0, <1>1, <1>4 DEF Names
    <2>3. \A k \in 1 .. n : w[k] \in Names(a)
      BY <1>5 DEF Names
    <2> QED BY <2>1, <2>2, <2>3
  <1> QED BY <1>1, <1>6, <1>7, <1>8 DEF Sound, a

LEMMA SoundWithout ==
  ASSUME NEW q, NEW tg, NEW pr, Sound(q, tg, pr), NEW i \in DOMAIN q
  PROVE  /\ Sound(Without(q, i), tg, pr)
         /\ Names(Without(q, i)) = Names(q) \ {q[i].tid}
  <1> DEFINE w == Without(q, i)
  <1>1. /\ q \in Seq(Entry) /\ Len(q) \in Nat /\ DOMAIN q = 1 .. Len(q)
        /\ w \in Seq(Entry) /\ Len(w) = Len(q) - 1
    BY WithoutType DEF Sound
  <1>2. DOMAIN w = 1 .. Len(q) - 1
    BY <1>1
  <1>3. \A j \in DOMAIN w : w[j] = IF j < i THEN q[j] ELSE q[j + 1]
    BY <1>2 DEF Without
  <1> HIDE DEF w
  <1>4. \A j \in DOMAIN w : \E k \in DOMAIN q :
            k # i /\ k = (IF j < i THEN j ELSE j + 1) /\ w[j] = q[k]
    BY <1>1, <1>2, <1>3
  <1>5. \A k \in DOMAIN q : k # i => \E j \in DOMAIN w : w[j] = q[k]
    <2> SUFFICES ASSUME NEW k \in DOMAIN q, k # i PROVE \E j \in DOMAIN w : w[j] = q[k]
      OBVIOUS
    <2>1. CASE k < i
      <3>1. k \in DOMAIN w /\ w[k] = q[k]
        BY <1>1, <1>2, <1>3, <2>1
      <3> QED BY <3>1
    <2>2. CASE k > i
      <3>1. k - 1 \in DOMAIN w /\ w[k - 1] = q[k]
        BY <1>1, <1>2, <1>3, <2>2
      <3> QED BY <3>1
    <2> QED BY <1>1, <2>1, <2>2
  <1>6. \A j, m \in DOMAIN w : w[j].tid = w[m].tid => j = m
    BY <1>1, <1>2, <1>4 DEF Sound
  <1>7. \A j \in DOMAIN w : MayBeQueued(w[j], tg, pr)
    BY <1>4 DEF Sound
  <1>8. Names(w) = Names(q) \ {q[i].tid}
    <2>1. \A t \in Names(w) : t \in Names(q) /\ t # q[i].tid
      BY <1>4 DEF Names, Sound
    <2>2. \A t \in Names(q) : t # q[i].tid => t \in Names(w)
      BY <1>5 DEF Names
    <2> QED BY <2>1, <2>2
  <1> QED BY <1>1, <1>6, <1>7, <1>8 DEF Sound, w

\* A sound queue has a place for every task that is not on it: the entries have
\* different names and there are MAX_SCHEDULED_TASKS of those.
LEMMA SoundHasRoomFor ==
  ASSUME NEW q, NEW tg, NEW pr, Sound(q, tg, pr),
         NEW n \in Nat, NEW w \in [1 .. n -> Tid],
         \A i, j \in 1 .. n : w[i] = w[j] => i = j,
         \A i \in 1 .. n : w[i] \notin Names(q)
  PROVE  HasRoom(q, n)
  <1> DEFINE m == Len(q)
             f == [i \in 1 .. m + n |-> IF i <= m THEN q[i].tid ELSE w[i - m]]
  <1>1. m \in Nat /\ DOMAIN q = 1 .. m /\ MAX_SCHEDULED_TASKS \in Nat
    BY KernelAssumption DEF Sound
  <1>2. IsFiniteSet(Tid) /\ Cardinality(Tid) = MAX_SCHEDULED_TASKS
    BY KernelAssumption, FS_Interval DEF Tid
  <1>3. \A i \in 1 .. m : q[i].tid \in Names(q) /\ q[i].tid \in Tid
    BY <1>1, SoundType
  <1>4. \A i, j \in 1 .. m : q[i].tid = q[j].tid => i = j
    BY <1>1 DEF Sound
  <1> HIDE DEF m
  <1>5. \A i \in 1 .. m + n : i \in 1 .. m \/ (~(i <= m) /\ i - m \in 1 .. n)
    BY <1>1
  <1>6. \A i \in 1 .. m + n : f[i] \in Tid
    BY <1>1, <1>3, <1>5
  <1>7. f \in [1 .. m + n -> Tid]
    BY <1>6
  <1>8. \A i, j \in 1 .. m + n : f[i] = f[j] => i = j
    <2> SUFFICES ASSUME NEW i \in 1 .. m + n, NEW j \in 1 .. m + n, f[i] = f[j]
                 PROVE  i = j
      OBVIOUS
    <2>1. CASE i \in 1 .. m /\ j \in 1 .. m
      <3>1. f[i] = q[i].tid /\ f[j] = q[j].tid
        BY <1>1, <2>1
      <3> QED BY <1>4, <2>1, <3>1
    <2>2. CASE i \in 1 .. m /\ ~(j <= m)
      <3>1. f[i] = q[i].tid /\ f[j] = w[j - m] /\ j - m \in 1 .. n
        BY <1>1, <1>5, <2>2
      <3> QED BY <1>3, <2>2, <3>1
    <2>3. CASE ~(i <= m) /\ j \in 1 .. m
      <3>1. f[j] = q[j].tid /\ f[i] = w[i - m] /\ i - m \in 1 .. n
        BY <1>1, <1>5, <2>3
      <3> QED BY <1>3, <2>3, <3>1
    <2>4. CASE ~(i <= m) /\ ~(j <= m)
      <3>1. /\ f[i] = w[i - m] /\ i - m \in 1 .. n
            /\ f[j] = w[j - m] /\ j - m \in 1 .. n
        BY <1>1, <1>5, <2>4
      <3>2. i - m = j - m
        BY <3>1
      <3> QED BY <1>1, <3>2
    <2> QED BY <1>5, <2>1, <2>2, <2>3, <2>4
  <1> HIDE DEF f
  <1>9. IsFiniteSet(1 .. m + n) /\ Cardinality(1 .. m + n) = m + n
    BY <1>1, FS_Interval
  <1>10. f \in Injection(1 .. m + n, Tid)
    BY <1>7, <1>8, Fun_IsInj
  <1>11. m + n <= MAX_SCHEDULED_TASKS
    BY <1>2, <1>9, <1>10, FS_Injection
  <1> QED BY <1>11 DEF HasRoom, m

\* One task in particular: this is why reply.cc:21 and send.cc:68 can do without
\* the result of push().
LEMMA SoundHasRoom ==
  ASSUME NEW q, NEW tg, NEW pr, Sound(q, tg, pr), NEW t \in Tid, t \notin Names(q)
  PROVE  HasRoom(q, 1)
  <1> DEFINE w == [i \in 1 .. 1 |-> t]
  <1>1. w \in [1 .. 1 -> Tid] /\ \A i \in 1 .. 1 : w[i] \notin Names(q)
    OBVIOUS
  <1>2. \A i, j \in 1 .. 1 : w[i] = w[j] => i = j
    OBVIOUS
  <1> HIDE DEF w
  <1>3. 1 \in Nat
    OBVIOUS
  <1> QED BY ONLY <1>1, <1>2, <1>3, Sound(q, tg, pr), SoundHasRoomFor

-----------------------------------------------------------------------------
(* The inductive invariant of orderly programs.                            *)

IInv == /\ TypeInv
        /\ QueueEntriesSound
        /\ ReadyMeansQueued
        /\ RunningIsReady
        /\ EventSlotsSound
        /\ ReadyHasResult
        /\ NoEarlyReturn

\* The parts of it that talk of the event queue and of results.
SlotsAgree(tg, ev) ==
    /\ \A t \in Tid : tg[t] = "EVENT_WAIT" <=> \E e \in Events : ev[e] = t
    /\ \A e, f \in Events : ev[e] = ev[f] /\ ev[e] \in Tid => e = f

ResultsThere(tg, r) ==
    \A t \in Tid : tg[t] \in {"READY", "FREE"} => r[t] \notin {Blocked, Queued}

LEMMA InvParts ==
  ASSUME IInv, Alive
  PROVE  /\ TypeOK
         /\ Sound(ready_queue, tag, priority)
         /\ \A t \in Names(ready_queue) : ~Running(t)
         /\ \A t \in Tid : tag[t] = "READY" => Running(t) \/ t \in Names(ready_queue)
         /\ SlotsAgree(tag, event_queue)
         /\ ResultsThere(tag, r0)
  <1>1. TypeOK
    BY DEF IInv, TypeInv
  <1>2. Sound(ready_queue, tag, priority)
    <2>1. ready_queue \in Seq(Entry)
      BY <1>1 DEF TypeOK
    <2> QED BY <2>1 DEF IInv, QueueEntriesSound, Sound, MayBeQueued
  <1>3. \A t \in Names(ready_queue) : ~Running(t)
    BY DEF IInv, QueueEntriesSound, Names
  <1>4. \A t \in Tid : tag[t] = "READY" => Running(t) \/ t \in Names(ready_queue)
    BY DEF IInv, ReadyMeansQueued, OnReadyQueue, Names
  <1>5. SlotsAgree(tag, event_queue) /\ ResultsThere(tag, r0)
    BY DEF IInv, EventSlotsSound, ReadyHasResult, SlotsAgree, ResultsThere
  <1> QED BY <1>1, <1>2, <1>3, <1>4, <1>5

\* What a handler can count on: current_task is READY and off the queue.
LEMMA UserParts ==
  ASSUME IInv, mode = "user"
  PROVE  /\ TypeOK /\ current_task \in Tid /\ tag[current_task] = "READY"
         /\ Sound(ready_queue, tag, priority)
         /\ current_task \notin Names(ready_queue)
         /\ \A t \in Tid \ {current_task} : tag[t] = "READY" => t \in Names(ready_queue)
         /\ \A t \in Names(ready_queue) : t \in Tid /\ tag[t] \in {"READY", "FREE"}
         /\ SlotsAgree(tag, event_queue)
         /\ ResultsThere(tag, r0)
  <1>1. Alive
    BY DEF Alive
  <1>2. current_task \in Tid /\ tag[current_task] = "READY"
    BY DEF IInv, TypeInv, RunningIsReady
  <1>3. Running(current_task)
    BY DEF Running
  <1>4. \A t \in Tid \ {current_task} : ~Running(t)
    BY DEF Running
  <1>5. Sound(ready_queue, tag, priority)
    BY <1>1, InvParts
  <1>6. \A t \in Names(ready_queue) : t \in Tid /\ tag[t] \in {"READY", "FREE"}
    BY <1>5, SoundType DEF Sound, Names, MayBeQueued
  <1> QED BY <1>1, <1>2, <1>3, <1>4, <1>5, <1>6, InvParts

\* Back from the parts to the invariant, for a step that ends in run().
LEMMA InvOfParts ==
  ASSUME TypeInv', mode' = "loop",
         Sound(ready_queue', tag', priority'),
         \A t \in Tid : tag'[t] = "READY" => t \in Names(ready_queue'),
         SlotsAgree(tag', event_queue'),
         ResultsThere(tag', r0')
  PROVE  IInv'
  <1>1. QueueEntriesSound'
    BY DEF QueueEntriesSound, Sound, MayBeQueued, Running
  <1>2. ReadyMeansQueued'
    BY DEF ReadyMeansQueued, Names, OnReadyQueue
  <1>3. EventSlotsSound' /\ ReadyHasResult'
    BY DEF EventSlotsSound, ReadyHasResult, SlotsAgree, ResultsThere
  <1> QED BY <1>1, <1>2, <1>3 DEF IInv, RunningIsReady, NoEarlyReturn

\* A system that has stopped without run() returning keeps only its types.
LEMMA InvWhenStopped ==
  ASSUME TypeInv', mode' \in {"panic", "user_error", "shutdown"}
  PROVE  IInv'
  BY DEF IInv, QueueEntriesSound, ReadyMeansQueued, RunningIsReady, EventSlotsSound,
         ReadyHasResult, NoEarlyReturn, Alive

\* The end of every handler: q holds all other READY tasks and not current_task,
\* which therefore finds a place.
LEMMA HandlerInv ==
  ASSUME IInv, mode = "user", TypeInv',
         NEW q, NEW state, EndActivation(state, q),
         Sound(q, tag', priority'), current_task \notin Names(q),
         state = "READY" => /\ tag'[current_task] \in {"READY", "FREE"}
                            /\ tag'[current_task] = "READY" =>
                                 priority'[current_task] = priority[current_task],
         tag'[current_task] = "READY" => state = "READY",
         \A t \in Tid \ {current_task} : tag'[t] = "READY" => t \in Names(q),
         SlotsAgree(tag', event_queue'),
         ResultsThere(tag', r0')
  PROVE  IInv' /\ mode' = "loop"
  <1>0. current_task \in Tid /\ TypeOK
    BY DEF IInv, TypeInv
  <1>1. HasRoom(q, 1) /\ mode' = "loop"
    BY <1>0, SoundHasRoom DEF EndActivation
  <1>2. CASE state # "READY"
    <2>1. ready_queue' = q
      BY <1>2 DEF EndActivation
    <2> QED BY <1>1, <1>2, <2>1, InvOfParts
  <1>3. CASE state = "READY"
    <2> DEFINE e == Element(current_task, priority[current_task])
    <2>1. ready_queue' = Append(q, e)
      BY <1>1, <1>3 DEF EndActivation, Push
    <2>2. e \in Entry /\ e.tid = current_task /\ e.priority = priority[current_task]
      BY <1>0 DEF Element, Entry, TypeOK
    <2> HIDE DEF e
    <2>3. MayBeQueued(e, tag', priority')
      BY <1>3, <2>2 DEF MayBeQueued
    <2>4. /\ Sound(ready_queue', tag', priority')
          /\ Names(ready_queue') = Names(q) \cup {current_task}
      BY <2>1, <2>2, <2>3, SoundAppend
    <2> QED BY <1>1, <1>3, <2>4, InvOfParts
  <1> QED BY <1>2, <1>3

\* A handler that wakes nobody and leaves the events alone: current_task stays
\* READY with a result, or blocks.
LEMMA QuietHandlerInv ==
  ASSUME IInv, mode = "user", TypeInv', NEW state,
         EndActivation(state, ready_queue), state = tag'[current_task],
         state \in {"READY", "SEND_WAIT", "RECV_WAIT", "REPLY_WAIT"},
         \A t \in Tid \ {current_task} :
            \/ tag'[t] = tag[t] /\ r0'[t] = r0[t]
            \/ tag[t] = "SEND_WAIT" /\ tag'[t] = "REPLY_WAIT",
         state = "READY" => r0'[current_task] \notin {Blocked, Queued},
         UNCHANGED <<priority, event_queue>>
  PROVE  IInv' /\ mode' = "loop"
  <1>1. /\ current_task \in Tid /\ tag[current_task] = "READY"
        /\ Sound(ready_queue, tag, priority)
        /\ current_task \notin Names(ready_queue)
        /\ \A t \in Tid \ {current_task} : tag[t] = "READY" => t \in Names(ready_queue)
        /\ \A t \in Names(ready_queue) : t \in Tid /\ tag[t] \in {"READY", "FREE"}
        /\ SlotsAgree(tag, event_queue)
        /\ ResultsThere(tag, r0)
    BY UserParts
  <1>2. \A t \in Names(ready_queue) : tag'[t] = tag[t] /\ priority'[t] = priority[t]
    BY <1>1
  <1>3. Sound(ready_queue, tag', priority')
    BY <1>1, <1>2, SoundAgrees
  <1>4. SlotsAgree(tag', event_queue')
    <2>1. \A t \in Tid : tag'[t] = "EVENT_WAIT" <=> tag[t] = "EVENT_WAIT"
      BY <1>1
    <2> QED BY <1>1, <2>1 DEF SlotsAgree
  <1>5. ResultsThere(tag', r0')
    BY <1>1 DEF ResultsThere
  <1>6. \A t \in Tid \ {current_task} : tag'[t] = "READY" => t \in Names(ready_queue)
    BY <1>1
  <1> QED BY <1>1, <1>3, <1>4, <1>5, <1>6, HandlerInv

LEMMA ReturnValueInv ==
  ASSUME IInv, mode = "user", NEW v \in {Ok, Invalid, Incomplete}, ReturnValue(v)
  PROVE  IInv' /\ mode' = "loop"
  <1>1. TypeInv'
    BY ReturnValueTypeInv DEF IInv
  <1>2. TypeOK /\ current_task \in Tid /\ tag[current_task] = "READY"
    BY UserParts
  <1>3. v \notin {Blocked, Queued}
    BY DEF Ok, Invalid, Incomplete, Blocked, Queued
  <1>4. /\ EndActivation(tag[current_task], ready_queue)
        /\ UNCHANGED <<tag, priority, event_queue>>
        /\ r0' = [r0 EXCEPT ![current_task] = v]
    BY DEF ReturnValue
  <1>5. r0'[current_task] = v /\ \A t \in Tid \ {current_task} : r0'[t] = r0[t]
    BY <1>2, <1>4 DEF TypeOK
  <1> QED BY <1>1, <1>2, <1>3, <1>4, <1>5, QuietHandlerInv

LEMMA PanicInv ==
  ASSUME IInv, Panic
  PROVE  IInv'
  BY PanicTypeInv, InvWhenStopped DEF IInv, Panic

\* A handler that makes the blocked task t READY and pushes it.
LEMMA WakingHandlerInv ==
  ASSUME IInv, mode = "user", TypeInv', NEW state, NEW t \in Tid,
         tag[t] \in {"RECV_WAIT", "REPLY_WAIT"},
         EndActivation(state, Push(ready_queue, t)),
         state = tag'[current_task], state \in {"READY", "REPLY_WAIT"},
         tag'[t] = "READY", r0'[t] = Ok,
         \A u \in Tid \ {t, current_task} : tag'[u] = tag[u] /\ r0'[u] = r0[u],
         state = "READY" => r0'[current_task] = Ok,
         UNCHANGED <<priority, event_queue>>
  PROVE  IInv' /\ mode' = "loop"
  <1> DEFINE e == Element(t, priority[t])
             q == Append(ready_queue, e)
  <1>1. /\ TypeOK /\ current_task \in Tid /\ tag[current_task] = "READY"
        /\ Sound(ready_queue, tag, priority)
        /\ current_task \notin Names(ready_queue)
        /\ \A u \in Tid \ {current_task} : tag[u] = "READY" => u \in Names(ready_queue)
        /\ \A u \in Names(ready_queue) : u \in Tid /\ tag[u] \in {"READY", "FREE"}
        /\ SlotsAgree(tag, event_queue)
        /\ ResultsThere(tag, r0)
    BY UserParts
  <1>2. t # current_task /\ t \notin Names(ready_queue)
    BY <1>1
  <1>3. HasRoom(ready_queue, 1)
    BY <1>1, <1>2, SoundHasRoom
  <1>4. Push(ready_queue, t) = q
    BY <1>3 DEF Push
  <1>5. e \in Entry /\ e.tid = t /\ e.priority = priority[t]
    BY <1>1 DEF Element, Entry, TypeOK
  <1>6. \A u \in Names(ready_queue) : tag'[u] = tag[u] /\ priority'[u] = priority[u]
    BY <1>1, <1>2
  <1>7. Sound(ready_queue, tag', priority')
    BY <1>1, <1>6, SoundAgrees
  <1> HIDE DEF e
  <1>8. MayBeQueued(e, tag', priority')
    BY <1>5 DEF MayBeQueued
  <1>9. /\ Sound(q, tag', priority')
        /\ Names(q) = Names(ready_queue) \cup {t}
    BY <1>2, <1>5, <1>7, <1>8, SoundAppend
  <1> HIDE DEF q
  <1>10. SlotsAgree(tag', event_queue')
    <2>1. \A u \in Tid : tag'[u] = "EVENT_WAIT" <=> tag[u] = "EVENT_WAIT"
      BY <1>1, <1>2
    <2> QED BY <1>1, <2>1 DEF SlotsAgree
  <1>11. ResultsThere(tag', r0')
    BY <1>1, <1>2 DEF ResultsThere, Ok, Blocked, Queued
  <1>12. \A u \in Tid \ {current_task} : tag'[u] = "READY" => u \in Names(q)
    BY <1>1, <1>2, <1>9
  <1>13. current_task \notin Names(q)
    BY <1>1, <1>2, <1>9
  <1>14. EndActivation(state, q)
    BY <1>4
  <1> QED BY <1>1, <1>9, <1>10, <1>11, <1>12, <1>13, <1>14, HandlerInv

-----------------------------------------------------------------------------
(* The initial state and the steps.                                        *)

LEMMA InitInv == Init => IInv
  <1> SUFFICES ASSUME Init PROVE IInv
    OBVIOUS
  <1>1. TypeInv
    BY InitTypeInv
  <1>2. /\ mode = "loop" /\ {0, 1} \subseteq Tid
        /\ \A t \in Tid : tag[t] = (IF t \in {0, 1} THEN "READY" ELSE "FREE")
        /\ \A t \in Tid : priority[t] = 0 /\ r0[t] = Ok
        /\ \A e \in Events : event_queue[e] \notin Tid
    BY TidType DEF Init
  <1>3. /\ DOMAIN ready_queue = {1, 2}
        /\ ready_queue[1].tid = 1 /\ ready_queue[1].priority = 0
        /\ ready_queue[2].tid = 0 /\ ready_queue[2].priority = 0
    BY DEF Init, Element
  <1>4. QueueEntriesSound
    BY <1>2, <1>3 DEF QueueEntriesSound, Running
  <1>5. ReadyMeansQueued
    BY <1>2, <1>3 DEF ReadyMeansQueued, OnReadyQueue
  <1>6. EventSlotsSound
    BY <1>2 DEF EventSlotsSound
  <1>7. ReadyHasResult
    BY <1>2 DEF ReadyHasResult, Ok, Blocked, Queued
  <1> QED BY <1>1, <1>2, <1>4, <1>5, <1>6, <1>7 DEF IInv, RunningIsReady, NoEarlyReturn

LEMMA ScheduleInv == IInv /\ Schedule => IInv'
  <1> SUFFICES ASSUME IInv, Schedule PROVE IInv'
    OBVIOUS
  <1>1. TypeInv'
    BY ScheduleTypeInv DEF IInv
  <1>2. mode = "loop" /\ Alive
    BY DEF Schedule, Alive
  <1>3. PICK i \in DOMAIN ready_queue :
            /\ ready_queue' = Without(ready_queue, i)
            /\ current_task' = ready_queue[i].tid
            /\ mode' = IF Live(ready_queue[i].tid) THEN "user" ELSE "loop"
    BY DEF Schedule
  <1>4. UNCHANGED <<tag, priority, r0, event_queue>>
    BY DEF Schedule
  <1>5. /\ Sound(ready_queue, tag, priority)
        /\ \A t \in Tid : tag[t] = "READY" => Running(t) \/ t \in Names(ready_queue)
        /\ SlotsAgree(tag, event_queue)
        /\ ResultsThere(tag, r0)
    BY <1>2, InvParts
  <1>6. \A t \in Tid : ~Running(t)
    BY <1>2 DEF Running
  <1>7. /\ Sound(ready_queue', tag', priority')
        /\ Names(ready_queue') = Names(ready_queue) \ {current_task'}
    BY <1>3, <1>4, <1>5, SoundWithout
  <1>8. tag[current_task'] \in {"READY", "FREE"} /\ current_task' \in Tid
    BY <1>3, <1>5, SoundType DEF Sound, MayBeQueued
  <1>9. CASE mode' = "loop"
    <2>1. tag[current_task'] = "FREE"
      BY <1>3, <1>9 DEF Live
    <2>2. \A t \in Tid : tag'[t] = "READY" => t \in Names(ready_queue')
      BY <1>4, <1>5, <1>6, <1>7, <2>1
    <2> QED BY <1>1, <1>4, <1>5, <1>7, <1>9, <2>2, InvOfParts
  <1>10. CASE mode' = "user"
    <2>1. tag'[current_task'] = "READY"
      BY <1>3, <1>4, <1>8, <1>10 DEF Live
    <2>2. current_task' \notin Names(ready_queue')
      BY <1>7
    <2>3. QueueEntriesSound'
      BY <1>7, <2>2 DEF QueueEntriesSound, Sound, MayBeQueued, Names, Running
    <2>4. ReadyMeansQueued'
      BY <1>4, <1>5, <1>6, <1>7, <1>10 DEF ReadyMeansQueued, OnReadyQueue, Names, Running
    <2>5. EventSlotsSound' /\ ReadyHasResult'
      BY <1>4, <1>5 DEF EventSlotsSound, ReadyHasResult, SlotsAgree, ResultsThere
    <2> QED BY <1>1, <1>10, <2>1, <2>3, <2>4, <2>5 DEF IInv, RunningIsReady, NoEarlyReturn
  <1> QED BY <1>3, <1>9, <1>10

LEMMA RunReturnsInv == IInv /\ RunReturns => IInv'
  <1> SUFFICES ASSUME IInv, RunReturns PROVE IInv'
    OBVIOUS
  <1>1. TypeInv'
    BY NextTypeInv DEF IInv, Next, CoreNext
  <1>2. /\ mode = "loop" /\ ready_queue = <<>> /\ Alive
        /\ mode' = "returned"
        /\ UNCHANGED <<tag, event_queue>>
    BY DEF RunReturns, Alive
  <1>3. \A e \in Events : event_queue[e] = NoTid
    <2>1. IsFiniteSet({e \in Events : event_queue[e] # NoTid})
      BY KernelAssumption, FS_Subset
    <2>2. Cardinality({e \in Events : event_queue[e] # NoTid}) = 0
      BY DEF RunReturns, NumEventBlockedTasks
    <2>3. {e \in Events : event_queue[e] # NoTid} = {}
      BY <2>1, <2>2, FS_EmptySet
    <2> QED BY <2>3
  <1>4. /\ \A t \in Tid : tag[t] = "READY" => Running(t) \/ t \in Names(ready_queue)
        /\ SlotsAgree(tag, event_queue)
    BY <1>2, InvParts
  <1>5. Names(ready_queue) = {}
    BY <1>2 DEF Names
  <1>6. \A t \in Tid : tag[t] # "READY"
    BY <1>2, <1>4, <1>5 DEF Running
  <1>7. \A t \in Tid : tag[t] # "EVENT_WAIT"
    BY <1>3, <1>4, TidType DEF SlotsAgree
  <1>8. NoEarlyReturn'
    BY <1>2, <1>6, <1>7 DEF NoEarlyReturn
  <1> QED BY <1>1, <1>2, <1>8 DEF IInv, QueueEntriesSound, ReadyMeansQueued,
             RunningIsReady, EventSlotsSound, ReadyHasResult, Alive

LEMMA SendInv ==
  ASSUME IInv, NEW r \in Tid \cup {NoSuchTid}, Send(r)
  PROVE  /\ IInv'
         /\ mode' = "panic" =>
              r \in Tid /\ Live(r) /\ tag[r] # "RECV_WAIT" /\ ~CanDeposit(r)
  <1>0. mode = "user" /\ TypeInv'
    BY SendTypeInv DEF IInv, Send
  <1>1. TypeOK /\ current_task \in Tid /\ tag[current_task] = "READY"
    BY <1>0, UserParts
  <1>2. CASE NoSuchTask(r)
    BY <1>0, <1>2, ReturnValueInv DEF Send
  <1>3. CASE r \in Tid /\ tag[r] = "RECV_WAIT" /\ Meet(r)
    <2>1. r # current_task
      BY <1>1, <1>3
    <2>2. tag' = [tag EXCEPT ![r] = "READY", ![current_task] = "REPLY_WAIT"]
      BY <1>3 DEF Meet
    <2>3. r0' = [r0 EXCEPT ![r] = Ok, ![current_task] = Blocked]
      BY <1>3 DEF Meet
    <2>4. /\ tag'[current_task] = "REPLY_WAIT"
          /\ tag'[r] = "READY" /\ r0'[r] = Ok
          /\ \A u \in Tid \ {r, current_task} : tag'[u] = tag[u] /\ r0'[u] = r0[u]
      BY <1>1, <1>3, <2>1, <2>2, <2>3 DEF TypeOK
    <2>5. /\ EndActivation("REPLY_WAIT", Push(ready_queue, r))
          /\ UNCHANGED <<priority, event_queue>>
      BY <1>3 DEF Meet
    <2> QED BY <1>0, <1>3, <2>4, <2>5, WakingHandlerInv
  <1>4. CASE r \in Tid /\ Deposit(r)
    <2>1. tag' = [tag EXCEPT ![current_task] = "SEND_WAIT"]
      BY <1>4 DEF Deposit
    <2>2. r0' = [r0 EXCEPT ![current_task] = Queued]
      BY <1>4 DEF Deposit
    <2>3. /\ tag'[current_task] = "SEND_WAIT"
          /\ \A u \in Tid \ {current_task} : tag'[u] = tag[u] /\ r0'[u] = r0[u]
      BY <1>1, <2>1, <2>2 DEF TypeOK
    <2>4. /\ EndActivation("SEND_WAIT", ready_queue)
          /\ UNCHANGED <<priority, event_queue>>
      BY <1>4 DEF Deposit
    <2> QED BY <1>0, <2>3, <2>4, QuietHandlerInv
  <1>5. CASE r \in Tid /\ Live(r) /\ tag[r] # "RECV_WAIT" /\ ~CanDeposit(r)
    BY <1>5, PanicInv DEF Send, NoSuchTask
  <1> QED BY <1>2, <1>3, <1>4, <1>5 DEF Send, NoSuchTask

LEMMA ReceiveInv ==
  ASSUME IInv, Receive
  PROVE  /\ IInv'
         /\ mode' = "panic" =>
              LET s == send_queue_head[current_task]
              IN  /\ s # NoTid
                  /\ ~(/\ tag[s] = "SEND_WAIT"
                       /\ next[s] # NoTid => send_queue_tail[current_task] # NoTid)
  <1> DEFINE s == send_queue_head[current_task]
  <1>0. mode = "user" /\ TypeInv'
    BY ReceiveTypeInv DEF IInv, Receive
  <1>1. /\ TypeOK /\ current_task \in Tid /\ tag[current_task] = "READY"
        /\ s \in Tid \cup {NoTid}
    BY <1>0, UserParts DEF TypeOK
  <1>2. CASE Open
    <2>1. /\ tag' = [tag EXCEPT ![current_task] = "RECV_WAIT"]
          /\ r0' = [r0 EXCEPT ![current_task] = Blocked]
          /\ EndActivation("RECV_WAIT", ready_queue)
          /\ UNCHANGED <<priority, event_queue>>
      BY <1>2 DEF Open
    <2>2. /\ tag'[current_task] = "RECV_WAIT"
          /\ \A u \in Tid \ {current_task} : tag'[u] = tag[u] /\ r0'[u] = r0[u]
      BY <1>1, <2>1 DEF TypeOK
    <2> QED BY <1>0, <2>1, <2>2, QuietHandlerInv
  <1>3. CASE s \in Tid /\ tag[s] = "SEND_WAIT" /\ Take(s)
    <2>1. /\ tag' = [tag EXCEPT ![s] = "REPLY_WAIT"]
          /\ r0' = [r0 EXCEPT ![current_task] = Ok]
          /\ EndActivation("READY", ready_queue)
          /\ UNCHANGED <<priority, event_queue>>
      BY <1>3 DEF Take
    <2>2. /\ tag'[current_task] = "READY" /\ r0'[current_task] = Ok
          /\ \A u \in Tid \ {current_task} :
                \/ tag'[u] = tag[u] /\ r0'[u] = r0[u]
                \/ tag[u] = "SEND_WAIT" /\ tag'[u] = "REPLY_WAIT"
      BY <1>1, <1>3, <2>1 DEF TypeOK
    <2>3. Ok \notin {Blocked, Queued}
      BY DEF Ok, Blocked, Queued
    <2> QED BY <1>0, <2>1, <2>2, <2>3, QuietHandlerInv
  <1> DEFINE Takeable == /\ tag[s] = "SEND_WAIT"
                         /\ next[s] # NoTid => send_queue_tail[current_task] # NoTid
  <1>4. CASE s # NoTid /\ ~Takeable
    BY <1>1, <1>4, PanicInv DEF Receive
  <1>5. CASE s = NoTid
    BY <1>1, <1>2, <1>5 DEF Receive
  <1>6. CASE s # NoTid /\ Takeable
    <2>1. s \in Tid /\ tag[s] = "SEND_WAIT" /\ Take(s)
      BY <1>1, <1>6 DEF Receive
    <2> QED BY <1>3, <2>1
  <1> QED BY <1>4, <1>5, <1>6

LEMMA ReplyInv ==
  ASSUME IInv, NEW t \in Tid \cup {NoSuchTid}, Reply(t)
  PROVE  IInv' /\ mode' = "loop"
  <1>0. mode = "user" /\ TypeInv'
    BY ReplyTypeInv DEF IInv, Reply
  <1>1. TypeOK /\ current_task \in Tid /\ tag[current_task] = "READY"
    BY <1>0, UserParts
  <1>2. CASE t \in Tid /\ tag[t] = "REPLY_WAIT" /\ Answer(t)
    <2>1. /\ tag' = [tag EXCEPT ![t] = "READY"]
          /\ r0' = [r0 EXCEPT ![t] = Ok, ![current_task] = Ok]
          /\ EndActivation(tag'[current_task], Push(ready_queue, t))
          /\ UNCHANGED <<priority, event_queue>>
      BY <1>2 DEF Answer
    <2>2. t # current_task
      BY <1>1, <1>2
    <2>3. /\ tag'[current_task] = "READY" /\ r0'[current_task] = Ok
          /\ tag'[t] = "READY" /\ r0'[t] = Ok
          /\ \A u \in Tid \ {t, current_task} : tag'[u] = tag[u] /\ r0'[u] = r0[u]
      BY <1>1, <1>2, <2>1, <2>2 DEF TypeOK
    <2> QED BY <1>0, <1>2, <2>1, <2>3, WakingHandlerInv
  <1> QED BY <1>0, <1>2, ReturnValueInv DEF Reply, NoSuchTask

\* Settled is what keeps Create() from queueing a tid twice, and what leaves a
\* place for it.
LEMMA CreateInv ==
  ASSUME IInv, Settled, NEW p \in Priorities \cup {BadPriority}, Create(p)
  PROVE  IInv' /\ mode' = "loop"
  <1>0. /\ mode = "user" /\ TypeInv'
        /\ Priorities \subseteq Nat
    BY CreateTypeInv, KernelAssumption DEF IInv, Create
  <1>1. /\ TypeOK /\ current_task \in Tid /\ tag[current_task] = "READY"
        /\ Sound(ready_queue, tag, priority)
        /\ current_task \notin Names(ready_queue)
        /\ \A u \in Tid \ {current_task} : tag[u] = "READY" => u \in Names(ready_queue)
        /\ SlotsAgree(tag, event_queue)
        /\ ResultsThere(tag, r0)
    BY <1>0, UserParts
  <1>2. CASE p < 0
    BY <1>0, <1>2, ReturnValueInv DEF Create
  <1>3. CASE ~(p < 0) /\ FreeTids = {}
    BY <1>0, <1>3, ReturnValueInv DEF Create
  <1>4. FreeTids # {} => HasRoom(ready_queue, 1)
    <2> SUFFICES ASSUME FreeTids # {} PROVE HasRoom(ready_queue, 1)
      OBVIOUS
    <2>1. FreeTids \in SUBSET Nat
      BY TidType DEF FreeTids
    <2>2. PICK t \in FreeTids : \A u \in FreeTids : t <= u
      BY <2>1, LeastNatural
    <2>3. t \in Tid /\ t \notin Names(ready_queue)
      BY <2>2 DEF FreeTids, Settled, IsNextTid, OnReadyQueue, Names
    <2> QED BY <1>1, <2>3, SoundHasRoom
  <1>5. CASE ~(p < 0) /\ FreeTids # {}
    <2>1. PICK t \in Tid :
              /\ IsNextTid(t)
              /\ tag' = [tag EXCEPT ![t] = "READY"]
              /\ priority' = [priority EXCEPT ![t] = p]
              /\ r0' = [r0 EXCEPT ![t] = Ok, ![current_task] = Ok]
              /\ EndActivation(tag[current_task], Append(ready_queue, Element(t, p)))
              /\ UNCHANGED event_queue
      BY <1>4, <1>5 DEF Create
    <2> DEFINE e == Element(t, p)
               q == Append(ready_queue, e)
    <2>2. p \in Priorities
      BY <1>5 DEF BadPriority
    <2>3. e \in Entry /\ e.tid = t /\ e.priority = p
      BY <2>2 DEF Element, Entry
    <2>4. tag[t] = "FREE" /\ t # current_task /\ t \notin Names(ready_queue)
      BY <1>1, <2>1 DEF IsNextTid, FreeTids, Live, Settled, OnReadyQueue, Names
    <2>5. /\ tag'[t] = "READY" /\ priority'[t] = p /\ r0'[t] = Ok
          /\ tag'[current_task] = "READY" /\ r0'[current_task] = Ok
          /\ priority'[current_task] = priority[current_task]
          /\ \A u \in Tid \ {t} : tag'[u] = tag[u] /\ priority'[u] = priority[u]
          /\ \A u \in Tid \ {t, current_task} : r0'[u] = r0[u]
      BY <1>1, <2>1, <2>4 DEF TypeOK
    <2>6. Names(ready_queue) \subseteq Tid
      BY <1>1, SoundType
    <2>7. Sound(ready_queue, tag', priority')
      BY <1>1, <2>4, <2>5, <2>6, SoundAgrees
    <2> HIDE DEF e
    <2>8. MayBeQueued(e, tag', priority')
      BY <2>3, <2>5 DEF MayBeQueued
    <2>9. /\ Sound(q, tag', priority')
          /\ Names(q) = Names(ready_queue) \cup {t}
      BY <2>3, <2>4, <2>7, <2>8, SoundAppend
    <2>10. EndActivation("READY", q)
      BY <1>1, <2>1 DEF e
    <2> HIDE DEF q
    <2>11. SlotsAgree(tag', event_queue')
      <3>1. \A u \in Tid : tag'[u] = "EVENT_WAIT" <=> tag[u] = "EVENT_WAIT"
        BY <2>4, <2>5
      <3> QED BY <1>1, <2>1, <3>1 DEF SlotsAgree
    <2>12. ResultsThere(tag', r0')
      BY <1>1, <2>5 DEF ResultsThere, Ok, Blocked, Queued
    <2>13. \A u \in Tid \ {current_task} : tag'[u] = "READY" => u \in Names(q)
      BY <1>1, <2>5, <2>9
    <2>14. current_task \notin Names(q)
      BY <1>1, <2>4, <2>9
    <2> QED BY <1>0, <2>5, <2>9, <2>10, <2>11, <2>12, <2>13, <2>14, HandlerInv
  <1> QED BY <1>2, <1>3, <1>5

LEMMA ExitInv ==
  ASSUME IInv, Exit
  PROVE  /\ IInv'
         /\ mode' = "panic" => ~(\E q \in SenderLists : CanRelease(q))
  <1>0. mode = "user" /\ TypeInv'
    BY ExitTypeInv DEF IInv, Exit
  <1>1. /\ TypeOK /\ current_task \in Tid /\ tag[current_task] = "READY"
        /\ Sound(ready_queue, tag, priority)
        /\ current_task \notin Names(ready_queue)
        /\ \A u \in Tid \ {current_task} : tag[u] = "READY" => u \in Names(ready_queue)
        /\ \A u \in Names(ready_queue) : u \in Tid /\ tag[u] \in {"READY", "FREE"}
        /\ SlotsAgree(tag, event_queue)
        /\ ResultsThere(tag, r0)
    BY <1>0, UserParts
  <1>2. CASE ~(\E q \in SenderLists : CanRelease(q))
    BY <1>2, PanicInv DEF Exit
  <1>3. CASE \E q \in SenderLists : CanRelease(q)
    <2>1. PICK q \in SenderLists :
              /\ CanRelease(q)
              /\ tag' = [t \in Tid |-> IF t = current_task THEN "FREE"
                                        ELSE IF t \in Members(q) THEN "READY"
                                        ELSE tag[t]]
              /\ r0' = [t \in Tid |-> IF t = current_task THEN Ok
                                       ELSE IF t \in Members(q) THEN Incomplete
                                       ELSE r0[t]]
              /\ priority' = [priority EXCEPT ![current_task] = 0]
              /\ EndActivation(IF current_task \in Members(q) THEN "READY"
                                ELSE tag[current_task], PushAll(ready_queue, q))
              /\ UNCHANGED event_queue
      BY <1>3 DEF Exit
    <2> DEFINE n == Len(q)
    <2>2. /\ n \in Nat /\ q \in [1 .. n -> Tid]
          /\ Members(q) \subseteq Senders /\ Members(q) = {q[i] : i \in 1 .. n}
      BY SenderListType DEF Members
    <2> HIDE DEF n
    <2>3. \A t \in Members(q) : t \in Tid /\ tag[t] = "SEND_WAIT"
      BY <2>2 DEF Senders
    <2>4. \A i, j \in 1 .. n : q[i] = q[j] => i = j
      BY <2>1, <2>2 DEF CanRelease
    <2>5. \A i \in 1 .. n : q[i] \in Members(q)
      BY <2>2
    <2>6. \A t \in Tid \ {current_task} :
              /\ t \in Members(q) => tag'[t] = "READY" /\ r0'[t] = Incomplete
              /\ t \notin Members(q) => tag'[t] = tag[t] /\ r0'[t] = r0[t]
              /\ priority'[t] = priority[t]
      BY <1>1, <2>1 DEF TypeOK
    <2>7. tag'[current_task] = "FREE" /\ r0'[current_task] = Ok
      BY <1>1, <2>1
    <2>8. current_task \notin Members(q)
      BY <1>1, <2>3
    <2>9. \A t \in Names(ready_queue) : tag'[t] = tag[t] /\ priority'[t] = priority[t]
      BY <1>1, <2>3, <2>6
    <2>10. Sound(ready_queue, tag', priority')
      BY <1>1, <2>9, SoundAgrees
    <2>11. \A i \in 1 .. n : /\ q[i] \notin Names(ready_queue)
                             /\ tag'[q[i]] = "READY"
                             /\ priority'[q[i]] = priority[q[i]]
      BY <1>1, <2>3, <2>5, <2>6, <2>8
    <2>12. priority \in [Tid -> Priorities]
      BY <1>1 DEF TypeOK
    <2> DEFINE Q == PushAll(ready_queue, q)
    <2>13. /\ Sound(Q, tag', priority')
           /\ Names(Q) = Names(ready_queue) \cup Members(q)
      BY <2>2, <2>4, <2>10, <2>11, <2>12, SoundPushAll
    <2>14. EndActivation("READY", Q)
      BY <1>1, <2>1
    <2> HIDE DEF Q
    <2>15. SlotsAgree(tag', event_queue')
      <3>1. \A u \in Tid : tag'[u] = "EVENT_WAIT" <=> tag[u] = "EVENT_WAIT"
        BY <1>1, <2>3, <2>6, <2>7
      <3> QED BY <1>1, <2>1, <3>1 DEF SlotsAgree
    <2>16. ResultsThere(tag', r0')
      BY <1>1, <2>6, <2>7 DEF ResultsThere, Ok, Incomplete, Blocked, Queued
    <2>17. \A u \in Tid \ {current_task} : tag'[u] = "READY" => u \in Names(Q)
      BY <1>1, <2>6, <2>13
    <2>18. current_task \notin Names(Q)
      BY <1>1, <2>8, <2>13
    <2> QED BY <1>0, <2>7, <2>13, <2>14, <2>15, <2>16, <2>17, <2>18, HandlerInv
  <1> QED BY <1>2, <1>3

LEMMA AwaitEventInv ==
  ASSUME IInv, NEW e \in Events \cup {NoSuchEvent}, AwaitEvent(e)
  PROVE  IInv' /\ mode' # "panic"
  <1>0. mode = "user" /\ TypeInv'
    BY AwaitEventTypeInv DEF IInv, AwaitEvent
  <1>1. /\ TypeOK /\ current_task \in Tid /\ tag[current_task] = "READY"
        /\ Sound(ready_queue, tag, priority)
        /\ current_task \notin Names(ready_queue)
        /\ \A u \in Tid \ {current_task} : tag[u] = "READY" => u \in Names(ready_queue)
        /\ \A u \in Names(ready_queue) : u \in Tid /\ tag[u] \in {"READY", "FREE"}
        /\ SlotsAgree(tag, event_queue)
        /\ ResultsThere(tag, r0)
    BY <1>0, UserParts
  <1>2. CASE UserError
    BY <1>0, <1>2, InvWhenStopped DEF UserError
  <1>3. CASE e \in Events /\ event_queue[e] = NoTid /\ Sleep(e)
    <2>1. /\ event_queue' = [event_queue EXCEPT ![e] = current_task]
          /\ tag' = [tag EXCEPT ![current_task] = "EVENT_WAIT"]
          /\ r0' = [r0 EXCEPT ![current_task] = Blocked]
          /\ EndActivation("EVENT_WAIT", ready_queue)
          /\ UNCHANGED priority
      BY <1>3 DEF Sleep
    <2>2. /\ tag'[current_task] = "EVENT_WAIT" /\ event_queue'[e] = current_task
          /\ \A u \in Tid \ {current_task} : tag'[u] = tag[u] /\ r0'[u] = r0[u]
          /\ \A f \in Events \ {e} : event_queue'[f] = event_queue[f]
      BY <1>1, <1>3, <2>1 DEF TypeOK
    <2>3. Sound(ready_queue, tag', priority')
      <3>1. \A t \in Names(ready_queue) : tag'[t] = tag[t] /\ priority'[t] = priority[t]
        BY <1>1, <2>1, <2>2
      <3> QED BY <1>1, <3>1, SoundAgrees
    <2>4. \A f \in Events : event_queue[f] # current_task
      BY <1>1 DEF SlotsAgree
    <2>5. SlotsAgree(tag', event_queue')
      <3>1. \A t \in Tid : tag'[t] = "EVENT_WAIT" <=> \E f \in Events : event_queue'[f] = t
        <4> SUFFICES ASSUME NEW t \in Tid
                     PROVE  tag'[t] = "EVENT_WAIT" <=> \E f \in Events : event_queue'[f] = t
          OBVIOUS
        <4>1. CASE t = current_task
          BY <1>3, <2>2, <4>1
        <4>2. CASE t # current_task
          BY <1>1, <1>3, <2>2, <4>2, TidType DEF SlotsAgree
        <4> QED BY <4>1, <4>2
      <3>2. \A f, g \in Events :
                event_queue'[f] = event_queue'[g] /\ event_queue'[f] \in Tid => f = g
        BY <1>1, <2>2, <2>4 DEF SlotsAgree
      <3> QED BY <3>1, <3>2 DEF SlotsAgree
    <2>6. ResultsThere(tag', r0')
      BY <1>1, <2>2 DEF ResultsThere
    <2>7. \A u \in Tid \ {current_task} : tag'[u] = "READY" => u \in Names(ready_queue)
      BY <1>1, <2>2
    <2> QED BY <1>0, <1>1, <2>1, <2>2, <2>3, <2>5, <2>6, <2>7, HandlerInv
  <1>4. CASE e \in Events /\ event_queue[e] \notin Tid /\ TakeStored(e)
    <2>1. /\ event_queue' = [event_queue EXCEPT ![e] = NoTid]
          /\ r0' = [r0 EXCEPT ![current_task] = Ok]
          /\ EndActivation("READY", ready_queue)
          /\ UNCHANGED <<tag, priority>>
      BY <1>4 DEF TakeStored
    <2>2. /\ event_queue'[e] \notin Tid /\ r0'[current_task] = Ok
          /\ \A f \in Events \ {e} : event_queue'[f] = event_queue[f]
          /\ \A u \in Tid \ {current_task} : r0'[u] = r0[u]
      BY <1>1, <1>4, <2>1, TidType DEF TypeOK
    <2>3. Sound(ready_queue, tag', priority')
      BY <1>1, <2>1
    <2>4. SlotsAgree(tag', event_queue')
      <3>1. \A f \in Events : event_queue'[f] \in Tid \/ event_queue[f] \in Tid =>
                event_queue'[f] = event_queue[f] /\ f # e
        BY <1>4, <2>2
      <3>2. \A t \in Tid : (\E f \in Events : event_queue'[f] = t)
                             <=> \E f \in Events : event_queue[f] = t
        BY <3>1
      <3>3. \A f, g \in Events :
                event_queue'[f] = event_queue'[g] /\ event_queue'[f] \in Tid => f = g
        BY <1>1, <3>1 DEF SlotsAgree
      <3> QED BY <1>1, <2>1, <3>2, <3>3 DEF SlotsAgree
    <2>5. ResultsThere(tag', r0')
      BY <1>1, <2>1, <2>2 DEF ResultsThere, Ok, Blocked, Queued
    <2> QED BY <1>0, <1>1, <2>1, <2>3, <2>4, <2>5, HandlerInv
  <1>5. CASE e \in Events /\ event_queue[e] \in Tid
    BY <1>2, <1>5 DEF AwaitEvent
  <1> QED BY <1>1, <1>2, <1>3, <1>4, <1>5, TidType DEF AwaitEvent

\* The tasks that interrupts wake are different ones, off the ready queue, and
\* all of them are pushed.
LEMMA WakeUps ==
  ASSUME TypeOK, Sound(ready_queue, tag, priority), SlotsAgree(tag, event_queue),
         NEW S \in SUBSET VicLines, Serviceable(S), ServiceInterrupts(S),
         NEW lines \in Ascending(Awaited(S))
  PROVE  /\ Sound(QueueAfter(lines), tag', priority')
         /\ Names(QueueAfter(lines)) = Names(ready_queue) \cup Woken(S)
         /\ Woken(S) \cap Names(ready_queue) = {}
         /\ \A t \in Tid : t \in Woken(S) => tag[t] = "EVENT_WAIT" /\ tag'[t] = "READY"
         /\ \A t \in Tid : t \notin Woken(S) => tag'[t] = tag[t]
         /\ SlotsAgree(tag', event_queue')
  <1> DEFINE A == Awaited(S)
             n == Cardinality(A)
             w == [i \in DOMAIN lines |-> event_queue[lines[i]]]
  <1>1. /\ n \in Nat /\ w \in [1 .. n -> Tid]
    BY QueueAfterType
  <1>2. /\ A \subseteq Events /\ A \subseteq S /\ IsFiniteSet(A)
        /\ \A e \in S : e \in A <=> event_queue[e] \in Tid
    <2>1. A \subseteq Events
      BY KernelAssumption DEF Awaited
    <2> QED BY <2>1, FS_Subset, KernelAssumption DEF Awaited
  <1>3. /\ lines \in [1 .. n -> A] /\ DOMAIN lines = 1 .. n
        /\ \A i, j \in 1 .. n : i < j => lines[i] < lines[j]
    BY DEF Ascending
  <1>4. \A i \in 1 .. n : w[i] = event_queue[lines[i]]
    BY <1>3
  <1>5. A \subseteq Nat
    BY <1>2, KernelAssumption
  <1>6. Woken(S) = {event_queue[e] : e \in A}
    BY DEF Woken
  <1>7. QueueAfter(lines) = PushAll(ready_queue, w)
    BY DEF QueueAfter
  <1> HIDE DEF A, n, w
  <1>8. \A i, j \in 1 .. n : lines[i] = lines[j] => i = j
    <2> SUFFICES ASSUME NEW i \in 1 .. n, NEW j \in 1 .. n, lines[i] = lines[j]
                 PROVE  i = j
      OBVIOUS
    <2>1. lines[i] \in Nat /\ lines[j] \in Nat
      BY <1>3, <1>5
    <2>2. ~(i < j) /\ ~(j < i)
      BY <1>3, <2>1
    <2> QED BY <1>1, <2>2
  <1>9. \A e \in A : \E i \in 1 .. n : lines[i] = e
    <2>1. lines \in Injection(1 .. n, A)
      BY <1>3, <1>8, Fun_IsInj
    <2>2. Cardinality(1 .. n) = Cardinality(A)
      BY <1>1, FS_Interval DEF n
    <2>3. lines \in Surjection(1 .. n, A)
      BY <1>2, <2>1, <2>2, FS_Injection
    <2> QED BY <2>3 DEF Surjection
  <1>10. \A i, j \in 1 .. n : w[i] = w[j] => i = j
    <2> SUFFICES ASSUME NEW i \in 1 .. n, NEW j \in 1 .. n, w[i] = w[j]
                 PROVE  i = j
      OBVIOUS
    <2>1. lines[i] \in Events /\ lines[j] \in Events
      BY <1>2, <1>3
    <2>2. event_queue[lines[i]] = event_queue[lines[j]] /\ event_queue[lines[i]] \in Tid
      BY <1>1, <1>4
    <2> QED BY <1>8, <2>1, <2>2 DEF SlotsAgree
  <1>11. Woken(S) = {w[i] : i \in 1 .. n}
    BY <1>3, <1>4, <1>6, <1>9
  <1>12. \A t \in Woken(S) : t \in Tid /\ tag[t] = "EVENT_WAIT"
    BY <1>2, <1>6 DEF SlotsAgree, Awaited, A
  <1>13. \A t \in Names(ready_queue) : t \in Tid /\ tag[t] \in {"READY", "FREE"}
    BY SoundType DEF Sound, Names, MayBeQueued
  <1>14. Woken(S) \cap Names(ready_queue) = {}
    BY <1>12, <1>13
  <1>15. /\ tag' = [t \in Tid |-> IF t \in Woken(S) THEN "READY" ELSE tag[t]]
         /\ priority' = priority /\ priority \in [Tid -> Priorities]
    BY DEF ServiceInterrupts, TypeOK
  <1>16. \A t \in Names(ready_queue) : tag'[t] = tag[t] /\ priority'[t] = priority[t]
    BY <1>13, <1>14, <1>15
  <1>17. Sound(ready_queue, tag', priority')
    BY <1>16, SoundAgrees
  <1>18. \A i \in 1 .. n : /\ w[i] \notin Names(ready_queue)
                           /\ tag'[w[i]] = "READY" /\ priority'[w[i]] = priority[w[i]]
    BY <1>1, <1>11, <1>14, <1>15
  <1>19. /\ Sound(PushAll(ready_queue, w), tag', priority')
         /\ Names(PushAll(ready_queue, w)) = Names(ready_queue) \cup Woken(S)
    <2>1. priority \in [Tid -> Priorities]
      BY <1>15
    <2>2. /\ Sound(PushAll(ready_queue, w), tag', priority')
          /\ Names(PushAll(ready_queue, w)) = Names(ready_queue) \cup {w[i] : i \in 1 .. n}
      BY <1>1, <1>10, <1>17, <1>18, <2>1, SoundPushAll
    <2> QED BY <1>11, <2>2
  <1>20. SlotsAgree(tag', event_queue')
    <2>1. \A e \in Events : event_queue'[e] =
              IF e \in A THEN NoTid ELSE IF e \in S THEN Stored ELSE event_queue[e]
      BY DEF ServiceInterrupts, A
    <2>2. \A e \in Events : event_queue'[e] \in Tid =>
              e \notin S /\ event_queue'[e] = event_queue[e]
      BY <1>2, <2>1, TidType
    <2>3. \A e \in Events : event_queue[e] \in Tid /\ event_queue[e] \notin Woken(S) =>
              event_queue'[e] = event_queue[e]
      BY <1>2, <1>6, <2>1
    <2>4. \A e \in Events \ S : event_queue[e] \in Tid => event_queue[e] \notin Woken(S)
      BY <1>2, <1>6 DEF SlotsAgree
    <2>5. ASSUME NEW t \in Tid
          PROVE  tag'[t] = "EVENT_WAIT" <=> \E e \in Events : event_queue'[e] = t
      <3>1. tag'[t] = "EVENT_WAIT" <=> tag[t] = "EVENT_WAIT" /\ t \notin Woken(S)
        BY <1>15
      <3>2. (\E e \in Events : event_queue'[e] = t) <=>
               t \notin Woken(S) /\ \E e \in Events : event_queue[e] = t
        BY <2>2, <2>3, <2>4
      <3> QED BY <3>1, <3>2 DEF SlotsAgree
    <2>6. \A e, f \in Events :
              event_queue'[e] = event_queue'[f] /\ event_queue'[e] \in Tid => e = f
      BY <2>2 DEF SlotsAgree
    <2> QED BY <2>5, <2>6 DEF SlotsAgree
  <1> QED BY <1>7, <1>12, <1>14, <1>15, <1>19, <1>20

LEMMA InterruptInv ==
  ASSUME IInv, NEW S \in SUBSET VicLines, Interrupt(S)
  PROVE  IInv' /\ (mode' = "panic" => ~Serviceable(S))
  <1>0. TypeInv'
    BY InterruptTypeInv DEF IInv
  <1>1. CASE ~Serviceable(S)
    BY <1>1, PanicInv DEF Interrupt, Idle, Preempt
  <1>2. CASE Idle(S) /\ Serviceable(S)
    <2>1. mode = "loop" /\ mode' = "loop" /\ Alive /\ ServiceInterrupts(S)
      BY <1>2 DEF Idle, Alive
    <2>2. PICK lines \in Ascending(Awaited(S)) : ready_queue' = QueueAfter(lines)
      BY <1>2 DEF Idle
    <2>3. /\ TypeOK
          /\ Sound(ready_queue, tag, priority)
          /\ \A t \in Tid : tag[t] = "READY" => t \in Names(ready_queue)
          /\ SlotsAgree(tag, event_queue)
          /\ ResultsThere(tag, r0)
      BY <2>1, InvParts DEF Running
    <2>4. /\ Sound(ready_queue', tag', priority')
          /\ Names(ready_queue') = Names(ready_queue) \cup Woken(S)
          /\ \A t \in Tid : t \notin Woken(S) => tag'[t] = tag[t]
          /\ SlotsAgree(tag', event_queue')
      BY <1>2, <2>1, <2>2, <2>3, WakeUps
    <2>5. \A t \in Tid : tag'[t] = "READY" => t \in Names(ready_queue')
      BY <2>3, <2>4
    <2>6. \A t \in Tid : r0'[t] = IF t \in Woken(S) THEN Ok ELSE r0[t]
      BY <1>2 DEF Idle
    <2>7. ResultsThere(tag', r0')
      BY <2>3, <2>4, <2>6 DEF ResultsThere, Ok, Blocked, Queued
    <2> QED BY <1>0, <2>1, <2>4, <2>5, <2>7, InvOfParts
  <1>3. CASE Preempt(S) /\ Serviceable(S)
    <2>1. mode = "user" /\ ServiceInterrupts(S)
      BY <1>3 DEF Preempt
    <2>2. PICK lines \in Ascending(Awaited(S)) :
              EndActivation(tag'[current_task], QueueAfter(lines))
      BY <1>3 DEF Preempt
    <2>3. /\ TypeOK /\ current_task \in Tid /\ tag[current_task] = "READY"
          /\ Sound(ready_queue, tag, priority)
          /\ current_task \notin Names(ready_queue)
          /\ \A u \in Tid \ {current_task} : tag[u] = "READY" => u \in Names(ready_queue)
          /\ SlotsAgree(tag, event_queue)
          /\ ResultsThere(tag, r0)
      BY <2>1, UserParts
    <2> DEFINE q == QueueAfter(lines)
    <2>4. /\ Sound(q, tag', priority')
          /\ Names(q) = Names(ready_queue) \cup Woken(S)
          /\ \A t \in Tid : t \in Woken(S) => tag[t] = "EVENT_WAIT" /\ tag'[t] = "READY"
          /\ \A t \in Tid : t \notin Woken(S) => tag'[t] = tag[t]
          /\ SlotsAgree(tag', event_queue')
      BY <1>3, <2>1, <2>3, WakeUps
    <2>5. EndActivation(tag'[current_task], q)
      BY <2>2
    <2> HIDE DEF q
    <2>6. current_task \notin Woken(S) /\ current_task \notin Names(q)
          /\ tag'[current_task] = "READY"
      BY <2>3, <2>4
    <2>7. \A u \in Tid \ {current_task} : tag'[u] = "READY" => u \in Names(q)
      BY <2>3, <2>4
    <2>8. \A t \in Tid : r0'[t] = IF t \in Woken(S) \cup {current_task} THEN Ok ELSE r0[t]
      BY <1>3 DEF Preempt
    <2>9. ResultsThere(tag', r0')
      BY <2>3, <2>4, <2>8 DEF ResultsThere, Ok, Blocked, Queued
    <2>10. priority'[current_task] = priority[current_task]
      BY <2>1 DEF ServiceInterrupts
    <2> QED BY <1>0, <2>1, <2>3, <2>4, <2>5, <2>6, <2>7, <2>9, <2>10, HandlerInv
  <1> QED BY <1>1, <1>2, <1>3 DEF Interrupt, Idle, Preempt

LEMMA StepInv == IInv /\ [OrderlyNext]_vars => IInv'
  <1> SUFFICES ASSUME IInv, [OrderlyNext]_vars PROVE IInv'
    OBVIOUS
  <1>0. TypeInv'
    BY NextTypeInv DEF IInv, OrderlyNext, Next
  <1>1. CASE UNCHANGED vars
    <2>1. UNCHANGED <<tag, priority, r0, ready_queue, event_queue, current_task, mode>>
      BY <1>1 DEF vars
    <2> QED BY <1>0, <2>1 DEF IInv, QueueEntriesSound, ReadyMeansQueued, RunningIsReady,
               EventSlotsSound, ReadyHasResult, NoEarlyReturn, Alive, Running, OnReadyQueue
  <1>2. CASE Shutdown
    BY <1>0, <1>2, InvWhenStopped DEF Shutdown
  <1>3. CASE Yield \/ MyTid
    BY <1>3, ReturnValueInv DEF Yield, MyTid
  <1>4. CASE SystemCall
    BY <1>2, <1>3, <1>4, ExitInv, ReceiveInv, SendInv, ReplyInv, AwaitEventInv
       DEF SystemCall
  <1>5. CASE Settled /\ Creation
    BY <1>5, CreateInv DEF Creation
  <1>6. CASE \E S \in SUBSET VicLines : Interrupt(S)
    BY <1>6, InterruptInv
  <1> QED BY <1>1, <1>4, <1>5, <1>6, ScheduleInv, RunReturnsInv
          DEF OrderlyNext, CoreNext, Halted

-----------------------------------------------------------------------------
(* Theorems. *)

LEMMA OrderlyInv == OrderlySpec => []IInv
  BY InitInv, StepInv, PTL DEF OrderlySpec

\* The ready queue never holds a tid twice, nor a task that is blocked or
\* running, nor one at an old priority (activate(), Create(), reset_task()).  And no
\* wake-up is lost: a task made READY by Send(), Reply(), an exit or an interrupt is
\* on the ready queue until it runs, although reply.cc:21 and send.cc:68 ignore the
\* result of push().
THEOREM QueueIsSound == OrderlySpec => []ReadyQueueSound
  <1>1. IInv => ReadyQueueSound
    BY DEF IInv, ReadyQueueSound
  <1> QED BY <1>1, OrderlyInv, PTL

\* event_queue and the states of the tasks name the same sleepers.
THEOREM SlotsAreSound == OrderlySpec => []EventSlotsSound
  <1>1. IInv => EventSlotsSound
    BY DEF IInv
  <1> QED BY <1>1, OrderlyInv, PTL

\* The -3 and -4 that Send(), Receive() and AwaitEvent() leave in r0 are
\* overwritten before the task runs.
THEOREM SentinelsStayHidden == OrderlySpec => []NoSentinelSeen
  <1>1. IInv => NoSentinelSeen
    BY DEF IInv, TypeInv, RunningIsReady, ReadyHasResult, NoSentinelSeen, Alive
  <1> QED BY <1>1, OrderlyInv, PTL

\* run() returns only when nothing is READY or asleep on an event.
THEOREM ReturnsInTime == OrderlySpec => []NoEarlyReturn
  <1>1. IInv => NoEarlyReturn
    BY DEF IInv
  <1> QED BY <1>1, OrderlyInv, PTL

\* run() gives the processor to a READY task of the highest priority.
THEOREM SchedulesByPriority == OrderlySpec => HighestPriorityFirst
  <1> DEFINE Highest == mode = "loop" /\ mode' = "user" =>
               \A t \in Tid : tag[t] = "READY" => priority[t] <= priority[current_task']
  <1>1. IInv /\ [OrderlyNext]_vars => [Highest]_vars
    <2> SUFFICES ASSUME IInv, OrderlyNext, mode = "loop", mode' = "user",
                        NEW t \in Tid, tag[t] = "READY"
                 PROVE  priority[t] <= priority[current_task']
      OBVIOUS
    <2>1. Schedule
      BY DEF OrderlyNext, CoreNext, SystemCall, Yield, MyTid, Exit, Receive, Shutdown,
             Send, Reply, AwaitEvent, Creation, Create, Interrupt, Idle, Preempt,
             RunReturns, Halted, Panic
    <2>2. PICK i \in DOMAIN ready_queue :
              /\ IsNext(i, ready_queue)
              /\ current_task' = ready_queue[i].tid
              /\ mode' = IF Live(ready_queue[i].tid) THEN "user" ELSE "loop"
      BY <2>1 DEF Schedule
    <2>3. Alive /\ ~Running(t)
      BY DEF Alive, Running
    <2>4. /\ TypeOK /\ Sound(ready_queue, tag, priority)
          /\ t \in Names(ready_queue)
      BY <2>3, InvParts
    <2>5. PICK j \in DOMAIN ready_queue : ready_queue[j].tid = t
      BY <2>4 DEF Names
    <2>6. /\ ready_queue[j].priority = priority[t]
          /\ ready_queue[i].priority = priority[current_task']
      BY <2>2, <2>4, <2>5 DEF Sound, MayBeQueued, Live
    <2>7. ready_queue[i] \in Entry /\ ready_queue[j] \in Entry
      BY <2>4, SoundType
    <2>8. priority[t] \in Nat /\ priority[current_task'] \in Nat
      BY <2>6, <2>7, KernelAssumption DEF Entry
    <2> QED BY <2>2, <2>6, <2>8 DEF IsNext
  <1> QED BY <1>1, OrderlyInv, PTL DEF OrderlySpec, HighestPriorityFirst

-----------------------------------------------------------------------------
(***************************************************************************)
(* The send queues of Kernel under orderly programs: the linked lists of   *)
(* senders are what SendQueuesSound says, whatever tasks send, receive,    *)
(* exit and are interrupted; and therefore no kassert of the kernel fails. *)
(***************************************************************************)

-----------------------------------------------------------------------------
(* One list: q is what a walk along nx meets from first on, and last is its*)
(* last element.                                                           *)

Chain(q, first, last, tg, nx) ==
    /\ q \in Seq(Tid)
    /\ \A i, j \in DOMAIN q : q[i] = q[j] => i = j
    /\ \A i \in DOMAIN q : /\ tg[q[i]] = "SEND_WAIT"
                           /\ nx[q[i]] = IF i = Len(q) THEN NoTid ELSE q[i + 1]
    /\ first = IF q = <<>> THEN NoTid ELSE q[1]
    /\ last = IF q = <<>> THEN NoTid ELSE q[Len(q)]

LEMMA ChainType ==
  ASSUME NEW q, NEW first, NEW last, NEW tg, NEW nx, Chain(q, first, last, tg, nx)
  PROVE  /\ Len(q) \in Nat /\ DOMAIN q = 1 .. Len(q)
         /\ \A i \in DOMAIN q : q[i] \in Tid /\ q[i] \in Members(q) /\ q[i] # NoTid
         /\ \A t \in Members(q) : t \in Tid /\ tg[t] = "SEND_WAIT"
         /\ q = <<>> => first = NoTid /\ last = NoTid /\ Members(q) = {}
         /\ q # <<>> => /\ 1 \in DOMAIN q /\ Len(q) \in DOMAIN q
                        /\ first = q[1] /\ last = q[Len(q)]
                        /\ first \in Members(q) /\ last \in Members(q)
  <1>1. q \in Seq(Tid) /\ Len(q) \in Nat /\ DOMAIN q = 1 .. Len(q)
    BY DEF Chain
  <1>2. \A i \in DOMAIN q : q[i] \in Tid /\ q[i] \in Members(q) /\ q[i] # NoTid
    BY <1>1, TidType DEF Members
  <1>3. \A t \in Members(q) : t \in Tid /\ tg[t] = "SEND_WAIT"
    BY <1>2 DEF Members, Chain
  <1>4. q = <<>> => first = NoTid /\ last = NoTid /\ Members(q) = {}
    BY DEF Chain, Members
  <1>5. q # <<>> => 1 \in DOMAIN q /\ Len(q) \in DOMAIN q
    BY <1>1
  <1>6. q # <<>> => first = q[1] /\ last = q[Len(q)]
    BY DEF Chain
  <1> QED BY <1>1, <1>2, <1>3, <1>4, <1>5, <1>6

LEMMA ChainEmpty == \A tg, nx : Chain(<<>>, NoTid, NoTid, tg, nx)
  BY DEF Chain

\* A list whose members keep their state and their link is the same list.
LEMMA ChainAgrees ==
  ASSUME NEW q, NEW first, NEW last, NEW tg, NEW nx, NEW tg2, NEW nx2,
         Chain(q, first, last, tg, nx),
         \A t \in Members(q) : tg2[t] = "SEND_WAIT" /\ nx2[t] = nx[t]
  PROVE  Chain(q, first, last, tg2, nx2)
  BY DEF Chain, Members

\* There is one list only that starts at first.
LEMMA ChainUnique ==
  ASSUME NEW p, NEW q, NEW first, NEW l1, NEW l2, NEW tg, NEW nx,
         Chain(p, first, l1, tg, nx), Chain(q, first, l2, tg, nx)
  PROVE  p = q
  <1>1. /\ p \in Seq(Tid) /\ Len(p) \in Nat /\ DOMAIN p = 1 .. Len(p)
        /\ q \in Seq(Tid) /\ Len(q) \in Nat /\ DOMAIN q = 1 .. Len(q)
    BY DEF Chain
  <1>2. ASSUME NEW a, NEW b, NEW k1, NEW k2,
               Chain(a, first, k1, tg, nx), Chain(b, first, k2, tg, nx)
        PROVE  Len(a) <= Len(b) /\ \A i \in 1 .. Len(a) : a[i] = b[i]
    <2> DEFINE Bad == {i \in 1 .. Len(a) : i \notin 1 .. Len(b) \/ a[i] # b[i]}
    <2>1. /\ Len(a) \in Nat /\ DOMAIN a = 1 .. Len(a)
          /\ Len(b) \in Nat /\ DOMAIN b = 1 .. Len(b)
          /\ \A i \in 1 .. Len(a) : a[i] # NoTid
      BY <1>2, ChainType
    <2>2. Bad = {}
      <3> SUFFICES ASSUME Bad # {} PROVE FALSE
        OBVIOUS
      <3>1. Bad \in SUBSET Nat
        BY <2>1
      <3>2. PICK k \in Bad : \A n \in Bad : k <= n
        BY <3>1, LeastNatural
      <3>3. k \in 1 .. Len(a) /\ (k \notin 1 .. Len(b) \/ a[k] # b[k])
        OBVIOUS
      <3>4. CASE k = 1
        <4>1. a # <<>> /\ first = a[1] /\ first # NoTid
          BY <1>2, <2>1, <3>3, <3>4, ChainType
        <4>2. b # <<>> /\ first = b[1] /\ 1 \in DOMAIN b
          BY <1>2, <4>1, ChainType
        <4> QED BY <2>1, <3>3, <3>4, <4>1, <4>2
      <3>5. CASE k # 1
        <4>1. k - 1 \in 1 .. Len(a) /\ k - 1 # Len(a) /\ k - 1 \in Nat
          BY <2>1, <3>3, <3>5
        <4>2. k - 1 \notin Bad
          BY <2>1, <3>2, <3>3, <4>1
        <4>3. k - 1 \in 1 .. Len(b) /\ a[k - 1] = b[k - 1]
          BY <4>1, <4>2
        <4>4. nx[a[k - 1]] = a[(k - 1) + 1]
          BY <1>2, <2>1, <4>1 DEF Chain
        <4>5. nx[a[k - 1]] = a[k] /\ a[k] # NoTid
          BY <2>1, <3>3, <4>4
        <4>6. nx[b[k - 1]] = IF k - 1 = Len(b) THEN NoTid ELSE b[(k - 1) + 1]
          BY <1>2, <2>1, <4>3 DEF Chain
        <4>7. k - 1 # Len(b) /\ a[k] = b[k]
          BY <2>1, <3>3, <4>3, <4>5, <4>6
        <4> QED BY <2>1, <3>3, <4>3, <4>7
      <3> QED BY <3>4, <3>5
    <2>3. \A i \in 1 .. Len(a) : i \in 1 .. Len(b) /\ a[i] = b[i]
      BY <2>2
    <2>4. Len(a) <= Len(b)
      BY <2>1, <2>3
    <2> QED BY <2>3, <2>4
  <1>3. Len(p) <= Len(q) /\ Len(q) <= Len(p)
    BY <1>2
  <1>4. \A i \in 1 .. Len(p) : p[i] = q[i]
    BY <1>2
  <1>5. \A a, b \in Nat : a <= b /\ b <= a => a = b
    OBVIOUS
  <1>6. Len(p) = Len(q)
    BY <1>1, <1>3, <1>5
  <1> QED BY <1>1, <1>4, <1>6

\* How tags and links change for the members of q when t joins them at the end.
Joins(t, q, last, nx, tg2, nx2) ==
    /\ t \in Tid /\ t \notin Members(q)
    /\ tg2[t] = "SEND_WAIT" /\ nx2[t] = NoTid
    /\ q # <<>> => nx2[last] = t
    /\ \A u \in Members(q) : tg2[u] = "SEND_WAIT" /\ (u # last => nx2[u] = nx[u])

LEMMA ChainAppend ==
  ASSUME NEW q, NEW first, NEW last, NEW tg, NEW nx, NEW tg2, NEW nx2, NEW t,
         Chain(q, first, last, tg, nx), Joins(t, q, last, nx, tg2, nx2)
  PROVE  /\ Chain(Append(q, t), IF q = <<>> THEN t ELSE first, t, tg2, nx2)
         /\ Members(Append(q, t)) = Members(q) \cup {t}
  <1> DEFINE a == Append(q, t)
             n == Len(q)
  <1>0. /\ t \in Tid /\ t \notin Members(q)
        /\ tg2[t] = "SEND_WAIT" /\ nx2[t] = NoTid
        /\ q # <<>> => nx2[last] = t
        /\ \A u \in Members(q) : tg2[u] = "SEND_WAIT" /\ (u # last => nx2[u] = nx[u])
    BY DEF Joins
  <1>1. /\ q \in Seq(Tid) /\ n \in Nat /\ DOMAIN q = 1 .. n
        /\ a \in Seq(Tid) /\ Len(a) = n + 1 /\ DOMAIN a = 1 .. n + 1
        /\ \A i \in 1 .. n : a[i] = q[i]
        /\ a[n + 1] = t
    BY <1>0 DEF Chain
  <1>2. q # <<>> => n \in DOMAIN q /\ first = q[1] /\ last = q[n]
    BY ChainType
  <1>3. q = <<>> <=> n = 0
    BY <1>1
  <1> HIDE DEF a, n
  <1>4. \A i \in 1 .. n + 1 : i \in 1 .. n \/ i = n + 1
    BY <1>1
  <1>5. \A i \in 1 .. n : q[i] \in Members(q) /\ a[i] \in Members(q)
    BY <1>1 DEF Members
  <1>6. \A i, j \in DOMAIN a : a[i] = a[j] => i = j
    <2> SUFFICES ASSUME NEW i \in 1 .. n + 1, NEW j \in 1 .. n + 1, a[i] = a[j]
                 PROVE  i = j
      BY <1>1
    <2>1. CASE i \in 1 .. n /\ j \in 1 .. n
      BY <1>1, <2>1 DEF Chain
    <2>2. CASE i \in 1 .. n /\ j = n + 1
      BY <1>0, <1>1, <1>5, <2>2
    <2>3. CASE i = n + 1 /\ j \in 1 .. n
      BY <1>0, <1>1, <1>5, <2>3
    <2> QED BY <1>4, <2>1, <2>2, <2>3
  <1>7. \A i \in DOMAIN a : /\ tg2[a[i]] = "SEND_WAIT"
                            /\ nx2[a[i]] = IF i = Len(a) THEN NoTid ELSE a[i + 1]
    <2> SUFFICES ASSUME NEW i \in 1 .. n + 1
                 PROVE  /\ tg2[a[i]] = "SEND_WAIT"
                        /\ nx2[a[i]] = IF i = n + 1 THEN NoTid ELSE a[i + 1]
      BY <1>1
    <2>1. CASE i = n + 1
      BY <1>0, <1>1, <2>1
    <2>2. CASE i \in 1 .. n /\ i = n
      <3>1. q # <<>> /\ a[i] = last
        BY <1>1, <1>2, <1>3, <2>2
      <3> QED BY <1>0, <1>1, <1>5, <2>2, <3>1
    <2>3. CASE i \in 1 .. n /\ i # n
      <3>1. /\ n \in DOMAIN q /\ last = q[n] /\ i + 1 \in 1 .. n
        BY <1>1, <1>2, <1>3, <2>3
      <3>2. q[i] # last
        BY <1>1, <2>3, <3>1 DEF Chain
      <3>3. nx2[q[i]] = nx[q[i]]
        BY <1>0, <1>5, <2>3, <3>2
      <3>4. nx[q[i]] = q[i + 1]
        BY <1>1, <2>3 DEF Chain, n
      <3> QED BY <1>0, <1>1, <1>5, <2>3, <3>1, <3>3, <3>4
    <2> QED BY <1>4, <2>1, <2>2, <2>3
  <1>8. a # <<>> /\ a[1] = (IF q = <<>> THEN t ELSE first) /\ a[Len(a)] = t
    BY <1>1, <1>2, <1>3
  <1>9. Members(a) = Members(q) \cup {t}
    <2>1. \A u \in Members(a) : u \in Members(q) \cup {t}
      BY <1>1, <1>4, <1>5 DEF Members
    <2>2. \A u \in Members(q) : u \in Members(a)
      BY <1>1 DEF Members
    <2>3. t \in Members(a)
      BY <1>1 DEF Members
    <2> QED BY <2>1, <2>2, <2>3
  <1>10. Chain(a, IF q = <<>> THEN t ELSE first, t, tg2, nx2)
    BY <1>1, <1>6, <1>7, <1>8 DEF Chain
  <1> QED BY <1>9, <1>10 DEF a

\* The first task leaves the list.
LEMMA ChainTail ==
  ASSUME NEW q, NEW first, NEW last, NEW tg, NEW nx, NEW tg2, NEW nx2,
         Chain(q, first, last, tg, nx), q # <<>>,
         \A u \in Members(q) : u # first => tg2[u] = "SEND_WAIT" /\ nx2[u] = nx[u],
         NEW last2, last2 = IF nx[first] = NoTid THEN NoTid ELSE last
  PROVE  /\ Chain(Tail(q), nx[first], last2, tg2, nx2)
         /\ Members(Tail(q)) = Members(q) \ {first}
         /\ Tail(q) \in Seq(Tid)
  <1> DEFINE a == Tail(q)
             n == Len(q)
  <1>1. /\ q \in Seq(Tid) /\ n \in Nat /\ DOMAIN q = 1 .. n /\ n >= 1
        /\ a \in Seq(Tid) /\ Len(a) = n - 1 /\ DOMAIN a = 1 .. n - 1
        /\ \A i \in 1 .. n - 1 : a[i] = q[i + 1]
    BY DEF Chain
  <1>2. /\ first = q[1] /\ last = q[n]
        /\ \A i \in 1 .. n : q[i] \in Members(q) /\ q[i] # NoTid
    BY <1>1, ChainType
  <1>3. \A i, j \in 1 .. n : q[i] = q[j] => i = j
    BY <1>1 DEF Chain
  <1>4. \A i \in 1 .. n : /\ tg[q[i]] = "SEND_WAIT"
                          /\ nx[q[i]] = IF i = n THEN NoTid ELSE q[i + 1]
    BY <1>1 DEF Chain
  <1> HIDE DEF a, n
  <1>5. a = <<>> <=> n = 1
    BY <1>1
  <1>6. \A i \in 1 .. n - 1 : i + 1 \in 1 .. n /\ q[i + 1] # first
    BY <1>1, <1>2, <1>3
  <1>7. \A i, j \in DOMAIN a : a[i] = a[j] => i = j
    <2> SUFFICES ASSUME NEW i \in 1 .. n - 1, NEW j \in 1 .. n - 1, a[i] = a[j]
                 PROVE  i = j
      BY <1>1
    <2>1. q[i + 1] = q[j + 1] /\ i + 1 \in 1 .. n /\ j + 1 \in 1 .. n
      BY <1>1, <1>6
    <2>2. i + 1 = j + 1
      BY <1>3, <2>1
    <2> QED BY <1>1, <2>2
  <1>8. \A i \in DOMAIN a : /\ tg2[a[i]] = "SEND_WAIT"
                            /\ nx2[a[i]] = IF i = Len(a) THEN NoTid ELSE a[i + 1]
    <2> SUFFICES ASSUME NEW i \in 1 .. n - 1
                 PROVE  /\ tg2[a[i]] = "SEND_WAIT"
                        /\ nx2[a[i]] = IF i = n - 1 THEN NoTid ELSE a[i + 1]
      BY <1>1
    <2>1. a[i] = q[i + 1] /\ i + 1 \in 1 .. n /\ q[i + 1] # first
      BY <1>1, <1>6
    <2>2. tg2[a[i]] = "SEND_WAIT" /\ nx2[a[i]] = nx[q[i + 1]]
      BY <1>2, <2>1
    <2>3. nx[q[i + 1]] = IF i + 1 = n THEN NoTid ELSE q[(i + 1) + 1]
      BY <1>4, <2>1
    <2>4. i # n - 1 => a[i + 1] = q[(i + 1) + 1]
      BY <1>1
    <2>5. i + 1 = n <=> i = n - 1
      BY <1>1
    <2> QED BY <2>2, <2>3, <2>4, <2>5
  <1>9. nx[first] = IF a = <<>> THEN NoTid ELSE a[1]
    BY <1>1, <1>2, <1>4, <1>5
  <1>10. a # <<>> => a[1] # NoTid /\ a[Len(a)] = last
    BY <1>1, <1>2, <1>5
  <1>11. last2 = IF a = <<>> THEN NoTid ELSE a[Len(a)]
    BY <1>9, <1>10
  <1>12. Members(a) = Members(q) \ {first}
    <2>1. \A u \in Members(a) : u \in Members(q) /\ u # first
      BY <1>1, <1>2, <1>6 DEF Members
    <2>2. \A i \in 1 .. n : q[i] # first => q[i] \in Members(a)
      <3> SUFFICES ASSUME NEW i \in 1 .. n, q[i] # first PROVE q[i] \in Members(a)
        OBVIOUS
      <3>1. i - 1 \in 1 .. n - 1
        BY <1>1, <1>2
      <3>2. a[i - 1] = q[(i - 1) + 1] /\ (i - 1) + 1 = i
        BY <1>1, <3>1
      <3> QED BY <1>1, <3>1, <3>2 DEF Members
    <2>3. \A u \in Members(q) : u # first => u \in Members(a)
      BY <1>1, <2>2 DEF Members
    <2> QED BY <2>1, <2>3
  <1>13. Chain(a, nx[first], last2, tg2, nx2)
    BY <1>1, <1>7, <1>8, <1>9, <1>11 DEF Chain
  <1> QED BY <1>1, <1>12, <1>13 DEF a

-----------------------------------------------------------------------------
(* All of them: m[r] is the send queue of r.                               *)

QueueIs(q, r) == Chain(q, send_queue_head[r], send_queue_tail[r], tag, next)

MailIs(m) ==
    /\ m \in [Tid -> Seq(Tid)]
    /\ \A r \in Tid : QueueIs(m[r], r)
    /\ \A r \in Tid : tag[r] \in {"RECV_WAIT", "FREE"} => m[r] = <<>>
    /\ \A t \in Tid : tag[t] = "SEND_WAIT" => \E r \in Tid : t \in Members(m[r])
    /\ \A r, s \in Tid : \A t \in Members(m[r]) : t \in Members(m[s]) => r = s

LEMMA MailType ==
  ASSUME NEW m, MailIs(m)
  PROVE  /\ m \in [Tid -> Seq(Tid)]
         /\ \A r \in Tid : QueueIs(m[r], r) /\ m[r] \in Seq(Tid)
         /\ \A r \in Tid : \A t \in Members(m[r]) : t \in Tid /\ tag[t] = "SEND_WAIT"
         /\ \A r, s \in Tid : \A t \in Members(m[r]) : t \in Members(m[s]) => r = s
         /\ \A r \in Tid : send_queue_head[r] = NoTid <=> m[r] = <<>>
         /\ \A r \in Tid : send_queue_tail[r] = NoTid <=> m[r] = <<>>
         /\ \A r \in Tid : m[r] # <<>> => /\ send_queue_head[r] = m[r][1]
                                          /\ send_queue_head[r] \in Members(m[r])
                                          /\ send_queue_tail[r] \in Members(m[r])
  <1>1. /\ \A r \in Tid : QueueIs(m[r], r) /\ m[r] \in Seq(Tid)
        /\ \A r, s \in Tid : \A t \in Members(m[r]) : t \in Members(m[s]) => r = s
        /\ m \in [Tid -> Seq(Tid)]
    BY DEF MailIs
  <1> SUFFICES ASSUME NEW r \in Tid
               PROVE  /\ \A t \in Members(m[r]) : t \in Tid /\ tag[t] = "SEND_WAIT"
                      /\ send_queue_head[r] = NoTid <=> m[r] = <<>>
                      /\ send_queue_tail[r] = NoTid <=> m[r] = <<>>
                      /\ m[r] # <<>> => /\ send_queue_head[r] = m[r][1]
                                        /\ send_queue_head[r] \in Members(m[r])
                                        /\ send_queue_tail[r] \in Members(m[r])
    BY <1>1
  <1>2. QueueIs(m[r], r)
    BY <1>1
  <1>3. \A t \in Members(m[r]) : t \in Tid /\ tag[t] = "SEND_WAIT"
    BY <1>2, ChainType DEF QueueIs
  <1>4. /\ m[r] = <<>> => send_queue_head[r] = NoTid /\ send_queue_tail[r] = NoTid
        /\ m[r] # <<>> => /\ send_queue_head[r] = m[r][1]
                          /\ send_queue_head[r] \in Members(m[r])
                          /\ send_queue_tail[r] \in Members(m[r])
    BY <1>2, ChainType DEF QueueIs
  <1>5. NoTid \notin Members(m[r])
    BY <1>3, TidType
  <1> QED BY <1>3, <1>4, <1>5

\* A step that touches no waiting sender and no head or tail.
LEMMA MailKept ==
  ASSUME NEW m, MailIs(m), UNCHANGED <<send_queue_head, send_queue_tail>>,
         \A t \in Tid : /\ tag'[t] = "SEND_WAIT" <=> tag[t] = "SEND_WAIT"
                        /\ tag[t] = "SEND_WAIT" => next'[t] = next[t]
                        /\ tag'[t] \in {"RECV_WAIT", "FREE"} => m[t] = <<>>
  PROVE  MailIs(m)'
  <1>1. \A r \in Tid : /\ QueueIs(m[r], r)
                       /\ \A t \in Members(m[r]) : t \in Tid /\ tag[t] = "SEND_WAIT"
    BY MailType
  <1>2. \A r \in Tid : QueueIs(m[r], r)'
    BY <1>1, ChainAgrees DEF QueueIs
  <1> QED BY <1>2 DEF MailIs

\* Task c joins the send queue of r.
LEMMA MailDeposit ==
  ASSUME TypeOK, NEW m, MailIs(m), NEW r \in Tid, NEW c, c = current_task,
         c \in Tid, tag[c] = "READY", tag[r] \notin {"RECV_WAIT", "FREE"}, Deposit(r)
  PROVE  MailIs([m EXCEPT ![r] = Append(@, c)])'
  <1>a. /\ tag' = [tag EXCEPT ![c] = "SEND_WAIT"]
        /\ send_queue_tail' = [send_queue_tail EXCEPT ![r] = c]
        /\ send_queue_head[r] = NoTid =>
              /\ next' = [next EXCEPT ![c] = NoTid]
              /\ send_queue_head' = [send_queue_head EXCEPT ![r] = c]
        /\ send_queue_head[r] # NoTid =>
              /\ next' = [next EXCEPT ![c] = NoTid, ![send_queue_tail[r]] = c]
              /\ send_queue_head' = send_queue_head
    BY DEF Deposit
  <1>b. /\ send_queue_head[r] = NoTid <=> m[r] = <<>>
        /\ m[r] # <<>> => send_queue_tail[r] \in Tid \ {c}
    BY MailType
  <1>c. /\ tag'[c] = "SEND_WAIT"
        /\ \A t \in Tid \ {c} : tag'[t] = tag[t]
        /\ send_queue_head'[r] = IF m[r] = <<>> THEN c ELSE send_queue_head[r]
        /\ send_queue_tail'[r] = c
        /\ \A t \in Tid \ {r} : /\ send_queue_head'[t] = send_queue_head[t]
                               /\ send_queue_tail'[t] = send_queue_tail[t]
    BY <1>a, <1>b DEF TypeOK
  <1>d. /\ next'[c] = NoTid
        /\ m[r] # <<>> => next'[send_queue_tail[r]] = c
        /\ \A t \in Tid \ {c} : (m[r] # <<>> /\ t = send_queue_tail[r]) \/ next'[t] = next[t]
    BY <1>a, <1>b DEF TypeOK
  <1> DEFINE n == [m EXCEPT ![r] = Append(@, c)]
  <1>0. m \in [Tid -> Seq(Tid)]
    BY MailType
  <1>1. \A s \in Tid : /\ QueueIs(m[s], s) /\ m[s] \in Seq(Tid)
                       /\ \A t \in Members(m[s]) : t \in Tid /\ tag[t] = "SEND_WAIT"
                       /\ m[s] # <<>> => send_queue_tail[s] \in Members(m[s])
    BY MailType
  <1>2. \A s, u \in Tid : \A t \in Members(m[s]) : t \in Members(m[u]) => s = u
    BY MailType
  <1>3. \A s \in Tid : c \notin Members(m[s])
    BY <1>1
  <1>4. /\ n \in [Tid -> Seq(Tid)] /\ n[r] = Append(m[r], c)
        /\ \A s \in Tid \ {r} : n[s] = m[s]
    BY <1>0, <1>1
  <1> HIDE DEF n
  <1>5. \A u \in Members(m[r]) :
            tag'[u] = "SEND_WAIT" /\ (u # send_queue_tail[r] => next'[u] = next[u])
    BY <1>1, <1>3, <1>c, <1>d
  <1>6. /\ Chain(Append(m[r], c), send_queue_head'[r], c, tag', next')
        /\ Members(Append(m[r], c)) = Members(m[r]) \cup {c}
    <2>1. Joins(c, m[r], send_queue_tail[r], next, tag', next')
      <3>1. c \in Tid /\ c \notin Members(m[r]) /\ tag'[c] = "SEND_WAIT" /\ next'[c] = NoTid
        BY <1>3, <1>c, <1>d
      <3>2. m[r] # <<>> => next'[send_queue_tail[r]] = c
        BY <1>d
      <3> QED BY ONLY <3>1, <3>2, <1>5 DEF Joins
    <2>2. Chain(m[r], send_queue_head[r], send_queue_tail[r], tag, next)
      BY <1>1 DEF QueueIs
    <2>3. /\ Chain(Append(m[r], c), IF m[r] = <<>> THEN c ELSE send_queue_head[r], c, tag', next')
          /\ Members(Append(m[r], c)) = Members(m[r]) \cup {c}
      BY ONLY <2>1, <2>2, ChainAppend
    <2> QED BY <2>3, <1>c
  <1>7. \A s \in Tid \ {r} : QueueIs(m[s], s)'
    <2> SUFFICES ASSUME NEW s \in Tid \ {r}
                 PROVE  QueueIs(m[s], s)'
      OBVIOUS
    <2>1. \A t \in Members(m[s]) : t \in Tid \ {c} /\ tag[t] = "SEND_WAIT"
      BY <1>1, <1>3
    <2>2. \A t \in Members(m[s]) : m[r] # <<>> => t # send_queue_tail[r]
      <3>1. m[r] # <<>> => send_queue_tail[r] \in Members(m[r])
        BY <1>1
      <3> QED BY <1>2, <3>1
    <2>3. \A t \in Members(m[s]) : tag'[t] = "SEND_WAIT" /\ next'[t] = next[t]
      BY <2>1, <2>2, <1>c, <1>d
    <2> QED BY <1>1, <1>c, <2>3, ChainAgrees DEF QueueIs
  <1>8. \A s \in Tid : QueueIs(n[s], s)'
    BY <1>4, <1>6, <1>7, <1>c DEF QueueIs
  <1>9. \A s \in Tid : tag'[s] \in {"RECV_WAIT", "FREE"} => n[s] = <<>>
    <2>1. tag'[r] \notin {"RECV_WAIT", "FREE"}
      BY <1>c
    <2>2. \A s \in Tid \ {r} : tag'[s] \in {"RECV_WAIT", "FREE"} => m[s] = <<>>
      BY <1>c DEF MailIs
    <2> QED BY <1>4, <2>1, <2>2
  <1>10. /\ Members(n[r]) = Members(m[r]) \cup {c}
         /\ \A s \in Tid \ {r} : Members(n[s]) = Members(m[s])
    BY <1>4, <1>6
  <1>11. \A t \in Tid : tag'[t] = "SEND_WAIT" => \E s \in Tid : t \in Members(n[s])
    <2> SUFFICES ASSUME NEW t \in Tid, tag'[t] = "SEND_WAIT"
                 PROVE  \E s \in Tid : t \in Members(n[s])
      OBVIOUS
    <2>1. CASE t = c
      BY <1>10, <2>1
    <2>2. CASE t # c
      <3>1. PICK s \in Tid : t \in Members(m[s])
        BY <1>c, <2>2 DEF MailIs
      <3> QED BY <1>10, <3>1
    <2> QED BY <2>1, <2>2
  <1>12. \A s, u \in Tid : \A t \in Members(n[s]) : t \in Members(n[u]) => s = u
    BY <1>2, <1>3, <1>10
  <1> QED BY <1>4, <1>8, <1>9, <1>11, <1>12 DEF MailIs, n

\* The first sender f leaves the send queue of r.
LEMMA MailTake ==
  ASSUME TypeOK, NEW m, MailIs(m), NEW r, r = current_task, r \in Tid,
         NEW f, f = send_queue_head[r], f # NoTid, Take(f)
  PROVE  MailIs([m EXCEPT ![r] = Tail(@)])'
  <1>a. /\ m[r] # <<>> /\ f \in Members(m[r]) /\ f \in Tid
    BY MailType
  <1>b. /\ tag' = [tag EXCEPT ![f] = "REPLY_WAIT"]
        /\ next' = [next EXCEPT ![f] = NoTid]
        /\ send_queue_head' = [send_queue_head EXCEPT ![r] = next[f]]
        /\ send_queue_tail' = IF next[f] = NoTid THEN [send_queue_tail EXCEPT ![r] = NoTid]
                              ELSE send_queue_tail
    BY DEF Take
  <1>c. /\ tag'[f] = "REPLY_WAIT"
        /\ \A t \in Tid \ {f} : tag'[t] = tag[t] /\ next'[t] = next[t]
        /\ send_queue_head'[r] = next[f]
        /\ send_queue_tail'[r] = IF next[f] = NoTid THEN NoTid ELSE send_queue_tail[r]
        /\ \A t \in Tid \ {r} : /\ send_queue_head'[t] = send_queue_head[t]
                               /\ send_queue_tail'[t] = send_queue_tail[t]
    BY <1>a, <1>b DEF TypeOK
  <1> DEFINE n == [m EXCEPT ![r] = Tail(@)]
  <1>0. m \in [Tid -> Seq(Tid)]
    BY MailType
  <1>1. \A s \in Tid : /\ QueueIs(m[s], s) /\ m[s] \in Seq(Tid)
                       /\ \A t \in Members(m[s]) : t \in Tid /\ tag[t] = "SEND_WAIT"
    BY MailType
  <1>2. \A s, u \in Tid : \A t \in Members(m[s]) : t \in Members(m[u]) => s = u
    BY MailType
  <1>3. f \in Members(m[r]) /\ f \in Tid
    BY <1>a
  <1>4. \A t \in Members(m[r]) : t # f => tag'[t] = "SEND_WAIT" /\ next'[t] = next[t]
    BY <1>1, <1>c
  <1>5. /\ Chain(Tail(m[r]), send_queue_head'[r], send_queue_tail'[r], tag', next')
        /\ Members(Tail(m[r])) = Members(m[r]) \ {f}
        /\ Tail(m[r]) \in Seq(Tid)
    <2>1. Chain(m[r], f, send_queue_tail[r], tag, next) /\ m[r] # <<>>
      BY <1>1, <1>a DEF QueueIs
    <2> QED BY <1>4, <1>c, <2>1, ChainTail
  <1>6. /\ n \in [Tid -> Seq(Tid)] /\ n[r] = Tail(m[r])
        /\ \A s \in Tid \ {r} : n[s] = m[s]
    BY <1>0, <1>5
  <1> HIDE DEF n
  <1>7. \A s \in Tid \ {r} : QueueIs(m[s], s)'
    <2> SUFFICES ASSUME NEW s \in Tid \ {r}
                 PROVE  QueueIs(m[s], s)'
      OBVIOUS
    <2>1. \A t \in Members(m[s]) : t \in Tid \ {f} /\ tag[t] = "SEND_WAIT"
      BY <1>1, <1>2, <1>3
    <2>2. \A t \in Members(m[s]) : tag'[t] = "SEND_WAIT" /\ next'[t] = next[t]
      BY <1>c, <2>1
    <2> QED BY <1>1, <1>c, <2>2, ChainAgrees DEF QueueIs
  <1>8. \A s \in Tid : QueueIs(n[s], s)'
    BY <1>5, <1>6, <1>7 DEF QueueIs
  <1>9. /\ Members(n[r]) = Members(m[r]) \ {f}
        /\ \A s \in Tid \ {r} : Members(n[s]) = Members(m[s])
    BY <1>5, <1>6
  <1>10. \A s \in Tid : tag'[s] \in {"RECV_WAIT", "FREE"} => n[s] = <<>>
    <2> SUFFICES ASSUME NEW s \in Tid, tag'[s] \in {"RECV_WAIT", "FREE"}
                 PROVE  n[s] = <<>>
      OBVIOUS
    <2>1. tag[s] \in {"RECV_WAIT", "FREE"}
      BY <1>c
    <2>2. m[s] = <<>>
      BY <2>1 DEF MailIs
    <2>3. s # r
      BY <1>a, <2>2
    <2> QED BY <1>6, <2>2, <2>3
  <1>11. \A t \in Tid : tag'[t] = "SEND_WAIT" => \E s \in Tid : t \in Members(n[s])
    <2> SUFFICES ASSUME NEW t \in Tid, tag'[t] = "SEND_WAIT"
                 PROVE  \E s \in Tid : t \in Members(n[s])
      OBVIOUS
    <2>1. t # f /\ tag[t] = "SEND_WAIT"
      BY <1>c
    <2>2. PICK s \in Tid : t \in Members(m[s])
      BY <2>1 DEF MailIs
    <2> QED BY <1>9, <2>1, <2>2
  <1>12. \A s, u \in Tid : \A t \in Members(n[s]) : t \in Members(n[u]) => s = u
    BY <1>2, <1>9
  <1> QED BY <1>6, <1>8, <1>10, <1>11, <1>12 DEF MailIs, n

\* What reset_task() does to the tasks and queues when r exits and q is its list
\* of senders.
Releases(q, r) ==
    /\ tag' = [t \in Tid |-> IF t = r THEN "FREE"
                              ELSE IF t \in Members(q) THEN "READY" ELSE tag[t]]
    /\ next' = [t \in Tid |-> IF t \in Members(q) \cup {r} THEN NoTid ELSE next[t]]
    /\ send_queue_head' = [send_queue_head EXCEPT ![r] = NoTid]
    /\ send_queue_tail' = [send_queue_tail EXCEPT ![r] = NoTid]

\* All senders leave the send queue of r, which exits.
LEMMA MailRelease ==
  ASSUME TypeOK, NEW m, MailIs(m), NEW r \in Tid, tag[r] = "READY", Releases(m[r], r)
  PROVE  MailIs([m EXCEPT ![r] = <<>>])'
  <1>c. /\ send_queue_head'[r] = NoTid /\ send_queue_tail'[r] = NoTid
        /\ \A t \in Tid \ {r} : /\ send_queue_head'[t] = send_queue_head[t]
                               /\ send_queue_tail'[t] = send_queue_tail[t]
    BY DEF TypeOK, Releases
  <1>d. /\ tag'[r] = "FREE"
        /\ \A t \in Tid \ {r} : tag'[t] = IF t \in Members(m[r]) THEN "READY" ELSE tag[t]
        /\ \A t \in Tid \ {r} : t \notin Members(m[r]) => next'[t] = next[t]
    BY DEF Releases
  <1> DEFINE n == [m EXCEPT ![r] = <<>>]
  <1>0. m \in [Tid -> Seq(Tid)]
    BY MailType
  <1>1. \A s \in Tid : /\ QueueIs(m[s], s) /\ m[s] \in Seq(Tid)
                       /\ \A t \in Members(m[s]) : t \in Tid /\ tag[t] = "SEND_WAIT"
    BY MailType
  <1>2. \A s, u \in Tid : \A t \in Members(m[s]) : t \in Members(m[u]) => s = u
    BY MailType
  <1>3. /\ n \in [Tid -> Seq(Tid)] /\ n[r] = <<>>
        /\ \A s \in Tid \ {r} : n[s] = m[s]
    BY <1>0, <1>1
  <1> HIDE DEF n
  <1>4. \A s \in Tid : r \notin Members(m[s])
    BY <1>1
  <1>5. \A s \in Tid \ {r} : QueueIs(m[s], s)'
    <2> SUFFICES ASSUME NEW s \in Tid \ {r}
                 PROVE  QueueIs(m[s], s)'
      OBVIOUS
    <2>1. \A t \in Members(m[s]) : /\ t \in Tid \ {r} /\ t \notin Members(m[r])
                                   /\ tag[t] = "SEND_WAIT"
      BY <1>1, <1>2, <1>4
    <2>2. \A t \in Members(m[s]) : tag'[t] = "SEND_WAIT" /\ next'[t] = next[t]
      BY <1>d, <2>1
    <2>3. Chain(m[s], send_queue_head[s], send_queue_tail[s], tag, next)
      BY <1>1 DEF QueueIs
    <2>4. Chain(m[s], send_queue_head[s], send_queue_tail[s], tag', next')
      BY ONLY <2>2, <2>3, ChainAgrees
    <2> QED BY ONLY <2>4, <1>c, s \in Tid \ {r} DEF QueueIs
  <1>6. \A s \in Tid : QueueIs(n[s], s)'
    BY <1>3, <1>5, <1>c, ChainEmpty DEF QueueIs
  <1>7. Members(n[r]) = {} /\ \A s \in Tid \ {r} : Members(n[s]) = Members(m[s])
    BY <1>3 DEF Members
  <1>8. \A s \in Tid : tag'[s] \in {"RECV_WAIT", "FREE"} => n[s] = <<>>
    <2> SUFFICES ASSUME NEW s \in Tid \ {r}, tag'[s] \in {"RECV_WAIT", "FREE"}
                 PROVE  m[s] = <<>>
      BY <1>3
    <2>1. tag[s] \in {"RECV_WAIT", "FREE"}
      BY <1>d
    <2> QED BY <2>1 DEF MailIs
  <1>9. \A t \in Tid : tag'[t] = "SEND_WAIT" => \E s \in Tid : t \in Members(n[s])
    <2> SUFFICES ASSUME NEW t \in Tid, tag'[t] = "SEND_WAIT"
                 PROVE  \E s \in Tid : t \in Members(n[s])
      OBVIOUS
    <2>1. t # r /\ t \notin Members(m[r]) /\ tag[t] = "SEND_WAIT"
      BY <1>d
    <2>2. PICK s \in Tid : t \in Members(m[s])
      BY <2>1 DEF MailIs
    <2> QED BY <1>7, <2>1, <2>2
  <1>10. \A s, u \in Tid : \A t \in Members(n[s]) : t \in Members(n[u]) => s = u
    BY <1>2, <1>7
  <1> QED BY <1>3, <1>6, <1>8, <1>9, <1>10 DEF MailIs, n
-----------------------------------------------------------------------------
(* What SendQueuesSound says of the lists.                                 *)

\* m[t] is the only list of distinct senders that a walk from the head of t
\* can be.
LEMMA MailIsSendQueue ==
  ASSUME NEW m, MailIs(m), NEW t \in Tid
  PROVE  /\ m[t] \in SenderLists /\ Distinct(m[t]) /\ IsSendQueue(m[t], t)
         /\ SendQueuesOf(t) = {m[t]}
         /\ SendQueue(t) = m[t]
  <1> DEFINE q == m[t]
             n == Len(q)
  <1>1. /\ QueueIs(q, t)
        /\ \A u \in Members(q) : u \in Senders
    BY MailType DEF Senders
  <1>2. /\ q \in Seq(Tid) /\ n \in Nat /\ DOMAIN q = 1 .. n
        /\ \A i, j \in 1 .. n : q[i] = q[j] => i = j
    BY <1>1 DEF QueueIs, Chain
  <1>3. \A i \in 1 .. n : q[i] \in Senders
    BY <1>1, <1>2 DEF Members
  <1>4. q \in [1 .. n -> Senders]
    BY <1>2, <1>3
  <1>5. IsFiniteSet(Senders)
    <2>1. IsFiniteSet(Tid) /\ Senders \subseteq Tid
      BY KernelAssumption, FS_Interval DEF Tid, Senders
    <2> QED BY <2>1, FS_Subset
  <1>6. n \in 0 .. Cardinality(Senders)
    <2>1. Cardinality(1 .. n) = n
      <3>1. \A k \in Nat : Cardinality(1 .. k) = k
        BY FS_Interval
      <3> QED BY <1>2, <3>1
    <2>2. q \in Injection(1 .. n, Senders)
      BY <1>2, <1>4, Fun_IsInj
    <2>3. n <= Cardinality(Senders) /\ Cardinality(Senders) \in Nat
      BY <1>5, <2>1, <2>2, FS_Injection, FS_CardinalityType
    <2> QED BY <1>2, <2>3
  <1>7. q \in SenderLists
    BY <1>4, <1>6 DEF SenderLists
  <1>8. Distinct(q) /\ IsSendQueue(q, t)
    BY <1>1 DEF Distinct, IsSendQueue, QueueIs, Chain
  <1>9. \A p \in SendQueuesOf(t) : p = q
    <2> SUFFICES ASSUME NEW p \in SenderLists, Distinct(p), IsSendQueue(p, t)
                 PROVE  p = q
      BY DEF SendQueuesOf
    <2> DEFINE end == IF p = <<>> THEN NoTid ELSE p[Len(p)]
    <2>1. p \in [1 .. Len(p) -> Tid] /\ Len(p) \in Nat
      BY SenderListType
    <2>2. p \in Seq(Tid)
      BY <2>1
    <2>3. Chain(p, send_queue_head[t], end, tag, next)
      BY <2>2 DEF Chain, Distinct, IsSendQueue
    <2> QED BY <1>1, <2>3, ChainUnique DEF QueueIs
  <1>10. q \in SendQueuesOf(t)
    BY <1>7, <1>8 DEF SendQueuesOf
  <1>11. SendQueuesOf(t) = {q}
    BY <1>9, <1>10
  <1> QED BY <1>7, <1>8, <1>11 DEF SendQueue

LEMMA MailIsSound ==
  ASSUME NEW m, MailIs(m)
  PROVE  SendQueuesSound
  <1>1. \A t \in Tid : SendQueuesOf(t) = {m[t]} /\ SendQueue(t) = m[t]
    BY MailIsSendQueue
  <1>2. \A r \in Tid : send_queue_tail[r] = IF m[r] = <<>> THEN NoTid ELSE m[r][Len(m[r])]
    BY DEF MailIs, QueueIs, Chain
  <1>3. \A r \in Tid : tag[r] \in {"RECV_WAIT", "FREE"} => m[r] = <<>>
    BY DEF MailIs
  <1>4. ASSUME NEW t \in Tid, tag[t] = "SEND_WAIT"
        PROVE  \E r \in Tid : \A u \in Tid : t \in Members(m[u]) <=> u = r
    <2>1. PICK r \in Tid : t \in Members(m[r])
      BY <1>4 DEF MailIs
    <2>2. \A u \in Tid : t \in Members(m[u]) => u = r
      BY <2>1, MailType
    <2> QED BY <2>1, <2>2
  <1> QED BY <1>1, <1>2, <1>3, <1>4 DEF SendQueuesSound

-----------------------------------------------------------------------------
(* No kassert fails.                                                       *)

\* Every task an interrupt wakes is alive and finds a place on the ready queue.
LEMMA InterruptsServiceable ==
  ASSUME IInv, Alive, NEW S \in SUBSET VicLines
  PROVE  Serviceable(S)
  <1> DEFINE A == Awaited(S)
             n == Cardinality(A)
  <1>1. /\ TypeOK /\ Sound(ready_queue, tag, priority) /\ SlotsAgree(tag, event_queue)
    BY InvParts
  <1>2. /\ A \subseteq Events /\ IsFiniteSet(A)
        /\ \A e \in A : event_queue[e] \in Tid
    <2>1. A \subseteq Events
      BY KernelAssumption DEF Awaited
    <2> QED BY <2>1, FS_Subset, KernelAssumption DEF Awaited
  <1>3. Woken(S) = {event_queue[e] : e \in A}
    BY DEF Woken
  <1> HIDE DEF A
  <1>4. \A e \in A : tag[event_queue[e]] = "EVENT_WAIT"
    BY <1>1, <1>2 DEF SlotsAgree
  <1>5. \A t \in Woken(S) : Live(t)
    BY <1>3, <1>4 DEF Live
  <1>6. \A e, f \in A : event_queue[e] = event_queue[f] => e = f
    BY <1>1, <1>2 DEF SlotsAgree
  <1>7. \A e \in A : event_queue[e] \notin Names(ready_queue)
    BY <1>1, <1>4 DEF Sound, Names, MayBeQueued
  <1>8. n \in Nat /\ \E g : /\ g \in [1 .. n -> A]
                            /\ \A i, j \in 1 .. n : g[i] = g[j] => i = j
    <2>1. n \in Nat
      BY <1>2, FS_CardinalityType
    <2>2. PICK g \in Bijection(1 .. n, A) : TRUE
      BY <1>2, FS_CardinalityType DEF ExistsBijection
    <2>3. /\ g \in [1 .. n -> A]
          /\ \A i, j \in 1 .. n : g[i] = g[j] => i = j
      BY <2>2 DEF Bijection, Injection, IsInjective
    <2> QED BY <2>1, <2>3
  <1>9. PICK g \in [1 .. n -> A] : \A i, j \in 1 .. n : g[i] = g[j] => i = j
    BY <1>8
  <1> DEFINE w == [i \in 1 .. n |-> event_queue[g[i]]]
  <1>10. /\ w \in [1 .. n -> Tid]
         /\ \A i \in 1 .. n : w[i] \notin Names(ready_queue)
    BY <1>2, <1>7, <1>9
  <1>11. \A i, j \in 1 .. n : w[i] = w[j] => i = j
    BY <1>6, <1>9
  <1> HIDE DEF w, n
  <1>12. HasRoom(ready_queue, n)
    BY <1>1, <1>8, <1>10, <1>11, SoundHasRoomFor
  <1> QED BY <1>5, <1>12 DEF Serviceable, n, A

\* reset_task() can release all of a task's senders.
LEMMA SendersReleasable ==
  ASSUME IInv, mode = "user", NEW m, MailIs(m)
  PROVE  CanRelease(m[current_task])
  <1> DEFINE q == m[current_task]
             n == Len(q)
  <1>1. current_task \in Tid /\ Sound(ready_queue, tag, priority)
    BY UserParts
  <1>2. q \in SenderLists /\ Distinct(q) /\ IsSendQueue(q, current_task)
    BY <1>1, MailIsSendQueue
  <1>3. /\ n \in Nat /\ q \in [1 .. n -> Tid] /\ DOMAIN q = 1 .. n
        /\ \A u \in Members(q) : tag[u] = "SEND_WAIT"
    BY <1>2, SenderListType DEF Senders
  <1>4. \A i \in 1 .. n : tag[q[i]] = "SEND_WAIT"
    BY <1>3 DEF Members
  <1>5. \A i \in 1 .. n : q[i] \notin Names(ready_queue)
    BY <1>1, <1>4 DEF Sound, Names, MayBeQueued
  <1>6. \A i, j \in 1 .. n : q[i] = q[j] => i = j
    BY <1>2, <1>3 DEF Distinct
  <1> HIDE DEF n
  <1>7. HasRoom(ready_queue, n)
    BY <1>1, <1>3, <1>5, <1>6, SoundHasRoomFor
  <1> QED BY <1>2, <1>7 DEF CanRelease, n, Distinct

\* The kasserts of Send() on the send queue it joins.
LEMMA SendersDepositable ==
  ASSUME TypeOK, tag[current_task] = "READY", NEW m, MailIs(m), NEW r \in Tid
  PROVE  CanDeposit(r)
  <1>1. /\ send_queue_head[r] = NoTid <=> m[r] = <<>>
        /\ send_queue_tail[r] = NoTid <=> m[r] = <<>>
        /\ m[r] \in Seq(Tid) /\ QueueIs(m[r], r)
    BY MailType
  <1>2. ASSUME m[r] # <<>>
        PROVE  tag[send_queue_tail[r]] = "SEND_WAIT" /\ next[send_queue_tail[r]] = NoTid
    <2>1. Len(m[r]) \in DOMAIN m[r] /\ send_queue_tail[r] = m[r][Len(m[r])]
      BY <1>1, <1>2, ChainType DEF QueueIs
    <2> QED BY <1>1, <2>1 DEF QueueIs, Chain
  <1> QED BY <1>1, <1>2 DEF CanDeposit

\* And of Receive() on the head of the caller's.
LEMMA SenderTakeable ==
  ASSUME TypeOK, current_task \in Tid, NEW m, MailIs(m),
         send_queue_head[current_task] # NoTid
  PROVE  /\ tag[send_queue_head[current_task]] = "SEND_WAIT"
         /\ send_queue_tail[current_task] # NoTid
  BY MailType
-----------------------------------------------------------------------------
(* The steps: which of them touch a send queue, and how.                   *)

QInv == /\ IInv
        /\ mode # "panic"
        /\ Alive => \E m : MailIs(m)

\* A step of the running task c that touches no send queue: no task becomes or
\* ceases to be SEND_WAIT, and whoever becomes RECV_WAIT or FREE had no sender.
QuietStep == /\ UNCHANGED sendQueues
             /\ \A t \in Tid : /\ tag'[t] = "SEND_WAIT" <=> tag[t] = "SEND_WAIT"
                               /\ tag'[t] \notin {"RECV_WAIT", "FREE"} \/ tag'[t] = tag[t]

LEMMA MailQuiet ==
  ASSUME NEW m, MailIs(m), QuietStep
  PROVE  MailIs(m)'
  <1>1. \A t \in Tid : tag[t] \in {"RECV_WAIT", "FREE"} => m[t] = <<>>
    BY DEF MailIs
  <1>2. /\ UNCHANGED <<send_queue_head, send_queue_tail>>
        /\ \A t \in Tid : /\ tag'[t] = "SEND_WAIT" <=> tag[t] = "SEND_WAIT"
                          /\ tag[t] = "SEND_WAIT" => next'[t] = next[t]
                          /\ tag'[t] \in {"RECV_WAIT", "FREE"} => m[t] = <<>>
    BY <1>1 DEF QuietStep, sendQueues
  <1> QED BY <1>2, MailKept

LEMMA ReturnValueQuiet ==
  ASSUME NEW v, ReturnValue(v)
  PROVE  QuietStep
  BY DEF ReturnValue, QuietStep

LEMMA AnswerQuiet ==
  ASSUME TypeOK, NEW t \in Tid, tag[t] = "REPLY_WAIT", Answer(t)
  PROVE  QuietStep
  <1>1. \A u \in Tid : tag'[u] = IF u = t THEN "READY" ELSE tag[u]
    BY DEF Answer, TypeOK
  <1> QED BY <1>1 DEF Answer, QuietStep

LEMMA CreateQuiet ==
  ASSUME TypeOK, NEW p, Create(p), mode' # "panic"
  PROVE  QuietStep
  <1>1. CASE \E v : ReturnValue(v)
    BY <1>1, ReturnValueQuiet
  <1>2. CASE \E t \in Tid : /\ IsNextTid(t)
                            /\ tag' = [tag EXCEPT ![t] = "READY"]
                            /\ UNCHANGED sendQueues
    <2>1. PICK t \in Tid : /\ tag[t] = "FREE" /\ tag' = [tag EXCEPT ![t] = "READY"]
                           /\ UNCHANGED sendQueues
      BY <1>2 DEF IsNextTid, FreeTids, Live
    <2>2. \A u \in Tid : tag'[u] = IF u = t THEN "READY" ELSE tag[u]
      BY <2>1 DEF TypeOK
    <2> QED BY <2>1, <2>2 DEF QuietStep
  <1> QED BY <1>1, <1>2 DEF Create, Panic

\* A woken task was not in a send queue; its link is nobody's.
LEMMA InterruptMail ==
  ASSUME IInv, Alive, NEW m, MailIs(m), NEW S \in SUBSET VicLines, Interrupt(S)
  PROVE  MailIs(m)'
  <1>1. /\ TypeOK /\ SlotsAgree(tag, event_queue) /\ Serviceable(S)
    BY InvParts, InterruptsServiceable
  <1>2. ServiceInterrupts(S)
    BY <1>1 DEF Interrupt, Idle, Preempt
  <1>3. Woken(S) \subseteq Tid /\ \A t \in Woken(S) : tag[t] = "EVENT_WAIT"
    <2>1. Awaited(S) \subseteq Events
      BY KernelAssumption DEF Awaited
    <2> QED BY <1>1, <2>1 DEF Woken, Awaited, SlotsAgree
  <1>4. \A t \in Tid : /\ tag'[t] = IF t \in Woken(S) THEN "READY" ELSE tag[t]
                       /\ t \notin Woken(S) => next'[t] = next[t]
    BY <1>2 DEF ServiceInterrupts
  <1>5. \A t \in Tid : tag[t] \in {"RECV_WAIT", "FREE"} => m[t] = <<>>
    BY DEF MailIs
  <1>6. UNCHANGED <<send_queue_head, send_queue_tail>>
    BY <1>2 DEF ServiceInterrupts
  <1>7. \A t \in Tid : /\ tag'[t] = "SEND_WAIT" <=> tag[t] = "SEND_WAIT"
                       /\ tag[t] = "SEND_WAIT" => next'[t] = next[t]
                       /\ tag'[t] \in {"RECV_WAIT", "FREE"} => m[t] = <<>>
    BY <1>3, <1>4, <1>5
  <1> QED BY <1>6, <1>7, MailKept

\* A handler after which the caller is blocked otherwise than in Send() and r,
\* if anybody, is READY; a caller that becomes RECV_WAIT had no sender.
LEMMA BlockingMail ==
  ASSUME TypeOK, NEW m, MailIs(m), current_task \in Tid, tag[current_task] = "READY",
         UNCHANGED <<send_queue_head, send_queue_tail>>,
         \A t \in Tid \ {current_task} :
            /\ next'[t] = next[t]
            /\ tag'[t] = tag[t] \/ (tag[t] = "RECV_WAIT" /\ tag'[t] = "READY"),
         \/ tag'[current_task] \in {"REPLY_WAIT", "EVENT_WAIT"}
         \/ tag'[current_task] = "RECV_WAIT" /\ send_queue_head[current_task] = NoTid
  PROVE  MailIs(m)'
  <1>1. \A t \in Tid : tag[t] \in {"RECV_WAIT", "FREE"} => m[t] = <<>>
    BY DEF MailIs
  <1>2. send_queue_head[current_task] = NoTid => m[current_task] = <<>>
    BY MailType
  <1>3. \A t \in Tid : /\ tag'[t] = "SEND_WAIT" <=> tag[t] = "SEND_WAIT"
                       /\ tag[t] = "SEND_WAIT" => next'[t] = next[t]
                       /\ tag'[t] \in {"RECV_WAIT", "FREE"} => m[t] = <<>>
    BY <1>1, <1>2
  <1> QED BY <1>3, MailKept

LEMMA SendQInv ==
  ASSUME IInv, NEW m, MailIs(m), NEW r \in Tid \cup {NoSuchTid}, Send(r)
  PROVE  IInv' /\ mode' # "panic" /\ \E n : MailIs(n)'
  <1>1. mode = "user" /\ TypeOK /\ current_task \in Tid /\ tag[current_task] = "READY"
    BY UserParts DEF Send
  <1>2. r \in Tid => CanDeposit(r)
    BY <1>1, SendersDepositable
  <1>3. IInv' /\ mode' # "panic"
    BY <1>2, SendInv
  <1>4. CASE ReturnValue(Invalid)
    BY <1>3, <1>4, ReturnValueQuiet, MailQuiet
  <1>5. CASE r \in Tid /\ tag[r] = "RECV_WAIT" /\ Meet(r)
    <2>1. /\ UNCHANGED <<send_queue_head, send_queue_tail>>
          /\ \A t \in Tid \ {current_task} :
                /\ next'[t] = next[t]
                /\ tag'[t] = tag[t] \/ (tag[t] = "RECV_WAIT" /\ tag'[t] = "READY")
          /\ tag'[current_task] = "REPLY_WAIT"
      BY <1>1, <1>5 DEF Meet, TypeOK
    <2> QED BY <1>1, <1>3, <2>1, BlockingMail
  <1>6. CASE r \in Tid /\ Live(r) /\ tag[r] # "RECV_WAIT" /\ Deposit(r)
    <2>1. tag[r] \notin {"RECV_WAIT", "FREE"} /\ r \in Tid
      BY <1>6 DEF Live
    <2> QED BY <1>1, <1>3, <1>6, <2>1, MailDeposit
  <1> QED BY <1>2, <1>3, <1>4, <1>5, <1>6 DEF Send, NoSuchTask

LEMMA ReceiveQInv ==
  ASSUME IInv, NEW m, MailIs(m), Receive
  PROVE  IInv' /\ mode' # "panic" /\ \E n : MailIs(n)'
  <1> DEFINE s == send_queue_head[current_task]
  <1>1. mode = "user" /\ TypeOK /\ current_task \in Tid /\ tag[current_task] = "READY"
    BY UserParts DEF Receive
  <1>2. s # NoTid => tag[s] = "SEND_WAIT" /\ send_queue_tail[current_task] # NoTid
    BY <1>1, SenderTakeable
  <1>3. IInv' /\ mode' # "panic"
    BY <1>2, ReceiveInv
  <1>4. CASE s = NoTid /\ Open
    <2>1. /\ UNCHANGED <<send_queue_head, send_queue_tail, next>>
          /\ \A t \in Tid \ {current_task} : tag'[t] = tag[t]
          /\ tag'[current_task] = "RECV_WAIT"
      BY <1>1, <1>4 DEF Open, TypeOK, sendQueues
    <2> QED BY <1>1, <1>3, <1>4, <2>1, BlockingMail
  <1>5. CASE s # NoTid /\ Take(s)
    BY <1>1, <1>3, <1>5, MailTake
  <1> QED BY <1>1, <1>2, <1>3, <1>4, <1>5 DEF Receive

LEMMA ReplyQInv ==
  ASSUME IInv, NEW m, MailIs(m), NEW t \in Tid \cup {NoSuchTid}, Reply(t)
  PROVE  IInv' /\ mode' # "panic" /\ \E n : MailIs(n)'
  <1>1. TypeOK /\ IInv' /\ mode' = "loop"
    BY ReplyInv DEF IInv, TypeInv
  <1>2. QuietStep
    BY <1>1, ReturnValueQuiet, AnswerQuiet DEF Reply, NoSuchTask
  <1> QED BY <1>1, <1>2, MailQuiet

LEMMA AwaitEventQInv ==
  ASSUME IInv, NEW m, MailIs(m), NEW e \in Events \cup {NoSuchEvent}, AwaitEvent(e)
  PROVE  IInv' /\ mode' # "panic" /\ \E n : MailIs(n)'
  <1>1. mode = "user" /\ TypeOK /\ current_task \in Tid /\ tag[current_task] = "READY"
    BY UserParts DEF AwaitEvent
  <1>2. IInv' /\ mode' # "panic"
    BY AwaitEventInv
  <1>3. CASE e \in Events /\ Sleep(e)
    <2>1. /\ UNCHANGED <<send_queue_head, send_queue_tail>>
          /\ \A t \in Tid \ {current_task} : next'[t] = next[t] /\ tag'[t] = tag[t]
          /\ tag'[current_task] = "EVENT_WAIT"
      BY <1>1, <1>3 DEF Sleep, TypeOK
    <2> QED BY <1>1, <1>2, <2>1, BlockingMail
  <1>4. CASE UserError \/ TakeStored(e)
    <2>1. QuietStep
      BY <1>4 DEF UserError, TakeStored, QuietStep, sendQueues
    <2> QED BY <1>2, <2>1, MailQuiet
  <1> QED BY <1>1, <1>2, <1>3, <1>4 DEF AwaitEvent, Panic

LEMMA ExitQInv ==
  ASSUME IInv, NEW m, MailIs(m), Exit
  PROVE  IInv' /\ mode' # "panic" /\ \E n : MailIs(n)'
  <1>0. mode = "user" /\ TypeOK /\ current_task \in Tid /\ tag[current_task] = "READY"
    BY UserParts DEF Exit
  <1>1. PICK r \in Tid : r = current_task /\ tag[r] = "READY"
    BY <1>0
  <1>2. m[r] \in SenderLists /\ CanRelease(m[r])
    BY <1>0, <1>1, MailIsSendQueue, SendersReleasable
  <1>3. IInv' /\ mode' # "panic"
    BY <1>2, ExitInv
  <1>4. \A q \in SenderLists : CanRelease(q) => q = m[r]
    <2>1. SendQueuesOf(r) = {m[r]}
      BY <1>1, MailIsSendQueue
    <2> QED BY <1>1, <2>1 DEF SendQueuesOf, Distinct, CanRelease
  <1>5. Releases(m[r], r)
    BY <1>1, <1>2, <1>4 DEF Exit, Releases
  <1>6. MailIs([m EXCEPT ![r] = <<>>])'
    BY <1>0, <1>1, <1>5, MailRelease
  <1> QED BY <1>3, <1>6
\* At first nobody waits to send.
LEMMA InitMail ==
  ASSUME Init, NEW m, m \in [Tid -> Seq(Tid)], \A t \in Tid : m[t] = <<>>
  PROVE  MailIs(m)
  <1>1. \A t \in Tid : /\ tag[t] # "SEND_WAIT"
                       /\ send_queue_head[t] = NoTid /\ send_queue_tail[t] = NoTid
    BY DEF Init
  <1>2. \A t \in Tid : QueueIs(m[t], t) /\ Members(m[t]) = {}
    BY <1>1, ChainEmpty DEF QueueIs, Members
  <1> QED BY <1>1, <1>2 DEF MailIs

LEMMA InitQInv == Init => QInv
  <1> SUFFICES ASSUME Init PROVE QInv
    OBVIOUS
  <1> DEFINE m == [t \in Tid |-> <<>>]
  <1>1. IInv /\ mode = "loop"
    BY InitInv DEF Init
  <1>2. m \in [Tid -> Seq(Tid)] /\ \A t \in Tid : m[t] = <<>>
    OBVIOUS
  <1> HIDE DEF m
  <1>3. MailIs(m)
    BY <1>2, InitMail
  <1> QED BY <1>1, <1>3 DEF QInv

\* The steps in which the kernel goes on, each with the queues it finds.
LEMMA MailStep ==
  ASSUME IInv, NEW m, MailIs(m), OrderlyNext, Alive
  PROVE  IInv' /\ mode' # "panic" /\ \E n : MailIs(n)'
  <1>0. IInv' /\ TypeOK
    BY StepInv DEF IInv, TypeInv
  <1>1. CASE Schedule \/ RunReturns \/ Shutdown
    <2>1. QuietStep /\ mode' # "panic"
      BY <1>1 DEF Schedule, RunReturns, Shutdown, QuietStep
    <2> QED BY <1>0, <2>1, MailQuiet
  <1>2. CASE Yield \/ MyTid
    <2>1. QuietStep
      BY <1>2, ReturnValueQuiet DEF Yield, MyTid
    <2>2. mode' # "panic"
      BY <1>2, ReturnValueInv DEF Yield, MyTid
    <2> QED BY <1>0, <2>1, <2>2, MailQuiet
  <1>3. CASE SystemCall
    BY <1>1, <1>2, <1>3, ExitQInv, ReceiveQInv, SendQInv, ReplyQInv, AwaitEventQInv
       DEF SystemCall
  <1>4. CASE Settled /\ Creation
    <2>1. PICK p \in Priorities \cup {BadPriority} : Create(p)
      BY <1>4 DEF Creation
    <2>2. mode' = "loop"
      BY <1>4, <2>1, CreateInv
    <2>3. QuietStep
      BY <1>0, <2>1, <2>2, CreateQuiet
    <2> QED BY <1>0, <2>2, <2>3, MailQuiet
  <1>5. CASE \E S \in SUBSET VicLines : Interrupt(S)
    <2>1. PICK S \in SUBSET VicLines : Interrupt(S)
      BY <1>5
    <2>2. mode' # "panic"
      BY <2>1, InterruptInv, InterruptsServiceable
    <2> QED BY <1>0, <2>1, <2>2, InterruptMail
  <1> QED BY <1>1, <1>3, <1>4, <1>5 DEF OrderlyNext, CoreNext, Halted, Alive

LEMMA StepQInv == QInv /\ [OrderlyNext]_vars => QInv'
  <1> SUFFICES ASSUME QInv, [OrderlyNext]_vars PROVE QInv'
    OBVIOUS
  <1>0. IInv'
    BY StepInv DEF QInv
  <1>1. CASE UNCHANGED vars
    <2>1. QuietStep /\ mode' = mode
      BY <1>1 DEF vars, QuietStep, sendQueues
    <2>2. CASE Alive
      <3>1. PICK m : MailIs(m)
        BY <2>2 DEF QInv
      <3>2. MailIs(m)'
        BY <2>1, <3>1, MailQuiet
      <3> QED BY <1>0, <2>1, <3>2 DEF QInv
    <2>3. CASE ~Alive
      BY <1>0, <2>1, <2>3 DEF QInv, Alive
    <2> QED BY <2>2, <2>3
  <1>2. CASE ~Alive /\ OrderlyNext
    <2>1. mode' = mode
      BY <1>2 DEF Alive, OrderlyNext, CoreNext, SystemCall, Schedule, RunReturns, Yield, MyTid,
                  Exit, Receive, Shutdown, Send, Reply, AwaitEvent, Creation, Create,
                  Interrupt, Idle, Preempt, Halted, vars
    <2> QED BY <1>0, <1>2, <2>1 DEF QInv, Alive
  <1>3. CASE Alive /\ OrderlyNext
    <2>1. PICK m : MailIs(m)
      BY <1>3 DEF QInv
    <2> QED BY <1>3, <2>1, MailStep DEF QInv
  <1> QED BY <1>1, <1>2, <1>3

LEMMA OrderlyQInv == OrderlySpec => []QInv
  BY InitQInv, StepQInv, PTL DEF OrderlySpec

-----------------------------------------------------------------------------
(* Theorems. *)

\* The send queues of tasks are intrusive lists threaded through the states of
\* the senders (send.cc:26-52, receive.cc:15-57, exit.cc:16-36).  At every moment a list
\* ends at its tail, every SEND_WAIT task is in exactly one, and a task that waits
\* in Receive() has none.
THEOREM SendQueuesAreSound == OrderlySpec => []SendQueuesSound
  <1>1. QInv => SendQueuesSound
    <2>1. ~Alive => SendQueuesSound
      BY DEF SendQueuesSound
    <2>2. QInv /\ Alive => SendQueuesSound
      BY MailIsSound DEF QInv
    <2> QED BY <2>1, <2>2
  <1> QED BY <1>1, OrderlyQInv, PTL

\* No kassert of the handlers fails and no push() finds the ready queue full,
\* whatever the programs do, as long as they are orderly.
THEOREM KernelNeverPanics == OrderlySpec => []NeverPanics
  <1>1. QInv => NeverPanics
    BY DEF QInv, NeverPanics
  <1> QED BY <1>1, OrderlyQInv, PTL

-----------------------------------------------------------------------------
(***************************************************************************)
(* Kernel implements Rendezvous: under the refinement mapping of Kernel,   *)
(* every step of an orderly behaviour is a step of the abstract            *)
(* Send-Receive-Reply service or leaves its state as it was.               *)
(***************************************************************************)

-----------------------------------------------------------------------------
(* The state of Rendezvous as the mapping of Kernel gives it.              *)

ResultOf(v) == CASE v \in {Blocked, Queued} -> "pending"
                 [] v = Incomplete          -> "incomplete"
                 [] OTHER                   -> "done"

phaseOf   == [t \in Tid |-> PhaseOf(tag[t])]
mailboxOf == [t \in Tid |-> SendQueue(t)]
resultOf  == [t \in Tid |-> ResultOf(r0[t])]
runningOf == IF mode = "user" THEN current_task ELSE NoTid

LEMMA PhaseTable ==
  /\ PhaseOf("FREE") = "absent" /\ PhaseOf("READY") = "active"
  /\ PhaseOf("SEND_WAIT") = "sending" /\ PhaseOf("RECV_WAIT") = "receiving"
  /\ PhaseOf("REPLY_WAIT") = "replying" /\ PhaseOf("EVENT_WAIT") = "sleeping"
  BY DEF PhaseOf

LEMMA PhaseIs ==
  /\ \A s \in Tags : PhaseOf(s) = "absent" <=> s = "FREE"
  /\ \A s \in Tags : PhaseOf(s) = "receiving" <=> s = "RECV_WAIT"
  BY PhaseTable DEF Tags

LEMMA ResultTable ==
  /\ ResultOf(Ok) = "done" /\ ResultOf(Invalid) = "done"
  /\ ResultOf(Incomplete) = "incomplete"
  /\ ResultOf(Blocked) = "pending" /\ ResultOf(Queued) = "pending"
  BY DEF ResultOf, Ok, Invalid, Incomplete, Blocked, Queued

\* A result that is no sentinel is one a call of Rendezvous can end in.
LEMMA ResultEnds ==
  ASSUME NEW v \in {Ok, Invalid, Incomplete, Blocked, Queued}, v \notin {Blocked, Queued}
  PROVE  ResultOf(v) \in R!Results \ {"pending"}
  BY ResultTable DEF R!Results

LEMMA MailboxIs ==
  ASSUME NEW m, MailIs(m)
  PROVE  mailboxOf = m
  BY MailIsSendQueue, MailType DEF mailboxOf

MailboxHolds(m) == mailboxOf = m

LEMMA MailboxIsNext ==
  ASSUME NEW m
  PROVE  MailIs(m)' => mailboxOf' = m
  <1>1. MailIs(m) => MailboxHolds(m)
    BY MailboxIs DEF MailboxHolds
  <1>2. MailIs(m)' => MailboxHolds(m)'
    BY <1>1, PTL
  <1> QED BY <1>2 DEF MailboxHolds

LEMMA StutterMaps ==
  ASSUME UNCHANGED <<phaseOf, mailboxOf, resultOf, runningOf>>
  PROVE  UNCHANGED R!rvars
  BY DEF R!rvars, phaseOf, mailboxOf, resultOf, runningOf, ResultOf

-----------------------------------------------------------------------------
(* The steps.                                                              *)

\* reset_task() leaves nothing in r0 for the next task of that tid.
FreeClean == \A t \in Tid : tag[t] = "FREE" => r0[t] = Ok

LEMMA UserMaps ==
  ASSUME IInv, mode = "user"
  PROVE  /\ TypeOK /\ current_task \in Tid /\ tag[current_task] = "READY"
         /\ runningOf = current_task /\ r0[current_task] \notin {Blocked, Queued}
         /\ mode' # "user" => runningOf' = NoTid
  BY UserParts DEF ResultsThere, runningOf

LEMMA QuietMailbox ==
  ASSUME NEW m, MailIs(m), QuietStep
  PROVE  UNCHANGED mailboxOf
  BY MailQuiet, MailboxIs, MailboxIsNext

\* A call that ends at once and wakes nobody.
LEMMA ReturnValueMaps ==
  ASSUME IInv, FreeClean, NEW m, MailIs(m), mode = "user",
         NEW v \in {Ok, Invalid, Incomplete}, ReturnValue(v)
  PROVE  R!RNext /\ FreeClean'
  <1>1. PICK c \in Tid : c = current_task
    BY UserMaps
  <1>2. TypeOK /\ tag[c] = "READY" /\ runningOf = c /\ runningOf' = NoTid
    BY <1>1, UserMaps, ReturnValueInv
  <1>3. /\ r0' = [r0 EXCEPT ![c] = v] /\ UNCHANGED tag
    BY <1>1 DEF ReturnValue
  <1>4. UNCHANGED <<phaseOf, mailboxOf>>
    BY <1>3, ReturnValueQuiet, QuietMailbox DEF phaseOf
  <1>5. resultOf' = [resultOf EXCEPT ![c] = ResultOf(v)]
    BY <1>2, <1>3, ResultTable DEF resultOf, TypeOK
  <1>6. ResultOf(v) \in R!Results \ {"pending"}
    BY ResultTable DEF R!Results
  <1>7. R!Work(c)
    BY <1>2, <1>4, <1>5, <1>6
       DEF R!Work, R!Ends, phaseOf, mailboxOf, resultOf, runningOf, ResultOf
  <1>8. FreeClean'
    BY <1>2, <1>3 DEF FreeClean, TypeOK
  <1> QED BY <1>7, <1>8 DEF R!RNext

\* The system stops in the middle of a call: the call has ended as it began.
LEMMA StopMaps ==
  ASSUME IInv, FreeClean, NEW m, MailIs(m), mode = "user", mode' # "user",
         UNCHANGED <<tag, sendQueues, r0>>
  PROVE  R!RNext /\ FreeClean'
  <1>1. PICK c \in Tid : c = current_task
    BY UserMaps
  <1>2. /\ TypeOK /\ runningOf = c /\ runningOf' = NoTid
        /\ r0[c] \notin {Blocked, Queued}
    BY <1>1, UserMaps
  <1>3. QuietStep
    BY DEF QuietStep
  <1>4. UNCHANGED <<phaseOf, mailboxOf, resultOf>>
    BY <1>3, QuietMailbox DEF phaseOf, resultOf
  <1>5. resultOf[c] \in R!Results \ {"pending"}
    BY <1>2, ResultEnds DEF resultOf, TypeOK
  <1>6. resultOf' = [resultOf EXCEPT ![c] = resultOf[c]]
    BY <1>4 DEF resultOf
  <1>7. R!Work(c)
    BY <1>2, <1>4, <1>5, <1>6
       DEF R!Work, R!Ends, phaseOf, mailboxOf, resultOf, runningOf, ResultOf
  <1> QED BY <1>7 DEF R!RNext, FreeClean
LEMMA ScheduleMaps ==
  ASSUME IInv, FreeClean, NEW m, MailIs(m), Schedule
  PROVE  [R!RNext]_(R!rvars) /\ FreeClean'
  <1>1. /\ mode = "loop" /\ Alive
        /\ UNCHANGED <<tag, sendQueues, r0>>
    BY DEF Schedule, Alive
  <1>2. TypeOK /\ Sound(ready_queue, tag, priority)
    BY <1>1, InvParts
  <1>3. PICK i \in DOMAIN ready_queue :
            /\ current_task' = ready_queue[i].tid
            /\ mode' = IF Live(ready_queue[i].tid) THEN "user" ELSE "loop"
    BY DEF Schedule
  <1>4. PICK t \in Tid : t = ready_queue[i].tid
    BY <1>2, SoundType
  <1>5. tag[t] \in {"READY", "FREE"}
    BY <1>2, <1>4 DEF Sound, MayBeQueued
  <1>6. UNCHANGED <<phaseOf, resultOf>> /\ FreeClean'
    BY <1>1 DEF phaseOf, resultOf, FreeClean
  <1>7. UNCHANGED mailboxOf
    BY <1>1, QuietMailbox DEF QuietStep
  <1>8. runningOf = NoTid /\ runningOf' = IF Live(t) THEN t ELSE NoTid
    BY <1>1, <1>3, <1>4 DEF runningOf
  <1>9. CASE Live(t)
    <2>1. phaseOf[t] = "active"
      BY <1>5, <1>9, PhaseTable DEF Live, phaseOf
    <2>2. R!Run(t)
      BY <1>6, <1>7, <1>8, <1>9, <2>1
         DEF R!Run, phaseOf, mailboxOf, resultOf, runningOf, ResultOf
    <2> QED BY <1>6, <2>2 DEF R!RNext
  <1>10. CASE ~Live(t)
    BY <1>6, <1>7, <1>8, <1>10, StutterMaps
  <1> QED BY <1>9, <1>10

LEMMA CreateMaps ==
  ASSUME IInv, FreeClean, NEW m, MailIs(m), Settled,
         NEW p \in Priorities \cup {BadPriority}, Create(p)
  PROVE  R!RNext /\ FreeClean'
  <1>1. mode = "user" /\ mode' = "loop"
    BY CreateInv DEF Create
  <1>2. PICK c \in Tid : c = current_task
    BY <1>1, UserMaps
  <1>3. TypeOK /\ tag[c] = "READY" /\ runningOf = c /\ runningOf' = NoTid
    BY <1>1, <1>2, UserMaps
  <1>4. CASE \E v \in {Ok, Invalid, Incomplete} : ReturnValue(v)
    BY <1>1, <1>4, ReturnValueMaps
  <1>5. CASE ~(\E v \in {Ok, Invalid, Incomplete} : ReturnValue(v))
    <2>1. PICK t \in Tid : /\ tag[t] = "FREE"
                           /\ tag' = [tag EXCEPT ![t] = "READY"]
                           /\ r0' = [r0 EXCEPT ![t] = Ok, ![c] = Ok]
      BY <1>1, <1>2, <1>5 DEF Create, Panic, IsNextTid, FreeTids, Live
    <2>2. /\ phaseOf[t] = "absent"
          /\ phaseOf' = [phaseOf EXCEPT ![t] = "active"]
      BY <1>3, <2>1, PhaseTable DEF phaseOf, TypeOK
    <2>3. resultOf[t] = "done" /\ t # c
      BY <1>3, <2>1, ResultTable DEF FreeClean, resultOf
    <2>4. resultOf' = [resultOf EXCEPT ![t] = "done", ![c] = "done"]
      BY <1>3, <2>1, ResultTable DEF resultOf, TypeOK
    <2>5. resultOf' = [resultOf EXCEPT ![c] = "done"]
      BY <2>3, <2>4 DEF resultOf
    <2>6. UNCHANGED mailboxOf
      BY <1>1, <1>3, CreateQuiet, QuietMailbox
    <2>7. R!Spawn(c, t)
      BY <1>3, <2>2, <2>5, <2>6
         DEF R!Spawn, R!Ends, phaseOf, mailboxOf, resultOf, runningOf, ResultOf
    <2>8. FreeClean'
      BY <1>3, <2>1 DEF FreeClean, TypeOK
    <2> QED BY <2>7, <2>8 DEF R!RNext
  <1> QED BY <1>4, <1>5

LEMMA SendMaps ==
  ASSUME IInv, FreeClean, NEW m, MailIs(m), NEW r \in Tid \cup {NoSuchTid}, Send(r)
  PROVE  R!RNext /\ FreeClean'
  <1>1. mode = "user"
    BY DEF Send
  <1>2. PICK c \in Tid : c = current_task
    BY <1>1, UserMaps
  <1>3. TypeOK /\ tag[c] = "READY" /\ runningOf = c
    BY <1>1, <1>2, UserMaps
  <1>4. CASE NoSuchTask(r)
    BY <1>1, <1>4, ReturnValueMaps DEF Send
  <1>5. CASE r \in Tid /\ tag[r] = "RECV_WAIT" /\ Meet(r)
    <2>1. /\ tag' = [tag EXCEPT ![r] = "READY", ![c] = "REPLY_WAIT"]
          /\ r0' = [r0 EXCEPT ![r] = Ok, ![c] = Blocked]
          /\ UNCHANGED <<send_queue_head, send_queue_tail>>
          /\ next' = [next EXCEPT ![c] = NoTid]
          /\ mode' # "user"
      BY <1>2, <1>5 DEF Meet, EndActivation
    <2>2. /\ phaseOf[r] = "receiving"
          /\ phaseOf' = [phaseOf EXCEPT ![r] = "active", ![c] = "replying"]
      BY <1>3, <1>5, <2>1, PhaseTable DEF phaseOf, TypeOK
    <2>3. resultOf' = [resultOf EXCEPT ![r] = "done", ![c] = "pending"]
      BY <1>3, <1>5, <2>1, ResultTable DEF resultOf, TypeOK
    <2>4. MailIs(m)'
      <3>1. /\ \A t \in Tid \ {current_task} :
                  /\ next'[t] = next[t]
                  /\ tag'[t] = tag[t] \/ (tag[t] = "RECV_WAIT" /\ tag'[t] = "READY")
            /\ tag'[current_task] = "REPLY_WAIT"
        BY <1>2, <1>3, <1>5, <2>1 DEF TypeOK
      <3> QED BY <1>2, <1>3, <2>1, <3>1, BlockingMail
    <2>5. UNCHANGED mailboxOf
      BY <2>4, MailboxIs, MailboxIsNext
    <2>6. runningOf' = NoTid
      BY <1>1, <2>1, UserMaps
    <2>7. R!Meet(c, r)
      BY <1>3, <1>5, <2>2, <2>3, <2>5, <2>6
         DEF R!Meet, phaseOf, mailboxOf, resultOf, runningOf, ResultOf
    <2>8. FreeClean'
      BY <1>3, <1>5, <2>1 DEF FreeClean, TypeOK
    <2> QED BY <1>5, <2>7, <2>8 DEF R!RNext
  <1>6. CASE r \in Tid /\ Live(r) /\ tag[r] # "RECV_WAIT" /\ Deposit(r)
    <2>1. /\ tag' = [tag EXCEPT ![c] = "SEND_WAIT"]
          /\ r0' = [r0 EXCEPT ![c] = Queued]
          /\ mode' # "user"
      BY <1>2, <1>6 DEF Deposit, EndActivation
    <2>2. /\ phaseOf[r] \notin {"absent", "receiving"}
          /\ phaseOf' = [phaseOf EXCEPT ![c] = "sending"]
      BY <1>3, <1>6, <2>1, PhaseTable, PhaseIs DEF phaseOf, Live, TypeOK
    <2>3. resultOf' = [resultOf EXCEPT ![c] = "pending"]
      BY <1>3, <2>1, ResultTable DEF resultOf, TypeOK
    <2>4. MailIs([m EXCEPT ![r] = Append(@, c)])'
      BY <1>2, <1>3, <1>6, MailDeposit DEF Live
    <2>5. mailboxOf = m /\ mailboxOf' = [m EXCEPT ![r] = Append(@, c)]
      BY <2>4, MailboxIs, MailboxIsNext
    <2>6. runningOf' = NoTid
      BY <1>1, <2>1, UserMaps
    <2>7. R!Deposit(c, r)
      BY <1>3, <1>6, <2>2, <2>3, <2>5, <2>6
         DEF R!Deposit, R!Ends, phaseOf, mailboxOf, resultOf, runningOf, ResultOf
    <2>8. FreeClean'
      BY <1>3, <2>1 DEF FreeClean, TypeOK
    <2> QED BY <1>6, <2>7, <2>8 DEF R!RNext
  <1>7. CanDeposit(r) \/ NoSuchTask(r)
    BY <1>2, <1>3, SendersDepositable DEF NoSuchTask
  <1> QED BY <1>4, <1>5, <1>6, <1>7 DEF Send, NoSuchTask

LEMMA ReceiveMaps ==
  ASSUME IInv, FreeClean, NEW m, MailIs(m), Receive
  PROVE  R!RNext /\ FreeClean'
  <1>1. mode = "user"
    BY DEF Receive
  <1>2. PICK c \in Tid : c = current_task
    BY <1>1, UserMaps
  <1>3. TypeOK /\ tag[c] = "READY" /\ runningOf = c
    BY <1>1, <1>2, UserMaps
  <1>4. PICK s : s = send_queue_head[c]
    OBVIOUS
  <1>5. CASE s = NoTid /\ Open
    <2>1. /\ tag' = [tag EXCEPT ![c] = "RECV_WAIT"]
          /\ r0' = [r0 EXCEPT ![c] = Blocked]
          /\ UNCHANGED sendQueues
          /\ mode' # "user"
      BY <1>2, <1>5 DEF Open, EndActivation
    <2>2. phaseOf' = [phaseOf EXCEPT ![c] = "receiving"]
      BY <1>3, <2>1, PhaseTable DEF phaseOf, TypeOK
    <2>3. resultOf' = [resultOf EXCEPT ![c] = "pending"]
      BY <1>3, <2>1, ResultTable DEF resultOf, TypeOK
    <2>4. MailIs(m)'
      <3>1. /\ UNCHANGED <<send_queue_head, send_queue_tail, next>>
            /\ \A t \in Tid \ {current_task} : tag'[t] = tag[t]
            /\ tag'[current_task] = "RECV_WAIT"
        BY <1>2, <1>3, <2>1 DEF TypeOK, sendQueues
      <3> QED BY <1>2, <1>3, <1>4, <1>5, <3>1, BlockingMail
    <2>5. mailboxOf = m /\ mailboxOf' = m /\ m[c] = <<>>
      BY <1>4, <1>5, <2>4, MailboxIs, MailboxIsNext, MailType
    <2>6. runningOf' = NoTid
      BY <1>1, <2>1, UserMaps
    <2>7. R!Open(c)
      BY <1>3, <2>2, <2>3, <2>5, <2>6
         DEF R!Open, R!Ends, phaseOf, mailboxOf, resultOf, runningOf, ResultOf
    <2>8. FreeClean'
      BY <1>3, <2>1 DEF FreeClean, TypeOK
    <2> QED BY <2>7, <2>8 DEF R!RNext
  <1>6. CASE s # NoTid /\ Take(s)
    <2>1. /\ tag' = [tag EXCEPT ![s] = "REPLY_WAIT"]
          /\ r0' = [r0 EXCEPT ![c] = Ok]
          /\ mode' # "user"
      BY <1>2, <1>6 DEF Take, EndActivation
    <2>2. /\ m[c] # <<>> /\ s = m[c][1] /\ s \in Tid /\ m[c] \in Seq(Tid)
      BY <1>4, <1>6, MailType
    <2>3. phaseOf' = [phaseOf EXCEPT ![s] = "replying"]
      BY <1>3, <2>1, <2>2, PhaseTable DEF phaseOf, TypeOK
    <2>4. resultOf' = [resultOf EXCEPT ![c] = "done"]
      BY <1>3, <2>1, ResultTable DEF resultOf, TypeOK
    <2>5. MailIs([m EXCEPT ![c] = Tail(@)])'
      BY <1>2, <1>3, <1>4, <1>6, MailTake
    <2>6. mailboxOf = m /\ mailboxOf' = [m EXCEPT ![c] = Tail(@)]
      BY <2>5, MailboxIs, MailboxIsNext
    <2>7. runningOf' = NoTid /\ Head(m[c]) = s
      BY <1>1, <2>1, <2>2, UserMaps
    <2>8. R!Take(c)
      BY <1>3, <2>2, <2>3, <2>4, <2>6, <2>7
         DEF R!Take, R!Ends, phaseOf, mailboxOf, resultOf, runningOf, ResultOf
    <2>9. FreeClean'
      BY <1>3, <2>1, <2>2 DEF FreeClean, TypeOK
    <2> QED BY <2>8, <2>9 DEF R!RNext
  <1>7. s # NoTid => tag[s] = "SEND_WAIT" /\ send_queue_tail[c] # NoTid
    BY <1>2, <1>3, <1>4, SenderTakeable
  <1> QED BY <1>2, <1>3, <1>4, <1>5, <1>6, <1>7 DEF Receive
LEMMA ReplyMaps ==
  ASSUME IInv, FreeClean, NEW m, MailIs(m), NEW t \in Tid \cup {NoSuchTid}, Reply(t)
  PROVE  R!RNext /\ FreeClean'
  <1>1. mode = "user"
    BY DEF Reply
  <1>2. PICK c \in Tid : c = current_task
    BY <1>1, UserMaps
  <1>3. TypeOK /\ tag[c] = "READY" /\ runningOf = c
    BY <1>1, <1>2, UserMaps
  <1>4. CASE ReturnValue(Invalid) \/ ReturnValue(Incomplete)
    BY <1>1, <1>4, ReturnValueMaps
  <1>5. CASE t \in Tid /\ tag[t] = "REPLY_WAIT" /\ Answer(t)
    <2>1. /\ tag' = [tag EXCEPT ![t] = "READY"]
          /\ r0' = [r0 EXCEPT ![t] = Ok, ![c] = Ok]
          /\ mode' # "user"
      BY <1>2, <1>5 DEF Answer, EndActivation
    <2>2. /\ phaseOf[t] = "replying"
          /\ phaseOf' = [phaseOf EXCEPT ![t] = "active"]
      BY <1>3, <1>5, <2>1, PhaseTable DEF phaseOf, TypeOK
    <2>3. resultOf' = [resultOf EXCEPT ![t] = "done", ![c] = "done"]
      BY <1>3, <1>5, <2>1, ResultTable DEF resultOf, TypeOK
    <2>4. UNCHANGED mailboxOf
      BY <1>3, <1>5, AnswerQuiet, QuietMailbox
    <2>5. runningOf' = NoTid
      BY <1>1, <2>1, UserMaps
    <2>6. R!Answer(c, t)
      BY <1>3, <1>5, <2>2, <2>3, <2>4, <2>5
         DEF R!Answer, phaseOf, mailboxOf, resultOf, runningOf, ResultOf
    <2>7. FreeClean'
      BY <1>3, <1>5, <2>1 DEF FreeClean, TypeOK
    <2> QED BY <1>5, <2>6, <2>7 DEF R!RNext
  <1> QED BY <1>4, <1>5 DEF Reply, NoSuchTask

LEMMA AwaitEventMaps ==
  ASSUME IInv, FreeClean, NEW m, MailIs(m), NEW e \in Events \cup {NoSuchEvent},
         AwaitEvent(e)
  PROVE  R!RNext /\ FreeClean'
  <1>1. mode = "user"
    BY DEF AwaitEvent
  <1>2. PICK c \in Tid : c = current_task
    BY <1>1, UserMaps
  <1>3. TypeOK /\ tag[c] = "READY" /\ runningOf = c
    BY <1>1, <1>2, UserMaps
  <1>4. CASE UserError
    <2>1. mode' # "user" /\ UNCHANGED <<tag, sendQueues, r0>>
      BY <1>4 DEF UserError
    <2> QED BY <1>1, <2>1, StopMaps
  <1>5. CASE e \in Events /\ Sleep(e)
    <2>1. /\ tag' = [tag EXCEPT ![c] = "EVENT_WAIT"]
          /\ r0' = [r0 EXCEPT ![c] = Blocked]
          /\ next' = [next EXCEPT ![c] = NoTid]
          /\ UNCHANGED <<send_queue_head, send_queue_tail>>
          /\ mode' # "user"
      BY <1>2, <1>5 DEF Sleep, EndActivation
    <2>2. phaseOf' = [phaseOf EXCEPT ![c] = "sleeping"]
      BY <1>3, <2>1, PhaseTable DEF phaseOf, TypeOK
    <2>3. resultOf' = [resultOf EXCEPT ![c] = "pending"]
      BY <1>3, <2>1, ResultTable DEF resultOf, TypeOK
    <2>4. MailIs(m)'
      <3>1. /\ \A t \in Tid \ {current_task} : next'[t] = next[t] /\ tag'[t] = tag[t]
            /\ tag'[current_task] = "EVENT_WAIT"
        BY <1>2, <1>3, <2>1 DEF TypeOK
      <3> QED BY <1>2, <1>3, <2>1, <3>1, BlockingMail
    <2>5. UNCHANGED mailboxOf
      BY <2>4, MailboxIs, MailboxIsNext
    <2>6. runningOf' = NoTid
      BY <1>1, <2>1, UserMaps
    <2>7. R!Sleep(c)
      BY <1>3, <2>2, <2>3, <2>5, <2>6
         DEF R!Sleep, R!Ends, phaseOf, mailboxOf, resultOf, runningOf, ResultOf
    <2>8. FreeClean'
      BY <1>3, <2>1 DEF FreeClean, TypeOK
    <2> QED BY <2>7, <2>8 DEF R!RNext
  <1>6. CASE TakeStored(e)
    <2>1. /\ r0' = [r0 EXCEPT ![c] = Ok] /\ UNCHANGED tag
          /\ mode' # "user" /\ QuietStep
      BY <1>2, <1>6 DEF TakeStored, EndActivation, QuietStep
    <2>2. UNCHANGED <<phaseOf, mailboxOf>>
      BY <2>1, QuietMailbox DEF phaseOf
    <2>3. resultOf' = [resultOf EXCEPT ![c] = "done"]
      BY <1>3, <2>1, ResultTable DEF resultOf, TypeOK
    <2>4. runningOf' = NoTid /\ "done" \in R!Results \ {"pending"}
      BY <1>1, <2>1, UserMaps DEF R!Results
    <2>5. R!Work(c)
      BY <1>3, <2>2, <2>3, <2>4
         DEF R!Work, R!Ends, phaseOf, mailboxOf, resultOf, runningOf, ResultOf
    <2>6. FreeClean'
      BY <1>3, <2>1 DEF FreeClean, TypeOK
    <2> QED BY <2>5, <2>6 DEF R!RNext
  <1> QED BY <1>2, <1>3, <1>4, <1>5, <1>6 DEF AwaitEvent

LEMMA ExitMaps ==
  ASSUME IInv, FreeClean, NEW m, MailIs(m), Exit
  PROVE  R!RNext /\ FreeClean'
  <1>1. mode = "user"
    BY DEF Exit
  <1>2. PICK c \in Tid : c = current_task
    BY <1>1, UserMaps
  <1>3. TypeOK /\ tag[c] = "READY" /\ runningOf = c
    BY <1>1, <1>2, UserMaps
  <1>4. m[c] \in SenderLists /\ CanRelease(m[c])
    BY <1>1, <1>2, MailIsSendQueue, SendersReleasable
  <1>5. \A q \in SenderLists : CanRelease(q) => q = m[c]
    <2>1. SendQueuesOf(c) = {m[c]}
      BY MailIsSendQueue
    <2> QED BY <1>2, <2>1 DEF SendQueuesOf, Distinct, CanRelease
  <1>6. /\ Releases(m[c], c)
        /\ r0' = [t \in Tid |-> IF t = c THEN Ok
                                ELSE IF t \in Members(m[c]) THEN Incomplete ELSE r0[t]]
        /\ mode' # "user"
    BY <1>2, <1>4, <1>5 DEF Exit, Releases, EndActivation
  <1>7. MailIs([m EXCEPT ![c] = <<>>])'
    BY <1>3, <1>6, MailRelease
  <1>8. mailboxOf = m /\ mailboxOf' = [m EXCEPT ![c] = <<>>]
    BY <1>7, MailboxIs, MailboxIsNext
  <1>9. phaseOf' = [t \in Tid |-> IF t = c THEN "absent"
                                 ELSE IF t \in Members(m[c]) THEN "active" ELSE phaseOf[t]]
    BY <1>6, PhaseTable DEF Releases, phaseOf
  <1>10. resultOf' = [t \in Tid |-> IF t = c THEN "done"
                           ELSE IF t \in Members(m[c]) THEN "incomplete" ELSE resultOf[t]]
    BY <1>6, ResultTable DEF resultOf
  <1>11. runningOf' = NoTid
    BY <1>1, <1>6, UserMaps
  <1>12. R!Senders(c) = Members(m[c])
    BY <1>8 DEF R!Senders, Members, mailboxOf
  <1>13. R!Leave(c)
    BY <1>3, <1>8, <1>9, <1>10, <1>11, <1>12
       DEF R!Leave, phaseOf, mailboxOf, resultOf, runningOf, ResultOf
  <1>14. FreeClean'
    BY <1>6 DEF FreeClean, Releases
  <1> QED BY <1>13, <1>14 DEF R!RNext

LEMMA InterruptMaps ==
  ASSUME IInv, FreeClean, NEW m, MailIs(m), Alive, NEW S \in SUBSET VicLines, Interrupt(S)
  PROVE  R!RNext /\ FreeClean'
  <1>1. /\ TypeOK /\ SlotsAgree(tag, event_queue) /\ Serviceable(S)
        /\ mode = "user" => current_task \in Tid /\ tag[current_task] = "READY"
    BY InvParts, InterruptsServiceable, UserMaps
  <1>2. /\ ServiceInterrupts(S) /\ mode' # "user"
        /\ Idle(S) \/ Preempt(S)
    BY <1>1 DEF Interrupt, Idle, Preempt, EndActivation
  <1>3. PICK W : W = Woken(S)
    OBVIOUS
  <1>4. W \subseteq Tid /\ \A t \in W : tag[t] = "EVENT_WAIT"
    <2>1. Awaited(S) \subseteq Events
      BY KernelAssumption DEF Awaited
    <2> QED BY <1>1, <1>3, <2>1 DEF Woken, Awaited, SlotsAgree
  <1>5. PICK u : u = runningOf
    OBVIOUS
  <1>6. /\ \A t \in Tid : tag'[t] = IF t \in W THEN "READY" ELSE tag[t]
        /\ tag' = [t \in Tid |-> IF t \in W THEN "READY" ELSE tag[t]]
    BY <1>2, <1>3 DEF ServiceInterrupts
  <1>7. r0' = [t \in Tid |-> IF t \in W \cup {u} THEN Ok ELSE r0[t]]
    <2>1. CASE Idle(S)
      <3>1. u = NoTid /\ NoTid \notin Tid
        BY <1>5, <2>1, TidType DEF Idle, runningOf
      <3>2. r0' = [t \in Tid |-> IF t \in W THEN Ok ELSE r0[t]]
        BY <1>1, <1>3, <2>1 DEF Idle
      <3> QED BY <3>1, <3>2
    <2>2. CASE Preempt(S)
      <3>1. u = current_task
        BY <1>5, <2>2 DEF Preempt, runningOf
      <3> QED BY <1>1, <1>3, <2>2, <3>1 DEF Preempt
    <2> QED BY <1>2, <2>1, <2>2
  <1>8. phaseOf' = [t \in Tid |-> IF t \in W THEN "active" ELSE phaseOf[t]]
    BY <1>6, PhaseTable DEF phaseOf
  <1>9. resultOf' = [t \in Tid |-> IF t \in W \cup {u} THEN "done" ELSE resultOf[t]]
    BY <1>7, ResultTable DEF resultOf
  <1>10. \A t \in W : phaseOf[t] = "sleeping"
    BY <1>4, PhaseTable DEF phaseOf
  <1>11. UNCHANGED mailboxOf
    BY InterruptMail, MailboxIs, MailboxIsNext
  <1>12. runningOf' = NoTid
    BY <1>2 DEF runningOf
  <1>13. R!Interrupt(W)
    BY <1>5, <1>8, <1>9, <1>10, <1>11, <1>12
       DEF R!Interrupt, phaseOf, mailboxOf, resultOf, runningOf, ResultOf
  <1>14. FreeClean'
    BY <1>6, <1>7 DEF FreeClean
  <1> QED BY <1>4, <1>13, <1>14 DEF R!RNext

-----------------------------------------------------------------------------
(* The theorem. *)

RInv == QInv /\ (Alive => FreeClean)

LEMMA InitMaps == Init => RInv /\ R!RInit
  <1> SUFFICES ASSUME Init PROVE RInv /\ R!RInit
    OBVIOUS
  <1> DEFINE m == [t \in Tid |-> <<>>]
  <1>1. m \in [Tid -> Seq(Tid)] /\ \A t \in Tid : m[t] = <<>>
    OBVIOUS
  <1>2. mailboxOf = [t \in Tid |-> <<>>]
    BY <1>1, InitMail, MailboxIs
  <1>3. phaseOf = [t \in Tid |-> IF t \in {0, 1} THEN "active" ELSE "absent"]
    BY PhaseTable DEF Init, phaseOf
  <1>4. resultOf = [t \in Tid |-> "done"] /\ runningOf = NoTid
    BY ResultTable DEF Init, resultOf, runningOf
  <1>5. R!RInit
    BY <1>2, <1>3, <1>4 DEF R!RInit, phaseOf, mailboxOf, resultOf, runningOf, ResultOf
  <1>6. RInv
    BY InitQInv DEF RInv, FreeClean, Init
  <1> QED BY <1>5, <1>6

LEMMA StepMaps == RInv /\ [OrderlyNext]_vars => RInv' /\ [R!RNext]_(R!rvars)
  <1> SUFFICES ASSUME RInv, [OrderlyNext]_vars
               PROVE  RInv' /\ [R!RNext]_(R!rvars)
    OBVIOUS
  <1>0. QInv'
    BY StepQInv DEF RInv
  <1>1. CASE UNCHANGED vars
    <2>1. UNCHANGED R!rvars
      BY <1>1 DEF vars, sendQueues, R!rvars, SendQueue, SendQueuesOf, SenderLists, Senders,
                  IsSendQueue
    <2> QED BY <1>0, <1>1, <2>1 DEF vars, RInv, Alive, FreeClean
  <1>2. CASE OrderlyNext /\ Alive /\ ~(UNCHANGED vars)
    <2>1. PICK m : MailIs(m)
      BY <1>2 DEF RInv, QInv
    <2>2. IInv /\ FreeClean
      BY <1>2 DEF RInv, QInv
    <2>3. CASE RunReturns
      <3>1. QuietStep /\ UNCHANGED <<tag, r0>> /\ mode = "loop" /\ mode' = "returned"
        BY <2>3 DEF RunReturns, QuietStep
      <3>2. UNCHANGED <<phaseOf, mailboxOf, resultOf, runningOf>>
        BY <2>1, <3>1, QuietMailbox DEF phaseOf, resultOf, runningOf
      <3>3. FreeClean'
        BY <2>2, <3>1 DEF FreeClean
      <3> QED BY <1>0, <3>2, <3>3, StutterMaps DEF RInv
    <2>4. CASE Shutdown
      <3>1. R!RNext /\ FreeClean'
        BY <2>1, <2>2, <2>4, StopMaps DEF Shutdown
      <3> QED BY <1>0, <3>1 DEF RInv
    <2>5. CASE SystemCall /\ ~Shutdown
      <3>1. Yield \/ MyTid => R!RNext /\ FreeClean'
        BY <2>1, <2>2, ReturnValueMaps DEF Yield, MyTid
      <3>2. R!RNext /\ FreeClean'
        BY <2>1, <2>2, <2>5, <3>1, ExitMaps, ReceiveMaps, SendMaps, ReplyMaps, AwaitEventMaps
           DEF SystemCall
      <3> QED BY <1>0, <3>2 DEF RInv
    <2>6. CASE Settled /\ Creation
      <3>1. R!RNext /\ FreeClean'
        BY <2>1, <2>2, <2>6, CreateMaps DEF Creation
      <3> QED BY <1>0, <3>1 DEF RInv
    <2>7. CASE \E S \in SUBSET VicLines : Interrupt(S)
      <3>1. R!RNext /\ FreeClean'
        BY <1>2, <2>1, <2>2, <2>7, InterruptMaps
      <3> QED BY <1>0, <3>1 DEF RInv
    <2>8. CASE Schedule
      <3>1. [R!RNext]_(R!rvars) /\ FreeClean'
        BY <2>1, <2>2, <2>8, ScheduleMaps
      <3> QED BY <1>0, <3>1 DEF RInv
    <2> QED BY <1>2, <2>3, <2>4, <2>5, <2>6, <2>7, <2>8 DEF OrderlyNext, CoreNext, Halted
  <1>3. CASE OrderlyNext /\ ~Alive
    <2>1. UNCHANGED vars
      BY <1>3 DEF Alive, OrderlyNext, CoreNext, SystemCall, Schedule, RunReturns, Yield, MyTid,
                  Exit, Receive, Shutdown, Send, Reply, AwaitEvent, Creation, Create,
                  Interrupt, Idle, Preempt, Halted
    <2> QED BY <1>1, <2>1
  <1> QED BY <1>1, <1>2, <1>3

\* The task table, the send queues threaded through it and the ready queue
\* implement the Send-Receive-Reply service of Rendezvous: mailboxes are first come
\* first served, a sender runs again only after a Reply or the receiver's exit, and
\* nobody runs before the call that blocked it has a result.
THEOREM KernelIsRendezvous == OrderlySpec => ImplementsRendezvous
  <1>1. OrderlySpec => []RInv
    BY InitMaps, StepMaps, PTL DEF OrderlySpec
  <1>2. OrderlySpec => R!RInit /\ [][R!RNext]_(R!rvars)
    BY <1>1, InitMaps, StepMaps, PTL DEF OrderlySpec
  <1> QED BY <1>2 DEF ImplementsRendezvous, R!RSpec

=============================================================================
