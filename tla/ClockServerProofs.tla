-------------------------- MODULE ClockServerProofs --------------------------
(***************************************************************************)
(* The clock server keeps every caller it has received in one place, keeps *)
(* its promises about time, and panics for a cause only, for every set of  *)
(* clients and requests; NoOverflow says which requests.                   *)
(***************************************************************************)
EXTENDS ClockServer, FiniteSetTheorems, WellFoundedInduction, TLAPS

-----------------------------------------------------------------------------
(* Arithmetic on int, and types.                                           *)

LEMMA IntAssumption ==
  /\ INT_MAX \in Nat /\ PqCapacity \in Nat /\ MaxTime \in Nat /\ MaxSince \in Nat
  /\ Int32 \subseteq Int
  /\ Requests \subseteq [tag : Tags, arg : Int32]
  BY ClockAssumption DEF Int32

LEMMA TaskAssumption ==
  /\ Server \in Task /\ Notifier \in Task /\ Client \subseteq Task
  /\ Server # Notifier /\ Server \notin Client /\ Notifier \notin Client
  /\ None \notin Task
  BY ClockAssumption DEF Task

LEMMA WrapType ==
  ASSUME NEW n \in Int
  PROVE  Wrap(n) \in Int32
  <1> DEFINE d == 2 * (INT_MAX + 1)
             x == n + INT_MAX + 1
  <1>1. d \in Nat \ {0} /\ x \in Int /\ d = INT_MAX + 1 + INT_MAX + 1
    BY IntAssumption
  <1>2. x % d \in 0 .. d - 1
    <2> HIDE DEF d, x
    <2> QED BY <1>1
  <1> QED BY <1>1, <1>2, IntAssumption DEF Wrap, Int32

LEMMA WrapIs ==
  ASSUME NEW n \in Int32
  PROVE  Wrap(n) = n
  <1> DEFINE d == 2 * (INT_MAX + 1)
             x == n + INT_MAX + 1
  <1>1. d \in Nat \ {0} /\ x \in 0 .. d - 1 /\ x - (INT_MAX + 1) = n
    BY IntAssumption DEF Int32
  <1>2. x % d = x
    <2> HIDE DEF d, x
    <2> QED BY <1>1
  <1> QED BY <1>1, <1>2 DEF Wrap

-----------------------------------------------------------------------------
(* Types: the calls of the kernel.                                         *)

KTypes == K!RTypeOK

LEMMA RunTypes ==
  ASSUME KTypes, NEW t \in Task, K!Run(t)
  PROVE  KTypes'
  BY DEF KTypes, K!RTypeOK, K!Run

LEMMA EndsTypes ==
  ASSUME KTypes, NEW t \in Task, NEW v \in K!Results, K!Ends(t, v),
         UNCHANGED <<phase, mailbox>>
  PROVE  KTypes'
  BY DEF KTypes, K!RTypeOK, K!Ends

LEMMA InterruptTypes ==
  ASSUME KTypes, NEW W, K!Interrupt(W)
  PROVE  KTypes'
  BY DEF KTypes, K!RTypeOK, K!Interrupt, K!Phases, K!Results

LEMMA SendTypes ==
  ASSUME KTypes, NEW t \in Task, SendToServer(t)
  PROVE  KTypes'
  <1>1. Server \in Task
    BY TaskAssumption
  <1>2. CASE K!Ends(t, "done") /\ UNCHANGED <<phase, mailbox>>
    BY <1>2, EndsTypes DEF K!Results
  <1>3. CASE K!Meet(t, Server)
    BY <1>1, <1>3 DEF KTypes, K!RTypeOK, K!Meet, K!Phases, K!Results
  <1>4. CASE K!Deposit(t, Server)
    BY <1>1, <1>4 DEF KTypes, K!RTypeOK, K!Deposit, K!Ends, K!Phases, K!Results
  <1> QED BY <1>2, <1>3, <1>4 DEF SendToServer

LEMMA SleepTypes ==
  ASSUME KTypes, NEW t \in Task, K!Sleep(t)
  PROVE  KTypes'
  BY DEF KTypes, K!RTypeOK, K!Sleep, K!Ends, K!Phases, K!Results

LEMMA LeaveTypes ==
  ASSUME KTypes, NEW t \in Task, K!Leave(t)
  PROVE  KTypes'
  BY DEF KTypes, K!RTypeOK, K!Leave, K!Phases, K!Results

LEMMA SpawnTypes ==
  ASSUME KTypes, NEW t \in Task, NEW c \in Task, K!Spawn(t, c)
  PROVE  KTypes'
  BY DEF KTypes, K!RTypeOK, K!Spawn, K!Ends, K!Phases, K!Results

LEMMA ReplyTypes ==
  ASSUME KTypes, NEW t, Reply(t)
  PROVE  KTypes'
  BY DEF KTypes, K!RTypeOK, Reply, K!Answer, K!Ends, K!Phases, K!Results

LEMMA ReceiveTypes ==
  ASSUME KTypes, tid \in Task \cup {None}, NEW pc, ReceiveThen(pc)
  PROVE  KTypes' /\ tid' \in Task \cup {None} /\ server_pc' = pc
  <1>1. Server \in Task
    BY TaskAssumption
  <1>2. CASE K!Take(Server) /\ tid' = Head(mailbox[Server])
    <2>1. mailbox[Server] \in Seq(Task) /\ mailbox[Server] # <<>>
      BY <1>1, <1>2 DEF KTypes, K!RTypeOK, K!Take
    <2>2. Head(mailbox[Server]) \in Task /\ Tail(mailbox[Server]) \in Seq(Task)
      BY <2>1
    <2> QED BY <1>1, <1>2, <2>2
            DEF KTypes, K!RTypeOK, K!Take, K!Ends, K!Phases, K!Results, ReceiveThen
  <1>3. CASE K!Open(Server) /\ UNCHANGED tid
    BY <1>1, <1>3 DEF KTypes, K!RTypeOK, K!Open, K!Ends, K!Phases, K!Results, ReceiveThen
  <1> QED BY <1>2, <1>3 DEF ReceiveThen
-----------------------------------------------------------------------------
(* Types: the programs.                                                    *)

\* The parts of ClockTypeOK.
KnownTypes == /\ up \in BOOLEAN /\ tick_stored \in BOOLEAN
              /\ notifier_pc \in {"await", "send"} /\ shutdown \in BOOLEAN

ServerTypes == /\ server_pc \in ServerPCs
               /\ tid \in Task \cup {None} /\ stopper \in Client \cup {None}
               /\ current_time \in Int32
               /\ pq \in Seq([tid : Client, tick_threshold : Int32])
               /\ Len(pq) <= PqCapacity

ClientTypes == /\ req \in [Client -> Requests \cup {Nothing}]
               /\ since \in [Client -> 0 .. MaxSince]
               /\ floor \in [Client -> Int]

LEMMA TypeParts == ClockTypeOK <=> KTypes /\ KnownTypes /\ ServerTypes /\ ClientTypes
  BY DEF ClockTypeOK, KTypes, KnownTypes, ServerTypes, ClientTypes

LEMMA TypePartsNext == ClockTypeOK' <=> (KTypes /\ KnownTypes /\ ServerTypes /\ ClientTypes)'
  BY TypeParts, PTL

LEMMA KnownType ==
  ASSUME ClockTypeOK, NEW c \in Client, NEW v \in Int
  PROVE  Known(c, req[c], v) \in Int
  <1>1. /\ req[c] \in [tag : Tags, arg : Int] \cup {Nothing} /\ floor[c] \in Int
    BY IntAssumption DEF ClockTypeOK
  <1>2. req[c].arg \in Int
    BY <1>1 DEF Nothing
  <1> QED BY <1>1, <1>2 DEF Known, Max

LEMMA ReplyToTypes ==
  ASSUME ClockTypeOK, NEW c, NEW v \in Int, ReplyTo(c, v)
  PROVE  KTypes' /\ ClientTypes'
  <1>1. KTypes'
    BY TypeParts, ReplyTypes DEF ReplyTo
  <1>2. CASE c \in Client
    <2>1. Known(c, req[c], v) \in Int
      BY <1>2, KnownType
    <2> QED BY <1>1, <1>2, <2>1, IntAssumption DEF ReplyTo, ClientTypes, ClockTypeOK
  <1>3. CASE c \notin Client
    BY <1>1, <1>3, IntAssumption DEF ReplyTo, ClientTypes, ClockTypeOK
  <1> QED BY <1>2, <1>3

LEMMA WithoutType ==
  ASSUME NEW S, pq \in Seq(S), NEW i \in DOMAIN pq
  PROVE  /\ Without(i) \in Seq(S) /\ Len(Without(i)) = Len(pq) - 1
         /\ DOMAIN Without(i) = 1 .. Len(pq) - 1
         /\ \A j \in 1 .. Len(pq) - 1 : Without(i)[j] = IF j < i THEN pq[j] ELSE pq[j + 1]
  <1>1. Len(pq) \in Nat /\ DOMAIN pq = 1 .. Len(pq) /\ \A j \in 1 .. Len(pq) : pq[j] \in S
    OBVIOUS
  <1> DEFINE w == Without(i)
             n == Len(pq) - 1
  <1>2. n \in Nat /\ \A j \in 1 .. n : j \in 1 .. Len(pq) /\ j + 1 \in 1 .. Len(pq)
    BY <1>1
  <1>3. w = [j \in 1 .. n |-> IF j < i THEN pq[j] ELSE pq[j + 1]]
    BY DEF Without
  <1> HIDE DEF w, n
  <1>4. w \in [1 .. n -> S]
    BY <1>1, <1>2, <1>3
  <1>5. w \in Seq(S) /\ Len(w) = n /\ DOMAIN w = 1 .. n
    BY <1>2, <1>4
  <1> QED BY <1>3, <1>5 DEF w, n

LEMMA InitTypes == Init => ClockTypeOK
  <1> SUFFICES ASSUME Init PROVE ClockTypeOK
    OBVIOUS
  <1>1. KTypes
    BY DEF Init, KTypes, K!RInit, K!RTypeOK, K!Phases, K!Results
  <1>2. KnownTypes
    BY DEF Init, KnownTypes
  <1>3. 0 \in 0 .. MaxSince /\ 0 \in Int
    BY IntAssumption
  <1>4. ClientTypes
    BY <1>3 DEF Init, ClientTypes
  <1>5. pq = <<>> /\ Len(pq) = 0 /\ 0 \in Int32
    BY IntAssumption DEF Init, Int32
  <1>6. ServerTypes
    BY <1>5, IntAssumption DEF Init, ServerTypes, ServerPCs
  <1> QED BY <1>1, <1>2, <1>4, <1>6, TypeParts

LEMMA NotifierTypes ==
  ASSUME ClockTypeOK, NotifierStep
  PROVE  ClockTypeOK'
  <1>1. KTypes /\ KnownTypes /\ ServerTypes /\ ClientTypes /\ Notifier \in Task
    BY TypeParts, TaskAssumption
  <1>2. CASE AwaitTick
    <2>1. KTypes'
      BY <1>1, <1>2, EndsTypes, SleepTypes DEF AwaitTick, AwaitEvent, K!Results
    <2> QED BY <1>1, <1>2, <2>1, TypePartsNext
            DEF AwaitTick, AwaitEvent, KnownTypes, ServerTypes, ClientTypes, server, clients
  <1>3. CASE SendTick
    <2>1. KTypes' /\ tid' \in Task \cup {None}
      BY <1>1, <1>3, SendTypes DEF SendTick, SendToServer, ServerTypes
    <2> QED BY <1>1, <1>3, <2>1, TypePartsNext
            DEF SendTick, KnownTypes, ServerTypes, ClientTypes, clients
  <1>4. CASE NotifierExit
    <2>1. KTypes'
      BY <1>1, <1>4, LeaveTypes DEF NotifierExit
    <2> QED BY <1>1, <1>4, <2>1, TypePartsNext
            DEF NotifierExit, KnownTypes, ServerTypes, ClientTypes, notifier, server, clients
  <1> QED BY <1>2, <1>3, <1>4 DEF NotifierStep

LEMMA CallTypes ==
  ASSUME ClockTypeOK, NEW c \in Client, NEW r \in Requests, Call(c, r)
  PROVE  ClockTypeOK'
  <1>1. KTypes /\ KnownTypes /\ ServerTypes /\ ClientTypes /\ c \in Task
    BY TypeParts, TaskAssumption
  <1>2. KTypes' /\ tid' \in Task \cup {None}
    BY <1>1, SendTypes DEF Call, SendToServer, ServerTypes
  <1> QED BY <1>1, <1>2, TypePartsNext, IntAssumption
          DEF Call, KnownTypes, ServerTypes, ClientTypes, notifier

\* The steps of the server that do not answer a client.
LEMMA QuietServerTypes ==
  ASSUME ClockTypeOK,
         CreateNotifier \/ Register \/ Receive \/ HandleTick \/ HandleShutdown \/ HandleLast
         \/ Enqueue \/ Panic
  PROVE  ClockTypeOK'
  <1>1. KTypes /\ KnownTypes /\ ServerTypes /\ ClientTypes /\ Server \in Task /\ Notifier \in Task
    BY TypeParts, TaskAssumption
  <1>2. CASE CreateNotifier
    <2>1. KTypes'
      BY <1>1, <1>2, SpawnTypes DEF CreateNotifier
    <2> QED BY <1>1, <1>2, <2>1, TypePartsNext
            DEF CreateNotifier, KnownTypes, ServerTypes, ClientTypes, ServerPCs, notifier, clients
  <1>3. CASE Register
    <2>1. KTypes'
      BY <1>1, <1>3, EndsTypes DEF Register, K!Results
    <2> QED BY <1>1, <1>3, <2>1, TypePartsNext
            DEF Register, KnownTypes, ServerTypes, ClientTypes, ServerPCs, notifier, clients
  <1>4. CASE Receive
    <2>1. KTypes' /\ tid' \in Task \cup {None} /\ server_pc' = "handle"
      BY <1>1, <1>4, ReceiveTypes DEF Receive, ServerTypes
    <2> QED BY <1>1, <1>4, <2>1, TypePartsNext
            DEF Receive, KnownTypes, ServerTypes, ClientTypes, ServerPCs, notifier, clients
  <1>5. CASE HandleTick
    <2>1. KTypes'
      BY <1>1, <1>5, ReplyTypes DEF HandleTick, TellNotifier
    <2>2. current_time' \in Int32
      BY <1>1, <1>5, WrapType, IntAssumption DEF HandleTick, ServerTypes
    <2> QED BY <1>1, <1>5, <2>1, <2>2, TypePartsNext
            DEF HandleTick, TellNotifier, KnownTypes, ServerTypes, ClientTypes, ServerPCs, clients
  <1>6. CASE HandleShutdown
    <2>1. KTypes' /\ tid' \in Task \cup {None} /\ server_pc' = "last" /\ tid \in Client
      BY <1>1, <1>6, ReceiveTypes DEF HandleShutdown, ServerTypes, Asks
    <2> QED BY <1>1, <1>6, <2>1, TypePartsNext
            DEF HandleShutdown, KnownTypes, ServerTypes, ClientTypes, ServerPCs, notifier, clients
  <1>7. CASE Panic
    BY <1>1, <1>7, TypePartsNext
       DEF Panic, KTypes, K!RTypeOK, KnownTypes, ServerTypes, ClientTypes,
           kernel, notifier, server, clients
  <1>8. CASE HandleLast
    <2>1. CASE TellNotifier(TRUE)
      <3>1. KTypes'
        BY <1>1, <2>1, ReplyTypes DEF TellNotifier
      <3>2. ServerTypes' /\ ClientTypes' /\ KnownTypes'
        BY <1>1, <1>7, <1>8, <2>1, TypePartsNext
           DEF HandleLast, TellNotifier, KnownTypes, ServerTypes, ClientTypes, ServerPCs, clients
      <3> QED BY <3>1, <3>2, TypePartsNext
    <2> QED BY <1>7, <1>8, <2>1 DEF HandleLast
  <1>9. CASE Enqueue
    <2> DEFINE threshold == Threshold(req[tid])
               e == [tid |-> tid, tick_threshold |-> threshold]
    <2>1. tid \in Client /\ req[tid] \in Requests \cup {Nothing}
      BY <1>1, <1>9 DEF Enqueue, Asks, ClientTypes
    <2>2. req[tid] \in [tag : Tags, arg : Int32]
      BY <1>9, <2>1, IntAssumption DEF Enqueue, Asks, Nothing
    <2>3. threshold \in Int32
      BY <1>1, <2>2, WrapType, IntAssumption DEF Threshold, ServerTypes
    <2> HIDE DEF threshold
    <2>4. HasRoom => /\ Append(pq, e) \in Seq([tid : Client, tick_threshold : Int32])
                     /\ Len(Append(pq, e)) <= PqCapacity
      BY <1>1, <2>1, <2>3, IntAssumption DEF HasRoom, ServerTypes
    <2>5. CASE /\ HasRoom /\ pq' = Append(pq, e) /\ server_pc' = "receive"
               /\ UNCHANGED <<kernel, up, tick_stored, notifier, tid, stopper,
                              current_time, clients>>
      <3>1. KTypes'
        BY <1>1, <2>5 DEF kernel, KTypes, K!RTypeOK
      <3> QED BY <1>1, <2>4, <2>5, <3>1, TypePartsNext
         DEF KnownTypes, ServerTypes, ClientTypes, ServerPCs, notifier, clients
    <2> QED BY <1>7, <1>9, <2>5 DEF Enqueue, threshold
  <1> QED BY <1>2, <1>3, <1>4, <1>5, <1>6, <1>7, <1>8, <1>9

\* Those that do.
LEMMA AnsweringServerTypes ==
  ASSUME ClockTypeOK,
         (\E i \in DOMAIN pq : Wake(i)) \/ HandleTime \/ HandlePassed \/ Farewell \/ ServerExit
  PROVE  ClockTypeOK'
  <1>1. KTypes /\ KnownTypes /\ ServerTypes /\ ClientTypes /\ Server \in Task
    BY TypeParts, TaskAssumption
  <1>2. ASSUME NEW i \in DOMAIN pq, Wake(i)
        PROVE  ClockTypeOK'
    <2>1. KTypes' /\ ClientTypes'
      BY <1>2, ReplyToTypes DEF Wake
    <2>2. /\ Without(i) \in Seq([tid : Client, tick_threshold : Int32])
          /\ Len(Without(i)) <= PqCapacity
      BY <1>1, <1>2, WithoutType, IntAssumption DEF ServerTypes
    <2> QED BY <1>1, <1>2, <2>1, <2>2, TypePartsNext
            DEF Wake, KnownTypes, ServerTypes, notifier
  <1>3. CASE HandleTime
    <2>1. CASE Panic
      BY <2>1, QuietServerTypes
    <2>2. CASE /\ ReplyTo(tid, current_time) /\ server_pc' = "receive"
               /\ UNCHANGED <<up, tick_stored, notifier, tid, stopper, current_time, pq>>
      <3>1. KTypes' /\ ClientTypes'
        BY <1>1, <2>2, ReplyToTypes, IntAssumption DEF ServerTypes
      <3> QED BY <1>1, <2>2, <3>1, TypePartsNext
              DEF KnownTypes, ServerTypes, ServerPCs, notifier
    <2> QED BY <1>3, <2>1, <2>2 DEF HandleTime
  <1>4. CASE HandlePassed
    <2>1. KTypes' /\ ClientTypes'
      BY <1>4, ReplyToTypes DEF HandlePassed
    <2> QED BY <1>1, <1>4, <2>1, TypePartsNext
            DEF HandlePassed, KnownTypes, ServerTypes, ServerPCs, notifier
  <1>5. CASE Farewell
    <2>1. KTypes' /\ ClientTypes'
      BY <1>5, ReplyToTypes DEF Farewell
    <2> QED BY <1>1, <1>5, <2>1, TypePartsNext
            DEF Farewell, KnownTypes, ServerTypes, ServerPCs, notifier
  <1>6. CASE ServerExit
    <2>1. KTypes'
      BY <1>1, <1>6, LeaveTypes DEF ServerExit
    <2>2. req' \in [Client -> Requests \cup {Nothing}]
      BY <1>1, <1>6 DEF ServerExit, ClientTypes
    <2> QED BY <1>1, <1>6, <2>1, <2>2, TypePartsNext
            DEF ServerExit, KnownTypes, ServerTypes, ClientTypes, ServerPCs, notifier
  <1> QED BY <1>2, <1>3, <1>4, <1>5, <1>6

LEMMA StepTypes == ClockTypeOK /\ [Next]_vars => ClockTypeOK'
  <1> SUFFICES ASSUME ClockTypeOK, [Next]_vars PROVE ClockTypeOK'
    OBVIOUS
  <1>1. KTypes /\ KnownTypes /\ ServerTypes /\ ClientTypes
    BY TypeParts
  <1>2. CASE UNCHANGED vars
    BY <1>1, <1>2, TypePartsNext
       DEF vars, kernel, notifier, server, clients, KTypes, K!RTypeOK, KnownTypes,
           ServerTypes, ClientTypes
  <1>3. ASSUME NEW t \in Task, Run(t)
        PROVE  ClockTypeOK'
    <2>1. KTypes'
      BY <1>1, <1>3, RunTypes DEF Run
    <2> QED BY <1>1, <1>3, <2>1, TypePartsNext
            DEF Run, KnownTypes, ServerTypes, ClientTypes, notifier, server, clients
  <1>4. CASE Preempt
    <2>1. KTypes'
      BY <1>1, <1>4, InterruptTypes DEF Preempt
    <2> QED BY <1>1, <1>4, <2>1, TypePartsNext
            DEF Preempt, KnownTypes, ServerTypes, ClientTypes, notifier, server, clients
  <1>5. CASE TimerInterrupt
    <2>1. KTypes'
      BY <1>1, <1>5, InterruptTypes DEF TimerInterrupt
    <2>2. tick_stored' \in BOOLEAN
      BY <1>1, <1>5 DEF TimerInterrupt, KnownTypes
    <2>3. since' \in [Client -> 0 .. MaxSince]
      BY <1>1, <1>5, IntAssumption DEF TimerInterrupt, ClientTypes
    <2> QED BY <1>1, <1>5, <2>1, <2>2, <2>3, TypePartsNext
            DEF TimerInterrupt, KnownTypes, ServerTypes, ClientTypes, notifier, server
  <1> QED BY <1>2, <1>3, <1>4, <1>5, NotifierTypes, CallTypes, QuietServerTypes,
             AnsweringServerTypes DEF Next, ServerStep

\* Every variable of the clock server and of its callers keeps its type; in
\* particular current_time and the deadlines in pq are ints, and pq never holds more
\* than its capacity, whatever is asked.
THEOREM ClockTypes == Spec => []ClockTypeOK
  BY InitTypes, StepTypes, PTL DEF Spec

-----------------------------------------------------------------------------
(* The inductive invariant, one part per concern.                          *)

\* The last time the clock can reach, and every deadline, are ints.
NoOverflow == /\ MaxTime + 1 <= INT_MAX
              /\ \A r \in Requests : r.tag = "Delay" => r.arg + MaxTime + 1 <= INT_MAX

Busy == phase[Server] = "active"

Sending(t) == \E i \in DOMAIN mailbox[Server] : mailbox[Server][i] = t

\* Only the server has a mailbox, and who waits there waits once.
MailSound ==
    /\ running # None => phase[running] = "active"
    /\ \A t \in Task \ {Server} : mailbox[t] = <<>>
    /\ \A i, j \in DOMAIN mailbox[Server] :
          mailbox[Server][i] = mailbox[Server][j] => i = j
    /\ \A t \in Task : phase[t] = "sending" <=> Sending(t)
    /\ phase[Server] \in {"active", "receiving", "absent"}
    /\ phase[Server] # "active" => mailbox[Server] = <<>>
    /\ \A c \in Client : phase[c] \in {"active", "sending", "replying"}

\* Where the programs are when they are blocked.
PCsSound ==
    /\ phase[Server] = "absent" <=> server_pc = "gone"
    /\ phase[Server] = "receiving" => server_pc \in {"handle", "last"}
    /\ server_pc \in {"create", "register"} => pq = <<>>
    /\ phase[Notifier] # "receiving"
    /\ phase[Notifier] = "sleeping" => notifier_pc = "send"
    /\ phase[Notifier] \in {"sending", "replying", "absent"} => notifier_pc = "await"

Received(t) == server_pc \in {"handle", "last"} /\ Busy /\ tid = t

\* Every caller that waits for its answer is in one place.
PlacesSound ==
    /\ \A i, j \in DOMAIN pq : pq[i].tid = pq[j].tid => i = j
    /\ \A i \in DOMAIN pq : phase[pq[i].tid] = "replying"
    /\ server_pc \in {"handle", "last"} /\ Busy =>
          tid \in Client \cup {Notifier} /\ phase[tid] = "replying" /\ ~InPq(tid)
    /\ server_pc \in {"last", "farewell"} =>
          /\ stopper \in Client /\ phase[stopper] = "replying" /\ ~InPq(stopper)
          /\ ~Received(stopper) /\ req[stopper].tag = "Shutdown"
    /\ phase[Server] # "absent" => \A c \in Client :
          phase[c] = "replying" => InPq(c) \/ Received(c) \/ IsStopper(c)

\* The interrupts that are on their way to the server: one stored by the kernel,
\* one in the hands of the notifier.
Stored == IF tick_stored THEN 1 ELSE 0
Carried == IF \/ notifier_pc = "send" /\ phase[Notifier] = "active"
              \/ notifier_pc = "await" /\ phase[Notifier] \in {"sending", "replying"}
           THEN 1 ELSE 0
Pending == Stored + Carried

\* The time the clock will show once they have arrived.
Coming == current_time + Pending

TimeSound ==
    /\ 0 <= current_time /\ current_time <= MaxTime + 1
    /\ ~Stopping => Coming <= MaxTime + 1
    /\ \A c \in Client : floor[c] <= current_time

Asked(i) == req[pq[i].tid]

\* What entry i of pq is worth: nothing is promised for a time before the deadline,
\* and the interrupts since the call, with two that came before it, are enough to
\* have brought the clock to where it is and will be.
DelaySound(i) ==
    /\ Asked(i) \in Requests /\ Asked(i).tag \in {"Delay", "DelayUntil"}
    /\ Known(pq[i].tid, Asked(i), 0) <= pq[i].tick_threshold
    /\ 0 < pq[i].tick_threshold
    /\ server_pc = "waking" \/ pq[i].tick_threshold > current_time
    /\ Asked(i).tag = "Delay" =>
          \/ since[pq[i].tid] = MaxSince
          \/ since[pq[i].tid] + 2 + pq[i].tick_threshold - Asked(i).arg >= Coming

DelaysSound == \A i \in DOMAIN pq : DelaySound(i)

Sound == MailSound /\ PCsSound /\ PlacesSound /\ TimeSound /\ DelaysSound

ClockInv == ClockTypeOK /\ Sound /\ PanicsForCause
-----------------------------------------------------------------------------
(* Facts of every state, for the steps below.                              *)

LEMMA KernelFacts ==
  ASSUME ClockTypeOK
  PROVE  /\ phase \in [Task -> K!Phases] /\ mailbox \in [Task -> Seq(Task)]
         /\ running \in Task \cup {None} /\ DOMAIN phase = Task
         /\ mailbox[Server] \in Seq(Task)
  BY TaskAssumption DEF ClockTypeOK, K!RTypeOK

LEMMA PqFacts ==
  ASSUME ClockTypeOK
  PROVE  /\ Len(pq) \in Nat /\ DOMAIN pq = 1 .. Len(pq)
         /\ \A i \in DOMAIN pq : /\ pq[i].tid \in Client /\ pq[i].tid \in Task
                                 /\ pq[i].tick_threshold \in Int32
                                 /\ pq[i].tick_threshold \in Int
  <1> DEFINE Entry == [tid : Client, tick_threshold : Int32]
  <1>1. pq \in Seq(Entry)
    BY DEF ClockTypeOK
  <1>2. \A i \in DOMAIN pq : pq[i] \in Entry
    <2> HIDE DEF Entry
    <2> QED BY <1>1
  <1>3. Len(pq) \in Nat /\ DOMAIN pq = 1 .. Len(pq)
    BY <1>1
  <1> QED BY <1>2, <1>3, TaskAssumption, IntAssumption

LEMMA ClientFacts ==
  ASSUME ClockTypeOK
  PROVE  /\ current_time \in Int32 /\ current_time \in Int
         /\ \A c \in Client : /\ req[c] \in Requests \cup {Nothing}
                              /\ req[c].arg \in Int /\ req[c].tag \in Tags \cup {"Nothing"}
                              /\ since[c] \in 0 .. MaxSince /\ since[c] \in Nat
                              /\ floor[c] \in Int
  <1>1. /\ current_time \in Int32 /\ current_time \in Int
        /\ \A c \in Client : /\ req[c] \in Requests \cup {Nothing}
                             /\ since[c] \in 0 .. MaxSince /\ since[c] \in Nat
                             /\ floor[c] \in Int
    BY IntAssumption DEF ClockTypeOK
  <1>2. \A c \in Client : req[c] \in [tag : Tags, arg : Int32] \cup {Nothing}
    BY <1>1, IntAssumption
  <1>3. \A c \in Client : req[c].arg \in Int /\ req[c].tag \in Tags \cup {"Nothing"}
    <2> SUFFICES ASSUME NEW c \in Client
                 PROVE  req[c].arg \in Int /\ req[c].tag \in Tags \cup {"Nothing"}
      OBVIOUS
    <2>1. CASE req[c] \in [tag : Tags, arg : Int32]
      BY <2>1, IntAssumption
    <2>2. CASE req[c] = Nothing
      BY <2>2 DEF Nothing
    <2> QED BY <1>2, <2>1, <2>2
  <1> QED BY <1>1, <1>3

-----------------------------------------------------------------------------
(* The mailbox of the server.                                              *)

\* Nobody joins or leaves the mailbox, and whoever moves is not in it.
LEMMA MailKept ==
  ASSUME ClockTypeOK, MailSound, running' = None, UNCHANGED mailbox,
         \A t \in Task : phase'[t] = "sending" <=> phase[t] = "sending",
         phase'[Server] \in {"active", "receiving", "absent"},
         phase'[Server] # "active" => mailbox[Server] = <<>>,
         \A c \in Client : phase'[c] \in {"active", "sending", "replying"}
  PROVE  MailSound'
  BY DEF MailSound, Sending

LEMMA MailRun ==
  ASSUME ClockTypeOK, MailSound, NEW t \in Task, K!Run(t)
  PROVE  MailSound'
  BY DEF MailSound, Sending, K!Run

LEMMA MailEnds ==
  ASSUME ClockTypeOK, MailSound, NEW t \in Task, NEW v, K!Ends(t, v), UNCHANGED <<phase, mailbox>>
  PROVE  MailSound'
  BY MailKept DEF MailSound, K!Ends

LEMMA MailInterrupt ==
  ASSUME ClockTypeOK, MailSound, NEW W, K!Interrupt(W)
  PROVE  MailSound'
  <1>1. \A t \in Task : phase'[t] = IF t \in W THEN "active" ELSE phase[t]
    BY DEF K!Interrupt
  <1>2. \A t \in W : phase[t] = "sleeping"
    BY DEF K!Interrupt
  <1>3. Server \notin W /\ W \cap Client = {}
    BY <1>2 DEF MailSound
  <1> QED BY <1>1, <1>2, <1>3, MailKept, TaskAssumption DEF MailSound, K!Interrupt

LEMMA MailSleep ==
  ASSUME ClockTypeOK, MailSound, K!Sleep(Notifier)
  PROVE  MailSound'
  <1>1. /\ \A t \in Task \ {Notifier} : phase'[t] = phase[t]
        /\ phase'[Notifier] = "sleeping" /\ phase[Notifier] = "active"
    BY KernelFacts, TaskAssumption DEF K!Sleep, K!Ends, MailSound
  <1> QED BY <1>1, MailKept, TaskAssumption DEF MailSound, K!Sleep, K!Ends

LEMMA MailSpawn ==
  ASSUME ClockTypeOK, MailSound, K!Spawn(Server, Notifier)
  PROVE  MailSound'
  <1>1. /\ \A t \in Task \ {Notifier} : phase'[t] = phase[t]
        /\ phase'[Notifier] = "active" /\ phase[Notifier] = "absent"
    BY KernelFacts, TaskAssumption DEF K!Spawn, K!Ends
  <1> QED BY <1>1, MailKept, TaskAssumption DEF MailSound, K!Spawn, K!Ends

LEMMA MailReply ==
  ASSUME ClockTypeOK, MailSound, NEW t \in Client \cup {Notifier}, Reply(t)
  PROVE  MailSound'
  <1>1. CASE K!Answer(Server, t)
    <2>1. /\ \A s \in Task \ {t} : phase'[s] = phase[s]
          /\ phase'[t] = "active" /\ phase[t] = "replying"
      BY <1>1, KernelFacts, TaskAssumption DEF K!Answer
    <2> QED BY <1>1, <2>1, MailKept, TaskAssumption DEF MailSound, K!Answer
  <1>2. CASE K!Ends(Server, "done") /\ UNCHANGED <<phase, mailbox>>
    BY <1>2, MailEnds, TaskAssumption
  <1> QED BY <1>1, <1>2 DEF Reply

\* The notifier has no mailbox.
LEMMA MailLeaveNotifier ==
  ASSUME ClockTypeOK, MailSound, K!Leave(Notifier)
  PROVE  MailSound' /\ \A t \in Task : phase'[t] = IF t = Notifier THEN "absent" ELSE phase[t]
  <1>1. mailbox[Notifier] = <<>> /\ mailbox' = mailbox
    BY KernelFacts, TaskAssumption DEF K!Leave, MailSound
  <1>2. K!Senders(Notifier) = {}
    BY <1>1 DEF K!Senders
  <1>3. \A t \in Task : phase'[t] = IF t = Notifier THEN "absent" ELSE phase[t]
    BY <1>2 DEF K!Leave
  <1>4. phase[Notifier] = "active"
    BY TaskAssumption DEF K!Leave, MailSound
  <1> QED BY <1>1, <1>3, <1>4, MailKept, TaskAssumption DEF MailSound, K!Leave

LEMMA MailLeaveServer ==
  ASSUME ClockTypeOK, MailSound, K!Leave(Server)
  PROVE  /\ MailSound'
         /\ \A t \in Task : phase'[t] = IF t = Server THEN "absent"
                                        ELSE IF phase[t] = "sending" THEN "active" ELSE phase[t]
         /\ \A t \in Task : t \in K!Senders(Server) <=> phase[t] = "sending"
  <1>1. \A t \in Task : t \in K!Senders(Server) <=> phase[t] = "sending"
    BY DEF K!Senders, MailSound, Sending
  <1>2. \A t \in Task : phase'[t] = IF t = Server THEN "absent"
                                    ELSE IF phase[t] = "sending" THEN "active" ELSE phase[t]
    BY <1>1 DEF K!Leave
  <1>3. /\ mailbox'[Server] = <<>> /\ \A t \in Task \ {Server} : mailbox'[t] = mailbox[t]
        /\ running' = None
    BY KernelFacts, TaskAssumption DEF K!Leave
  <1>4. \A t : ~Sending(t)'
    BY <1>3 DEF Sending
  <1>5. \A t \in Task : phase'[t] # "sending"
    BY <1>2
  <1> QED BY <1>1, <1>2, <1>3, <1>4, <1>5, TaskAssumption DEF MailSound

\* What a Send() to the server changes.
LEMMA MailSend ==
  ASSUME ClockTypeOK, MailSound, NEW t \in Client \cup {Notifier}, SendToServer(t)
  PROVE  /\ MailSound' /\ running = t /\ phase[t] = "active"
         /\ \A s \in Task \ {t, Server} : phase'[s] = phase[s]
         /\ \/ phase[Server] = "absent" /\ phase' = phase /\ tid' = tid
            \/ /\ phase[Server] = "receiving" /\ phase'[Server] = "active"
               /\ phase'[t] = "replying" /\ tid' = t
            \/ /\ phase[Server] = "active" /\ phase'[Server] = "active"
               /\ phase'[t] = "sending" /\ tid' = tid
  <1>1. running = t /\ phase[t] = "active" /\ running' = None /\ t \in Task /\ t # Server
    BY TaskAssumption DEF SendToServer, K!Ends, K!Meet, K!Deposit, MailSound
  <1>2. CASE phase[Server] = "absent" /\ K!Ends(t, "done") /\ UNCHANGED <<phase, mailbox, tid>>
    BY <1>1, <1>2, MailEnds
  <1>3. CASE K!Meet(t, Server) /\ tid' = t
    <2>1. /\ \A s \in Task \ {t, Server} : phase'[s] = phase[s]
          /\ phase[Server] = "receiving" /\ phase'[Server] = "active" /\ phase'[t] = "replying"
      BY <1>1, <1>3, KernelFacts, TaskAssumption DEF K!Meet
    <2>2. MailSound'
      BY <1>1, <1>3, <2>1, MailKept, TaskAssumption DEF MailSound, K!Meet
    <2> QED BY <1>1, <1>3, <2>1, <2>2
  <1>4. CASE K!Deposit(t, Server) /\ UNCHANGED tid
    <2>1. /\ \A s \in Task \ {t} : phase'[s] = phase[s]
          /\ phase[Server] = "active" /\ phase'[t] = "sending"
          /\ \A s \in Task \ {Server} : mailbox'[s] = mailbox[s]
          /\ mailbox'[Server] = Append(mailbox[Server], t)
      BY <1>1, <1>4, KernelFacts, TaskAssumption DEF K!Deposit, MailSound
    <2> DEFINE n == Len(mailbox[Server])
    <2>2. /\ n \in Nat /\ DOMAIN mailbox[Server] = 1 .. n
          /\ DOMAIN mailbox'[Server] = 1 .. n + 1 /\ mailbox'[Server][n + 1] = t
          /\ \A i \in 1 .. n : mailbox'[Server][i] = mailbox[Server][i]
      BY <1>1, <2>1, KernelFacts
    <2> HIDE DEF n
    <2>3. \A i \in 1 .. n : mailbox[Server][i] # t
      BY <1>1, <2>2 DEF MailSound, Sending
    <2>4. \A s : Sending(s)' <=> Sending(s) \/ s = t
      BY <2>2 DEF Sending
    <2>5. \A i, j \in DOMAIN mailbox'[Server] :
             mailbox'[Server][i] = mailbox'[Server][j] => i = j
      <3> SUFFICES ASSUME NEW i \in 1 .. n + 1, NEW j \in 1 .. n + 1,
                          mailbox'[Server][i] = mailbox'[Server][j]
                   PROVE  i = j
        BY <2>2
      <3> QED BY <2>2, <2>3 DEF MailSound
    <2>6. MailSound'
      BY <1>1, <2>1, <2>4, <2>5, TaskAssumption DEF MailSound
    <2> QED BY <1>1, <1>4, <2>1, <2>6, TaskAssumption
  <1> QED BY <1>2, <1>3, <1>4 DEF SendToServer

\* What a Receive() of the server changes.
LEMMA MailReceive ==
  ASSUME ClockTypeOK, MailSound, NEW pc, ReceiveThen(pc)
  PROVE  /\ MailSound' /\ running = Server /\ phase[Server] = "active"
         /\ \/ /\ phase'[Server] = "receiving" /\ tid' = tid
               /\ \A s \in Task \ {Server} : phase'[s] = phase[s]
            \/ /\ phase'[Server] = "active" /\ tid' \in Client \cup {Notifier}
               /\ phase[tid'] = "sending" /\ phase'[tid'] = "replying"
               /\ \A s \in Task \ {tid'} : phase'[s] = phase[s]
  <1>1. running = Server /\ phase[Server] = "active" /\ running' = None
    BY TaskAssumption DEF ReceiveThen, K!Take, K!Open, K!Ends, MailSound
  <1>2. CASE K!Open(Server) /\ UNCHANGED tid
    <2>1. /\ \A s \in Task \ {Server} : phase'[s] = phase[s]
          /\ phase'[Server] = "receiving"
      BY <1>2, KernelFacts, TaskAssumption DEF K!Open
    <2>2. MailSound'
      BY <1>1, <1>2, <2>1, MailKept, TaskAssumption DEF MailSound, K!Open
    <2> QED BY <1>1, <1>2, <2>1, <2>2
  <1>3. CASE K!Take(Server) /\ tid' = Head(mailbox[Server])
    <2> DEFINE n == Len(mailbox[Server])
    <2>1. /\ n \in Nat \ {0} /\ DOMAIN mailbox[Server] = 1 .. n
          /\ tid' = mailbox[Server][1] /\ mailbox'[Server] = Tail(mailbox[Server])
          /\ \A s \in Task \ {Server} : mailbox'[s] = mailbox[s]
      BY <1>3, KernelFacts, TaskAssumption DEF K!Take
    <2>2. /\ DOMAIN mailbox'[Server] = 1 .. n - 1
          /\ \A i \in 1 .. n - 1 : mailbox'[Server][i] = mailbox[Server][i + 1]
      BY <2>1, KernelFacts
    <2> HIDE DEF n
    <2>3. Sending(tid') /\ tid' \in Task
      <3>1. 1 \in DOMAIN mailbox[Server]
        BY <2>1
      <3>2. mailbox[Server][1] \in Task
        BY <3>1, KernelFacts
      <3> QED BY <2>1, <3>1, <3>2 DEF Sending
    <2>4. phase[tid'] = "sending" /\ tid' # Server
      BY <1>1, <2>3 DEF MailSound
    <2>5. /\ \A s \in Task \ {tid'} : phase'[s] = phase[s]
          /\ phase'[tid'] = "replying"
      BY <1>3, <2>3, KernelFacts DEF K!Take
    <2>6. \A i, j \in 1 .. n : mailbox[Server][i] = mailbox[Server][j] => i = j
      BY <2>1 DEF MailSound
    <2>7. \A i, j \in DOMAIN mailbox'[Server] :
             mailbox'[Server][i] = mailbox'[Server][j] => i = j
      <3> SUFFICES ASSUME NEW i \in 1 .. n - 1, NEW j \in 1 .. n - 1,
                          mailbox'[Server][i] = mailbox'[Server][j]
                   PROVE  i = j
        BY <2>2
      <3>1. i + 1 \in 1 .. n /\ j + 1 \in 1 .. n
        BY <2>1
      <3>2. i + 1 = j + 1
        BY <2>2, <2>6, <3>1
      <3> QED BY <3>2
    <2>8. \A s : Sending(s)' <=> Sending(s) /\ s # tid'
      <3> TAKE s
      <3>1. ASSUME NEW i \in 1 .. n - 1, mailbox'[Server][i] = s
            PROVE  Sending(s) /\ s # tid'
        <4>1. i + 1 \in 1 .. n /\ i + 1 # 1 /\ 1 \in 1 .. n
          BY <2>1
        <4> QED BY <2>1, <2>2, <2>6, <3>1, <4>1 DEF Sending
      <3>2. ASSUME NEW i \in 1 .. n, mailbox[Server][i] = s, s # tid'
            PROVE  Sending(s)'
        <4>1. i - 1 \in 1 .. n - 1 /\ (i - 1) + 1 = i
          BY <2>1, <3>2
        <4> QED BY <2>2, <3>2, <4>1 DEF Sending
      <3> QED BY <2>1, <2>2, <3>1, <3>2 DEF Sending
    <2>9. MailSound'
      BY <1>1, <2>1, <2>3, <2>4, <2>5, <2>7, <2>8, TaskAssumption DEF MailSound
    <2> QED BY <1>1, <2>3, <2>4, <2>5, <2>9, TaskAssumption DEF Task
  <1> QED BY <1>2, <1>3 DEF ReceiveThen
-----------------------------------------------------------------------------
(* What most steps leave as it is.                                         *)

\* No caller comes to wait for an answer, and none stops.
LEMMA PlacesKept ==
  ASSUME ClockTypeOK, PlacesSound, UNCHANGED <<pq, tid, stopper>>,
         \/ server_pc' = server_pc
         \/ {server_pc, server_pc'} \cap {"handle", "last", "farewell"} = {},
         phase'[Server] = phase[Server],
         \A c \in Client : phase'[c] = "replying" <=> phase[c] = "replying",
         phase[Notifier] = "replying" => phase'[Notifier] = "replying",
         \A c \in Client : phase[c] = "replying" => req'[c] = req[c]
  PROVE  PlacesSound'
  <1>1. (\A c : InPq(c)' <=> InPq(c)) /\ \A i \in DOMAIN pq : pq[i].tid \in Client
    BY PqFacts DEF InPq
  <1>2. \A t : Received(t)' <=> Received(t)
    BY DEF Received, Busy
  <1>3. \A c : IsStopper(c)' <=> IsStopper(c)
    BY DEF IsStopper
  <1>4. Busy' <=> Busy
    BY DEF Busy
  <1> QED BY <1>1, <1>2, <1>3, <1>4 DEF PlacesSound

LEMMA ComingType ==
  ASSUME ClockTypeOK
  PROVE  Coming \in Int /\ Pending \in 0 .. 2 /\ Coming = current_time + Pending
  BY ClientFacts DEF Coming, Pending, Stored, Carried

\* The clock and the interrupts on their way may only be less than before.
LEMMA TimeKept ==
  ASSUME ClockTypeOK, TimeSound, UNCHANGED <<current_time, floor>>,
         Stopping => Stopping', Coming' \in Int, Coming' <= Coming
  PROVE  TimeSound'
  <1>1. PICK n \in Int : n = Coming'
    OBVIOUS
  <1>2. ~Stopping => n <= MaxTime + 1
    BY <1>1, ComingType, IntAssumption DEF TimeSound
  <1> QED BY <1>1, <1>2 DEF TimeSound

LEMMA ComingKept ==
  ASSUME ClockTypeOK, UNCHANGED current_time, Stored' <= Stored, Carried' <= Carried
  PROVE  Coming' <= Coming
  <1>1. PICK n \in Int : n = current_time
    BY ClientFacts
  <1> QED BY <1>1 DEF Coming, Pending, Stored, Carried

\* Entry i after the step is entry k before it, whose caller still waits for the same.
LEMMA DelayKept ==
  ASSUME ClockTypeOK, NEW i, NEW k \in DOMAIN pq, DelaySound(k), pq'[i] = pq[k],
         req'[pq[k].tid] = req[pq[k].tid], floor'[pq[k].tid] = floor[pq[k].tid],
         since'[pq[k].tid] = since[pq[k].tid],
         server_pc' = "waking" \/ pq[k].tick_threshold > current_time',
         Coming' \in Int, Coming' <= Coming
  PROVE  DelaySound(i)'
  <1>1. Asked(i)' = Asked(k)
    BY DEF Asked
  <1>2. Known(pq[i].tid, Asked(i), 0)' = Known(pq[k].tid, Asked(k), 0)
    BY <1>1 DEF Known
  <1>3. server_pc' = "waking" \/ pq'[i].tick_threshold > current_time'
    OBVIOUS
  <1>4. ASSUME Asked(k).tag = "Delay"
        PROVE  \/ since'[pq[k].tid] = MaxSince
               \/ since'[pq[k].tid] + 2 + pq[k].tick_threshold - Asked(k).arg >= Coming'
    <2>1. PICK n \in Int : n = Coming'
      OBVIOUS
    <2>2. PICK m \in Int : m = Coming
      BY ComingType
    <2>3. n <= m
      BY <2>1, <2>2
    <2>4. PICK s \in Int, t \in Int, g \in Int :
             s = since[pq[k].tid] /\ t = pq[k].tick_threshold /\ g = Asked(k).arg
      BY PqFacts, ClientFacts DEF Asked
    <2>5. s = MaxSince \/ s + 2 + t - g >= m
      BY <1>4, <2>2, <2>4 DEF DelaySound
    <2>6. s = MaxSince \/ s + 2 + t - g >= n
      BY <2>3, <2>5
    <2> QED BY <2>1, <2>4, <2>6
  <1> QED BY <1>1, <1>2, <1>3, <1>4 DEF DelaySound

LEMMA DelaysKept ==
  ASSUME ClockTypeOK, DelaysSound, UNCHANGED <<pq, current_time>>,
         \A i \in DOMAIN pq : /\ req'[pq[i].tid] = req[pq[i].tid]
                              /\ floor'[pq[i].tid] = floor[pq[i].tid]
                              /\ since'[pq[i].tid] = since[pq[i].tid],
         server_pc' = "waking" \/ server_pc # "waking",
         Coming' \in Int, Coming' <= Coming
  PROVE  DelaysSound'
  <1>1. \A i \in DOMAIN pq : server_pc' = "waking" \/ pq[i].tick_threshold > current_time'
    BY DEF DelaysSound, DelaySound
  <1> QED BY <1>1, DelayKept DEF DelaysSound

-----------------------------------------------------------------------------
(* The steps of the kernel.                                                *)

LEMMA NothingMoves ==
  ASSUME Sound, UNCHANGED <<kernel, tick_stored, notifier, server, clients>>
  PROVE  Sound'
  <1> USE DEF kernel, notifier, server, clients
  <1>1. MailSound' /\ PCsSound'
    BY DEF Sound, MailSound, PCsSound, Sending
  <1>2. PlacesSound'
    BY DEF Sound, PlacesSound, InPq, IsStopper, Received, Busy
  <1>3. Coming' = Coming
    BY DEF Coming, Pending, Stored, Carried
  <1>4. TimeSound'
    BY <1>3 DEF Sound, TimeSound, Stopping
  <1>5. DelaysSound'
    BY <1>3 DEF Sound, DelaysSound, DelaySound, Asked, Known
  <1> QED BY <1>1, <1>2, <1>4, <1>5 DEF Sound

LEMMA RunSound ==
  ASSUME ClockTypeOK, Sound, NEW t \in Task, Run(t)
  PROVE  Sound'
  <1>1. UNCHANGED <<phase, mailbox, tick_stored, notifier, server, clients>>
    BY DEF Run, K!Run
  <1>2. MailSound' /\ PCsSound'
    BY <1>1, MailRun DEF Sound, Run, PCsSound, notifier, server
  <1>3. PlacesSound'
    BY <1>1, PlacesKept DEF Sound, server, clients
  <1>4. Coming' = Coming
    BY <1>1 DEF Coming, Pending, Stored, Carried, notifier, server
  <1>5. TimeSound'
    BY <1>1, <1>4, TimeKept, ComingType DEF Sound, server, clients, Stopping
  <1>6. DelaysSound'
    BY <1>1, <1>4, DelaysKept, ComingType DEF Sound, server, clients
  <1> QED BY <1>2, <1>3, <1>5, <1>6 DEF Sound

LEMMA PreemptSound ==
  ASSUME ClockTypeOK, Sound, Preempt
  PROVE  Sound'
  <1>1. UNCHANGED <<tick_stored, notifier, server, clients>> /\ K!Interrupt({})
    BY DEF Preempt
  <1>2. \A t \in Task : phase'[t] = phase[t]
    BY <1>1 DEF K!Interrupt
  <1>3. MailSound' /\ PCsSound'
    BY <1>1, <1>2, MailInterrupt, TaskAssumption DEF Sound, PCsSound, notifier, server
  <1>4. PlacesSound'
    BY <1>1, <1>2, PlacesKept, TaskAssumption DEF Sound, server, clients
  <1>5. Coming' = Coming
    BY <1>1, <1>2, TaskAssumption DEF Coming, Pending, Stored, Carried, notifier, server
  <1>6. TimeSound'
    BY <1>1, <1>5, TimeKept, ComingType DEF Sound, server, clients, Stopping
  <1>7. DelaysSound'
    BY <1>1, <1>5, DelaysKept, ComingType DEF Sound, server, clients
  <1> QED BY <1>3, <1>4, <1>6, <1>7 DEF Sound

\* One more interrupt is on its way, and every caller has seen one more.
LEMMA TimerSound ==
  ASSUME ClockTypeOK, Sound, TimerInterrupt
  PROVE  Sound'
  <1>1. /\ UNCHANGED <<notifier, server, req, floor>>
        /\ current_time < MaxTime \/ Stopping
    BY DEF TimerInterrupt
  <1>2. /\ \A t \in Task \ {Notifier} : phase'[t] = phase[t]
        /\ \/ phase'[Notifier] = phase[Notifier]
           \/ phase[Notifier] = "sleeping" /\ phase'[Notifier] = "active"
    BY TaskAssumption DEF TimerInterrupt, K!Interrupt
  <1>3. MailSound'
    BY MailInterrupt DEF Sound, TimerInterrupt
  <1>4. PCsSound'
    BY <1>1, <1>2, TaskAssumption DEF Sound, PCsSound, notifier, server
  <1>5. PlacesSound'
    BY <1>1, <1>2, PlacesKept, TaskAssumption DEF Sound, server
  <1>6. PICK n \in Int : n = current_time /\ n = current_time'
    BY <1>1, ClientFacts DEF server
  <1>7. PICK s \in {0, 1}, k \in {0, 1} : s = Stored /\ k = Carried
    BY DEF Stored, Carried
  <1>8. PICK s1 \in {0, 1}, k1 \in {0, 1} : s1 = Stored' /\ k1 = Carried'
    BY DEF Stored, Carried
  <1>9. s1 + k1 <= s + k + 1
    <2>1. CASE phase[Notifier] = "sleeping"
      <3>1. s1 = s
        BY <1>7, <1>8, <2>1 DEF TimerInterrupt, Stored
      <3> QED BY <3>1
    <2>2. CASE phase[Notifier] # "sleeping"
      <3>1. k1 = k
        BY <1>1, <1>2, <1>7, <1>8, <2>2 DEF Carried, notifier
      <3> QED BY <3>1
    <2> QED BY <2>1, <2>2
  <1>10. Coming = n + (s + k) /\ Coming' = n + (s1 + k1)
    BY <1>6, <1>7, <1>8 DEF Coming, Pending
  <1>11. PICK m \in Int, m1 \in n .. n + 2 : m = Coming /\ m1 = Coming' /\ m1 <= m + 1
    BY <1>9, <1>10
  <1>12. TimeSound'
    <2>1. n < MaxTime \/ Stopping
      BY <1>1, <1>6
    <2>2. ~Stopping => m1 <= MaxTime + 1
      BY <2>1, IntAssumption
    <2> QED BY <1>1, <1>11, <2>2 DEF Sound, TimeSound, Stopping, server
  <1>13. \A c \in Client : since'[c] = IF since[c] < MaxSince THEN since[c] + 1 ELSE since[c]
    BY DEF TimerInterrupt
  <1>14. DelaysSound'
    <2> SUFFICES ASSUME NEW i \in DOMAIN pq PROVE DelaySound(i)'
      BY <1>1 DEF DelaysSound, server
    <2>1. DelaySound(i)
      BY DEF Sound, DelaysSound
    <2>2. /\ pq[i].tid \in Client /\ pq[i].tick_threshold \in Int
          /\ current_time \in Int
          /\ since[pq[i].tid] \in 0 .. MaxSince /\ Asked(i).arg \in Int
      BY PqFacts, ClientFacts DEF Asked
    <2>3. Asked(i)' = Asked(i) /\ Known(pq[i].tid, Asked(i), 0)' = Known(pq[i].tid, Asked(i), 0)
      BY <1>1 DEF Asked, Known, server
    <2>4. ASSUME Asked(i).tag = "Delay"
          PROVE  \/ since'[pq[i].tid] = MaxSince
                 \/ since'[pq[i].tid] + 2 + pq[i].tick_threshold - Asked(i).arg >= Coming'
      <3>1. \/ since[pq[i].tid] = MaxSince
            \/ since[pq[i].tid] + 2 + pq[i].tick_threshold - Asked(i).arg >= Coming
        BY <2>1, <2>4 DEF DelaySound
      <3> QED BY <1>11, <1>13, <2>2, <3>1, IntAssumption
    <2> QED BY <1>1, <2>1, <2>3, <2>4 DEF DelaySound, server
  <1> QED BY <1>3, <1>4, <1>5, <1>12, <1>14 DEF Sound

-----------------------------------------------------------------------------
(* The notifier and the callers.                                           *)

\* A message that the server was waiting for is a caller received; one that waits is not.
LEMMA SendPlaces ==
  ASSUME ClockTypeOK, Sound, NEW t \in Client \cup {Notifier}, SendToServer(t),
         UNCHANGED <<server_pc, stopper, pq>>,
         \A c \in Client : phase[c] = "replying" => req'[c] = req[c]
  PROVE  PlacesSound'
  <1>1. /\ running = t /\ phase[t] = "active"
        /\ \A s \in Task \ {t, Server} : phase'[s] = phase[s]
        /\ t \in Task /\ t # Server /\ Server \in Task /\ Notifier \in Task
    BY MailSend, TaskAssumption DEF Sound
  <1>2. CASE phase[Server] = "absent" /\ phase' = phase /\ tid' = tid
    BY <1>2, PlacesKept DEF Sound
  <1>3. CASE /\ phase[Server] = "active" /\ phase'[Server] = "active"
             /\ phase'[t] = "sending" /\ tid' = tid
    <2>1. \A s \in Task \ {t} : phase'[s] = phase[s]
      BY <1>1, <1>3
    <2> QED BY <1>1, <1>3, <2>1, PlacesKept, TaskAssumption DEF Sound
  <1>4. CASE /\ phase[Server] = "receiving" /\ phase'[Server] = "active"
             /\ phase'[t] = "replying" /\ tid' = t
    <2>1. \A s \in Task \ {t, Server} : phase'[s] = phase[s]
      BY <1>1
    <2>2. server_pc \in {"handle", "last"} /\ server_pc' = server_pc
      BY <1>4 DEF Sound, PCsSound
    <2>3. ~InPq(t) /\ (\A c : InPq(c)' <=> InPq(c)) /\ ~IsStopper(t)
      BY <1>1, TaskAssumption DEF Sound, PlacesSound, InPq, IsStopper
    <2>4. \A i \in DOMAIN pq : pq[i].tid \in Client /\ pq[i].tid # t /\ phase'[pq[i].tid] = "replying"
      BY <1>1, <2>1, PqFacts, TaskAssumption DEF Sound, PlacesSound
    <2>5. /\ \A s : Received(s)' <=> s = t
          /\ \A s : IsStopper(s)' <=> IsStopper(s)
          /\ \A s : ~Received(s)
          /\ Busy'
      BY <1>4, <2>2 DEF Received, Busy, IsStopper
    <2>6. server_pc = "last" =>
             /\ stopper \in Client /\ phase'[stopper] = "replying" /\ ~InPq(stopper)
             /\ stopper # t /\ req'[stopper].tag = "Shutdown"
      BY <1>1, <2>1, TaskAssumption DEF Sound, PlacesSound
    <2>7. \A c \in Client : phase'[c] = "replying" => c = t \/ InPq(c) \/ IsStopper(c)
      BY <1>4, <2>1, <2>5, TaskAssumption DEF Sound, PlacesSound
    <2> QED BY <1>4, <2>2, <2>3, <2>4, <2>5, <2>6, <2>7 DEF Sound, PlacesSound
  <1> QED BY <1>2, <1>3, <1>4, MailSend DEF Sound

LEMMA CallSound ==
  ASSUME ClockTypeOK, Sound, NEW c \in Client, NEW r \in Requests, Call(c, r)
  PROVE  Sound'
  <1>1. /\ SendToServer(c) /\ running = c /\ phase[c] = "active"
        /\ UNCHANGED <<tick_stored, notifier, server_pc, stopper, current_time, pq, floor>>
        /\ \A d \in Client \ {c} : req'[d] = req[d] /\ since'[d] = since[d]
        /\ c \in Task /\ c # Server /\ c # Notifier
    BY TaskAssumption DEF Call, Sound, MailSound, ClockTypeOK
  <1>2. /\ MailSound' /\ \A s \in Task \ {c, Server} : phase'[s] = phase[s]
        /\ \/ phase'[Server] = phase[Server]
           \/ phase[Server] = "receiving" /\ phase'[Server] = "active"
    BY <1>1, MailSend DEF Sound
  <1>3. PlacesSound'
    BY <1>1, SendPlaces
  <1>4. PCsSound'
    BY <1>1, <1>2, TaskAssumption DEF Sound, PCsSound, notifier
  <1>5. Coming' = Coming
    BY <1>1, <1>2, TaskAssumption DEF Coming, Pending, Stored, Carried, notifier
  <1>6. TimeSound'
    BY <1>1, <1>5, TimeKept, ComingType DEF Sound, Stopping
  <1>7. \A i \in DOMAIN pq : pq[i].tid \in Client /\ pq[i].tid # c
    BY <1>1, PqFacts DEF Sound, PlacesSound
  <1>8. DelaysSound'
    BY <1>1, <1>5, <1>7, DelaysKept, ComingType DEF Sound
  <1> QED BY <1>2, <1>3, <1>6, <1>8, <1>4 DEF Sound

LEMMA NotifierSound ==
  ASSUME ClockTypeOK, Sound, NotifierStep
  PROVE  Sound'
  <1>1. /\ running = Notifier /\ phase[Notifier] = "active"
        /\ UNCHANGED <<server_pc, stopper, current_time, pq, clients>>
        /\ Server \in Task /\ Notifier \in Task /\ Server # Notifier /\ Client \subseteq Task
    BY TaskAssumption DEF NotifierStep, AwaitTick, SendTick, NotifierExit, Sound, MailSound,
                          server, clients
  <1>2. ASSUME Coming' <= Coming, Coming' \in Int
        PROVE  TimeSound' /\ DelaysSound'
    BY <1>1, <1>2, TimeKept, DelaysKept DEF Sound, Stopping, clients
  <1>3. PICK n \in Int : n = current_time
    BY ClientFacts
  <1>4. CASE AwaitTick
    <2>1. /\ \A t \in Task \ {Notifier} : phase'[t] = phase[t]
          /\ tid' = tid /\ notifier_pc' = "send" /\ notifier_pc = "await"
          /\ \/ tick_stored /\ phase' = phase
             \/ ~tick_stored /\ phase'[Notifier] = "sleeping"
      BY <1>1, <1>4, KernelFacts DEF AwaitTick, AwaitEvent, K!Sleep, server
    <2>2. MailSound'
      BY <1>4, MailEnds, MailSleep, TaskAssumption DEF Sound, AwaitTick, AwaitEvent
    <2>3. PCsSound'
      BY <1>1, <2>1, TaskAssumption DEF Sound, PCsSound
    <2>4. PlacesSound'
      BY <1>1, <2>1, PlacesKept, TaskAssumption DEF Sound, clients
    <2>5. tick_stored' = FALSE
      BY <1>4 DEF AwaitTick, AwaitEvent
    <2>6. Coming' \in Int /\ Coming' <= Coming
      BY <1>1, <1>3, <2>1, <2>5 DEF Coming, Pending, Stored, Carried
    <2> QED BY <1>2, <2>2, <2>3, <2>4, <2>6 DEF Sound
  <1>5. CASE SendTick
    <2>1. SendToServer(Notifier) /\ notifier_pc = "send" /\ notifier_pc' = "await"
          /\ tick_stored' = tick_stored
      BY <1>5 DEF SendTick
    <2>2. /\ MailSound' /\ \A s \in Task \ {Notifier, Server} : phase'[s] = phase[s]
          /\ \/ phase[Server] = "absent" /\ phase' = phase
             \/ phase[Server] = "receiving" /\ phase'[Server] = "active" /\ phase'[Notifier] = "replying"
             \/ phase[Server] = "active" /\ phase'[Server] = "active" /\ phase'[Notifier] = "sending"
      BY <2>1, MailSend DEF Sound
    <2>3. PCsSound'
      BY <1>1, <2>1, <2>2, TaskAssumption DEF Sound, PCsSound
    <2>4. PlacesSound'
      BY <1>1, <2>1, SendPlaces DEF clients
    <2>5. Coming' \in Int /\ Coming' <= Coming
      BY <1>1, <1>3, <2>1, <2>2 DEF Coming, Pending, Stored, Carried
    <2> QED BY <1>2, <2>2, <2>3, <2>4, <2>5 DEF Sound
  <1>6. CASE NotifierExit
    <2>1. /\ UNCHANGED <<tick_stored, notifier, server, clients>> /\ notifier_pc = "await"
          /\ MailSound' /\ \A t \in Task : phase'[t] = IF t = Notifier THEN "absent" ELSE phase[t]
      BY <1>6, MailLeaveNotifier DEF NotifierExit, Sound
    <2>2. PCsSound'
      BY <1>1, <2>1, TaskAssumption DEF Sound, PCsSound, notifier, server
    <2>3. PlacesSound'
      BY <1>1, <2>1, PlacesKept, TaskAssumption DEF Sound, server, clients
    <2>4. Coming' \in Int /\ Coming' <= Coming
      BY <1>1, <1>3, <2>1 DEF Coming, Pending, Stored, Carried, notifier
    <2> QED BY <1>2, <2>1, <2>2, <2>3, <2>4 DEF Sound
  <1> QED BY <1>4, <1>5, <1>6 DEF NotifierStep

-----------------------------------------------------------------------------
(* The head of pq.                                                         *)

LEMMA LeastOf ==
  ASSUME NEW T \in SUBSET Nat, T # {}
  PROVE  \E m \in T : \A n \in T : m <= n
  <1> DEFINE R == OpToRel(<, Nat)
  <1>1. \A a, b \in Nat : <<a, b>> \in R <=> a < b
    BY DEF OpToRel
  <1>2. IsWellFoundedOn(R, Nat)
    BY NatLessThanWellFounded
  <1> HIDE DEF R
  <1>3. PICK m \in T : \A n \in T : ~(<<n, m>> \in R)
    BY <1>2, WFMin
  <1>4. m \in Nat /\ \A n \in T : n \in Nat /\ ~(n < m)
    BY <1>1, <1>3
  <1> QED BY <1>4

\* Deadlines are positive, so none of them overflows when it is negated.
LEMMA PriorityIs ==
  ASSUME NEW e, e.tick_threshold \in Int32, 0 < e.tick_threshold
  PROVE  Priority(e) = -e.tick_threshold
  <1>1. PICK n \in Int : n = e.tick_threshold
    BY IntAssumption
  <1>2. -n \in Int32
    BY <1>1, IntAssumption DEF Int32
  <1> QED BY <1>1, <1>2, WrapIs DEF Priority

\* The head is no later than any entry: the least deadline, then the least place.
LEMMA HeadIsEarliest ==
  ASSUME ClockTypeOK, DelaysSound, NEW k \in DOMAIN pq
  PROVE  \E i \in DOMAIN pq : IsFirst(i, pq) /\ pq[i].tick_threshold <= pq[k].tick_threshold
  <1> DEFINE D(i) == pq[i].tick_threshold
             T == {D(i) : i \in DOMAIN pq}
  <1>1. \A i \in DOMAIN pq : /\ D(i) \in Int32 /\ D(i) \in Int /\ 0 < D(i) /\ D(i) \in Nat
                             /\ i \in Nat
    BY PqFacts DEF DelaysSound, DelaySound
  <1>2. \A i \in DOMAIN pq : Priority(pq[i]) = -D(i)
    BY <1>1, PriorityIs
  <1>3. T \in SUBSET Nat /\ T # {}
    BY <1>1
  <1> HIDE DEF T
  <1>4. PICK m \in T : \A n \in T : m <= n
    BY <1>3, LeastOf
  <1> USE DEF T
  <1> DEFINE I == {i \in DOMAIN pq : D(i) = m}
  <1>5. PICK i \in I : \A j \in I : i <= j
    <2>1. I \in SUBSET Nat /\ I # {}
      BY <1>1, <1>4
    <2> QED BY <2>1, LeastOf
  <1> HIDE DEF D
  <1>6. ASSUME NEW j \in DOMAIN pq
        PROVE  \/ Priority(pq[j]) < Priority(pq[i])
               \/ Priority(pq[j]) = Priority(pq[i]) /\ i <= j
    BY <1>1, <1>2, <1>4, <1>5, <1>6
  <1>7. D(i) <= D(k)
    BY <1>4, <1>5
  <1> QED BY <1>5, <1>6, <1>7 DEF IsFirst, D

LEMMA NobodyDueMeans ==
  ASSUME ClockTypeOK, DelaysSound, NobodyDue, NEW k \in DOMAIN pq
  PROVE  pq[k].tick_threshold > current_time
  <1>1. PICK i \in DOMAIN pq :
           IsFirst(i, pq) /\ pq[i].tick_threshold <= pq[k].tick_threshold
    BY HeadIsEarliest
  <1>2. ~(pq[i].tick_threshold <= current_time)
    BY <1>1 DEF NobodyDue, IsDue, IsExpired
  <1> QED BY <1>1, <1>2, PqFacts, ClientFacts

-----------------------------------------------------------------------------
(* The steps of the server that answer nobody.                             *)

LEMMA ServerRuns ==
  ASSUME ClockTypeOK, Sound, running = Server
  PROVE  /\ phase[Server] = "active" /\ Busy
         /\ Server \in Task /\ Notifier \in Task /\ Server # Notifier /\ Client \subseteq Task
         /\ Server \notin Client /\ Notifier \notin Client
  BY TaskAssumption DEF Sound, MailSound, Busy

LEMMA CreateSound ==
  ASSUME ClockTypeOK, Sound, CreateNotifier
  PROVE  Sound'
  <1>1. /\ running = Server /\ server_pc = "create" /\ server_pc' = "register"
        /\ UNCHANGED <<tick_stored, notifier, tid, stopper, current_time, pq, clients>>
        /\ K!Spawn(Server, Notifier)
    BY DEF CreateNotifier, At
  <1>2. /\ phase[Server] = "active"
        /\ Server \in Task /\ Notifier \in Task /\ Server # Notifier /\ Client \subseteq Task
        /\ Notifier \notin Client
    BY <1>1, ServerRuns
  <1>3. /\ \A t \in Task \ {Notifier} : phase'[t] = phase[t]
        /\ phase'[Notifier] = "active" /\ phase[Notifier] = "absent"
        /\ notifier_pc = "await" /\ notifier_pc' = "await"
    BY <1>1, <1>2, KernelFacts DEF K!Spawn, K!Ends, Sound, PCsSound, notifier
  <1>4. MailSound'
    BY <1>1, MailSpawn DEF Sound
  <1>5. PCsSound'
    BY <1>1, <1>2, <1>3 DEF Sound, PCsSound
  <1>6. PlacesSound'
    BY <1>1, <1>2, <1>3, PlacesKept DEF Sound, clients
  <1>7. Coming' = Coming
    BY <1>1, <1>3 DEF Coming, Pending, Stored, Carried
  <1>8. TimeSound'
    BY <1>1, <1>7, TimeKept, ComingType DEF Sound, Stopping, clients
  <1>9. DelaysSound'
    BY <1>1, <1>7, DelaysKept, ComingType DEF Sound, clients
  <1> QED BY <1>4, <1>5, <1>6, <1>8, <1>9 DEF Sound

LEMMA RegisterSound ==
  ASSUME ClockTypeOK, Sound, Register
  PROVE  Sound'
  <1>1. /\ running = Server /\ server_pc = "register" /\ server_pc' = "receive"
        /\ UNCHANGED <<phase, mailbox, tick_stored, notifier, tid, stopper, current_time,
                       pq, clients>>
        /\ K!Ends(Server, "done")
    BY DEF Register, At
  <1>2. phase[Server] = "active" /\ Server \in Task
    BY <1>1, ServerRuns
  <1>3. MailSound'
    BY <1>1, <1>2, MailEnds DEF Sound
  <1>4. PCsSound'
    BY <1>1, <1>2 DEF Sound, PCsSound, notifier
  <1>5. PlacesSound'
    BY <1>1, PlacesKept DEF Sound, clients
  <1>6. Coming' = Coming
    BY <1>1 DEF Coming, Pending, Stored, Carried, notifier
  <1>7. TimeSound'
    BY <1>1, <1>6, TimeKept, ComingType DEF Sound, Stopping, clients
  <1>8. DelaysSound'
    BY <1>1, <1>6, DelaysKept, ComingType DEF Sound, clients
  <1> QED BY <1>3, <1>4, <1>5, <1>7, <1>8 DEF Sound

\* When it waits for the next request, no deadline has passed.
LEMMA ReceiveSound ==
  ASSUME ClockTypeOK, Sound, Receive
  PROVE  Sound'
  <1>1. /\ running = Server /\ server_pc \in {"receive", "waking"} /\ server_pc' = "handle"
        /\ UNCHANGED <<tick_stored, notifier, stopper, current_time, pq, clients>>
        /\ ReceiveThen("handle") /\ (server_pc = "waking" => NobodyDue)
    BY DEF Receive, At, ReceiveThen
  <1>2. /\ phase[Server] = "active"
        /\ Server \in Task /\ Notifier \in Task /\ Server # Notifier /\ Client \subseteq Task
        /\ Server \notin Client /\ Notifier \notin Client
    BY <1>1, ServerRuns
  <1>3. /\ MailSound'
        /\ \/ /\ phase'[Server] = "receiving" /\ tid' = tid
              /\ \A s \in Task \ {Server} : phase'[s] = phase[s]
           \/ /\ phase'[Server] = "active" /\ tid' \in Client \cup {Notifier}
              /\ phase[tid'] = "sending" /\ phase'[tid'] = "replying"
              /\ \A s \in Task \ {tid'} : phase'[s] = phase[s]
    BY <1>1, MailReceive DEF Sound
  <1>4. PCsSound'
    BY <1>1, <1>2, <1>3 DEF Sound, PCsSound, notifier
  <1>5. PlacesSound'
    <2>1. /\ \A c : InPq(c)' <=> InPq(c)
          /\ \A t : ~Received(t) /\ ~IsStopper(t) /\ ~IsStopper(t)'
      BY <1>1 DEF InPq, Received, IsStopper
    <2>2. \A c \in Client : phase[c] = "replying" => InPq(c)
      BY <1>2, <2>1 DEF Sound, PlacesSound
    <2>3. \A i \in DOMAIN pq : pq[i].tid \in Client /\ phase[pq[i].tid] = "replying"
      BY PqFacts DEF Sound, PlacesSound
    <2>4. \A i \in DOMAIN pq : phase'[pq[i].tid] = "replying"
      BY <1>2, <1>3, <2>3
    <2>5. CASE /\ phase'[Server] = "receiving" /\ tid' = tid
               /\ \A s \in Task \ {Server} : phase'[s] = phase[s]
      BY <1>1, <1>2, <2>1, <2>2, <2>4, <2>5 DEF Sound, PlacesSound, Busy
    <2>6. CASE /\ phase'[Server] = "active" /\ tid' \in Client \cup {Notifier}
               /\ phase[tid'] = "sending" /\ phase'[tid'] = "replying"
               /\ \A s \in Task \ {tid'} : phase'[s] = phase[s]
      <3>1. \A s : Received(s)' <=> s = tid'
        BY <1>1, <2>6 DEF Received, Busy
      <3>2. ~InPq(tid')
        BY <2>3, <2>6 DEF InPq
      <3>3. \A c \in Client : phase'[c] = "replying" => InPq(c)' \/ Received(c)'
        BY <1>2, <2>1, <2>2, <2>6, <3>1
      <3> QED BY <1>1, <2>1, <2>4, <2>6, <3>1, <3>2, <3>3 DEF Sound, PlacesSound, InPq
    <2> QED BY <1>3, <2>5, <2>6
  <1>6. Coming' = Coming
    <2>1. Carried' = Carried
      <3>1. CASE phase'[Notifier] = phase[Notifier]
        BY <1>1, <3>1 DEF Carried, notifier
      <3>2. CASE phase[Notifier] = "sending" /\ phase'[Notifier] = "replying"
        BY <1>1, <3>2 DEF Carried, notifier
      <3> QED BY <1>2, <1>3, <3>1, <3>2
    <2> QED BY <1>1, <2>1 DEF Coming, Pending, Stored
  <1>7. TimeSound'
    BY <1>1, <1>6, TimeKept, ComingType DEF Sound, Stopping, clients
  <1>8. DelaysSound'
    <2>1. \A i \in DOMAIN pq : pq[i].tick_threshold > current_time
      BY <1>1, NobodyDueMeans DEF Sound, DelaysSound, DelaySound
    <2> QED BY <1>1, <1>6, <2>1, DelayKept, ComingType DEF Sound, DelaysSound, clients
  <1> QED BY <1>3, <1>4, <1>5, <1>7, <1>8 DEF Sound

\* The caller of Shutdown() is kept, and at most the notifier may come after it.
LEMMA ShutdownSound ==
  ASSUME ClockTypeOK, Sound, HandleShutdown
  PROVE  Sound'
  <1>1. /\ running = Server /\ server_pc = "handle" /\ server_pc' = "last"
        /\ UNCHANGED <<tick_stored, notifier, current_time, pq, clients>>
        /\ ReceiveThen("last") /\ stopper' = tid
        /\ tid \in Client /\ req[tid].tag = "Shutdown"
    BY DEF HandleShutdown, Asks, At, ReceiveThen
  <1>2. /\ phase[Server] = "active" /\ Busy
        /\ Server \in Task /\ Notifier \in Task /\ Server # Notifier /\ Client \subseteq Task
        /\ Server \notin Client /\ Notifier \notin Client
    BY <1>1, ServerRuns
  <1>3. /\ MailSound'
        /\ \/ /\ phase'[Server] = "receiving" /\ tid' = tid
              /\ \A s \in Task \ {Server} : phase'[s] = phase[s]
           \/ /\ phase'[Server] = "active" /\ tid' \in Client \cup {Notifier}
              /\ phase[tid'] = "sending" /\ phase'[tid'] = "replying"
              /\ \A s \in Task \ {tid'} : phase'[s] = phase[s]
    BY <1>1, MailReceive DEF Sound
  <1>4. PCsSound'
    BY <1>1, <1>2, <1>3 DEF Sound, PCsSound, notifier
  <1>5. PlacesSound'
    <2>1. /\ \A c : InPq(c)' <=> InPq(c)
          /\ \A t : ~IsStopper(t) /\ (IsStopper(t)' <=> t = tid)
          /\ \A t : Received(t) <=> t = tid
      BY <1>1, <1>2 DEF InPq, Received, IsStopper
    <2>2. phase[tid] = "replying" /\ ~InPq(tid)
      BY <1>1, <1>2 DEF Sound, PlacesSound
    <2>3. \A c \in Client : phase[c] = "replying" => InPq(c) \/ c = tid
      BY <1>2, <2>1 DEF Sound, PlacesSound
    <2>4. \A i \in DOMAIN pq : pq[i].tid \in Client /\ phase[pq[i].tid] = "replying"
      BY PqFacts DEF Sound, PlacesSound
    <2>5. phase'[tid] = "replying" /\ \A i \in DOMAIN pq : phase'[pq[i].tid] = "replying"
      BY <1>1, <1>2, <1>3, <2>2, <2>4
    <2>6. CASE /\ phase'[Server] = "receiving" /\ tid' = tid
               /\ \A s \in Task \ {Server} : phase'[s] = phase[s]
      <3>1. \A t : ~Received(t)'
        BY <2>6 DEF Received, Busy
      <3> QED BY <1>1, <1>2, <2>1, <2>2, <2>3, <2>5, <2>6, <3>1 DEF Sound, PlacesSound, Busy, clients
    <2>7. CASE /\ phase'[Server] = "active" /\ tid' \in Client \cup {Notifier}
               /\ phase[tid'] = "sending" /\ phase'[tid'] = "replying"
               /\ \A s \in Task \ {tid'} : phase'[s] = phase[s]
      <3>1. \A s : Received(s)' <=> s = tid'
        BY <1>1, <2>7 DEF Received, Busy
      <3>2. ~InPq(tid') /\ tid' # tid
        BY <2>2, <2>4, <2>7 DEF InPq
      <3>3. \A c \in Client : phase'[c] = "replying" => InPq(c)' \/ Received(c)' \/ IsStopper(c)'
        BY <1>2, <2>1, <2>3, <2>7, <3>1
      <3> QED BY <1>1, <2>1, <2>2, <2>5, <2>7, <3>1, <3>2, <3>3
              DEF Sound, PlacesSound, InPq, clients
    <2> QED BY <1>3, <2>6, <2>7
  <1>6. Coming' = Coming
    <2>1. Carried' = Carried
      <3>1. CASE phase'[Notifier] = phase[Notifier]
        BY <1>1, <3>1 DEF Carried, notifier
      <3>2. CASE phase[Notifier] = "sending" /\ phase'[Notifier] = "replying"
        BY <1>1, <3>2 DEF Carried, notifier
      <3> QED BY <1>2, <1>3, <3>1, <3>2
    <2> QED BY <1>1, <2>1 DEF Coming, Pending, Stored
  <1>7. TimeSound'
    BY <1>1, <1>6, TimeKept, ComingType DEF Sound, Stopping, clients
  <1>8. DelaysSound'
    BY <1>1, <1>6, DelaysKept, ComingType DEF Sound, clients
  <1> QED BY <1>3, <1>4, <1>5, <1>7, <1>8 DEF Sound

-----------------------------------------------------------------------------
(* The answers.                                                            *)

\* What an answer to the notifier changes: it is known to wait for one.
LEMMA TellMeans ==
  ASSUME ClockTypeOK, Sound, running = Server, server_pc \in {"handle", "last"},
         tid = Notifier, Reply(Notifier)
  PROVE  /\ MailSound' /\ phase[Notifier] = "replying" /\ phase'[Notifier] = "active"
         /\ \A t \in Task \ {Notifier} : phase'[t] = phase[t]
         /\ notifier_pc = "await"
  <1>1. phase[Notifier] = "replying"
    BY ServerRuns DEF Sound, PlacesSound
  <1>2. K!Answer(Server, Notifier)
    BY <1>1 DEF Reply
  <1>3. phase'[Notifier] = "active" /\ \A t \in Task \ {Notifier} : phase'[t] = phase[t]
    BY <1>2, KernelFacts, TaskAssumption DEF K!Answer
  <1> QED BY <1>1, <1>3, MailReply DEF Sound, PCsSound

\* The tick that arrives was on its way: the clock is within its bound.
LEMMA TickSound ==
  ASSUME MaxTime + 1 <= INT_MAX, ClockTypeOK, Sound, HandleTick
  PROVE  Sound'
  <1>1. /\ running = Server /\ server_pc = "handle" /\ server_pc' = "waking" /\ tid = Notifier
        /\ UNCHANGED <<tick_stored, notifier_pc, tid, stopper, pq, clients>>
        /\ Reply(Notifier) /\ current_time' = Wrap(current_time + 1)
    BY DEF HandleTick, At, TellNotifier
  <1>2. /\ phase[Server] = "active" /\ Busy
        /\ Server \in Task /\ Notifier \in Task /\ Server # Notifier /\ Client \subseteq Task
        /\ Server \notin Client /\ Notifier \notin Client
    BY <1>1, ServerRuns
  <1>3. /\ MailSound' /\ phase[Notifier] = "replying" /\ phase'[Notifier] = "active"
        /\ \A t \in Task \ {Notifier} : phase'[t] = phase[t]
        /\ notifier_pc = "await"
    BY <1>1, TellMeans
  <1>4. PICK n \in Int, s \in 0 .. 1 : n = current_time /\ s = Stored /\ s = Stored'
    BY <1>1, ClientFacts DEF Stored
  <1>5. Carried = 1 /\ Carried' = 0
    BY <1>1, <1>3 DEF Carried
  <1>6. Coming = n + s + 1 /\ n + s + 1 <= MaxTime + 1 /\ 0 <= n
    BY <1>1, <1>4, <1>5 DEF Coming, Pending, Sound, TimeSound, Stopping
  <1>7. n \in Int /\ s \in 0 .. 1 /\ n + s + 1 <= MaxTime + 1 /\ 0 <= n
    BY <1>4, <1>6
  <1>8. current_time' = n + 1
    <2>1. n + 1 \in Int32
      BY <1>7, IntAssumption DEF Int32
    <2> QED BY <1>1, <1>4, <2>1, WrapIs
  <1>9. Coming' = n + s + 1
    BY <1>4, <1>5, <1>8 DEF Coming, Pending
  <1>10. PCsSound'
    BY <1>1, <1>2, <1>3 DEF Sound, PCsSound
  <1>11. PlacesSound'
    <2>1. /\ \A c : InPq(c)' <=> InPq(c)
          /\ \A t : ~Received(t)' /\ ~IsStopper(t) /\ ~IsStopper(t)'
          /\ \A c \in Client : ~Received(c)
      BY <1>1, <1>2 DEF InPq, Received, IsStopper
    <2>2. \A i \in DOMAIN pq : phase'[pq[i].tid] = "replying"
      BY <1>2, <1>3, PqFacts DEF Sound, PlacesSound
    <2> QED BY <1>1, <1>2, <1>3, <2>1, <2>2 DEF Sound, PlacesSound
  <1>12. TimeSound'
    <2>1. \A c \in Client : floor'[c] <= n + 1
      BY <1>1, <1>4, ClientFacts DEF Sound, TimeSound, clients
    <2>2. 0 <= n + 1 /\ n + 1 <= MaxTime + 1 /\ n + s + 1 <= MaxTime + 1
      BY <1>7, IntAssumption
    <2> QED BY <1>1, <1>8, <1>9, <2>1, <2>2 DEF TimeSound
  <1>13. DelaysSound'
    <2>1. Coming' \in Int /\ Coming' <= Coming
      <3>1. PICK m \in Int : m = n + s + 1
        BY <1>7
      <3> QED BY <1>6, <1>9, <3>1
    <2> QED BY <1>1, <2>1, DelayKept DEF Sound, DelaysSound, clients
  <1> QED BY <1>3, <1>10, <1>11, <1>12, <1>13 DEF Sound

\* The last tick is not counted.
LEMMA LastSound ==
  ASSUME ClockTypeOK, Sound, HandleLast, up' = TRUE
  PROVE  Sound'
  <1>1. /\ running = Server /\ server_pc = "last" /\ server_pc' = "farewell" /\ tid = Notifier
        /\ UNCHANGED <<tick_stored, notifier_pc, tid, stopper, current_time, pq, clients>>
        /\ Reply(Notifier)
    BY DEF HandleLast, At, TellNotifier, Panic
  <1>2. /\ phase[Server] = "active" /\ Busy
        /\ Server \in Task /\ Notifier \in Task /\ Server # Notifier /\ Client \subseteq Task
        /\ Server \notin Client /\ Notifier \notin Client
    BY <1>1, ServerRuns
  <1>3. /\ MailSound' /\ phase[Notifier] = "replying" /\ phase'[Notifier] = "active"
        /\ \A t \in Task \ {Notifier} : phase'[t] = phase[t]
        /\ notifier_pc = "await"
    BY <1>1, TellMeans
  <1>4. PCsSound'
    BY <1>1, <1>2, <1>3 DEF Sound, PCsSound
  <1>5. PlacesSound'
    <2>1. /\ \A c : (InPq(c)' <=> InPq(c)) /\ (IsStopper(c)' <=> IsStopper(c))
          /\ \A t : ~Received(t)'
          /\ \A c \in Client : ~Received(c)
      BY <1>1, <1>2 DEF InPq, Received, IsStopper
    <2>2. \A i \in DOMAIN pq : phase'[pq[i].tid] = "replying"
      BY <1>2, <1>3, PqFacts DEF Sound, PlacesSound
    <2>3. stopper \in Client /\ phase'[stopper] = "replying" /\ ~InPq(stopper)
      BY <1>1, <1>2, <1>3 DEF Sound, PlacesSound
    <2> QED BY <1>1, <1>2, <1>3, <2>1, <2>2, <2>3 DEF Sound, PlacesSound, clients
  <1>6. Coming' \in Int /\ Coming' <= Coming
    <2>1. PICK n \in Int, s \in 0 .. 1 : n = current_time /\ s = Stored /\ s = Stored'
      BY <1>1, ClientFacts DEF Stored
    <2>2. Carried = 1 /\ Carried' = 0
      BY <1>1, <1>3 DEF Carried
    <2>3. Coming = n + s + 1 /\ Coming' = n + s
      BY <1>1, <2>1, <2>2 DEF Coming, Pending
    <2>4. n \in Int /\ s \in Int
      BY <2>1
    <2>5. n + s \in Int /\ n + s + 1 \in Int /\ n + s <= n + s + 1
      BY <2>4
    <2> QED BY <2>3, <2>5
  <1>7. TimeSound'
    BY <1>1, <1>6, TimeKept DEF Sound, Stopping, clients
  <1>8. DelaysSound'
    BY <1>1, <1>6, DelaysKept DEF Sound, clients
  <1> QED BY <1>3, <1>4, <1>5, <1>7, <1>8 DEF Sound

\* Client c is no more in pq, and all others are as before.
PqDrops(c) ==
    /\ \A j \in DOMAIN pq' : \E k \in DOMAIN pq : pq'[j] = pq[k] /\ pq[k].tid # c
    /\ \A k \in DOMAIN pq : pq[k].tid = c \/ \E j \in DOMAIN pq' : pq'[j] = pq[k]
    /\ \A i, j \in DOMAIN pq' : pq'[i].tid = pq'[j].tid => i = j

LEMMA KeptDrops ==
  ASSUME PlacesSound, NEW c, ~InPq(c), pq' = pq
  PROVE  PqDrops(c)
  BY DEF PlacesSound, InPq, PqDrops

\* An answer to the caller whose turn it is, that promises no later time than it is.
LEMMA AnswerSound ==
  ASSUME ClockTypeOK, Sound, NEW c \in Client, NEW v \in Int, running = Server,
         ReplyTo(c, v), phase[c] = "replying", Known(c, req[c], v) <= current_time,
         UNCHANGED <<tick_stored, notifier, current_time>>, PqDrops(c),
         server_pc' \in {"receive", "waking", "exit"},
         server_pc' = "waking" \/ server_pc # "waking", Stopping => Stopping',
         server_pc # "last", server_pc = "handle" => tid = c,
         server_pc = "farewell" => stopper = c, server_pc \notin {"create", "register"}
  PROVE  Sound'
  <1>1. /\ phase[Server] = "active" /\ Busy /\ c \in Task /\ c # Server /\ c # Notifier
        /\ Server \in Task /\ Notifier \in Task /\ Server # Notifier /\ Client \subseteq Task
        /\ Server \notin Client /\ Notifier \notin Client
    BY ServerRuns
  <1>2. K!Answer(Server, c)
    BY DEF ReplyTo, Reply
  <1>3. /\ MailSound' /\ phase'[c] = "active" /\ \A t \in Task \ {c} : phase'[t] = phase[t]
    BY <1>1, <1>2, KernelFacts, MailReply DEF Sound, ReplyTo, K!Answer
  <1>4. /\ floor'[c] = Known(c, req[c], v)
        /\ \A d \in Client \ {c} : floor'[d] = floor[d] /\ req'[d] = req[d] /\ since'[d] = since[d]
    BY DEF ReplyTo, ClockTypeOK
  <1>5. PCsSound'
    BY <1>1, <1>3 DEF Sound, PCsSound, notifier
  <1>6. PlacesSound'
    <2>1. \A d : (InPq(d)' <=> InPq(d) /\ d # c) /\ ~IsStopper(d)' /\ ~Received(d)'
      BY DEF PqDrops, InPq, IsStopper, Received
    <2>2. \A d : (Received(d) => d = c) /\ (IsStopper(d) => d = c)
      BY DEF Received, IsStopper
    <2>3. \A j \in DOMAIN pq' : phase'[pq'[j].tid] = "replying"
      <3> SUFFICES ASSUME NEW j \in DOMAIN pq' PROVE phase'[pq'[j].tid] = "replying"
        OBVIOUS
      <3>1. PICK k \in DOMAIN pq : pq'[j] = pq[k] /\ pq[k].tid # c
        BY DEF PqDrops
      <3>2. pq[k].tid \in Task \ {c} /\ phase[pq[k].tid] = "replying"
        BY <3>1, PqFacts DEF Sound, PlacesSound
      <3> QED BY <1>3, <3>1, <3>2
    <2>4. \A d \in Client : phase'[d] = "replying" => InPq(d)'
      BY <1>1, <1>3, <2>1, <2>2 DEF Sound, PlacesSound
    <2>5. \A i, j \in DOMAIN pq' : pq'[i].tid = pq'[j].tid => i = j
      BY DEF PqDrops
    <2> QED BY <2>3, <2>4, <2>5 DEF PlacesSound
  <1>7. Coming' = Coming
    BY <1>1, <1>3 DEF Coming, Pending, Stored, Carried, notifier
  <1>8. TimeSound'
    BY <1>4, <1>7 DEF Sound, TimeSound
  <1>9. DelaysSound'
    <2> SUFFICES ASSUME NEW j \in DOMAIN pq' PROVE DelaySound(j)'
      BY DEF DelaysSound
    <2>1. PICK k \in DOMAIN pq : pq'[j] = pq[k] /\ pq[k].tid # c
      BY DEF PqDrops
    <2>2. DelaySound(k) /\ pq[k].tid \in Client \ {c}
      BY <2>1, PqFacts DEF Sound, DelaysSound
    <2>3. server_pc' = "waking" \/ pq[k].tick_threshold > current_time'
      BY <2>2 DEF DelaySound
    <2> QED BY <1>4, <1>7, <2>1, <2>2, <2>3, DelayKept, ComingType
  <1> QED BY <1>3, <1>5, <1>6, <1>8, <1>9 DEF Sound

LEMMA WakeSound ==
  ASSUME ClockTypeOK, Sound, NEW i \in DOMAIN pq, Wake(i)
  PROVE  Sound'
  <1>1. /\ running = Server /\ server_pc = "waking" /\ server_pc' = "waking"
        /\ UNCHANGED <<tick_stored, notifier, tid, stopper, current_time>>
        /\ ReplyTo(pq[i].tid, 0) /\ pq' = Without(i)
        /\ pq[i].tick_threshold <= current_time
    BY DEF Wake, At, IsDue, IsExpired
  <1>2. PICK c \in Client : c = pq[i].tid
    BY PqFacts
  <1>3. phase[c] = "replying" /\ \A j \in DOMAIN pq : pq[j].tid = c => j = i
    BY <1>2 DEF Sound, PlacesSound
  <1>4. Known(c, req[c], 0) <= current_time
    <2>1. Known(c, req[c], 0) <= pq[i].tick_threshold
      BY <1>2 DEF Sound, DelaysSound, DelaySound, Asked
    <2>2. PICK k \in Int : k = Known(c, req[c], 0)
      BY KnownType
    <2> QED BY <1>1, <2>1, <2>2, PqFacts, ClientFacts
  <1>5. PqDrops(c)
    <2> DEFINE Entry == [tid : Client, tick_threshold : Int32]
               n == Len(pq)
    <2>1. pq \in Seq(Entry)
      BY DEF ClockTypeOK
    <2> HIDE DEF Entry
    <2>2. n \in Nat /\ DOMAIN pq = 1 .. n
      BY <2>1
    <2>3. /\ DOMAIN Without(i) = 1 .. Len(pq) - 1
          /\ \A j \in 1 .. Len(pq) - 1 : Without(i)[j] = IF j < i THEN pq[j] ELSE pq[j + 1]
      BY <2>1, WithoutType
    <2>4. /\ n \in Nat /\ DOMAIN pq = 1 .. n /\ DOMAIN pq' = 1 .. n - 1 /\ i \in 1 .. n
          /\ \A j \in 1 .. n - 1 : pq'[j] = IF j < i THEN pq[j] ELSE pq[j + 1]
      BY <1>1, <2>2, <2>3
    <2> HIDE DEF n
    <2>5. \A j \in 1 .. n - 1 : j \in 1 .. n /\ j + 1 \in 1 .. n
      BY <2>4
    <2>6. ASSUME NEW j \in DOMAIN pq'
          PROVE  \E k \in DOMAIN pq : pq'[j] = pq[k] /\ pq[k].tid # c
      <3>1. CASE j < i
        BY <1>3, <2>4, <2>5, <2>6, <3>1
      <3>2. CASE ~(j < i)
        BY <1>3, <2>4, <2>5, <2>6, <3>2
      <3> QED BY <3>1, <3>2
    <2>7. ASSUME NEW k \in DOMAIN pq, pq[k].tid # c
          PROVE  \E j \in DOMAIN pq' : pq'[j] = pq[k]
      <3>1. CASE k < i
        <4>1. k \in 1 .. n - 1
          BY <2>4, <2>7, <3>1
        <4> QED BY <2>4, <3>1, <4>1
      <3>2. CASE k > i
        <4>1. k - 1 \in 1 .. n - 1 /\ ~(k - 1 < i) /\ (k - 1) + 1 = k
          BY <2>4, <2>7, <3>2
        <4>2. pq'[k - 1] = pq[k]
          BY <2>4, <4>1
        <4> QED BY <2>4, <4>1, <4>2
      <3> QED BY <1>2, <2>4, <2>7, <3>1, <3>2
    <2>8. ASSUME NEW j \in DOMAIN pq', NEW k \in DOMAIN pq', pq'[j].tid = pq'[k].tid
          PROVE  j = k
      <3> DEFINE at(m) == IF m < i THEN m ELSE m + 1
      <3>1. at(j) \in DOMAIN pq /\ at(k) \in DOMAIN pq /\ pq'[j] = pq[at(j)] /\ pq'[k] = pq[at(k)]
        BY <2>4, <2>5, <2>8
      <3>2. at(j) = at(k)
        <4> HIDE DEF at
        <4> QED BY <2>8, <3>1 DEF Sound, PlacesSound
      <3> QED BY <2>4, <2>8, <3>2
    <2> QED BY <2>6, <2>7, <2>8 DEF PqDrops
  <1> QED BY <1>1, <1>2, <1>3, <1>4, <1>5, AnswerSound DEF Stopping

\* The caller whose request is handled waits for the answer.
LEMMA HandledWaits ==
  ASSUME ClockTypeOK, Sound, running = Server, server_pc = "handle", tid \in Client
  PROVE  phase[tid] = "replying" /\ ~InPq(tid)
  BY ServerRuns DEF Sound, PlacesSound

LEMMA HandleTimeSound ==
  ASSUME ClockTypeOK, Sound, HandleTime, up' = TRUE
  PROVE  Sound'
  <1>1. /\ running = Server /\ server_pc = "handle" /\ server_pc' = "receive"
        /\ UNCHANGED <<tick_stored, notifier, tid, stopper, current_time, pq>>
        /\ ReplyTo(tid, current_time) /\ tid \in Client /\ req[tid].tag = "Time"
    BY DEF HandleTime, Asks, At, Panic
  <1>2. PICK c \in Client : c = tid
    BY <1>1
  <1>3. PICK v \in Int : v = current_time
    BY ClientFacts
  <1>4. phase[c] = "replying" /\ ~InPq(c)
    BY <1>1, <1>2, HandledWaits
  <1>5. Known(c, req[c], v) <= current_time
    BY <1>1, <1>2, <1>3 DEF Known
  <1>6. PqDrops(c)
    BY <1>1, <1>4, KeptDrops DEF Sound
  <1> QED BY <1>1, <1>2, <1>3, <1>4, <1>5, <1>6, AnswerSound DEF Stopping

LEMMA HandlePassedSound ==
  ASSUME ClockTypeOK, Sound, HandlePassed
  PROVE  Sound'
  <1>1. /\ running = Server /\ server_pc = "handle" /\ server_pc' = "receive"
        /\ UNCHANGED <<tick_stored, notifier, tid, stopper, current_time, pq>>
        /\ ReplyTo(tid, 0) /\ tid \in Client /\ HasPassed(req[tid])
    BY DEF HandlePassed, Asks, At
  <1>2. PICK c \in Client : c = tid
    BY <1>1
  <1>3. phase[c] = "replying" /\ ~InPq(c)
    BY <1>1, <1>2, HandledWaits
  <1>4. Known(c, req[c], 0) <= current_time
    <2>1. floor[c] \in Int /\ req[c].arg \in Int /\ current_time \in Int /\ floor[c] <= current_time
      BY ClientFacts DEF Sound, TimeSound
    <2>2. CASE req[c].tag = "Delay" /\ req[c].arg <= 0
      BY <2>1, <2>2 DEF Known, Max
    <2>3. CASE req[c].tag = "DelayUntil" /\ req[c].arg <= current_time
      BY <2>1, <2>3 DEF Known, Max
    <2> QED BY <1>1, <1>2, <2>2, <2>3 DEF HasPassed
  <1>5. PqDrops(c)
    BY <1>1, <1>3, KeptDrops DEF Sound
  <1> QED BY <1>1, <1>2, <1>3, <1>4, <1>5, AnswerSound DEF Stopping

LEMMA FarewellSound ==
  ASSUME ClockTypeOK, Sound, Farewell
  PROVE  Sound'
  <1>1. /\ running = Server /\ server_pc = "farewell" /\ server_pc' = "exit"
        /\ UNCHANGED <<tick_stored, notifier, tid, stopper, current_time, pq>>
        /\ ReplyTo(stopper, 0)
    BY DEF Farewell, At
  <1>2. PICK c \in Client : c = stopper
    BY <1>1 DEF Sound, PlacesSound
  <1>3. phase[c] = "replying" /\ ~InPq(c) /\ req[c].tag = "Shutdown"
    BY <1>1, <1>2 DEF Sound, PlacesSound
  <1>4. Known(c, req[c], 0) <= current_time
    BY <1>3 DEF Known, Sound, TimeSound
  <1>5. PqDrops(c)
    BY <1>1, <1>3, KeptDrops DEF Sound
  <1> QED BY <1>1, <1>2, <1>3, <1>4, <1>5, AnswerSound DEF Stopping

\* Those who still wait to be received are told; those in pq are not.
LEMMA ServerExitSound ==
  ASSUME ClockTypeOK, Sound, ServerExit
  PROVE  Sound'
  <1>1. /\ running = Server /\ server_pc = "exit" /\ server_pc' = "gone" /\ K!Leave(Server)
        /\ UNCHANGED <<tick_stored, notifier, tid, stopper, current_time, pq, since, floor>>
    BY DEF ServerExit, At
  <1>2. /\ phase[Server] = "active" /\ Busy
        /\ Server \in Task /\ Notifier \in Task /\ Server # Notifier /\ Client \subseteq Task
        /\ Server \notin Client /\ Notifier \notin Client
    BY <1>1, ServerRuns
  <1>3. /\ MailSound'
        /\ \A t \in Task : phase'[t] = IF t = Server THEN "absent"
                                       ELSE IF phase[t] = "sending" THEN "active" ELSE phase[t]
        /\ \A t \in Task : t \in K!Senders(Server) <=> phase[t] = "sending"
    BY <1>1, MailLeaveServer DEF Sound
  <1>4. \A c \in Client : phase[c] = "replying" => req'[c] = req[c]
    BY <1>2, <1>3 DEF ServerExit
  <1>5. PCsSound'
    BY <1>1, <1>2, <1>3 DEF Sound, PCsSound, notifier
  <1>6. \A i \in DOMAIN pq : pq[i].tid \in Client /\ phase[pq[i].tid] = "replying"
    BY PqFacts DEF Sound, PlacesSound
  <1>7. PlacesSound'
    <2>1. \A i \in DOMAIN pq : phase'[pq[i].tid] = "replying"
      BY <1>2, <1>3, <1>6
    <2> QED BY <1>1, <1>2, <1>3, <2>1 DEF Sound, PlacesSound
  <1>8. Coming' \in Int /\ Coming' <= Coming
    <2>1. PICK n \in Int, s \in {0, 1}, k \in {0, 1}, k1 \in {0, 1} :
             /\ n = current_time /\ n = current_time' /\ s = Stored /\ s = Stored'
             /\ k = Carried /\ k1 = Carried'
      BY <1>1, ClientFacts DEF Stored, Carried
    <2>2. k1 <= k
      <3>1. Carried' = 1 => Carried = 1
        BY <1>1, <1>2, <1>3 DEF Carried, notifier, Sound, PCsSound
      <3> QED BY <2>1, <3>1
    <2>3. n \in Int /\ s \in Int /\ k \in Int /\ k1 \in Int /\ k1 <= k
      BY <2>1, <2>2
    <2>4. n + (s + k1) \in Int /\ n + (s + k1) <= n + (s + k)
      BY <2>3
    <2>5. Coming' = n + (s + k1) /\ Coming = n + (s + k)
      BY <2>1 DEF Coming, Pending
    <2> QED BY <2>4, <2>5
  <1>9. TimeSound'
    BY <1>1, <1>8, TimeKept DEF Sound, Stopping
  <1>10. DelaysSound'
    BY <1>1, <1>4, <1>6, <1>8, DelaysKept DEF Sound
  <1> QED BY <1>3, <1>5, <1>7, <1>9, <1>10 DEF Sound

-----------------------------------------------------------------------------
(* Delays.                                                                 *)

\* The deadline of a delay that has not passed is an int later than now, and no
\* earlier than the caller may conclude when it is woken.
LEMMA ThresholdIs ==
  ASSUME NoOverflow, ClockTypeOK, Sound, ~Stopping, NEW c \in Client,
         req[c].tag \in {"Delay", "DelayUntil"}, ~HasPassed(req[c])
  PROVE  /\ Threshold(req[c]) \in Int32 /\ current_time < Threshold(req[c])
         /\ 0 < Threshold(req[c]) /\ Known(c, req[c], 0) <= Threshold(req[c])
         /\ req[c].tag = "Delay" => Threshold(req[c]) = current_time + req[c].arg
         /\ req[c] \in Requests
  <1>1. req[c] \in Requests
    BY ClientFacts DEF Nothing
  <1>2. PICK g \in Int32, n \in Int, f \in Int :
           /\ g = req[c].arg /\ n = current_time /\ f = floor[c]
           /\ 0 <= n /\ n <= MaxTime + 1 /\ f <= n
           /\ (req[c].tag = "Delay" => g + MaxTime + 1 <= INT_MAX)
    <2>1. req[c].arg \in Int32
      BY <1>1, IntAssumption
    <2> QED BY <1>1, <2>1, ClientFacts DEF NoOverflow, Sound, TimeSound
  <1>3. g \in Int /\ INT_MAX \in Int /\ MaxTime \in Int
    BY IntAssumption
  <1>4. CASE req[c].tag = "Delay"
    <2>1. g > 0
      BY <1>2, <1>3, <1>4 DEF HasPassed
    <2>2. n + g \in Int32
      BY <1>2, <1>3, <1>4, <2>1 DEF Int32
    <2>3. Threshold(req[c]) = n + g
      BY <1>2, <1>4, <2>2, WrapIs DEF Threshold
    <2>4. Known(c, req[c], 0) = f + g
      BY <1>2, <1>3, <1>4, <2>1 DEF Known, Max
    <2>5. n < n + g /\ 0 < n + g /\ f + g <= n + g
      BY <1>2, <1>3, <2>1
    <2> QED BY <1>1, <1>2, <1>4, <2>2, <2>3, <2>4, <2>5
  <1>5. CASE req[c].tag = "DelayUntil"
    <2>1. n < g /\ Threshold(req[c]) = g
      BY <1>2, <1>3, <1>5 DEF HasPassed, Threshold
    <2>2. Known(c, req[c], 0) <= g
      BY <1>2, <1>3, <1>5, <2>1 DEF Known, Max
    <2>3. 0 < g
      BY <1>2, <1>3, <2>1
    <2> QED BY <1>1, <1>2, <1>5, <2>1, <2>2, <2>3
  <1> QED BY <1>4, <1>5

Entered == [tid |-> tid, tick_threshold |-> Threshold(req[tid])]

\* The head of pq with the new entry is no later than the entry: the assert holds.
LEMMA EnqueueAssert ==
  ASSUME NoOverflow, ClockTypeOK, Sound, Enqueue,
         NEW i \in DOMAIN Append(pq, Entered), IsFirst(i, Append(pq, Entered))
  PROVE  Append(pq, Entered)[i].tick_threshold <= Threshold(req[tid])
  <1>1. PICK c \in Client : c = tid
    BY DEF Enqueue, Asks
  <1>2. PICK t \in Int32 : t = Threshold(req[tid]) /\ 0 < t
    BY <1>1, ThresholdIs DEF Enqueue, Asks, At, Stopping
  <1> DEFINE q == Append(pq, Entered)
             n == Len(pq)
  <1>3. /\ n \in Nat /\ DOMAIN pq = 1 .. n /\ DOMAIN q = 1 .. n + 1
        /\ \A j \in 1 .. n : q[j] = pq[j]
        /\ q[n + 1] = Entered
    <2> DEFINE Entry == [tid : Client, tick_threshold : Int32]
    <2>1. pq \in Seq(Entry)
      BY DEF ClockTypeOK
    <2>2. Entered \in Entry
      BY <1>1, <1>2 DEF Entered
    <2> HIDE DEF Entry
    <2> QED BY <2>1, <2>2
  <1> HIDE DEF q, n
  <1>4. Entered.tick_threshold = t
    BY <1>2 DEF Entered
  <1>5. CASE i = n + 1
    BY <1>2, <1>3, <1>4, <1>5, IntAssumption DEF q
  <1>6. CASE i \in 1 .. n
    <2>1. PICK d \in Int32 : d = q[i].tick_threshold /\ 0 < d
      BY <1>3, <1>6, PqFacts DEF Sound, DelaysSound, DelaySound
    <2>2. Priority(q[i]) = -d
      BY <2>1, PriorityIs
    <2>3. Priority(q[n + 1]) = -t
      BY <1>2, <1>3, <1>4, PriorityIs
    <2>4. Priority(q[n + 1]) < Priority(q[i]) \/ Priority(q[n + 1]) = Priority(q[i])
      <3>1. n + 1 \in DOMAIN q
        BY <1>3
      <3> QED BY <3>1 DEF IsFirst, q
    <2>5. t \in Int /\ d \in Int
      BY <1>2, <2>1, IntAssumption
    <2>6. d <= t
      BY <2>2, <2>3, <2>4, <2>5
    <2> QED BY <1>2, <2>1, <2>6 DEF q
  <1> QED BY <1>3, <1>5, <1>6 DEF q

LEMMA EnqueueSound ==
  ASSUME NoOverflow, ClockTypeOK, Sound, Enqueue, up' = TRUE
  PROVE  Sound'
  <1>1. /\ running = Server /\ server_pc = "handle" /\ server_pc' = "receive" /\ tid \in Client
        /\ UNCHANGED <<kernel, tick_stored, notifier, tid, stopper, current_time, clients>>
        /\ pq' = Append(pq, Entered)
        /\ req[tid].tag \in {"Delay", "DelayUntil"} /\ ~HasPassed(req[tid])
    BY DEF Enqueue, Asks, At, Panic, Entered
  <1>2. PICK c \in Client : c = tid
    BY <1>1
  <1>3. PICK t \in Int : t = Threshold(req[c])
    BY <1>1, <1>2, ThresholdIs, IntAssumption DEF Stopping
  <1>4. /\ t \in Int32 /\ current_time < t /\ 0 < t /\ Known(c, req[c], 0) <= t
        /\ (req[c].tag = "Delay" => t = current_time + req[c].arg) /\ req[c] \in Requests
    BY <1>1, <1>2, <1>3, ThresholdIs DEF Stopping
  <1>5. phase[c] = "replying" /\ ~InPq(c) /\ Busy /\ phase[Server] = "active"
    BY <1>1, <1>2, HandledWaits, ServerRuns
  <1>6. PICK n \in Nat :
           /\ DOMAIN pq = 1 .. n /\ DOMAIN pq' = 1 .. n + 1
           /\ \A j \in 1 .. n : pq'[j] = pq[j]
           /\ pq'[n + 1] = Entered
    <2> DEFINE Entry == [tid : Client, tick_threshold : Int32]
    <2>1. pq \in Seq(Entry)
      BY DEF ClockTypeOK
    <2>2. Entered \in Entry
      BY <1>2, <1>3, <1>4 DEF Entered
    <2> HIDE DEF Entry
    <2>3. /\ Len(pq) \in Nat /\ DOMAIN pq = 1 .. Len(pq) /\ DOMAIN pq' = 1 .. Len(pq) + 1
          /\ \A j \in 1 .. Len(pq) : pq'[j] = pq[j]
          /\ pq'[Len(pq) + 1] = Entered
      BY <1>1, <2>1, <2>2
    <2> QED BY <2>3
  <1>7. Entered.tid = c /\ Entered.tick_threshold = t
    BY <1>2, <1>3 DEF Entered
  <1>8. MailSound' /\ PCsSound'
    BY <1>1, <1>5 DEF Sound, MailSound, Sending, PCsSound, kernel, notifier
  <1>9. PlacesSound'
    <2>1. \A d : (InPq(d)' <=> InPq(d) \/ d = c) /\ ~IsStopper(d)' /\ ~Received(d)'
      BY <1>1, <1>6, <1>7 DEF InPq, IsStopper, Received
    <2>2. \A d : (Received(d) => d = c) /\ ~IsStopper(d)
      BY <1>1, <1>2 DEF Received, IsStopper
    <2>3. \A j \in DOMAIN pq' : phase'[pq'[j].tid] = "replying"
      BY <1>1, <1>5, <1>6, <1>7 DEF Sound, PlacesSound, kernel
    <2>4. \A i, j \in DOMAIN pq' : pq'[i].tid = pq'[j].tid => i = j
      <3> SUFFICES ASSUME NEW i \in 1 .. n + 1, NEW j \in 1 .. n + 1, pq'[i].tid = pq'[j].tid
                   PROVE  i = j
        BY <1>6
      <3>1. \A k \in 1 .. n : pq'[k].tid # c
        BY <1>5, <1>6 DEF InPq
      <3> QED BY <1>6, <1>7, <3>1 DEF Sound, PlacesSound
    <2>5. \A d \in Client : phase'[d] = "replying" => InPq(d)'
      BY <1>1, <1>5, <2>1, <2>2 DEF Sound, PlacesSound, kernel
    <2> QED BY <1>1, <2>3, <2>4, <2>5 DEF PlacesSound
  <1>10. Coming' = Coming
    BY <1>1 DEF Coming, Pending, Stored, Carried, kernel, notifier
  <1>11. TimeSound'
    BY <1>1, <1>10, TimeKept, ComingType DEF Sound, Stopping, clients
  <1>12. DelaysSound'
    <2>1. ASSUME NEW j \in 1 .. n
          PROVE  DelaySound(j)'
      <3>1. DelaySound(j) /\ pq[j].tick_threshold > current_time
        BY <1>1, <1>6, <2>1 DEF Sound, DelaysSound, DelaySound
      <3> QED BY <1>1, <1>6, <1>10, <2>1, <3>1, DelayKept, ComingType DEF clients
    <2>2. DelaySound(n + 1)'
      <3>1. Asked(n + 1)' = req[c] /\ Known(pq[n + 1].tid, Asked(n + 1), 0)' = Known(c, req[c], 0)
        BY <1>1, <1>6, <1>7 DEF Asked, Known, clients
      <3>2. ASSUME req[c].tag = "Delay"
            PROVE  since[c] + 2 + t - req[c].arg >= Coming
        <4>1. PICK s \in Int, g \in Int, k \in Int, p \in 0 .. 2 :
                 s = since[c] /\ 0 <= s /\ g = req[c].arg /\ k = current_time /\ p = Pending
          BY ClientFacts, ComingType
        <4>2. t = k + g /\ Coming = k + p
          BY <1>4, <3>2, <4>1 DEF Coming
        <4>3. s \in Int /\ 0 <= s /\ g \in Int /\ k \in Int /\ p \in 0 .. 2
          BY <4>1
        <4>4. s + 2 + (k + g) - g >= k + p
          BY <4>3
        <4> QED BY <4>1, <4>2, <4>4
      <3>3. /\ pq'[n + 1].tid = c /\ pq'[n + 1].tick_threshold = t
            /\ since' = since /\ current_time' = current_time
        BY <1>1, <1>6, <1>7 DEF clients
      <3>4. req[c].tag = "Delay" =>
               since'[pq'[n + 1].tid] + 2 + pq'[n + 1].tick_threshold - Asked(n + 1)'.arg
                 >= Coming'
        BY <1>10, <3>1, <3>2, <3>3
      <3>5. pq'[n + 1].tick_threshold > current_time'
        BY <1>3, <1>4, <3>3, ClientFacts
      <3>6. Asked(n + 1)' \in Requests /\ Asked(n + 1)'.tag \in {"Delay", "DelayUntil"}
        BY <1>1, <1>2, <1>4, <3>1
      <3>7. /\ Known(pq[n + 1].tid, Asked(n + 1), 0)' <= pq'[n + 1].tick_threshold
            /\ 0 < pq'[n + 1].tick_threshold
        BY <1>4, <3>1, <3>3
      <3> QED BY <3>1, <3>4, <3>5, <3>6, <3>7 DEF DelaySound
    <2> QED BY <1>6, <2>1, <2>2 DEF DelaysSound
  <1> QED BY <1>8, <1>9, <1>11, <1>12 DEF Sound

-----------------------------------------------------------------------------
(* The invariant.                                                          *)

LEMMA InitInv == Init => ClockInv
  <1> SUFFICES ASSUME Init PROVE ClockInv
    OBVIOUS
  <1>1. /\ ClockTypeOK /\ up = TRUE /\ pq = <<>> /\ DOMAIN pq = {} /\ running = None
        /\ server_pc = "create" /\ notifier_pc = "await" /\ current_time = 0
        /\ ~tick_stored
    BY InitTypes DEF Init, K!RInit
  <1>2. /\ phase[Server] = "active" /\ phase[Notifier] = "absent"
        /\ \A c \in Client : phase[c] = "active"
        /\ \A t \in Task : phase[t] \in {"active", "absent"} /\ mailbox[t] = <<>>
    BY TaskAssumption DEF Init, K!RInit, Initial
  <1>3. mailbox[Server] = <<>> /\ DOMAIN mailbox[Server] = {}
    BY <1>2, TaskAssumption
  <1>4. MailSound
    BY <1>1, <1>2, <1>3 DEF MailSound, Sending
  <1>5. PCsSound
    BY <1>1, <1>2 DEF PCsSound
  <1>6. PlacesSound
    BY <1>1, <1>2 DEF PlacesSound
  <1>7. Coming = 0
    BY <1>1, <1>2 DEF Coming, Pending, Stored, Carried
  <1>8. \A c \in Client : floor[c] = 0
    BY DEF Init
  <1>9. TimeSound
    BY <1>1, <1>7, <1>8, IntAssumption DEF TimeSound
  <1>10. DelaysSound
    BY <1>1 DEF DelaysSound
  <1> QED BY <1>1, <1>4, <1>5, <1>6, <1>9, <1>10 DEF ClockInv, Sound, PanicsForCause

LEMMA StepUp ==
  ASSUME ClockTypeOK, Next
  PROVE  up' = TRUE \/ (Panic /\ (HandleTime \/ Enqueue \/ HandleLast))
  <1>1. up = TRUE
    BY DEF Next, ClockTypeOK
  <1>2. ASSUME NEW t \in Task, Run(t)
        PROVE  up' = TRUE
    BY <1>1, <1>2 DEF Run
  <1>3. Preempt \/ TimerInterrupt => up' = TRUE
    BY <1>1 DEF Preempt, TimerInterrupt
  <1>4. NotifierStep => up' = TRUE
    BY <1>1 DEF NotifierStep, AwaitTick, SendTick, NotifierExit
  <1>5. ASSUME NEW c \in Client, NEW r \in Requests, Call(c, r)
        PROVE  up' = TRUE
    BY <1>1, <1>5 DEF Call
  <1>6. ASSUME NEW i \in DOMAIN pq, Wake(i)
        PROVE  up' = TRUE
    BY <1>1, <1>6 DEF Wake
  <1>7. CreateNotifier \/ Register \/ Receive \/ HandleTick \/ HandlePassed \/ HandleShutdown
        \/ Farewell \/ ServerExit => up' = TRUE
    BY <1>1 DEF CreateNotifier, Register, Receive, HandleTick, HandlePassed, HandleShutdown,
                Farewell, ServerExit
  <1>8. HandleTime \/ HandleLast => up' = TRUE \/ Panic
    BY <1>1 DEF HandleTime, HandleLast
  <1>9. Enqueue => up' = TRUE \/ Panic
    BY <1>1 DEF Enqueue
  <1> QED BY <1>2, <1>3, <1>4, <1>5, <1>6, <1>7, <1>8, <1>9 DEF Next, ServerStep

LEMMA StepSound ==
  ASSUME NoOverflow, ClockTypeOK, Sound, Next
  PROVE  Sound'
  <1>1. up' = TRUE \/ Panic
    BY StepUp
  <1>2. CASE Panic
    BY <1>2, NothingMoves DEF Panic
  <1>3. CASE up' = TRUE
    <2>1. ServerStep => Sound'
      BY <1>3, CreateSound, RegisterSound, ReceiveSound, TickSound, WakeSound, HandleTimeSound,
         HandlePassedSound, EnqueueSound, ShutdownSound, LastSound, FarewellSound,
         ServerExitSound DEF ServerStep, NoOverflow
    <2> QED BY <2>1, RunSound, PreemptSound, TimerSound, NotifierSound, CallSound DEF Next
  <1> QED BY <1>1, <1>2, <1>3

\* The clock is within its bound, deadlines are ints, and a received task is a client
\* or the notifier: what is left are the causes named.
LEMMA StepCause ==
  ASSUME NoOverflow, ClockTypeOK, Sound, PanicsForCause, Next
  PROVE  PanicsForCause'
  <1>1. up' = TRUE \/ (Panic /\ (HandleTime \/ Enqueue \/ HandleLast))
    BY StepUp
  <1>2. CASE up' = TRUE
    BY <1>2 DEF PanicsForCause
  <1>3. CASE Panic
    <2>1. UNCHANGED <<server_pc, tid, pq, current_time>> /\ up' = FALSE /\ up
      BY <1>3 DEF Panic, server, Next
    <2>2. CASE HandleTime
      <3>1. server_pc = "handle" /\ current_time >= INT_MAX
        BY <2>1, <2>2 DEF HandleTime, Asks, At
      <3>2. current_time = INT_MAX
        BY <3>1, ClientFacts, IntAssumption DEF Int32
      <3> QED BY <2>1, <3>1, <3>2 DEF PanicsForCause
    <2>3. CASE HandleLast
      <3>1. running = Server /\ server_pc = "last" /\ tid # Notifier
        BY <2>1, <2>3 DEF HandleLast, At
      <3>2. tid \in Client
        BY <3>1, ServerRuns DEF Sound, PlacesSound
      <3> QED BY <2>1, <3>1, <3>2 DEF PanicsForCause
    <2>4. CASE Enqueue
      <3>1. server_pc = "handle" /\ ~HasRoom
        BY <2>1, <2>4, EnqueueAssert DEF Enqueue, Asks, At, Entered
      <3>2. Len(pq) = PqCapacity
        BY <3>1, PqFacts, IntAssumption DEF HasRoom, ClockTypeOK
      <3> QED BY <2>1, <3>1, <3>2 DEF PanicsForCause
    <2> QED BY <1>1, <2>1, <2>2, <2>3, <2>4
  <1> QED BY <1>1, <1>2, <1>3

LEMMA ClockInvariant ==
  ASSUME NoOverflow
  PROVE  Spec => []ClockInv
  <1>1. ASSUME ClockInv, [Next]_vars
        PROVE  ClockInv'
    <2>1. ClockTypeOK /\ Sound /\ PanicsForCause
      BY <1>1 DEF ClockInv
    <2>2. ClockTypeOK'
      BY <1>1, <2>1, StepTypes
    <2>3. CASE Next
      BY <2>1, <2>2, <2>3, StepSound, StepCause DEF ClockInv
    <2>4. CASE UNCHANGED vars
      <3>1. Sound'
        BY <2>1, <2>4, NothingMoves DEF vars
      <3>2. PanicsForCause'
        BY <2>1, <2>4 DEF PanicsForCause, vars, server
      <3> QED BY <2>2, <3>1, <3>2 DEF ClockInv
    <2> QED BY <1>1, <2>3, <2>4
  <1> QED BY <1>1, InitInv, PTL DEF Spec

-----------------------------------------------------------------------------
(* What it shows.                                                          *)

LEMMA Places ==
  ASSUME NEW a \in BOOLEAN, NEW b \in BOOLEAN, NEW c \in BOOLEAN, NEW d \in BOOLEAN,
         NEW p \in 1 .. 4
  PROVE  <<a, b, c, d>>[p] <=> (p = 1 /\ a) \/ (p = 2 /\ b) \/ (p = 3 /\ c) \/ (p = 4 /\ d)
  <1>1. p = 1 \/ p = 2 \/ p = 3 \/ p = 4
    OBVIOUS
  <1> QED BY <1>1

LEMMA HeldOnce ==
  ASSUME ClockInv, up, phase[Server] # "absent", NEW c \in Client
  PROVE  LET places == {p \in 1 .. 4 : <<InPq(c), InHand(c), IsStopper(c), IsIntruder(c)>>[p]}
         IN  Cardinality(places) = IF phase[c] = "replying" THEN 1 ELSE 0
  <1> DEFINE places == {p \in 1 .. 4 : <<InPq(c), InHand(c), IsStopper(c), IsIntruder(c)>>[p]}
  <1>1. /\ InPq(c) \in BOOLEAN /\ InHand(c) \in BOOLEAN /\ IsStopper(c) \in BOOLEAN
        /\ IsIntruder(c) \in BOOLEAN
    BY DEF InPq, InHand, IsStopper, IsIntruder
  <1>2. \A p \in 1 .. 4 :
           p \in places <=> \/ p = 1 /\ InPq(c)
                            \/ p = 2 /\ InHand(c)
                            \/ p = 3 /\ IsStopper(c)
                            \/ p = 4 /\ IsIntruder(c)
    BY <1>1, Places
  <1>3. Received(c) <=> InHand(c) \/ IsIntruder(c)
    BY DEF Received, InHand, IsIntruder, Busy
  <1>4. ~(InHand(c) /\ IsIntruder(c)) /\ ~(InHand(c) /\ IsStopper(c))
    BY DEF InHand, IsIntruder, IsStopper
  <1>5. /\ ~(InPq(c) /\ Received(c)) /\ ~(InPq(c) /\ IsStopper(c))
        /\ ~(IsIntruder(c) /\ IsStopper(c))
        /\ InPq(c) \/ Received(c) \/ IsStopper(c) => phase[c] = "replying"
    BY DEF ClockInv, Sound, PlacesSound, Received, IsStopper, IsIntruder, InPq, Busy
  <1>6. CASE phase[c] # "replying"
    <2>1. places = {}
      BY <1>2, <1>3, <1>5, <1>6
    <2> QED BY <1>6, <2>1, FS_EmptySet
  <1>7. CASE phase[c] = "replying"
    <2>1. InPq(c) \/ Received(c) \/ IsStopper(c)
      BY <1>7 DEF ClockInv, Sound, PlacesSound
    <2>2. \E q \in 1 .. 4 : \A p \in 1 .. 4 : p \in places <=> p = q
      BY <1>2, <1>3, <1>4, <1>5, <2>1
    <2>3. PICK q \in 1 .. 4 : \A p \in 1 .. 4 : p \in places <=> p = q
      BY <2>2
    <2>4. places = {q}
      <3>1. places \subseteq 1 .. 4
        OBVIOUS
      <3> HIDE DEF places
      <3> QED BY <2>3, <3>1
    <2> QED BY <1>7, <2>4, FS_Singleton
  <1> QED BY <1>6, <1>7

\* While the server lives, each caller it has received is in exactly one of the places
\* from which it will be answered, and when the server waits for its next request no
\* deadline in pq has passed (clockserver.cc:99-167).
THEOREM CallersAreHeld ==
  ASSUME NoOverflow
  PROVE  Spec => []CallersHeld
  <1>1. ClockInv => CallersHeld
    <2> SUFFICES ASSUME ClockInv, up, phase[Server] # "absent"
                 PROVE  /\ phase[Server] = "receiving" /\ server_pc = "handle" =>
                             \A i \in DOMAIN pq : pq[i].tick_threshold > current_time
                        /\ \A i, j \in DOMAIN pq : pq[i].tid = pq[j].tid => i = j
      BY HeldOnce DEF CallersHeld
    <2> QED BY DEF ClockInv, Sound, PlacesSound, DelaysSound, DelaySound
  <1> QED BY <1>1, ClockInvariant, PTL

\* No answer of the server promises more than the clock shows.
THEOREM PromisesAreKept ==
  ASSUME NoOverflow
  PROVE  Spec => []PromisesKept
  <1>1. ClockInv => PromisesKept
    BY DEF ClockInv, Sound, TimeSound, PromisesKept
  <1> QED BY <1>1, ClockInvariant, PTL

\* The server panics for a full pq, for a clock that has reached INT_MAX, or for a
\* call after Shutdown(), and for nothing else: the asserts of enqueue_task() and of
\* the tick hold.
THEOREM PanicsHaveCauses ==
  ASSUME NoOverflow
  PROVE  Spec => []PanicsForCause
  <1>1. ClockInv => PanicsForCause
    BY DEF ClockInv
  <1> QED BY <1>1, ClockInvariant, PTL

-----------------------------------------------------------------------------
(* How long a delay lasts.                                                 *)

\* A caller is woken by nothing but an answer to it.
LEMMA AnswerIsFor ==
  ASSUME ClockTypeOK, NEW d, NEW v, ReplyTo(d, v), NEW c \in Client, c # d
  PROVE  phase'[c] = phase[c]
  BY KernelFacts, TaskAssumption DEF ReplyTo, Reply, K!Answer

LEMMA WaitsOn ==
  ASSUME ClockTypeOK, Sound, NEW c \in Client, phase[c] = "replying",
         \/ \E t \in Task : Run(t)
         \/ Preempt \/ TimerInterrupt \/ NotifierStep \/ CreateNotifier \/ Register \/ Receive
         \/ HandleTick \/ HandleShutdown \/ HandleLast \/ Enqueue \/ ServerExit \/ Panic
         \/ \E d \in Client, r \in Requests : Call(d, r)
  PROVE  phase'[c] = "replying"
  <1>1. c \in Task /\ c # Server /\ c # Notifier /\ Server \in Task /\ Notifier \in Task
    BY TaskAssumption
  <1>2. ASSUME NEW t \in Task, Run(t)
        PROVE  phase'[c] = phase[c]
    BY <1>2 DEF Run, K!Run
  <1>3. Preempt \/ TimerInterrupt => phase'[c] = phase[c]
    BY <1>1 DEF Preempt, TimerInterrupt, K!Interrupt
  <1>4. CASE NotifierStep
    <2>1. AwaitTick => phase'[c] = phase[c]
      BY <1>1, KernelFacts DEF AwaitTick, AwaitEvent, K!Sleep
    <2>2. SendTick => phase'[c] = phase[c]
      BY <1>1, MailSend DEF SendTick, Sound
    <2>3. NotifierExit => phase'[c] = phase[c]
      BY <1>1, MailLeaveNotifier DEF NotifierExit, Sound
    <2> QED BY <1>4, <2>1, <2>2, <2>3 DEF NotifierStep
  <1>5. CreateNotifier => phase'[c] = phase[c]
    BY <1>1, KernelFacts DEF CreateNotifier, K!Spawn
  <1>6. Register \/ Panic => phase'[c] = phase[c]
    BY DEF Register, Panic, kernel
  <1>7. Receive \/ HandleShutdown => phase'[c] = phase[c]
    <2>1. ASSUME NEW pc, ReceiveThen(pc)
          PROVE  phase'[c] = phase[c]
      BY <1>1, <2>1, MailReceive DEF Sound
    <2> QED BY <2>1 DEF Receive, HandleShutdown
  <1>8. HandleTick \/ HandleLast => phase'[c] = phase[c]
    <2>1. Reply(Notifier) => phase'[c] = phase[c]
      BY <1>1, KernelFacts DEF Reply, K!Answer
    <2> QED BY <1>6, <2>1 DEF HandleTick, HandleLast, TellNotifier
  <1>9. Enqueue => phase'[c] = phase[c]
    BY <1>6 DEF Enqueue, kernel
  <1>10. ServerExit => phase'[c] = phase[c]
    BY <1>1, MailLeaveServer DEF ServerExit, Sound
  <1>11. ASSUME NEW d \in Client, NEW r \in Requests, Call(d, r)
         PROVE  phase'[c] = phase[c]
    BY <1>1, <1>11, MailSend DEF Call, Sound
  <1> QED BY <1>2, <1>3, <1>4, <1>5, <1>6, <1>7, <1>8, <1>9, <1>10, <1>11

\* The counters of interrupts reach as far as the longest delay needs.
CountersSuffice == \A r \in Requests : r.tag = "Delay" => r.arg <= MaxSince + 2

LEMMA DelayIsLong ==
  ASSUME CountersSuffice, ClockTypeOK, Sound, Next,
         NEW c \in Client, req[c].tag = "Delay", phase[c] = "replying", phase'[c] = "active"
  PROVE  since[c] >= req[c].arg - 2
  <1>1. since[c] \in Nat /\ req[c].arg \in Int /\ req[c] \in Requests
    BY ClientFacts DEF Nothing
  <1>2. CASE HandlePassed
    <2>1. c = tid
      BY <1>2, AnswerIsFor DEF HandlePassed
    <2>2. req[c].arg <= 0
      BY <1>2, <2>1 DEF HandlePassed, HasPassed
    <2> QED BY <1>1, <2>2
  <1>3. ASSUME NEW i \in DOMAIN pq, Wake(i)
        PROVE  since[c] >= req[c].arg - 2
    <2>1. c = pq[i].tid
      BY <1>3, AnswerIsFor DEF Wake
    <2>2. DelaySound(i) /\ Asked(i) = req[c] /\ pq[i].tick_threshold <= current_time
      BY <1>3, <2>1 DEF Sound, DelaysSound, Asked, Wake, IsDue, IsExpired
    <2>3. /\ pq[i].tick_threshold \in Int /\ current_time \in Int /\ Pending \in 0 .. 2
          /\ Coming = current_time + Pending
      BY <1>3, PqFacts, ClientFacts, ComingType
    <2>4. PICK p \in 0 .. 2 : p = Pending
      BY <2>3
    <2>5. PICK s \in Int, g \in Int, t \in Int, n \in Int :
             s = since[c] /\ g = req[c].arg /\ t = pq[i].tick_threshold /\ n = current_time
      BY <1>1, <2>3
    <2>6. (s = MaxSince \/ s + 2 + t - g >= n + p) /\ t <= n
      BY <2>1, <2>2, <2>5, <2>3, <2>4 DEF DelaySound
    <2>7. g <= MaxSince + 2
      BY <1>1, <2>5 DEF CountersSuffice
    <2>8. s \in Int /\ g \in Int /\ t \in Int /\ n \in Int /\ p \in 0 .. 2 /\ MaxSince \in Int
      BY <2>5, <2>4, IntAssumption
    <2>9. s >= g - 2
      BY <2>6, <2>7, <2>8
    <2> QED BY <2>5, <2>9
  <1>4. ~HandleTime
    <2>1. HandleTime => Panic \/ tid # c
      BY DEF HandleTime, Asks
    <2>2. Panic => phase'[c] = "replying"
      BY WaitsOn
    <2> QED BY <2>1, <2>2, AnswerIsFor DEF HandleTime
  <1>5. ~Farewell
    <2>1. Farewell => req[stopper].tag = "Shutdown"
      BY DEF Farewell, At, Sound, PlacesSound
    <2> QED BY <2>1, AnswerIsFor DEF Farewell
  <1> QED BY <1>2, <1>3, <1>4, <1>5, WaitsOn DEF Next, ServerStep

\* Whoever asked for a delay of n ticks is woken after n - 2 interrupts of the timer at
\* the earliest, counted from the call: at most two ticks were on their way.
THEOREM DelaysDoLast ==
  ASSUME NoOverflow, CountersSuffice
  PROVE  Spec => DelaysLast
  <1>1. ASSUME ClockInv, [Next]_vars
        PROVE  [\A c \in Client :
                  req[c].tag = "Delay" /\ phase[c] = "replying" /\ phase'[c] = "active"
                     => since[c] >= req[c].arg - 2]_vars
    <2>1. CASE Next
      BY <1>1, <2>1, DelayIsLong DEF ClockInv
    <2>2. CASE UNCHANGED vars
      BY <2>2
    <2> QED BY <1>1, <2>1, <2>2
  <1> QED BY <1>1, ClockInvariant, PTL DEF Spec, DelaysLast
=============================================================================
