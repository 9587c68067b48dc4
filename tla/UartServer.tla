----------------------------- MODULE UartServer -----------------------------
(***************************************************************************)
(* The UART server, its notifiers and the two UARTs: COM1, on which the    *)
(* Marklin box takes a byte and lowers CTS until it can take the next, and *)
(* COM2, the terminal.  The server runs above its clients and below its    *)
(* notifiers, and an interrupt is taken before any task goes on; the       *)
(* hardware moves at any time.  Bytes are numbered per channel: those sent *)
(* in the order the server accepts them, those received as they arrive.    *)
(***************************************************************************)
EXTENDS Integers, FiniteSets, SequencesExt

CONSTANTS
    FifoSize,     \* per channel, the room in the UART's FIFOs
    RxLevel,      \* per channel, how many bytes received raise rx
    Patient,      \* the channels whose receive timeout is longer than what the
                  \* server has to do takes
    IOBUF_SIZE,
    COM1_WAITING_FOR_DOWN_TIMEOUT,
    Clients,
    Scenarios     \* sets of calls the clients make, one after the other, with how
                  \* many bytes each channel receives

Channels == {"COM1", "COM2"}
Ops      == {"Notify", "Putstr", "Getn", "Drain", "Flush"}

\* What the functions of the server's interface ask for.
Calls == [op : Ops \ {"Notify"}, ch : Channels, n : Nat]

ASSUME UartAssumption ==
    /\ FifoSize \in [Channels -> Nat \ {0}] /\ RxLevel \in [Channels -> Nat \ {0}]
    /\ Patient \subseteq Channels
    /\ IOBUF_SIZE \in Nat /\ COM1_WAITING_FOR_DOWN_TIMEOUT \in Nat
    /\ \A s \in Scenarios :
          /\ s.bytes \in [Channels -> Nat]
          /\ s.calls \in [Clients -> Seq(Calls)]

VARIABLES
    uart,       \* per channel, the FIFOs tx and rx, the interrupts enabled in ctlr,
                \* and whether the line has been silent since a byte waits in rx
    box,        \* "ready", "reached" by a byte, or "busy", when CTS is down
    modem,      \* CTS has changed: nobody clears this status
    event,      \* per channel, what the kernel has stored for the notifier, or {}
    notifier,   \* per channel, the notifier's state and the data it brings
    mailbox,    \* requests not received yet
    pc, req,    \* where the server is, and the request it serves
    msg,        \* bytes of a Putstr, or one popped from a buffer, not yet written
    ctl,        \* the change to ctlr under way, and where it leads
    cts,        \* com1_cts
    buffer, reader, flusher,   \* per channel, tx_buffers, rx_blocked_tids, flush_blocked_tids
    client,     \* per client, the call it waits for, or None, and those left
    log         \* per channel, what has been sent, accepted, received, read and drained

hardware   == <<uart, box, modem>>
serverVars == <<pc, req, msg, ctl, cts, buffer, reader, flusher>>
vars == <<hardware, event, notifier, mailbox, serverVars, client, log>>

Nobody == [from |-> "nobody"]
None   == [op |-> "none"]

UartTypeOK ==
    /\ \A c \in Channels :
          /\ Len(uart[c].tx) <= FifoSize[c] /\ Len(uart[c].rx) <= FifoSize[c]
          /\ uart[c].ctlr \subseteq {"modem", "tx", "rx", "rx_timeout"}
          /\ notifier[c].state \in {"waits", "woken", "sent", "answered"}
          /\ Len(buffer[c]) <= IOBUF_SIZE
          /\ uart[c].silent => uart[c].rx # <<>>
    /\ Len(mailbox) <= 3
    /\ cts.tag \in {"c", "d", "u"} /\ cts.age \in 0 .. COM1_WAITING_FOR_DOWN_TIMEOUT + 1

Init ==
    /\ uart = [c \in Channels |-> [tx |-> <<>>, rx |-> <<>>, ctlr |-> {}, silent |-> FALSE]]
    /\ box = "ready" /\ modem = FALSE
    /\ event = [c \in Channels |-> {}]
    /\ notifier = [c \in Channels |-> [state |-> "waits", data |-> {}]]
    /\ mailbox = <<>>
    /\ pc = "receive" /\ req = Nobody /\ msg = <<>>
    /\ ctl = [bits |-> {}, loaded |-> {}, after |-> "receive"]
    /\ cts = [tag |-> "c", age |-> 0]
    /\ buffer = [c \in Channels |-> <<>>]
    /\ reader = [c \in Channels |-> Nobody] /\ flusher = [c \in Channels |-> Nobody]
    /\ \E s \in Scenarios :
          /\ client = [cl \in Clients |-> [call |-> None, left |-> s.calls[cl], upto |-> 0]]
          /\ log = [c \in Channels |-> [wire |-> <<>>, accepted |-> 0, read |-> <<>>, arrived |-> 0,
                                        coming |-> s.bytes[c], drained |-> 0, fresh |-> 0]]

-----------------------------------------------------------------------------
(* The kernel and the notifiers.                                           *)

Raised(c) ==
    (IF c = "COM1" /\ modem THEN {"modem"} ELSE {})
        \cup (IF 2 * Len(uart[c].tx) <= FifoSize[c] THEN {"tx"} ELSE {})
        \cup (IF Len(uart[c].rx) >= RxLevel[c] THEN {"rx"} ELSE {})
        \cup (IF uart[c].silent THEN {"rx_timeout"} ELSE {})

Asserted(c) == Raised(c) \cap uart[c].ctlr

\* What is asserted is disabled, and the notifier is told or the data is stored.
Interrupt(c) ==
    /\ Asserted(c) # {}
    /\ uart' = [uart EXCEPT ![c].ctlr = @ \ Asserted(c)]
    /\ IF notifier[c].state = "waits"
       THEN notifier' = [notifier EXCEPT ![c] = [state |-> "woken", data |-> Asserted(c)]] /\ UNCHANGED event
       ELSE event' = [event EXCEPT ![c] = Asserted(c)] /\ UNCHANGED notifier
    /\ UNCHANGED <<box, modem, mailbox, serverVars, client, log>>

Uninterrupted == \A c \in Channels : Asserted(c) = {}

Notify(c) ==
    /\ Uninterrupted /\ notifier[c].state = "woken"
    /\ mailbox' = Append(mailbox, [op |-> "Notify", ch |-> c, data |-> notifier[c].data])
    /\ notifier' = [notifier EXCEPT ![c].state = "sent"]
    /\ UNCHANGED <<hardware, event, serverVars, client, log>>

AwaitEvent(c) ==
    /\ Uninterrupted /\ notifier[c].state = "answered"
    /\ notifier' = [notifier EXCEPT ![c] =
                       IF event[c] = {} THEN [state |-> "waits", data |-> {}]
                       ELSE [state |-> "woken", data |-> event[c]]]
    /\ event' = [event EXCEPT ![c] = {}]
    /\ UNCHANGED <<hardware, mailbox, serverVars, client, log>>

\* The tasks of a lower priority run.
NotifiersBlocked == Uninterrupted /\ \A c \in Channels : notifier[c].state \in {"waits", "sent"}

-----------------------------------------------------------------------------
(* The server.                                                             *)

Ch == req.ch

At(p) == NotifiersBlocked /\ pc = p

Answer(cl) == client' = [client EXCEPT ![cl].call = None]

\* enable_tx_interrupts(), enable_rx_interrupts(): ctlr is read, then written.
TxBits(c) == IF c = "COM1" THEN {"modem"} ELSE {"tx"}
RxBits    == {"rx", "rx_timeout"}

Enable(bits, after) ==
    pc' = "load" /\ ctl' = [bits |-> bits, loaded |-> {}, after |-> after]

LoadCtlr ==
    /\ At("load")
    /\ ctl' = [ctl EXCEPT !.loaded = uart[Ch].ctlr]
    /\ pc' = "store"
    /\ UNCHANGED <<hardware, event, notifier, mailbox, req, msg, cts, buffer, reader, flusher, client, log>>

StoreCtlr ==
    /\ At("store")
    /\ uart' = IF ctl.bits = RxBits \/ ~ ctl.bits \subseteq ctl.loaded
               THEN [uart EXCEPT ![Ch].ctlr = ctl.loaded \cup ctl.bits] ELSE uart
    /\ pc' = ctl.after
    /\ UNCHANGED <<box, modem, event, notifier, mailbox, req, msg, ctl, cts, buffer, reader, flusher, client, log>>

\* A message is received: Drain and Flush are served at once.  A Getn is noted.
ReceiveNotify(r) ==
    /\ r.op = "Notify"
    /\ notifier' = [notifier EXCEPT ![r.ch].state = "answered"]
    /\ pc' = CASE r.ch = "COM1" /\ "modem" \in r.data -> "cts"
               [] r.ch # "COM1" /\ "tx" \in r.data    -> "send"
               [] OTHER                               -> "read"
    /\ UNCHANGED <<msg, reader, flusher, uart, client, log>>

\* Mutant: the wire is tried first even if earlier bytes wait.
StraightAway(c) == "direct"

Begin(c) == CASE buffer[c] # <<>>                           -> "store_msg"
              [] buffer[c] = <<>> /\ flusher[c] = Nobody    -> "direct"
              [] OTHER                                      -> "assert"

ReceivePutstr(r) ==
    /\ r.op = "Putstr"
    /\ msg' = [i \in 1 .. r.n |-> log[r.ch].accepted + i]
    /\ log' = [log EXCEPT ![r.ch].accepted = @ + r.n]
    /\ pc' = Begin(r.ch)
    /\ UNCHANGED <<notifier, reader, flusher, uart, client>>

ReceiveGetn(r) ==
    /\ r.op = "Getn"
    /\ IF reader[r.ch] # Nobody THEN pc' = "panic" /\ UNCHANGED reader
       ELSE pc' = "take" /\ reader' = [reader EXCEPT ![r.ch] = [from |-> r.from, n |-> r.n, got |-> <<>>]]
    /\ UNCHANGED <<msg, notifier, flusher, uart, client, log>>

\* Mutant: what the blocked reader has got so far is kept.
NotCleared(rd) == rd

Cleared(rd) == IF rd = Nobody THEN Nobody ELSE [rd EXCEPT !.got = <<>>]

ReceiveDrain(r) ==
    /\ r.op = "Drain"
    /\ uart' = [uart EXCEPT ![r.ch].rx = <<>>, ![r.ch].silent = FALSE]
    /\ reader' = [reader EXCEPT ![r.ch] = Cleared(@)]
    /\ log' = [log EXCEPT ![r.ch].drained = log[r.ch].arrived, ![r.ch].fresh = r.arrived]
    /\ Answer(r.from)
    /\ pc' = "receive"
    /\ UNCHANGED <<msg, notifier, flusher>>

\* Mutant: one byte is not waited for.
OneLess(bytes) == Len(bytes) - 1

ToFlush(bytes) == Len(bytes)

ReceiveFlush(r) ==
    /\ r.op = "Flush"
    /\ CASE buffer[r.ch] = <<>> -> Answer(r.from) /\ pc' = "receive" /\ UNCHANGED flusher
         [] buffer[r.ch] # <<>> /\ flusher[r.ch] # Nobody -> pc' = "panic" /\ UNCHANGED <<client, flusher>>
         [] OTHER -> /\ flusher' = [flusher EXCEPT ![r.ch] =
                            [from |-> r.from, bytes_remaining |-> ToFlush(buffer[r.ch])]]
                     /\ pc' = "receive" /\ UNCHANGED client
    /\ UNCHANGED <<msg, notifier, reader, uart, log>>

Receive ==
    /\ At("receive") /\ mailbox # <<>>
    /\ req' = Head(mailbox) /\ mailbox' = Tail(mailbox)
    /\ \/ ReceiveNotify(Head(mailbox)) \/ ReceivePutstr(Head(mailbox)) \/ ReceiveGetn(Head(mailbox))
       \/ ReceiveDrain(Head(mailbox)) \/ ReceiveFlush(Head(mailbox))
    /\ UNCHANGED <<box, modem, event, ctl, cts, buffer>>

\* Mutant: a line that is up again counts as ready.
SeenAtOnce == [cts EXCEPT !.tag = "c"]

SeenUp == IF cts.tag = "u" THEN [cts EXCEPT !.tag = "c"] ELSE cts

\* The CTS line is looked at after a modem interrupt.
LookAtCts ==
    /\ At("cts")
    /\ IF box # "busy" THEN cts' = SeenUp /\ pc' = "send" /\ UNCHANGED ctl
       ELSE cts' = [cts EXCEPT !.tag = "u"] /\ Enable(TxBits(Ch), "send")
    /\ UNCHANGED <<hardware, event, notifier, mailbox, req, msg, buffer, reader, flusher, client, log>>

\* clear_to_send().  cts.age is how long ago the last byte was let go.
ClearToSend(c) ==
    /\ Len(uart[c].tx) < FifoSize[c]
    /\ c = "COM1" => /\ box # "busy"
                     /\ cts.tag = "c" \/ (cts.tag = "d" /\ cts.age > COM1_WAITING_FOR_DOWN_TIMEOUT)

LetGo == cts' = IF Ch = "COM1" THEN [tag |-> "d", age |-> 0] ELSE cts

ToPut == IF Ch = "COM1" THEN Enable(TxBits(Ch), "put") ELSE pc' = "put" /\ UNCHANGED ctl

More(c) == Enable(TxBits(c), "read")

\* The loop that writes from the buffer after an interrupt.
SendBuffered ==
    /\ At("send")
    /\ CASE buffer[Ch] = <<>> -> pc' = "read" /\ UNCHANGED <<ctl, cts, msg, buffer>>
         [] buffer[Ch] # <<>> /\ ~ ClearToSend(Ch) -> More(Ch) /\ UNCHANGED <<cts, msg, buffer>>
         [] OTHER -> /\ msg' = <<Head(buffer[Ch])>> /\ buffer' = [buffer EXCEPT ![Ch] = Tail(@)]
                     /\ LetGo /\ ToPut
    /\ UNCHANGED <<hardware, event, notifier, mailbox, req, reader, flusher, client, log>>

\* The loop that writes straight from a message.
SendDirect ==
    /\ At("direct")
    /\ CASE msg = <<>> -> pc' = "reply" /\ UNCHANGED <<ctl, cts>>
         [] msg # <<>> /\ ~ ClearToSend(Ch) -> pc' = "store_msg" /\ UNCHANGED <<ctl, cts>>
         [] OTHER -> LetGo /\ ToPut
    /\ UNCHANGED <<hardware, event, notifier, mailbox, req, msg, buffer, reader, flusher, client, log>>

\* The byte is written to the data register; a popped one is counted for a flush.
Put ==
    LET f == flusher[Ch]
    IN  /\ At("put")
        /\ uart' = [uart EXCEPT ![Ch].tx = Append(@, Head(msg))]
        /\ msg' = Tail(msg)
        /\ pc' = IF req.op = "Putstr" THEN "direct" ELSE "send"
        /\ CASE req.op = "Putstr" \/ f = Nobody -> UNCHANGED <<flusher, client>>
             [] req.op # "Putstr" /\ f # Nobody /\ f.bytes_remaining > 1 ->
                    flusher' = [flusher EXCEPT ![Ch].bytes_remaining = @ - 1] /\ UNCHANGED client
             [] OTHER -> flusher' = [flusher EXCEPT ![Ch] = Nobody] /\ Answer(f.from)
        /\ UNCHANGED <<box, modem, event, notifier, mailbox, req, ctl, cts, buffer, reader, log>>

\* Mutant: one byte too many is let in.
HasRoomOver(c) == Len(buffer[c]) + Len(msg) <= IOBUF_SIZE + 1

HasRoom(c) == Len(buffer[c]) + Len(msg) <= IOBUF_SIZE

\* What is left of a message is buffered; interrupts are enabled for the first.
StoreMsg ==
    /\ At("store_msg")
    /\ IF HasRoom(Ch)
       THEN /\ buffer' = [buffer EXCEPT ![Ch] = @ \o msg] /\ msg' = <<>>
            /\ IF buffer[Ch] = <<>> THEN Enable(TxBits(Ch), "reply") ELSE pc' = "reply" /\ UNCHANGED ctl
       ELSE pc' = "panic" /\ UNCHANGED <<buffer, msg, ctl>>
    /\ UNCHANGED <<hardware, event, notifier, mailbox, req, cts, reader, flusher, client, log>>

Reply ==
    /\ At("reply")
    /\ Answer(req.from)
    /\ pc' = "receive"
    /\ UNCHANGED <<hardware, event, notifier, mailbox, req, msg, ctl, cts, buffer, reader, flusher, log>>

\* A notification concerns the reader, or not.
Read ==
    /\ At("read")
    /\ pc' = IF reader[Ch] # Nobody /\ req.data \cap RxBits # {} THEN "take" ELSE "receive"
    /\ UNCHANGED <<hardware, event, notifier, mailbox, req, msg, ctl, cts, buffer, reader, flusher, client, log>>

FirstOf(bytes, n) == SubSeq(bytes, 1, Min({n, Len(bytes)}))

Taken(rd, rx) == [rd EXCEPT !.got = @ \o FirstOf(rx, rd.n - Len(@))]

\* Mutant: rx interrupts are not enabled again.
NotReady(c) == pc' = "receive" /\ UNCHANGED ctl

AwaitMore(c) == Enable(RxBits, "receive")

\* The reader takes what there is, and is answered if that is all it wants.
Take ==
    LET rd   == Taken(reader[Ch], uart[Ch].rx)
        rest == SubSeq(uart[Ch].rx, rd.n - Len(reader[Ch].got) + 1, Len(uart[Ch].rx))
    IN  /\ At("take")
        /\ uart' = [uart EXCEPT ![Ch].rx = rest, ![Ch].silent = @ /\ rest # <<>>]
        /\ IF Len(rd.got) = rd.n
           THEN /\ reader' = [reader EXCEPT ![Ch] = Nobody]
                /\ log' = [log EXCEPT ![Ch].read = @ \o rd.got]
                /\ Answer(rd.from)
                /\ pc' = "receive" /\ UNCHANGED ctl
           ELSE reader' = [reader EXCEPT ![Ch] = rd] /\ AwaitMore(Ch) /\ UNCHANGED <<log, client>>
        /\ UNCHANGED <<box, modem, event, notifier, mailbox, req, msg, cts, buffer, flusher>>

Server ==
    \/ Receive \/ LookAtCts \/ SendBuffered \/ SendDirect \/ Put \/ StoreMsg
    \/ Reply \/ Read \/ Take \/ LoadCtlr \/ StoreCtlr

-----------------------------------------------------------------------------
(* The clients and the hardware.                                           *)

Idle == At("receive") /\ mailbox = <<>>

Call(cl) ==
    /\ Idle /\ client[cl].call = None /\ client[cl].left # <<>>
    /\ LET r == Head(client[cl].left)
       IN  /\ client' = [client EXCEPT ![cl] = [call |-> r, left |-> Tail(@.left),
                                                upto |-> log[r.ch].accepted]]
           /\ mailbox' = Append(mailbox, [op |-> r.op, ch |-> r.ch, n |-> r.n, from |-> cl,
                                          arrived |-> log[r.ch].arrived])
    /\ UNCHANGED <<hardware, event, notifier, serverVars, log>>

\* A byte leaves the UART.
Shift(c) ==
    /\ uart[c].tx # <<>>
    /\ uart' = [uart EXCEPT ![c].tx = Tail(@)]
    /\ log' = [log EXCEPT ![c].wire = Append(@, Head(uart[c].tx))]
    /\ box' = IF c = "COM1" /\ box = "ready" THEN "reached" ELSE box
    /\ UNCHANGED <<modem, event, notifier, mailbox, serverVars, client>>

\* CTS goes down, and up.
BoxMoves(from, to) ==
    /\ box = from /\ box' = to
    /\ modem' = TRUE
    /\ UNCHANGED <<uart, event, notifier, mailbox, serverVars, client, log>>

Arrive(c) ==
    /\ log[c].arrived < log[c].coming /\ Len(uart[c].rx) < FifoSize[c]
    /\ uart' = [uart EXCEPT ![c].rx = Append(@, log[c].arrived + 1), ![c].silent = FALSE]
    /\ log' = [log EXCEPT ![c].arrived = @ + 1]
    /\ UNCHANGED <<box, modem, event, notifier, mailbox, serverVars, client>>

FallSilent(c) ==
    /\ uart[c].rx # <<>> /\ ~ uart[c].silent
    /\ c \in Patient => Idle
    /\ uart' = [uart EXCEPT ![c].silent = TRUE]
    /\ UNCHANGED <<box, modem, event, notifier, mailbox, serverVars, client, log>>

\* The box lowers CTS before the server stops waiting for it.
OnItsWay == uart["COM1"].tx # <<>> \/ box = "reached" \/ msg # <<>>

PassTime ==
    /\ cts.tag = "d" /\ cts.age <= COM1_WAITING_FOR_DOWN_TIMEOUT
    /\ cts.age = COM1_WAITING_FOR_DOWN_TIMEOUT => ~ OnItsWay
    /\ cts' = [cts EXCEPT !.age = @ + 1]
    /\ UNCHANGED <<hardware, event, notifier, mailbox, pc, req, msg, ctl, buffer, reader, flusher, client, log>>

Running == pc \notin {"panic", "assert"}

Tasks == Running /\ (Server \/ (\E c \in Channels : Interrupt(c) \/ Notify(c) \/ AwaitEvent(c))
                            \/ \E cl \in Clients : Call(cl))

Hardware == Running /\ (BoxMoves("reached", "busy") \/ BoxMoves("busy", "ready") \/ PassTime
                            \/ \E c \in Channels : Shift(c) \/ Arrive(c) \/ FallSilent(c))

Next == Tasks \/ Hardware

Spec == Init /\ [][Next]_vars

\* The tasks go on, and so does the hardware: with a script that ends, each of its
\* steps happens only so often, so that none is put off for ever by the others.
LiveSpec == Spec /\ WF_vars(Tasks) /\ WF_vars(Hardware)

-----------------------------------------------------------------------------
(* Properties.                                                             *)

InHand(c) ==
    CASE msg = <<>> \/ req.ch # c -> buffer[c]
      [] msg # <<>> /\ req.ch = c /\ req.op = "Putstr" -> buffer[c] \o msg
      [] OTHER -> msg \o buffer[c]

\* "Putstr and Printf can atomically write up to 4096 bytes" (k4/kernel.md:978): the
\* bytes leave in the order in which the messages were accepted, none twice and none
\* out of its message, whether written at once or from the buffer
\* (uartserver.cc:324-334 and 384-422).
WireInOrder ==
    \A c \in Channels :
        log[c].wire \o uart[c].tx \o InHand(c) = [i \in 1 .. log[c].accepted |-> i]

\* The box is sent a byte only when it can take one: the server infers that from CTS,
\* which is still up when the byte has just been sent, and from modem interrupts, which
\* may come late (uartserver.cc:189-222 and 309-322).
CtsRespected == [][log'["COM1"].wire # log["COM1"].wire => box = "ready"]_vars

\* Flush() returns when all that was accepted before it has been written
\* (uartserver.cc:245-254 and 498-513).
FlushHonest ==
    [][\A cl \in Clients :
          client[cl].call.op = "Flush" /\ client'[cl].call = None =>
              LET c == client[cl].call.ch
              IN  client[cl].upto <= Len(log'[c].wire) + Len(uart'[c].tx)]_vars

Holding(c) == (IF reader[c] = Nobody THEN <<>> ELSE reader[c].got) \o uart[c].rx

\* Bytes are read in the order of their arrival, and none is forgotten but those that
\* were drained (uartserver.cc:346-371 and 452-475).  "Calling Drain ensures that all
\* received bytes must have been received after the Drain call" (k4/kernel.md:1030-1031),
\* even by a reader that had some already (uartserver.cc:478-497).
ReadInOrder ==
    \A c \in Channels :
        LET all == log[c].read \o Holding(c)
        IN  /\ \A i, j \in DOMAIN all : i < j => all[i] < all[j]
            /\ log[c].drained + 1 .. log[c].arrived \subseteq ToSet(all)
            /\ \A b \in ToSet(Holding(c)) : b > log[c].fresh

Starved(call) ==
    call.op = "Getn" /\ log[call.ch].arrived = log[call.ch].coming /\ uart[call.ch].rx = <<>>

\* "Once the tx interrupt is received, data is pulled off the ring buffer and written to
\* the UART's data register until either the buffer is emptied or the FIFO is filled (in
\* which case tx interrupts will be enabled again)" (k4/kernel.md:1005-1008): what has
\* been buffered is sent.
BufferedIsSent == <>[](Running => \A c \in Channels : buffer[c] = <<>>)

\* "a Receive() loop that never blocks" (k4/kernel.md:963): whoever calls the server is
\* answered in the end, unless it wants bytes that never arrive, or the program panics;
\* also a task that waits for a flush, whom "assert(!flush_blocked_tids[channel]
\* .has_value())" (uartserver.cc:385) takes to have been answered once the buffer is
\* empty.  And what has been buffered is sent.
EveryoneServed ==
    /\ <>[](pc # "panic" => \A cl \in Clients : client[cl].call = None \/ Starved(client[cl].call))
    /\ BufferedIsSent

=============================================================================
