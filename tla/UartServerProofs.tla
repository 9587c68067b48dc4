-------------------------- MODULE UartServerProofs --------------------------
(***************************************************************************)
(* The UART server puts the bytes it accepts on the wire in order, sends   *)
(* the box a byte only when it can take one, answers a flush when it has   *)
(* done what it was asked for, and delivers what arrives in order, for     *)
(* every set of clients, calls, FIFO sizes and buffer sizes.               *)
(***************************************************************************)
EXTENDS UartServer, SequenceTheorems, TLAPS

-----------------------------------------------------------------------------
(* Types.                                                                  *)

Bits   == {"modem", "tx", "rx", "rx_timeout"}
Afters == {"receive", "send", "put", "read", "reply"}
PCs    == Afters \cup {"cts", "direct", "store_msg", "take", "load", "store", "panic", "assert"}

Notices  == [op : {"Notify"}, ch : Channels, data : SUBSET Bits]
Messages == [op : Ops \ {"Notify"}, ch : Channels, n : Nat, from : Clients, arrived : Nat]
Readers  == [from : Clients, n : Nat, got : Seq(Nat)]
Flushers == [from : Clients, bytes_remaining : Int]
Logs     == [wire : Seq(Nat), accepted : Nat, read : Seq(Nat), arrived : Nat, coming : Nat,
             drained : Nat, fresh : Nat]

HardTypes ==
    /\ uart \in [Channels -> [tx : Seq(Nat), rx : Seq(Nat), ctlr : SUBSET Bits, silent : BOOLEAN]]
    /\ box \in {"ready", "reached", "busy"} /\ modem \in BOOLEAN

TaskTypes ==
    /\ event \in [Channels -> SUBSET Bits]
    /\ notifier \in [Channels -> [state : {"waits", "woken", "sent", "answered"}, data : SUBSET Bits]]
    /\ mailbox \in Seq(Notices \cup Messages)
    /\ client \in [Clients -> [call : {None} \cup Calls, left : Seq(Calls), upto : Nat]]
    /\ log \in [Channels -> Logs]

ServerTypes ==
    /\ pc \in PCs /\ req \in {Nobody} \cup Notices \cup Messages /\ msg \in Seq(Nat)
    /\ ctl \in [bits : SUBSET Bits, loaded : SUBSET Bits, after : Afters]
    /\ cts \in [tag : {"c", "d", "u"}, age : 0 .. COM1_WAITING_FOR_DOWN_TIMEOUT + 1]
    /\ buffer \in [Channels -> Seq(Nat)]
    /\ reader \in [Channels -> {Nobody} \cup Readers]
    /\ flusher \in [Channels -> {Nobody} \cup Flushers]

Types == HardTypes /\ TaskTypes /\ ServerTypes

-----------------------------------------------------------------------------
(* The invariant.                                                          *)

\* What the server is about to do once ctlr is written.
Doing == IF pc \in {"load", "store"} THEN ctl.after ELSE pc

\* What the server holds, and of whom, at each place of its program.
PCsSound ==
    /\ pc # "receive" => req # Nobody
    /\ Doing \in {"cts", "send", "read"} => req.op = "Notify"
    /\ Doing \in {"direct", "store_msg", "reply"} => req.op = "Putstr"
    /\ Doing \in {"receive", "cts", "send", "read", "take", "reply"} => msg = <<>>
    /\ Doing = "direct" => buffer[Ch] = <<>>
    /\ Doing = "put" => /\ msg # <<>> /\ Len(uart[Ch].tx) < FifoSize[Ch]
                        /\ \/ req.op = "Putstr" /\ buffer[Ch] = <<>>
                           \/ req.op = "Notify" /\ Len(msg) = 1
    /\ Doing = "take" => req.op \in {"Notify", "Getn"} /\ reader[Ch] # Nobody

\* A notifier has one message at most in the mailbox, and a client's comes first.
MailSound ==
    /\ \A i \in DOMAIN mailbox :
          /\ mailbox[i].op = "Notify" => notifier[mailbox[i].ch].state = "sent"
          /\ mailbox[i].op # "Notify" => /\ i = 1 /\ pc = "receive"
                                         /\ mailbox[i].arrived <= log[mailbox[i].ch].arrived
    /\ \A i, j \in DOMAIN mailbox :
          mailbox[i].op = "Notify" /\ mailbox[j].op = "Notify" /\ mailbox[i].ch = mailbox[j].ch => i = j

\* Whoever is to be answered has asked for just that, and is in one place.
CallersSound ==
    /\ \A i \in DOMAIN mailbox : mailbox[i].op # "Notify" =>
          LET call == client[mailbox[i].from].call
          IN  /\ call.op = mailbox[i].op /\ call.ch = mailbox[i].ch
              /\ \A c \in Channels : /\ reader[c] # Nobody  => reader[c].from # mailbox[i].from
                                     /\ flusher[c] # Nobody => flusher[c].from # mailbox[i].from
    /\ \A c \in Channels : reader[c] # Nobody =>
          client[reader[c].from].call.op = "Getn" /\ client[reader[c].from].call.ch = c
    /\ \A c \in Channels : flusher[c] # Nobody =>
          client[flusher[c].from].call.op = "Flush" /\ client[flusher[c].from].call.ch = c
    /\ Doing \in {"direct", "store_msg", "put", "reply"} /\ req.op = "Putstr" =>
          client[req.from].call.op = "Putstr"

\* A flush waits for as many bytes as are still to be written.
FlushSound ==
    /\ \A cl \in Clients : client[cl].call.op = "Flush" =>
          client[cl].upto <= log[client[cl].call.ch].accepted
    /\ \A c \in Channels : flusher[c] # Nobody =>
          client[flusher[c].from].upto
             <= Len(log[c].wire) + Len(uart[c].tx) + flusher[c].bytes_remaining

\* While a byte is on its way to the box, the server waits for CTS to go down.
Awaits == cts.tag = "d" /\ cts.age <= COM1_WAITING_FOR_DOWN_TIMEOUT

CtsSound ==
    LET tx == uart["COM1"].tx
    IN  /\ tx # <<>> \/ box = "reached" => Awaits
        /\ tx # <<>> => box = "ready" /\ Len(tx) = 1
        /\ Doing = "put" /\ Ch = "COM1" => Awaits /\ tx = <<>> /\ box = "ready"

\* The bytes of channel c that have been read, and are about to be.
ReadSound(c) ==
    LET all == log[c].read \o Holding(c)
    IN  /\ \A i, j \in DOMAIN all : i < j => all[i] < all[j]
        /\ \A i \in DOMAIN all : all[i] <= log[c].arrived
        /\ log[c].drained + 1 .. log[c].arrived \subseteq ToSet(all)
        /\ \A b \in ToSet(Holding(c)) : b > log[c].fresh
        /\ log[c].fresh <= log[c].arrived
        /\ reader[c] # Nobody => Len(reader[c].got) <= reader[c].n

Inv == /\ Types /\ UartTypeOK /\ WireInOrder
       /\ PCsSound /\ MailSound /\ CallersSound /\ FlushSound /\ CtsSound
       /\ \A c \in Channels : ReadSound(c)
-----------------------------------------------------------------------------
(* Types: facts.                                                           *)

LEMMA ChannelTypes ==
  ASSUME Types, NEW c \in Channels
  PROVE  /\ uart[c].tx \in Seq(Nat) /\ uart[c].rx \in Seq(Nat)
         /\ uart[c].ctlr \subseteq Bits /\ uart[c].silent \in BOOLEAN
         /\ notifier[c].state \in {"waits", "woken", "sent", "answered"}
         /\ notifier[c].data \subseteq Bits /\ event[c] \subseteq Bits
         /\ buffer[c] \in Seq(Nat)
         /\ log[c].wire \in Seq(Nat) /\ log[c].accepted \in Nat /\ log[c].read \in Seq(Nat)
         /\ log[c].arrived \in Nat /\ log[c].coming \in Nat /\ log[c].drained \in Nat
         /\ log[c].fresh \in Nat
  BY DEF Types, HardTypes, TaskTypes, ServerTypes, Logs

LEMMA ReaderTypes ==
  ASSUME Types, NEW c \in Channels, reader[c] # Nobody
  PROVE  /\ reader[c].from \in Clients /\ reader[c].n \in Nat /\ reader[c].got \in Seq(Nat)
         /\ reader[c] = [from |-> reader[c].from, n |-> reader[c].n, got |-> reader[c].got]
  <1>1. reader[c] \in Readers
    BY DEF Types, ServerTypes
  <1> QED BY <1>1 DEF Readers

LEMMA FlusherTypes ==
  ASSUME Types, NEW c \in Channels, flusher[c] # Nobody
  PROVE  flusher[c].from \in Clients /\ flusher[c].bytes_remaining \in Int
  <1>1. flusher[c] \in Flushers
    BY DEF Types, ServerTypes
  <1> QED BY <1>1 DEF Flushers

LEMMA ReqTypes ==
  ASSUME Types, req # Nobody
  PROVE  /\ Ch \in Channels /\ Ch = req.ch /\ req.op \in Ops
         /\ req.op = "Notify" => req.data \subseteq Bits
         /\ req.op # "Notify" => req.n \in Nat /\ req.from \in Clients /\ req.arrived \in Nat
  <1>1. req \in Notices \cup Messages
    BY DEF Types, ServerTypes
  <1> QED BY <1>1 DEF Notices, Messages, Ch, Ops

LEMMA MailTypes ==
  ASSUME Types
  PROVE  /\ Len(mailbox) \in Nat /\ DOMAIN mailbox = 1 .. Len(mailbox)
         /\ \A i \in DOMAIN mailbox :
               /\ mailbox[i] \in Notices \cup Messages
               /\ mailbox[i].op \in Ops /\ mailbox[i].ch \in Channels
               /\ mailbox[i].op = "Notify" => mailbox[i].data \subseteq Bits
               /\ mailbox[i].op # "Notify" => /\ mailbox[i].n \in Nat
                                              /\ mailbox[i].from \in Clients
                                              /\ mailbox[i].arrived \in Nat
  <1>1. mailbox \in Seq(Notices \cup Messages)
    BY DEF Types, TaskTypes
  <1>2. /\ Len(mailbox) \in Nat /\ DOMAIN mailbox = 1 .. Len(mailbox)
        /\ \A i \in DOMAIN mailbox : mailbox[i] \in Notices \cup Messages
    BY <1>1
  <1> QED BY <1>2 DEF Notices, Messages, Ops

LEMMA HeadTypes ==
  ASSUME Types, mailbox # <<>>
  PROVE  /\ 1 \in DOMAIN mailbox /\ Head(mailbox) = mailbox[1]
         /\ Tail(mailbox) \in Seq(Notices \cup Messages)
         /\ Len(Tail(mailbox)) = Len(mailbox) - 1
         /\ \A i \in DOMAIN Tail(mailbox) :
               i + 1 \in DOMAIN mailbox /\ Tail(mailbox)[i] = mailbox[i + 1]
  <1>1. mailbox \in Seq(Notices \cup Messages)
    BY DEF Types, TaskTypes
  <1> QED BY <1>1, MailTypes

LEMMA MinOfTwo ==
  ASSUME NEW a \in Int, NEW b \in Int
  PROVE  Min({a, b}) = IF a <= b THEN a ELSE b
  BY DEF Min

LEMMA NotAnEntry ==
  /\ \A r \in Readers : r # Nobody
  /\ \A f \in Flushers : f # Nobody
  /\ \A m \in Notices \cup Messages : m # Nobody
  /\ \A r \in Calls : r # None
  <1>1. DOMAIN Nobody = {"from"}
    BY DEF Nobody
  <1>2. \A r \in Readers : "n" \in DOMAIN r
    BY DEF Readers
  <1>3. \A f \in Flushers : "bytes_remaining" \in DOMAIN f
    BY DEF Flushers
  <1>4. \A m \in Notices \cup Messages : "op" \in DOMAIN m
    BY DEF Notices, Messages
  <1>5. \A r \in Calls : "n" \in DOMAIN r
    BY DEF Calls
  <1>6. DOMAIN None = {"op"}
    BY DEF None
  <1> QED BY <1>1, <1>2, <1>3, <1>4, <1>5, <1>6

-----------------------------------------------------------------------------
(* Types: the hardware.                                                    *)

Uarts == [tx : Seq(Nat), rx : Seq(Nat), ctlr : SUBSET Bits, silent : BOOLEAN]

LEMMA FirstAndRest ==
  ASSUME NEW rx \in Seq(Nat), NEW k \in Nat
  PROVE  /\ FirstOf(rx, k) \in Seq(Nat) /\ SubSeq(rx, k + 1, Len(rx)) \in Seq(Nat)
         /\ FirstOf(rx, k) \o SubSeq(rx, k + 1, Len(rx)) = rx
         /\ Len(FirstOf(rx, k)) <= k
  <1>1. Len(rx) \in Nat
    OBVIOUS
  <1>2. CASE k <= Len(rx)
    <2>1. FirstOf(rx, k) = SubSeq(rx, 1, k)
      BY <1>1, <1>2, MinOfTwo DEF FirstOf
    <2>2. 1 \in 1 .. Len(rx) + 1 /\ k \in 1 - 1 .. Len(rx) /\ Len(rx) \in k .. Len(rx)
      BY <1>1, <1>2
    <2>3. SubSeq(rx, 1, k) \o SubSeq(rx, k + 1, Len(rx)) = rx
      BY <2>2, ConcatAdjacentSubSeq, SubSeqFull
    <2>4. /\ \A i \in 1 .. k : rx[i] \in Nat
          /\ \A i \in k + 1 .. Len(rx) : rx[i] \in Nat
      BY <1>1, <1>2
    <2>5. SubSeq(rx, 1, k) \in Seq(Nat) /\ Len(SubSeq(rx, 1, k)) <= k
      BY <1>1, <2>4, SubSeqProperties
    <2>6. SubSeq(rx, k + 1, Len(rx)) \in Seq(Nat)
      BY <1>1, <2>4, SubSeqProperties
    <2> QED BY <2>1, <2>3, <2>5, <2>6
  <1>3. CASE ~(k <= Len(rx))
    <2>1. FirstOf(rx, k) = rx
      BY <1>1, <1>3, MinOfTwo, SubSeqFull DEF FirstOf
    <2>2. SubSeq(rx, k + 1, Len(rx)) = <<>>
      BY <1>1, <1>3, SubSeqEmpty
    <2> QED BY <1>1, <1>3, <2>1, <2>2, ConcatEmptySeq
  <1> QED BY <1>2, <1>3

LEMMA HardNext ==
  ASSUME Types, PCsSound, \A c \in Channels : ReadSound(c), Next
  PROVE  HardTypes'
  <1>1. uart \in [Channels -> Uarts] /\ box \in {"ready", "reached", "busy"} /\ modem \in BOOLEAN
    BY DEF Types, HardTypes, Uarts
  <1>2. UNCHANGED hardware => HardTypes'
    BY <1>1 DEF hardware, HardTypes, Uarts
  <1>3. uart' \in [Channels -> Uarts] /\ box' \in {"ready", "reached", "busy"} /\ modem' \in BOOLEAN
           => HardTypes'
    BY DEF HardTypes, Uarts
  <1>4. ASSUME NEW c \in Channels, Interrupt(c)
        PROVE  HardTypes'
    <2>1. uart' = [uart EXCEPT ![c].ctlr = uart[c].ctlr \ Asserted(c)]
      BY <1>4 DEF Interrupt
    <2>2. uart[c].ctlr \ Asserted(c) \in SUBSET Bits
      BY ChannelTypes
    <2>3. uart' \in [Channels -> Uarts]
      BY <1>1, <2>1, <2>2 DEF Uarts
    <2> QED BY <1>1, <1>3, <1>4, <2>3 DEF Interrupt
  <1>5. ASSUME StoreCtlr
        PROVE  HardTypes'
    <2>1. Ch \in Channels
      BY <1>5, ReqTypes DEF PCsSound, StoreCtlr, At
    <2>2. ctl.loaded \cup ctl.bits \in SUBSET Bits
      BY DEF Types, ServerTypes
    <2>3. [uart EXCEPT ![Ch].ctlr = ctl.loaded \cup ctl.bits] \in [Channels -> Uarts]
      BY <1>1, <2>1, <2>2 DEF Uarts
    <2> QED BY <1>1, <1>3, <1>5, <2>3 DEF StoreCtlr
  <1>6. ASSUME NEW r \in Messages, ReceiveDrain(r), UNCHANGED <<box, modem>>
        PROVE  HardTypes'
    <2>1. r.ch \in Channels
      BY DEF Messages
    <2>2. uart' = [uart EXCEPT ![r.ch].rx = <<>>, ![r.ch].silent = FALSE]
      BY <1>6 DEF ReceiveDrain
    <2>3. PICK e \in Seq(Nat) : e = <<>>
      BY EmptySeq
    <2>4. uart' = [uart EXCEPT ![r.ch] = [uart[r.ch] EXCEPT !.rx = e, !.silent = FALSE]]
      BY <1>1, <2>1, <2>2, <2>3
    <2>5. uart' \in [Channels -> Uarts]
      BY <1>1, <2>1, <2>4 DEF Uarts
    <2> QED BY <1>1, <1>3, <1>6, <2>5
  <1>7. ASSUME Receive
        PROVE  HardTypes'
    <2>1. Head(mailbox) \in Notices \cup Messages
      BY <1>7, HeadTypes, MailTypes DEF Receive
    <2>2. Head(mailbox).op = "Drain" => Head(mailbox) \in Messages
      BY <2>1 DEF Notices
    <2>3. CASE ReceiveDrain(Head(mailbox))
      BY <1>6, <1>7, <2>2, <2>3 DEF Receive, ReceiveDrain
    <2> QED BY <1>2, <1>7, <2>3
            DEF Receive, ReceiveNotify, ReceivePutstr, ReceiveGetn, ReceiveFlush, hardware
  <1>8. ASSUME Put
        PROVE  HardTypes'
    <2>1. Ch \in Channels /\ msg # <<>> /\ msg \in Seq(Nat)
      BY <1>8, ReqTypes DEF PCsSound, Put, At, Doing, Types, ServerTypes
    <2>2. uart[Ch].tx \in Seq(Nat) /\ Head(msg) \in Nat
      BY <2>1, ChannelTypes
    <2>3. Append(uart[Ch].tx, Head(msg)) \in Seq(Nat)
      BY <2>2
    <2>4. uart' = [uart EXCEPT ![Ch].tx = Append(uart[Ch].tx, Head(msg))]
      BY <1>8 DEF Put
    <2>5. uart' \in [Channels -> Uarts]
      BY <1>1, <2>1, <2>3, <2>4 DEF Uarts
    <2> QED BY <1>1, <1>3, <1>8, <2>5 DEF Put
  <1>9. ASSUME Take
        PROVE  HardTypes'
    <2>1. Ch \in Channels /\ reader[Ch] # Nobody
      BY <1>9, ReqTypes DEF PCsSound, Take, At, Doing
    <2>2. PICK k \in Nat : k = reader[Ch].n - Len(reader[Ch].got)
      <3>1. Len(reader[Ch].got) <= reader[Ch].n
        BY <1>9, <2>1 DEF ReadSound
      <3>2. reader[Ch].got \in Seq(Nat) /\ reader[Ch].n \in Nat
        BY <2>1, ReaderTypes
      <3>3. Len(reader[Ch].got) \in Nat
        BY <3>2
      <3> QED BY <3>1, <3>2, <3>3
    <2>3. PICK rest \in Seq(Nat) : rest = SubSeq(uart[Ch].rx, k + 1, Len(uart[Ch].rx))
      BY <2>1, <2>2, ChannelTypes, FirstAndRest
    <2>4. Taken(reader[Ch], uart[Ch].rx).n = reader[Ch].n
      BY <2>1, ReaderTypes DEF Taken
    <2>5. uart' = [uart EXCEPT ![Ch].rx = rest, ![Ch].silent = uart[Ch].silent /\ rest # <<>>]
      BY <1>9, <2>2, <2>3, <2>4 DEF Take
    <2>6. uart' \in [Channels -> Uarts]
      BY <1>1, <2>1, <2>3, <2>5 DEF Uarts
    <2> QED BY <1>1, <1>3, <1>9, <2>6 DEF Take
  <1>10. ASSUME NEW c \in Channels, Shift(c)
        PROVE  HardTypes'
    <2>1. Tail(uart[c].tx) \in Seq(Nat)
      BY <1>10, ChannelTypes DEF Shift
    <2>2. uart' \in [Channels -> Uarts]
      BY <1>1, <1>10, <2>1 DEF Uarts, Shift
    <2> QED BY <1>1, <1>3, <1>10, <2>2 DEF Shift
  <1>11. ASSUME NEW c \in Channels, Arrive(c)
         PROVE  HardTypes'
    <2>1. Append(uart[c].rx, log[c].arrived + 1) \in Seq(Nat)
      BY ChannelTypes
    <2>2. uart' \in [Channels -> Uarts]
      BY <1>1, <1>11, <2>1 DEF Uarts, Arrive
    <2> QED BY <1>1, <1>3, <1>11, <2>2 DEF Arrive
  <1>12. ASSUME NEW c \in Channels, FallSilent(c)
         PROVE  HardTypes'
    <2>1. uart' \in [Channels -> Uarts]
      BY <1>1, <1>12 DEF Uarts, FallSilent
    <2> QED BY <1>1, <1>3, <1>12, <2>1 DEF FallSilent
  <1>13. BoxMoves("reached", "busy") \/ BoxMoves("busy", "ready") => HardTypes'
    BY <1>1, <1>3 DEF BoxMoves
  <1>14. LookAtCts \/ SendBuffered \/ SendDirect \/ StoreMsg \/ Reply \/ Read \/ LoadCtlr
            => UNCHANGED hardware
    BY DEF LookAtCts, SendBuffered, SendDirect, StoreMsg, Reply, Read, LoadCtlr
  <1>15. /\ \A c \in Channels : Notify(c) \/ AwaitEvent(c) => UNCHANGED hardware
         /\ \A cl \in Clients : Call(cl) => UNCHANGED hardware
         /\ PassTime => UNCHANGED hardware
    BY DEF Notify, AwaitEvent, Call, PassTime
  <1> QED BY <1>2, <1>4, <1>5, <1>7, <1>8, <1>9, <1>10, <1>11, <1>12, <1>13, <1>14, <1>15
          DEF Next, Tasks, Hardware, Server

-----------------------------------------------------------------------------
(* Types: notifiers, clients and the log.                                  *)

LEMMA ReceiveCases ==
  ASSUME Types, Receive
  PROVE  /\ mailbox # <<>> /\ pc = "receive" /\ req' = Head(mailbox) /\ mailbox' = Tail(mailbox)
         /\ UNCHANGED <<box, modem, event, ctl, cts, buffer>>
         /\ \/ \E r \in Notices : r = Head(mailbox) /\ ReceiveNotify(r)
            \/ \E r \in Messages : /\ r = Head(mailbox)
                                   /\ \/ ReceivePutstr(r) \/ ReceiveGetn(r)
                                      \/ ReceiveDrain(r) \/ ReceiveFlush(r)
  <1>1. mailbox # <<>> /\ Head(mailbox) \in Notices \cup Messages
    BY HeadTypes, MailTypes DEF Receive
  <1>2. \A r \in Notices : r.op = "Notify"
    BY DEF Notices
  <1>3. \A r \in Messages : r.op # "Notify"
    BY DEF Messages
  <1> QED BY <1>1, <1>2, <1>3
          DEF Receive, At, ReceiveNotify, ReceivePutstr, ReceiveGetn, ReceiveDrain, ReceiveFlush

LEMMA MessageTypes ==
  ASSUME NEW r \in Messages
  PROVE  /\ r.op \in Ops \ {"Notify"} /\ r.ch \in Channels /\ r.n \in Nat
         /\ r.from \in Clients /\ r.arrived \in Nat
  BY DEF Messages

LEMMA NotifierNext ==
  ASSUME Types, Next
  PROVE  /\ event' \in [Channels -> SUBSET Bits]
         /\ notifier' \in [Channels -> [state : {"waits", "woken", "sent", "answered"},
                                        data : SUBSET Bits]]
  <1>1. /\ event \in [Channels -> SUBSET Bits]
        /\ notifier \in [Channels -> [state : {"waits", "woken", "sent", "answered"},
                                      data : SUBSET Bits]]
    BY DEF Types, TaskTypes
  <1> DEFINE Goal == /\ event' \in [Channels -> SUBSET Bits]
                     /\ notifier' \in [Channels -> [state : {"waits", "woken", "sent", "answered"},
                                                    data : SUBSET Bits]]
  <1>2. ASSUME NEW c \in Channels, Interrupt(c)
        PROVE  Goal
    <2>1. Asserted(c) \in SUBSET Bits
      BY ChannelTypes DEF Asserted
    <2> QED BY <1>1, <1>2, <2>1 DEF Interrupt
  <1>3. ASSUME NEW c \in Channels, Notify(c) \/ AwaitEvent(c)
        PROVE  Goal
    BY <1>1, <1>3 DEF Notify, AwaitEvent
  <1>4. ASSUME Receive
        PROVE  Goal
    <2>1. ASSUME NEW r \in Notices, ReceiveNotify(r), UNCHANGED event
          PROVE  Goal
      BY <1>1, <2>1 DEF ReceiveNotify, Notices
    <2> QED BY <1>1, <1>4, <2>1, ReceiveCases
            DEF ReceivePutstr, ReceiveGetn, ReceiveDrain, ReceiveFlush
  <1>5. ASSUME UNCHANGED <<event, notifier>>
        PROVE  Goal
    BY <1>1, <1>5
  <1>6. Server => Receive \/ UNCHANGED <<event, notifier>>
    BY DEF Server, LookAtCts, SendBuffered, SendDirect, Put, StoreMsg, Reply, Read, Take,
           LoadCtlr, StoreCtlr
  <1>7. /\ Hardware => UNCHANGED <<event, notifier>>
        /\ \A cl \in Clients : Call(cl) => UNCHANGED <<event, notifier>>
    BY DEF Hardware, BoxMoves, PassTime, Shift, Arrive, FallSilent, Call
  <1> QED BY <1>2, <1>3, <1>4, <1>5, <1>6, <1>7 DEF Next, Tasks

LEMMA ClientParts ==
  ASSUME Types, NEW cl \in Clients
  PROVE  /\ client[cl].call \in {None} \cup Calls /\ client[cl].left \in Seq(Calls)
         /\ client[cl].upto \in Nat /\ client[cl].call.op \in {"none"} \cup Ops
         /\ client[cl].call # None => client[cl].call.ch \in Channels
  <1>1. client[cl] \in [call : {None} \cup Calls, left : Seq(Calls), upto : Nat]
    BY DEF Types, TaskTypes
  <1>2. /\ client[cl].call \in {None} \cup Calls /\ client[cl].left \in Seq(Calls)
        /\ client[cl].upto \in Nat
    BY <1>1
  <1>3. \A r \in Calls : r.op \in Ops /\ r.ch \in Channels
    BY DEF Calls
  <1> QED BY <1>2, <1>3 DEF None

LEMMA CallFacts ==
  ASSUME Types, NEW cl \in Clients, Call(cl)
  PROVE  \E r \in Calls, rest \in Seq(Calls), m \in Messages :
            /\ client[cl].call = None /\ mailbox = <<>> /\ pc = "receive"
            /\ client' = [client EXCEPT ![cl] = [call |-> r, left |-> rest,
                                                 upto |-> log[r.ch].accepted]]
            /\ m.op = r.op /\ m.ch = r.ch /\ m.n = r.n /\ m.from = cl
            /\ m.arrived = log[r.ch].arrived
            /\ mailbox' = <<m>>
            /\ UNCHANGED <<hardware, event, notifier, serverVars, log>>
  <1>1. client[cl].left \in Seq(Calls) /\ client[cl].left # <<>>
    BY ClientParts DEF Call
  <1>2. PICK r \in Calls, rest \in Seq(Calls) :
           r = Head(client[cl].left) /\ rest = Tail(client[cl].left)
    BY <1>1, HeadTailProperties
  <1>3. r.op \in Ops \ {"Notify"} /\ r.ch \in Channels /\ r.n \in Nat
    BY DEF Calls
  <1> DEFINE m == [op |-> r.op, ch |-> r.ch, n |-> r.n, from |-> cl, arrived |-> log[r.ch].arrived]
  <1>4. m \in Messages
    BY <1>3, ChannelTypes DEF Messages
  <1>5. /\ client[cl].call = None /\ mailbox = <<>> /\ pc = "receive"
        /\ UNCHANGED <<hardware, event, notifier, serverVars, log>>
        /\ mailbox' = Append(mailbox, m)
        /\ client' = [client EXCEPT ![cl] = [call |-> r, left |-> Tail(client[cl].left),
                                             upto |-> log[r.ch].accepted]]
    BY <1>2 DEF Call, Idle, At
  <1>6. mailbox' = <<m>>
    BY <1>5
  <1>7. /\ m.op = r.op /\ m.ch = r.ch /\ m.n = r.n /\ m.from = cl
        /\ m.arrived = log[r.ch].arrived
    OBVIOUS
  <1> HIDE DEF m
  <1> QED BY <1>2, <1>4, <1>5, <1>6, <1>7

LEMMA MailNext ==
  ASSUME Types, Next
  PROVE  mailbox' \in Seq(Notices \cup Messages)
  <1>1. mailbox \in Seq(Notices \cup Messages)
    BY DEF Types, TaskTypes
  <1>2. ASSUME NEW c \in Channels, Notify(c)
        PROVE  mailbox' \in Seq(Notices \cup Messages)
    <2>1. [op |-> "Notify", ch |-> c, data |-> notifier[c].data] \in Notices
      BY ChannelTypes DEF Notices
    <2> QED BY <1>1, <1>2, <2>1 DEF Notify
  <1>3. ASSUME NEW cl \in Clients, Call(cl)
        PROVE  mailbox' \in Seq(Notices \cup Messages)
    <2>1. PICK m \in Messages : mailbox' = <<m>>
      BY <1>3, CallFacts
    <2>2. m \in Notices \cup Messages
      OBVIOUS
    <2> QED BY <2>1, <2>2
  <1>4. Receive => mailbox' \in Seq(Notices \cup Messages)
    BY ReceiveCases, HeadTypes
  <1>5. Server => Receive \/ UNCHANGED mailbox
    BY DEF Server, LookAtCts, SendBuffered, SendDirect, Put, StoreMsg, Reply, Read, Take,
           LoadCtlr, StoreCtlr
  <1>6. /\ Hardware => UNCHANGED mailbox
        /\ \A c \in Channels : Interrupt(c) \/ AwaitEvent(c) => UNCHANGED mailbox
    BY DEF Hardware, BoxMoves, PassTime, Shift, Arrive, FallSilent, Interrupt, AwaitEvent
  <1> QED BY <1>1, <1>2, <1>3, <1>4, <1>5, <1>6 DEF Next, Tasks

ClientType == client \in [Clients -> [call : {None} \cup Calls, left : Seq(Calls), upto : Nat]]

LEMMA AnswerTypes ==
  ASSUME ClientType, NEW cl \in Clients, Answer(cl)
  PROVE  ClientType'
  BY DEF ClientType, Answer

\* What one look at the receive FIFO gives a reader.
LEMMA TakenIs ==
  ASSUME NEW rd \in Readers, NEW rx \in Seq(Nat), Len(rd.got) <= rd.n
  PROVE  \E first \in Seq(Nat), rest \in Seq(Nat), got \in Seq(Nat) :
            /\ rx = first \o rest
            /\ got = rd.got \o first /\ Len(got) <= rd.n
            /\ Taken(rd, rx) = [from |-> rd.from, n |-> rd.n, got |-> got]
            /\ SubSeq(rx, rd.n - Len(rd.got) + 1, Len(rx)) = rest
  <1>1. /\ rd.got \in Seq(Nat) /\ rd.n \in Nat
        /\ rd = [from |-> rd.from, n |-> rd.n, got |-> rd.got]
    BY DEF Readers
  <1>2. Len(rd.got) \in Nat
    BY <1>1
  <1>3. PICK k \in Nat : k = rd.n - Len(rd.got)
    BY <1>1, <1>2
  <1> DEFINE first == FirstOf(rx, k)
             rest == SubSeq(rx, k + 1, Len(rx))
             got == rd.got \o first
  <1>4. first \in Seq(Nat) /\ rest \in Seq(Nat) /\ rx = first \o rest /\ Len(first) <= k
    BY FirstAndRest
  <1>5. Taken(rd, rx) = [from |-> rd.from, n |-> rd.n, got |-> got]
    <2>1. Taken(rd, rx) = [rd EXCEPT !.got = got]
      BY <1>1, <1>3 DEF Taken
    <2> HIDE DEF got
    <2> QED BY <2>1 DEF Readers
  <1>6. SubSeq(rx, rd.n - Len(rd.got) + 1, Len(rx)) = rest
    BY <1>3
  <1> HIDE DEF first, rest
  <1>7. got \in Seq(Nat) /\ Len(got) = Len(rd.got) + Len(first)
    BY <1>1, <1>4, ConcatProperties
  <1>8. Len(first) \in Nat
    BY <1>4
  <1>9. Len(got) <= rd.n
    BY <1>1, <1>2, <1>3, <1>4, <1>7, <1>8
  <1> QED BY <1>4, <1>5, <1>6, <1>7, <1>9

TakeEffect(c, rd, first, rest, got) ==
    /\ c = Ch /\ rd = reader[c]
    /\ uart[c].rx = first \o rest
    /\ got = rd.got \o first /\ Len(got) <= rd.n
    /\ uart' = [uart EXCEPT ![c].rx = rest, ![c].silent = uart[c].silent /\ rest # <<>>]
    /\ \/ /\ reader' = [reader EXCEPT ![c] = Nobody] /\ pc' = "receive"
          /\ log' = [log EXCEPT ![c].read = log[c].read \o got]
          /\ Answer(rd.from) /\ UNCHANGED ctl
       \/ /\ reader' = [reader EXCEPT ![c] = [from |-> rd.from, n |-> rd.n, got |-> got]]
          /\ AwaitMore(c) /\ UNCHANGED <<log, client>>
    /\ UNCHANGED <<box, modem, event, notifier, mailbox, req, msg, cts, buffer, flusher>>

LEMMA TakeFacts ==
  ASSUME Types, PCsSound, \A c \in Channels : ReadSound(c), Take
  PROVE  \E c \in Channels, rd \in Readers,
            first \in Seq(Nat), rest \in Seq(Nat), got \in Seq(Nat) :
               TakeEffect(c, rd, first, rest, got)
  <1>1. PICK c \in Channels : c = Ch /\ reader[c] # Nobody
    BY ReqTypes DEF PCsSound, Take, At, Doing
  <1>2. PICK rd \in Readers : rd = reader[c]
    BY <1>1 DEF Types, ServerTypes
  <1>3. uart[c].rx \in Seq(Nat) /\ Len(rd.got) <= rd.n
    BY <1>1, <1>2, ChannelTypes DEF ReadSound
  <1>4. PICK first \in Seq(Nat), rest \in Seq(Nat), got \in Seq(Nat) :
            /\ uart[c].rx = first \o rest
            /\ got = rd.got \o first /\ Len(got) <= rd.n
            /\ Taken(rd, uart[c].rx) = [from |-> rd.from, n |-> rd.n, got |-> got]
            /\ SubSeq(uart[c].rx, rd.n - Len(rd.got) + 1, Len(uart[c].rx)) = rest
    BY <1>3, TakenIs
  <1>5. PICK tk : tk = Taken(rd, uart[c].rx) /\ tk = [from |-> rd.from, n |-> rd.n, got |-> got]
    BY <1>4
  <1>6. tk.from = rd.from /\ tk.n = rd.n /\ tk.got = got
    BY <1>5
  <1>7. uart' = [uart EXCEPT ![c].rx = rest, ![c].silent = uart[c].silent /\ rest # <<>>]
    BY <1>1, <1>2, <1>4, <1>5, <1>6 DEF Take
  <1>8. \/ /\ reader' = [reader EXCEPT ![c] = Nobody] /\ pc' = "receive"
           /\ log' = [log EXCEPT ![c].read = log[c].read \o got]
           /\ Answer(rd.from) /\ UNCHANGED ctl
        \/ /\ reader' = [reader EXCEPT ![c] = tk] /\ AwaitMore(c) /\ UNCHANGED <<log, client>>
    BY <1>1, <1>2, <1>5, <1>6 DEF Take
  <1>9. UNCHANGED <<box, modem, event, notifier, mailbox, req, msg, cts, buffer, flusher>>
    BY DEF Take
  <1>10. TakeEffect(c, rd, first, rest, got)
    BY <1>1, <1>2, <1>4, <1>5, <1>7, <1>8, <1>9 DEF TakeEffect
  <1> QED BY <1>10

LEMMA ClientNext ==
  ASSUME Types, PCsSound, \A c \in Channels : ReadSound(c), Next
  PROVE  ClientType'
  <1>1. ClientType
    BY DEF Types, TaskTypes, ClientType
  <1>2. UNCHANGED client => ClientType'
    BY <1>1 DEF ClientType
  <1>3. ASSUME NEW cl \in Clients, Call(cl)
        PROVE  ClientType'
    <2>1. PICK r \in Calls, rest \in Seq(Calls) :
             client' = [client EXCEPT ![cl] = [call |-> r, left |-> rest,
                                               upto |-> log[r.ch].accepted]]
      BY <1>3, CallFacts
    <2>2. log[r.ch].accepted \in Nat
      BY ChannelTypes DEF Calls
    <2> QED BY <1>1, <2>1, <2>2 DEF ClientType
  <1>4. ASSUME Receive
        PROVE  ClientType'
    <2>1. ASSUME NEW r \in Messages, ReceiveDrain(r) \/ ReceiveFlush(r)
          PROVE  ClientType'
      BY <1>1, <1>2, <2>1, AnswerTypes, MessageTypes DEF ReceiveDrain, ReceiveFlush
    <2> QED BY <1>2, <1>4, <2>1, ReceiveCases DEF ReceiveNotify, ReceivePutstr, ReceiveGetn
  <1>5. ASSUME Put
        PROVE  ClientType'
    <2>1. Ch \in Channels
      BY <1>5, ReqTypes DEF PCsSound, Put, At, Doing
    <2>2. flusher[Ch] # Nobody => flusher[Ch].from \in Clients
      BY <2>1, FlusherTypes
    <2> QED BY <1>1, <1>2, <1>5, <2>2, AnswerTypes DEF Put
  <1>6. ASSUME Reply
        PROVE  ClientType'
    <2>1. req.from \in Clients
      BY <1>6, ReqTypes DEF PCsSound, Reply, At, Doing
    <2> QED BY <1>1, <1>6, <2>1, AnswerTypes DEF Reply
  <1>7. ASSUME Take
        PROVE  ClientType'
    <2>1. PICK c \in Channels, rd \in Readers,
                   first \in Seq(Nat), rest \in Seq(Nat), got \in Seq(Nat) :
                      TakeEffect(c, rd, first, rest, got)
      BY <1>7, TakeFacts
    <2>2. Answer(rd.from) \/ UNCHANGED client
      BY <2>1 DEF TakeEffect
    <2>3. rd.from \in Clients
      BY DEF Readers
    <2> QED BY <1>1, <1>2, <2>2, <2>3, AnswerTypes
  <1>8. LookAtCts \/ SendBuffered \/ SendDirect \/ StoreMsg \/ Read \/ LoadCtlr \/ StoreCtlr
           => UNCHANGED client
    BY DEF LookAtCts, SendBuffered, SendDirect, StoreMsg, Read, LoadCtlr, StoreCtlr
  <1>9. /\ Hardware => UNCHANGED client
        /\ \A c \in Channels : Interrupt(c) \/ Notify(c) \/ AwaitEvent(c) => UNCHANGED client
    BY DEF Hardware, BoxMoves, PassTime, Shift, Arrive, FallSilent, Interrupt, Notify, AwaitEvent
  <1> QED BY <1>2, <1>3, <1>4, <1>5, <1>6, <1>7, <1>8, <1>9 DEF Next, Tasks, Server

LogType == log \in [Channels -> Logs]

LEMMA LogNext ==
  ASSUME Types, PCsSound, \A c \in Channels : ReadSound(c), Next
  PROVE  LogType'
  <1>1. LogType
    BY DEF Types, TaskTypes, LogType
  <1>2. UNCHANGED log => LogType'
    BY <1>1 DEF LogType
  <1>3. ASSUME Receive
        PROVE  LogType'
    <2>1. ASSUME NEW r \in Messages, ReceivePutstr(r)
          PROVE  LogType'
      <3>1. log[r.ch].accepted + r.n \in Nat
        BY MessageTypes, ChannelTypes
      <3> QED BY <1>1, <2>1, <3>1, MessageTypes DEF LogType, Logs, ReceivePutstr
    <2>2. ASSUME NEW r \in Messages, ReceiveDrain(r)
          PROVE  LogType'
      <3>1. log[r.ch].arrived \in Nat
        BY MessageTypes, ChannelTypes
      <3> QED BY <1>1, <2>2, <3>1, MessageTypes DEF LogType, Logs, ReceiveDrain
    <2> QED BY <1>2, <1>3, <2>1, <2>2, ReceiveCases DEF ReceiveNotify, ReceiveGetn, ReceiveFlush
  <1>4. ASSUME Take
        PROVE  LogType'
    <2>1. PICK c \in Channels, rd \in Readers,
                   first \in Seq(Nat), rest \in Seq(Nat), got \in Seq(Nat) :
                      TakeEffect(c, rd, first, rest, got)
      BY <1>4, TakeFacts
    <2>2. UNCHANGED log \/ log' = [log EXCEPT ![c].read = log[c].read \o got]
      BY <2>1 DEF TakeEffect
    <2>3. log[c].read \o got \in Seq(Nat)
      BY ChannelTypes, ConcatProperties
    <2> QED BY <1>1, <1>2, <2>2, <2>3 DEF LogType, Logs
  <1>5. ASSUME NEW c \in Channels, Shift(c)
        PROVE  LogType'
    <2>1. Append(log[c].wire, Head(uart[c].tx)) \in Seq(Nat)
      BY <1>5, ChannelTypes, HeadTailProperties, AppendProperties DEF Shift
    <2> QED BY <1>1, <1>5, <2>1 DEF LogType, Logs, Shift
  <1>6. ASSUME NEW c \in Channels, Arrive(c)
        PROVE  LogType'
    <2>1. log[c].arrived + 1 \in Nat
      BY ChannelTypes
    <2> QED BY <1>1, <1>6, <2>1 DEF LogType, Logs, Arrive
  <1>7. Server => Receive \/ Take \/ UNCHANGED log
    BY DEF Server, LookAtCts, SendBuffered, SendDirect, Put, StoreMsg, Reply, Read,
           LoadCtlr, StoreCtlr
  <1>8. /\ Hardware => UNCHANGED log \/ \E c \in Channels : Shift(c) \/ Arrive(c)
        /\ \A c \in Channels : Interrupt(c) \/ Notify(c) \/ AwaitEvent(c) => UNCHANGED log
        /\ \A cl \in Clients : Call(cl) => UNCHANGED log
    BY DEF Hardware, BoxMoves, PassTime, FallSilent, Interrupt, Notify, AwaitEvent, Call
  <1> QED BY <1>2, <1>3, <1>4, <1>5, <1>6, <1>7, <1>8 DEF Next, Tasks

-----------------------------------------------------------------------------
(* Types: the server.                                                      *)

CtlType == ctl \in [bits : SUBSET Bits, loaded : SUBSET Bits, after : Afters]

LEMMA EnableTypes ==
  ASSUME NEW bits \in SUBSET Bits, NEW after \in Afters, Enable(bits, after)
  PROVE  CtlType' /\ pc' \in PCs /\ pc' = "load" /\ ctl'.after = after /\ ctl'.bits = bits
  BY DEF Enable, CtlType, PCs

LEMMA BitsAre == RxBits \in SUBSET Bits /\ \A c : TxBits(c) \in SUBSET Bits
  BY DEF RxBits, TxBits, Bits

LEMMA Numbers ==
  ASSUME NEW a \in Nat, NEW n \in Nat
  PROVE  /\ [i \in 1 .. n |-> a + i] \in Seq(Nat)
         /\ Len([i \in 1 .. n |-> a + i]) = n
  <1> DEFINE s == [i \in 1 .. n |-> a + i]
  <1>1. s \in [1 .. n -> Nat]
    OBVIOUS
  <1> HIDE DEF s
  <1> QED BY <1>1

LEMMA OneFewer ==
  ASSUME NEW f \in Flushers
  PROVE  [f EXCEPT !.bytes_remaining = f.bytes_remaining - 1] \in Flushers
  <1>1. f.bytes_remaining \in Int
    BY DEF Flushers
  <1>2. PICK b \in Int : b = f.bytes_remaining - 1
    BY <1>1
  <1>3. [f EXCEPT !.bytes_remaining = b] \in Flushers
    BY DEF Flushers
  <1> QED BY <1>2, <1>3

LEMMA ReceiveServerTypes ==
  ASSUME Types, Receive
  PROVE  ServerTypes'
  <1>1. /\ pc' \in PCs /\ req' \in {Nobody} \cup Notices \cup Messages /\ msg' \in Seq(Nat)
        /\ reader' \in [Channels -> {Nobody} \cup Readers]
        /\ flusher' \in [Channels -> {Nobody} \cup Flushers]
    <2> USE DEF Types, ServerTypes, PCs, Afters
    <2>1. ASSUME NEW r \in Notices, req' = r, ReceiveNotify(r)
          PROVE  <1>1!:
      BY <2>1 DEF ReceiveNotify
    <2>2. ASSUME NEW r \in Messages, req' = r, ReceivePutstr(r)
          PROVE  <1>1!:
      <3>1. log[r.ch].accepted \in Nat /\ r.n \in Nat
        BY MessageTypes, ChannelTypes
      <3>2. msg' \in Seq(Nat)
        BY <2>2, <3>1, Numbers DEF ReceivePutstr
      <3> QED BY <2>2, <3>2 DEF ReceivePutstr, Begin
    <2>3. ASSUME NEW r \in Messages, req' = r, ReceiveGetn(r)
          PROVE  <1>1!:
      <3>1. [from |-> r.from, n |-> r.n, got |-> <<>>] \in Readers
        BY MessageTypes, EmptySeq DEF Readers
      <3> QED BY <2>3, <3>1 DEF ReceiveGetn
    <2>4. ASSUME NEW r \in Messages, req' = r, ReceiveDrain(r)
          PROVE  <1>1!:
      <3>1. \A rd \in Readers : [rd EXCEPT !.got = <<>>] \in Readers
        BY EmptySeq DEF Readers
      <3>2. r.ch \in Channels
        BY MessageTypes
      <3>3. Cleared(reader[r.ch]) \in {Nobody} \cup Readers
        BY <3>1, <3>2 DEF Cleared
      <3> QED BY <2>4, <3>2, <3>3 DEF ReceiveDrain
    <2>5. ASSUME NEW r \in Messages, req' = r, ReceiveFlush(r)
          PROVE  <1>1!:
      <3>1. r.from \in Clients /\ r.ch \in Channels /\ Len(buffer[r.ch]) \in Nat
        BY MessageTypes, ChannelTypes
      <3>2. [from |-> r.from, bytes_remaining |-> Len(buffer[r.ch])] \in Flushers
        BY <3>1 DEF Flushers
      <3> QED BY <2>5, <3>2 DEF ReceiveFlush, ToFlush
    <2> QED BY <2>1, <2>2, <2>3, <2>4, <2>5, ReceiveCases
  <1>2. UNCHANGED <<ctl, cts, buffer>>
    BY DEF Receive
  <1> QED BY <1>1, <1>2 DEF Types, ServerTypes

LEMMA ServerNext ==
  ASSUME Types, PCsSound, \A c \in Channels : ReadSound(c), Next
  PROVE  ServerTypes'
  <1>1. UNCHANGED serverVars => ServerTypes'
    BY DEF Types, ServerTypes, serverVars
  <1> USE DEF Types, ServerTypes, PCs, Afters
  <1>2. ASSUME LoadCtlr
        PROVE  ServerTypes'
    <2>1. Ch \in Channels
      BY <1>2, ReqTypes DEF PCsSound, LoadCtlr, At
    <2>2. uart[Ch].ctlr \in SUBSET Bits
      BY <2>1, ChannelTypes
    <2> QED BY <1>2, <2>2 DEF LoadCtlr
  <1>3. StoreCtlr => ServerTypes'
    BY DEF StoreCtlr
  <1>4. ASSUME LookAtCts
        PROVE  ServerTypes'
    <2>1. /\ cts' \in [tag : {"c", "d", "u"}, age : 0 .. COM1_WAITING_FOR_DOWN_TIMEOUT + 1]
          /\ UNCHANGED <<req, msg, buffer, reader, flusher>>
      BY <1>4 DEF LookAtCts, SeenUp
    <2>2. CtlType' /\ pc' \in PCs
      BY <1>4, BitsAre, EnableTypes DEF LookAtCts, CtlType
    <2> QED BY <2>1, <2>2 DEF CtlType
  <1>5. LetGo => cts' \in [tag : {"c", "d", "u"}, age : 0 .. COM1_WAITING_FOR_DOWN_TIMEOUT + 1]
    BY UartAssumption DEF LetGo
  <1>6. ToPut => CtlType' /\ pc' \in PCs
    BY BitsAre, EnableTypes DEF ToPut, CtlType
  <1>7. ASSUME SendBuffered
        PROVE  ServerTypes'
    <2>1. Ch \in Channels
      BY <1>7, ReqTypes DEF PCsSound, SendBuffered, At
    <2>2. CtlType' /\ pc' \in PCs
      BY <1>6, <1>7, BitsAre, EnableTypes DEF SendBuffered, More, CtlType
    <2>3. cts' \in [tag : {"c", "d", "u"}, age : 0 .. COM1_WAITING_FOR_DOWN_TIMEOUT + 1]
      BY <1>5, <1>7 DEF SendBuffered
    <2>4. UNCHANGED <<msg, buffer>>
          \/ /\ buffer[Ch] # <<>>
             /\ msg' = <<Head(buffer[Ch])>> /\ buffer' = [buffer EXCEPT ![Ch] = Tail(buffer[Ch])]
      BY <1>7 DEF SendBuffered
    <2>5. buffer[Ch] # <<>> => Head(buffer[Ch]) \in Nat /\ Tail(buffer[Ch]) \in Seq(Nat)
      BY <2>1, ChannelTypes, HeadTailProperties
    <2>6. CASE buffer[Ch] # <<>>
      <3>1. PICK h \in Nat, t \in Seq(Nat) : h = Head(buffer[Ch]) /\ t = Tail(buffer[Ch])
        BY <2>5, <2>6
      <3>2. <<h>> \in Seq(Nat)
        OBVIOUS
      <3>3. UNCHANGED <<msg, buffer>> \/ (msg' = <<h>> /\ buffer' = [buffer EXCEPT ![Ch] = t])
        BY <2>4, <3>1
      <3> QED BY <2>2, <2>3, <3>2, <3>3, <1>7 DEF SendBuffered, CtlType
    <2>7. CASE buffer[Ch] = <<>>
      BY <1>7, <2>2, <2>3, <2>4, <2>7 DEF SendBuffered, CtlType
    <2> QED BY <2>6, <2>7
  <1>8. ASSUME SendDirect
        PROVE  ServerTypes'
    <2>1. CtlType' /\ pc' \in PCs
      BY <1>6, <1>8 DEF SendDirect, CtlType
    <2>2. cts' \in [tag : {"c", "d", "u"}, age : 0 .. COM1_WAITING_FOR_DOWN_TIMEOUT + 1]
      BY <1>5, <1>8 DEF SendDirect
    <2> QED BY <1>8, <2>1, <2>2 DEF SendDirect, CtlType
  <1>9. ASSUME Put
        PROVE  ServerTypes'
    <2>1. Ch \in Channels /\ msg # <<>>
      BY <1>9, ReqTypes DEF PCsSound, Put, At, Doing
    <2>2. Tail(msg) \in Seq(Nat)
      BY <2>1, HeadTailProperties
    <2>3. \A f \in Flushers : [f EXCEPT !.bytes_remaining = f.bytes_remaining - 1] \in Flushers
      BY OneFewer
    <2>4. PICK f \in {Nobody} \cup Flushers : f = flusher[Ch]
      BY <2>1
    <2>5. \/ UNCHANGED flusher \/ flusher' = [flusher EXCEPT ![Ch] = Nobody]
          \/ /\ f # Nobody
             /\ flusher' = [flusher EXCEPT ![Ch] = [f EXCEPT !.bytes_remaining = f.bytes_remaining - 1]]
      BY <1>9, <2>1, <2>4 DEF Put
    <2>6. flusher' \in [Channels -> {Nobody} \cup Flushers]
      <3>1. PICK g \in {Nobody} \cup Flushers :
               f # Nobody => g = [f EXCEPT !.bytes_remaining = f.bytes_remaining - 1]
        BY <2>3, <2>4
      <3>2. UNCHANGED flusher \/ flusher' = [flusher EXCEPT ![Ch] = Nobody]
               \/ flusher' = [flusher EXCEPT ![Ch] = g]
        BY <2>5, <3>1
      <3> QED BY <3>2
    <2> QED BY <1>9, <2>2, <2>6 DEF Put
  <1>10. ASSUME StoreMsg
        PROVE  ServerTypes'
    <2>1. Ch \in Channels
      BY <1>10, ReqTypes DEF PCsSound, StoreMsg, At
    <2>2. CtlType' /\ pc' \in PCs
      BY <1>10, BitsAre, EnableTypes DEF StoreMsg, CtlType
    <2>3. buffer[Ch] \o msg \in Seq(Nat) /\ <<>> \in Seq(Nat)
      BY <2>1, ChannelTypes, ConcatProperties, EmptySeq
    <2>4. msg' \in Seq(Nat) /\ buffer' \in [Channels -> Seq(Nat)]
      BY <1>10, <2>1, <2>3 DEF StoreMsg
    <2> QED BY <1>10, <2>2, <2>4 DEF StoreMsg, CtlType
  <1>11. Reply \/ Read => ServerTypes'
    BY DEF Reply, Read
  <1>12. ASSUME Take
         PROVE  ServerTypes'
    <2>1. PICK c \in Channels, rd \in Readers,
                   first \in Seq(Nat), rest \in Seq(Nat), got \in Seq(Nat) :
                      TakeEffect(c, rd, first, rest, got)
      BY <1>12, TakeFacts
    <2>2. CtlType' /\ pc' \in PCs
      BY <2>1, BitsAre, EnableTypes DEF TakeEffect, AwaitMore, CtlType
    <2>3. [from |-> rd.from, n |-> rd.n, got |-> got] \in Readers
      BY DEF Readers
    <2>4. reader' \in [Channels -> {Nobody} \cup Readers]
      BY <2>1, <2>3 DEF TakeEffect
    <2> QED BY <2>1, <2>2, <2>4 DEF TakeEffect, CtlType
  <1>13. ASSUME PassTime
         PROVE  ServerTypes'
    BY <1>13, UartAssumption DEF PassTime
  <1>14. /\ Hardware => PassTime \/ UNCHANGED serverVars
         /\ \A c \in Channels : Interrupt(c) \/ Notify(c) \/ AwaitEvent(c) => UNCHANGED serverVars
         /\ \A cl \in Clients : Call(cl) => UNCHANGED serverVars
    BY DEF Hardware, BoxMoves, Shift, Arrive, FallSilent, Interrupt, Notify, AwaitEvent, Call
  <1> QED BY <1>1, <1>2, <1>3, <1>4, <1>7, <1>8, <1>9, <1>10, <1>11, <1>12, <1>13, <1>14,
             ReceiveServerTypes DEF Next, Tasks, Server

LEMMA TypesNext ==
  ASSUME Types, PCsSound, \A c \in Channels : ReadSound(c), Next
  PROVE  Types'
  BY HardNext, NotifierNext, MailNext, ClientNext, LogNext, ServerNext
     DEF Types, TaskTypes, ClientType, LogType

-----------------------------------------------------------------------------
(* The server's program.                                                   *)

\* What the hardware, the notifiers and the clients leave alone.
Elsewhere ==
    /\ UNCHANGED <<pc, req, msg, ctl, buffer, reader, flusher>>
    /\ \A c \in Channels : \/ uart'[c].tx = uart[c].tx
                           \/ uart'[c].tx = Tail(uart[c].tx) /\ uart[c].tx # <<>>

LEMMA OthersElsewhere ==
  ASSUME Types
  PROVE  /\ Hardware => Elsewhere
         /\ \A c \in Channels : Interrupt(c) \/ Notify(c) \/ AwaitEvent(c) => Elsewhere
         /\ \A cl \in Clients : Call(cl) => Elsewhere
  <1>1. uart \in [Channels -> Uarts]
    BY DEF Types, HardTypes, Uarts
  <1>2. UNCHANGED uart /\ UNCHANGED serverVars => Elsewhere
    BY DEF Elsewhere, serverVars
  <1>3. PassTime => Elsewhere
    BY DEF PassTime, hardware, Elsewhere
  <1>4. ASSUME NEW c \in Channels, Interrupt(c)
        PROVE  Elsewhere
    BY <1>1, <1>4 DEF Interrupt, Elsewhere, serverVars
  <1>5. ASSUME NEW c \in Channels, Shift(c)
        PROVE  Elsewhere
    BY <1>1, <1>5 DEF Shift, Elsewhere, serverVars
  <1>6. ASSUME NEW c \in Channels, Arrive(c)
        PROVE  Elsewhere
    BY <1>1, <1>6 DEF Arrive, Elsewhere, serverVars
  <1>7. ASSUME NEW c \in Channels, FallSilent(c)
        PROVE  Elsewhere
    BY <1>1, <1>7 DEF FallSilent, Elsewhere, serverVars
  <1>8. \A a, b : BoxMoves(a, b) => Elsewhere
    BY <1>2 DEF BoxMoves
  <1>9. /\ \A c \in Channels : Notify(c) \/ AwaitEvent(c) => Elsewhere
        /\ \A cl \in Clients : Call(cl) => Elsewhere
    BY <1>2 DEF Notify, AwaitEvent, Call, hardware
  <1> QED BY <1>3, <1>4, <1>5, <1>6, <1>7, <1>8, <1>9 DEF Hardware

LEMMA PCsElsewhere ==
  ASSUME Types, PCsSound, Elsewhere
  PROVE  PCsSound'
  <1>1. Doing' = Doing /\ Ch' = Ch
    BY DEF Elsewhere, Doing, Ch
  <1>2. Doing = "put" => Len(uart'[Ch].tx) < FifoSize[Ch]
    <2> SUFFICES ASSUME Doing = "put"
                 PROVE  Len(uart'[Ch].tx) < FifoSize[Ch]
      OBVIOUS
    <2>1. Ch \in Channels /\ Len(uart[Ch].tx) < FifoSize[Ch]
      BY ReqTypes DEF PCsSound, Doing
    <2>2. PICK t \in Seq(Nat), u \in Seq(Nat), n \in Nat :
             t = uart[Ch].tx /\ u = uart'[Ch].tx /\ n = FifoSize[Ch] /\ (u = t \/ (u = Tail(t) /\ t # <<>>))
      BY <2>1, ChannelTypes, HeadTailProperties, UartAssumption DEF Elsewhere
    <2>3. Len(u) <= Len(t)
      <3>1. t # <<>> => Len(Tail(t)) = Len(t) - 1
        BY HeadTailProperties
      <3>2. Len(t) \in Nat /\ Len(u) \in Nat
        OBVIOUS
      <3>3. u = t \/ Len(u) = Len(t) - 1
        BY <2>2, <3>1
      <3> HIDE <2>2
      <3> QED BY <3>2, <3>3
    <2>4. Len(t) < n /\ Len(t) \in Nat /\ Len(u) \in Nat
      BY <2>1, <2>2
    <2>5. Len(u) < n
      BY <2>2, <2>3, <2>4
    <2> QED BY <2>2, <2>5
  <1> QED BY <1>1, <1>2 DEF PCsSound, Elsewhere

LEMMA PCsReceive ==
  ASSUME Types, PCsSound, Receive
  PROVE  PCsSound'
  <1>1. msg = <<>> /\ pc = "receive"
    BY ReceiveCases DEF PCsSound, Doing
  <1>2. ASSUME NEW r \in Notices, req' = r, ReceiveNotify(r)
        PROVE  PCsSound'
    <2>1. r.op = "Notify" /\ r # Nobody /\ pc' \in {"cts", "send", "read"}
      BY <1>2, NotAnEntry DEF ReceiveNotify
    <2> QED BY <1>1, <1>2, <2>1 DEF ReceiveNotify, PCsSound, Doing
  <1>3. ASSUME NEW r \in Messages, req' = r, UNCHANGED buffer, ReceivePutstr(r)
        PROVE  PCsSound'
    <2>1. /\ r.op = "Putstr" /\ r # Nobody /\ pc' \in {"store_msg", "direct", "assert"}
          /\ pc' = "direct" => buffer[r.ch] = <<>>
      BY <1>3, NotAnEntry DEF ReceivePutstr, Begin
    <2> QED BY <1>3, <2>1 DEF PCsSound, Doing, Ch
  <1>4. ASSUME NEW r \in Messages, req' = r, ReceiveGetn(r)
        PROVE  PCsSound'
    <2>1. r.op = "Getn" /\ r # Nobody /\ pc' \in {"panic", "take"} /\ UNCHANGED msg
      BY <1>4, NotAnEntry DEF ReceiveGetn
    <2>2. pc' = "take" => reader'[r.ch] # Nobody
      <3>1. [from |-> r.from, n |-> r.n, got |-> <<>>] \in Readers
        BY MessageTypes, EmptySeq DEF Readers
      <3>2. r.ch \in Channels /\ DOMAIN reader = Channels
        BY MessageTypes DEF Types, ServerTypes
      <3> QED BY <1>4, <3>1, <3>2, NotAnEntry DEF ReceiveGetn
    <2> QED BY <1>1, <1>4, <2>1, <2>2 DEF PCsSound, Doing, Ch
  <1>5. ASSUME NEW r \in Messages, req' = r, ReceiveDrain(r) \/ ReceiveFlush(r)
        PROVE  PCsSound'
    <2>1. r # Nobody /\ pc' \in {"panic", "receive"} /\ UNCHANGED msg
      BY <1>5, NotAnEntry DEF ReceiveDrain, ReceiveFlush
    <2> QED BY <1>1, <1>5, <2>1 DEF PCsSound, Doing
  <1> QED BY <1>2, <1>3, <1>4, <1>5, ReceiveCases

\* What the server does with the byte it lets go.
LEMMA LetGoTo ==
  ASSUME ToPut
  PROVE  Doing' = "put" /\ pc' # "receive"
  BY DEF ToPut, Enable, Doing

LEMMA PCsNext ==
  ASSUME Types, PCsSound, \A c \in Channels : ReadSound(c), Next
  PROVE  PCsSound'
  <1>1. Types'
    BY TypesNext
  <1>2. ASSUME LoadCtlr \/ StoreCtlr
        PROVE  PCsSound'
    <2>1. Ch \in Channels /\ Ch' = Ch
      BY <1>2, ReqTypes DEF PCsSound, LoadCtlr, StoreCtlr, At, Ch
    <2>2. uart \in [Channels -> Uarts]
      BY DEF Types, HardTypes, Uarts
    <2>3. uart'[Ch].tx = uart[Ch].tx
      <3>1. UNCHANGED uart \/ uart' = [uart EXCEPT ![Ch].ctlr = ctl.loaded \cup ctl.bits]
        BY <1>2 DEF LoadCtlr, StoreCtlr, hardware
      <3> QED BY <2>1, <2>2, <3>1 DEF Uarts
    <2>4. Doing' = Doing
      <3>1. ctl \in [bits : SUBSET Bits, loaded : SUBSET Bits, after : Afters]
        BY DEF Types, ServerTypes
      <3> QED BY <1>2, <3>1 DEF LoadCtlr, StoreCtlr, Doing, At, Afters
    <2>5. UNCHANGED <<req, msg, buffer, reader>> /\ pc # "receive"
      BY <1>2 DEF LoadCtlr, StoreCtlr, At
    <2> QED BY <2>1, <2>3, <2>4, <2>5 DEF PCsSound
  <1>3. LookAtCts => PCsSound'
    BY DEF LookAtCts, At, PCsSound, Doing, Enable
  <1>4. ASSUME SendBuffered
        PROVE  PCsSound'
    <2>1. pc = "send" /\ req # Nobody /\ req.op = "Notify" /\ msg = <<>> /\ UNCHANGED <<req, uart>>
      BY <1>4 DEF SendBuffered, At, PCsSound, Doing, hardware
    <2>2. CASE pc' = "read" \/ More(Ch)
      BY <1>4, <2>1, <2>2 DEF SendBuffered, ToPut, More, Enable, PCsSound, Doing
    <2>3. CASE ClearToSend(Ch) /\ msg' = <<Head(buffer[Ch])>> /\ ToPut
      <3>1. Len(uart'[Ch].tx) < FifoSize[Ch] /\ msg' # <<>> /\ Len(msg') = 1 /\ Ch' = Ch
        BY <2>1, <2>3 DEF ClearToSend, Ch
      <3> QED BY <2>1, <2>3, <3>1, LetGoTo DEF PCsSound
    <2> QED BY <1>4, <2>2, <2>3 DEF SendBuffered
  <1>5. ASSUME SendDirect
        PROVE  PCsSound'
    <2>1. /\ pc = "direct" /\ req # Nobody /\ req.op = "Putstr" /\ buffer[Ch] = <<>>
          /\ UNCHANGED <<req, uart, buffer, msg, reader>> /\ Ch' = Ch
      BY <1>5 DEF SendDirect, At, PCsSound, Doing, hardware, Ch
    <2>2. CASE (pc' = "reply" /\ msg = <<>>) \/ pc' = "store_msg"
      BY <2>1, <2>2 DEF PCsSound, Doing
    <2>3. CASE ClearToSend(Ch) /\ msg # <<>> /\ ToPut
      <3>1. Len(uart'[Ch].tx) < FifoSize[Ch]
        BY <2>1, <2>3 DEF ClearToSend
      <3> QED BY <2>1, <2>3, <3>1, LetGoTo DEF PCsSound
    <2> QED BY <1>5, <2>2, <2>3 DEF SendDirect
  <1>6. ASSUME Put
        PROVE  PCsSound'
    <2>1. /\ pc = "put" /\ req # Nobody /\ msg # <<>>
          /\ \/ req.op = "Putstr" /\ buffer[Ch] = <<>> /\ pc' = "direct"
             \/ req.op = "Notify" /\ Len(msg) = 1 /\ pc' = "send"
          /\ UNCHANGED <<req, buffer>> /\ msg' = Tail(msg) /\ Ch' = Ch
      BY <1>6 DEF Put, At, PCsSound, Doing, Ch
    <2>2. Len(msg) = 1 => Tail(msg) = <<>>
      BY <2>1 DEF Types, ServerTypes
    <2> QED BY <2>1, <2>2 DEF PCsSound, Doing
  <1>7. ASSUME StoreMsg
        PROVE  PCsSound'
    <2>1. /\ req # Nobody /\ req.op = "Putstr" /\ UNCHANGED req
          /\ (Doing' = "reply" /\ msg' = <<>>) \/ pc' = "panic"
      BY <1>7 DEF StoreMsg, At, PCsSound, Doing, Enable
    <2> QED BY <2>1 DEF PCsSound, Doing
  <1>8. Reply => PCsSound'
    BY DEF Reply, At, PCsSound, Doing
  <1>9. ASSUME Read
        PROVE  PCsSound'
    <2>1. /\ req # Nobody /\ req.op = "Notify" /\ msg = <<>> /\ UNCHANGED <<req, msg, reader>>
          /\ pc' = "receive" \/ (pc' = "take" /\ reader[Ch] # Nobody)
          /\ Ch' = Ch
      BY <1>9 DEF Read, At, PCsSound, Doing, Ch
    <2> QED BY <2>1 DEF PCsSound, Doing
  <1>10. ASSUME Take
        PROVE  PCsSound'
    <2>1. pc = "take" /\ req # Nobody /\ msg = <<>>
      BY <1>10 DEF Take, At, PCsSound, Doing
    <2>2. /\ UNCHANGED <<req, msg>>
          /\ pc' = "receive" \/ (pc' = "load" /\ ctl'.after = "receive")
      <3>1. PICK c \in Channels, rd \in Readers,
                     first \in Seq(Nat), rest \in Seq(Nat), got \in Seq(Nat) :
                        TakeEffect(c, rd, first, rest, got)
        BY <1>10, TakeFacts
      <3>2. UNCHANGED <<req, msg>> /\ (pc' = "receive" \/ AwaitMore(c))
        BY <3>1 DEF TakeEffect
      <3> QED BY <3>2 DEF AwaitMore, Enable
    <2> QED BY <2>1, <2>2 DEF PCsSound, Doing
  <1> QED BY <1>2, <1>3, <1>4, <1>5, <1>6, <1>7, <1>8, <1>9, <1>10,
             PCsReceive, PCsElsewhere, OthersElsewhere DEF Next, Tasks, Server

-----------------------------------------------------------------------------
(* Sequences of bytes.                                                     *)

LEMMA Assoc == \A s, t, u \in Seq(Nat) : (s \o t) \o u = s \o (t \o u)
  BY ConcatAssociative

LEMMA HeadAndTail ==
  ASSUME NEW s \in Seq(Nat), s # <<>>
  PROVE  Head(s) \in Nat /\ Tail(s) \in Seq(Nat) /\ <<Head(s)>> \in Seq(Nat)
         /\ s = <<Head(s)>> \o Tail(s) /\ Len(s) = 1 + Len(Tail(s))
  <1>1. /\ Head(s) \in Nat /\ Tail(s) \in Seq(Nat) /\ Len(Tail(s)) = Len(s) - 1
        /\ \A i \in 1 .. Len(Tail(s)) : Tail(s)[i] = s[i + 1]
    BY HeadTailProperties
  <1>2. PICK h \in Nat, t \in Seq(Nat) : h = Head(s) /\ t = Tail(s)
    BY <1>1
  <1>3. <<h>> \in Seq(Nat) /\ Len(<<h>>) = 1 /\ <<h>>[1] = h
    OBVIOUS
  <1>4. Len(s) \in Nat \ {0} /\ Len(t) \in Nat /\ s[1] = h
    BY <1>2
  <1>5. /\ <<h>> \o t \in Seq(Nat) /\ Len(<<h>> \o t) = 1 + Len(t)
        /\ \A i \in 1 .. 1 + Len(t) : (<<h>> \o t)[i] = IF i <= 1 THEN <<h>>[i] ELSE t[i - 1]
    BY <1>3, ConcatProperties
  <1>6. Len(s) = 1 + Len(t)
    BY <1>1, <1>2, <1>4
  <1>7. ASSUME NEW i \in 1 .. Len(s)
        PROVE  s[i] = (<<h>> \o t)[i]
    <2>1. CASE i = 1
      BY <1>3, <1>4, <1>5, <1>6, <2>1
    <2>2. CASE i # 1
      <3>1. i - 1 \in 1 .. Len(t) /\ i \in 1 .. 1 + Len(t) /\ ~(i <= 1)
        BY <1>4, <1>6, <2>2
      <3>2. t[i - 1] = s[(i - 1) + 1]
        BY <1>1, <1>2, <3>1
      <3> QED BY <1>5, <3>1, <3>2
    <2> QED BY <2>1, <2>2
  <1>8. s = <<h>> \o t
    BY <1>5, <1>6, <1>7, SeqEqual
  <1> QED BY <1>2, <1>3, <1>6, <1>8

\* A byte goes from one sequence to the one before it.
LEMMA PassOn ==
  ASSUME NEW w \in Seq(Nat), NEW h \in Nat, NEW t \in Seq(Nat)
  PROVE  Append(w, h) \o t = w \o (<<h>> \o t)
  <1>1. <<h>> \in Seq(Nat)
    OBVIOUS
  <1>2. Append(w, h) = w \o <<h>>
    BY AppendIsConcat
  <1> QED BY <1>1, <1>2, ConcatAssociative

LEMMA PutOn ==
  ASSUME NEW w \in Seq(Nat), NEW x \in Seq(Nat), NEW h \in Nat, NEW rest \in Seq(Nat)
  PROVE  (w \o Append(x, h)) \o rest = (w \o x) \o (<<h>> \o rest)
  <1>1. <<h>> \in Seq(Nat)
    OBVIOUS
  <1>2. PICK xh \in Seq(Nat), y \in Seq(Nat) : xh = Append(x, h) /\ y = <<h>> \o rest
    BY <1>1, AppendProperties, ConcatProperties
  <1>3. (w \o xh) \o rest = w \o (xh \o rest)
    BY Assoc, Zenon
  <1>4. xh \o rest = x \o y
    BY <1>2, PassOn
  <1>5. w \o (x \o y) = (w \o x) \o y
    BY Assoc, Zenon
  <1> QED BY <1>2, <1>3, <1>4, <1>5

\* The next n numbers after a.
LEMMA CountOn ==
  ASSUME NEW a \in Nat, NEW n \in Nat
  PROVE  [i \in 1 .. a |-> i] \o [i \in 1 .. n |-> a + i] = [i \in 1 .. a + n |-> i]
  <1> DEFINE s == [i \in 1 .. a |-> i]
             t == [i \in 1 .. n |-> a + i]
             u == [i \in 1 .. a + n |-> i]
  <1>1. s \in [1 .. a -> Nat] /\ u \in [1 .. a + n -> Nat] /\ a + n \in Nat
    OBVIOUS
  <1>2. t \in Seq(Nat) /\ Len(t) = n
    BY Numbers
  <1>3. /\ \A i \in 1 .. a : s[i] = i
        /\ \A i \in 1 .. n : t[i] = a + i
        /\ \A i \in 1 .. a + n : u[i] = i
    OBVIOUS
  <1> HIDE DEF s, t, u
  <1>4. s \in Seq(Nat) /\ Len(s) = a /\ u \in Seq(Nat) /\ Len(u) = a + n
    BY <1>1
  <1>5. /\ s \o t \in Seq(Nat) /\ Len(s \o t) = a + n
        /\ \A i \in 1 .. a + n : (s \o t)[i] = IF i <= a THEN s[i] ELSE t[i - a]
    BY <1>2, <1>4, ConcatProperties
  <1>6. ASSUME NEW i \in 1 .. a + n
        PROVE  (s \o t)[i] = u[i]
    <2>1. i <= a => i \in 1 .. a
      OBVIOUS
    <2>2. ~(i <= a) => i - a \in 1 .. n /\ a + (i - a) = i
      OBVIOUS
    <2> QED BY <1>3, <1>5, <2>1, <2>2
  <1>7. s \o t = u
    BY <1>4, <1>5, <1>6, SeqEqual
  <1> QED BY <1>7 DEF s, t, u

-----------------------------------------------------------------------------
(* The bytes on their way out.                                             *)

\* What has been accepted and sent does not change.
SentSame == \A c \in Channels : /\ log'[c].wire = log[c].wire /\ log'[c].accepted = log[c].accepted
                                /\ uart'[c].tx = uart[c].tx

LEMMA WireKept ==
  ASSUME WireInOrder, SentSame, \A c \in Channels : InHand(c)' = InHand(c)
  PROVE  WireInOrder'
  BY DEF WireInOrder, SentSame

LEMMA SentSameIf ==
  ASSUME Types
  PROVE  /\ UNCHANGED <<uart, log>> => SentSame
         /\ \A c \in Channels : Interrupt(c) \/ Arrive(c) \/ FallSilent(c) => SentSame
         /\ \A r \in Messages : ReceiveDrain(r) => SentSame
         /\ StoreCtlr \/ (PCsSound /\ (\A c \in Channels : ReadSound(c)) /\ Take) => SentSame
  <1>1. uart \in [Channels -> Uarts] /\ log \in [Channels -> Logs]
    BY DEF Types, HardTypes, TaskTypes, Uarts
  <1>2. UNCHANGED <<uart, log>> => SentSame
    BY DEF SentSame
  <1>3. ASSUME NEW c \in Channels, Interrupt(c)
        PROVE  SentSame
    BY <1>1, <1>3 DEF Interrupt, SentSame, Uarts
  <1>4. ASSUME NEW c \in Channels, Arrive(c)
        PROVE  SentSame
    BY <1>1, <1>4 DEF Arrive, SentSame, Uarts, Logs
  <1>5. ASSUME NEW c \in Channels, FallSilent(c)
        PROVE  SentSame
    BY <1>1, <1>5 DEF FallSilent, SentSame, Uarts
  <1>6. ASSUME NEW r \in Messages, ReceiveDrain(r)
        PROVE  SentSame
    BY <1>1, <1>6, MessageTypes DEF ReceiveDrain, SentSame, Uarts, Logs
  <1>7. ASSUME StoreCtlr
        PROVE  SentSame
    BY <1>1, <1>7 DEF StoreCtlr, SentSame, Uarts
  <1>8. ASSUME PCsSound, \A c \in Channels : ReadSound(c), Take
        PROVE  SentSame
    <2>1. PICK c \in Channels, rd \in Readers,
                   first \in Seq(Nat), rest \in Seq(Nat), got \in Seq(Nat) :
                      TakeEffect(c, rd, first, rest, got)
      BY <1>8, TakeFacts
    <2>2. /\ uart' = [uart EXCEPT ![c].rx = rest, ![c].silent = uart[c].silent /\ rest # <<>>]
          /\ UNCHANGED log \/ log' = [log EXCEPT ![c].read = log[c].read \o got]
      BY <2>1 DEF TakeEffect
    <2>3. \A d \in Channels : uart'[d].tx = uart[d].tx
      BY <1>1, <2>2 DEF Uarts
    <2>4. \A d \in Channels : log'[d].wire = log[d].wire /\ log'[d].accepted = log[d].accepted
      BY <1>1, <2>2 DEF Logs
    <2> QED BY <2>3, <2>4 DEF SentSame
  <1> QED BY <1>2, <1>3, <1>4, <1>5, <1>6, <1>7, <1>8

LEMMA InHandKept ==
  ASSUME UNCHANGED <<msg, req, buffer>>
  PROVE  \A c \in Channels : InHand(c)' = InHand(c)
  BY DEF InHand

LEMMA WireReceive ==
  ASSUME Types, PCsSound, WireInOrder, Receive
  PROVE  WireInOrder'
  <1>1. msg = <<>> /\ pc = "receive" /\ UNCHANGED buffer
    BY ReceiveCases DEF PCsSound, Doing
  <1>2. \A c \in Channels : InHand(c) = buffer[c]
    BY <1>1 DEF InHand
  <1>3. CASE SentSame /\ UNCHANGED msg
    <2>1. \A c \in Channels : InHand(c)' = InHand(c)
      BY <1>1, <1>2, <1>3 DEF InHand
    <2> QED BY <1>3, <2>1, WireKept
  <1>4. ASSUME NEW r \in Messages, req' = r, ReceivePutstr(r)
        PROVE  WireInOrder'
    <2> SUFFICES ASSUME NEW c \in Channels
                 PROVE  log'[c].wire \o uart'[c].tx \o InHand(c)' = [i \in 1 .. log'[c].accepted |-> i]
      BY DEF WireInOrder
    <2>1. /\ log' = [log EXCEPT ![r.ch].accepted = log[r.ch].accepted + r.n] /\ UNCHANGED uart
          /\ log \in [Channels -> Logs] /\ r.ch \in Channels /\ r.op = "Putstr"
      BY <1>4, MessageTypes DEF ReceivePutstr, Types, TaskTypes
    <2>2. log'[c].wire = log[c].wire /\ uart'[c].tx = uart[c].tx
      BY <2>1 DEF Logs
    <2>3. PICK wt \in Seq(Nat), b \in Seq(Nat), a \in Nat :
             wt = log[c].wire \o uart[c].tx /\ b = buffer[c] /\ a = log[c].accepted
      BY ChannelTypes, ConcatProperties
    <2>4. wt \o b = [i \in 1 .. a |-> i]
      BY <1>2, <2>3 DEF WireInOrder
    <2>5. CASE c # r.ch
      <3>1. log'[c].accepted = a /\ InHand(c)' = b
        BY <1>1, <1>4, <2>1, <2>3, <2>5 DEF InHand
      <3> QED BY <2>2, <2>3, <2>4, <3>1
    <2>6. CASE c = r.ch
      <3>1. log'[c].accepted = a + r.n /\ r.n \in Nat
        BY <2>1, <2>3, <2>6, MessageTypes DEF Logs
      <3>2. PICK m \in Seq(Nat) : m = msg' /\ m = [i \in 1 .. r.n |-> a + i]
        BY <1>4, <2>3, <2>6, <3>1, Numbers DEF ReceivePutstr
      <3>3. InHand(c)' = b \o m
        <4>1. b \o <<>> = b
          BY ConcatEmptySeq
        <4>2. buffer'[c] = b /\ req'.ch = c /\ req'.op = "Putstr" /\ m = msg'
          BY <1>1, <1>4, <2>1, <2>3, <2>6, <3>2
        <4> QED BY <4>1, <4>2 DEF InHand
      <3>4. wt \o (b \o m) = (wt \o b) \o m
        BY Assoc
      <3>5. (wt \o b) \o m = [i \in 1 .. a + r.n |-> i]
        BY <2>4, <3>1, <3>2, CountOn
      <3> QED BY <2>2, <2>3, <3>1, <3>3, <3>4, <3>5
    <2> QED BY <2>5, <2>6
  <1>5. \A r \in Notices : ReceiveNotify(r) => SentSame /\ UNCHANGED msg
    BY SentSameIf DEF ReceiveNotify
  <1>6. \A r \in Messages : ReceiveGetn(r) \/ ReceiveDrain(r) \/ ReceiveFlush(r)
                               => SentSame /\ UNCHANGED msg
    BY SentSameIf DEF ReceiveGetn, ReceiveDrain, ReceiveFlush
  <1> QED BY <1>3, <1>4, <1>5, <1>6, ReceiveCases

LEMMA WireShift ==
  ASSUME Types, WireInOrder, NEW c \in Channels, Shift(c)
  PROVE  WireInOrder'
  <1>1. /\ uart \in [Channels -> Uarts] /\ log \in [Channels -> Logs] /\ uart[c].tx # <<>>
        /\ uart' = [uart EXCEPT ![c].tx = Tail(uart[c].tx)]
        /\ log' = [log EXCEPT ![c].wire = Append(log[c].wire, Head(uart[c].tx))]
        /\ UNCHANGED <<msg, req, buffer>>
    BY DEF Types, HardTypes, TaskTypes, Uarts, Shift, serverVars
  <1>2. PICK w \in Seq(Nat), x \in Seq(Nat) : w = log[c].wire /\ x = uart[c].tx
    BY ChannelTypes
  <1>3. Append(w, Head(x)) \o Tail(x) = w \o x
    <2>1. PICK h \in Nat, t \in Seq(Nat) : h = Head(x) /\ t = Tail(x) /\ x = <<h>> \o t
      BY <1>1, <1>2, HeadAndTail
    <2>2. Append(w, h) \o t = w \o (<<h>> \o t)
      BY PassOn
    <2> QED BY <2>1, <2>2
  <1>4. \A d \in Channels : log'[d].wire \o uart'[d].tx = log[d].wire \o uart[d].tx
    <2>1. log'[c].wire = Append(w, Head(x)) /\ uart'[c].tx = Tail(x)
      BY <1>1, <1>2 DEF Uarts, Logs
    <2>2. \A d \in Channels \ {c} : log'[d] = log[d] /\ uart'[d] = uart[d]
      BY <1>1
    <2> QED BY <1>2, <1>3, <2>1, <2>2
  <1>5. \A d \in Channels : log'[d].accepted = log[d].accepted
    BY <1>1 DEF Logs
  <1> QED BY <1>1, <1>4, <1>5, InHandKept DEF WireInOrder

LEMMA WirePut ==
  ASSUME Types, PCsSound, WireInOrder, Put
  PROVE  WireInOrder'
  <1>1. /\ Ch \in Channels /\ Ch = req.ch /\ msg # <<>> /\ msg \in Seq(Nat)
        /\ (req.op = "Putstr" /\ buffer[Ch] = <<>>) \/ (req.op = "Notify" /\ Len(msg) = 1)
    BY ReqTypes DEF PCsSound, Put, At, Doing, Types, ServerTypes
  <1>2. /\ uart' = [uart EXCEPT ![Ch].tx = Append(uart[Ch].tx, Head(msg))]
        /\ UNCHANGED <<log, req, buffer>> /\ msg' = Tail(msg)
        /\ uart \in [Channels -> Uarts]
    BY DEF Put, Types, HardTypes, Uarts
  <1>3. /\ Head(msg) \in Nat /\ Tail(msg) \in Seq(Nat) /\ <<Head(msg)>> \in Seq(Nat)
        /\ msg = <<Head(msg)>> \o Tail(msg) /\ Len(msg) = 1 + Len(Tail(msg))
    BY <1>1, HeadAndTail
  <1>4. PICK h \in Nat, m \in Seq(Nat) : h = Head(msg) /\ m = Tail(msg)
    BY <1>3
  <1> SUFFICES ASSUME NEW c \in Channels
               PROVE  log'[c].wire \o uart'[c].tx \o InHand(c)' = [i \in 1 .. log'[c].accepted |-> i]
    BY DEF WireInOrder
  <1>5. CASE c # Ch
    <2>1. InHand(c)' = InHand(c) /\ uart'[c] = uart[c]
      BY <1>1, <1>2, <1>5 DEF InHand
    <2> QED BY <1>2, <2>1 DEF WireInOrder
  <1>6. CASE c = Ch
    <2>1. PICK w \in Seq(Nat), x \in Seq(Nat), b \in Seq(Nat) :
             w = log[c].wire /\ x = uart[c].tx /\ b = buffer[c]
      BY ChannelTypes
    <2>2. uart'[c].tx = Append(x, h) /\ log'[c] = log[c]
      BY <1>2, <1>4, <1>6, <2>1 DEF Uarts
    <2>3. <<h>> \in Seq(Nat) /\ msg = <<h>> \o m
      BY <1>3, <1>4
    <2>4. PICK rest \in Seq(Nat) : rest = InHand(c)' /\ InHand(c) = <<h>> \o rest
      <3>1. CASE req.op = "Putstr" /\ buffer[Ch] = <<>>
        <4>1. InHand(c) = msg
          BY <1>1, <1>6, <3>1, ConcatEmptySeq DEF InHand
        <4>2. InHand(c)' = m
          <5>1. buffer'[c] = <<>> /\ msg' = m /\ req' = req
            BY <1>2, <1>4, <1>6, <3>1
          <5>2. <<>> \o m = m
            BY ConcatEmptySeq
          <5> QED BY <1>1, <1>6, <3>1, <5>1, <5>2 DEF InHand
        <4> QED BY <2>3, <4>1, <4>2
      <3>2. CASE req.op = "Notify" /\ Len(msg) = 1
        <4>1. m = <<>> /\ msg = <<h>>
          <5>1. Len(m) = 0
            BY <1>3, <1>4, <3>2
          <5>2. m = <<>>
            BY <5>1
          <5> QED BY <2>3, <5>2, ConcatEmptySeq
        <4>2. InHand(c)' = b
          BY <1>2, <1>4, <2>1, <4>1 DEF InHand
        <4>3. InHand(c) = <<h>> \o b
          BY <1>1, <1>6, <2>1, <3>2, <4>1 DEF InHand
        <4> QED BY <4>2, <4>3
      <3> QED BY <1>1, <3>1, <3>2
    <2>5. (w \o Append(x, h)) \o rest = (w \o x) \o (<<h>> \o rest)
      BY PutOn
    <2>6. (w \o x) \o (<<h>> \o rest) = [i \in 1 .. log[c].accepted |-> i]
      BY <2>1, <2>4 DEF WireInOrder
    <2> QED BY <2>1, <2>2, <2>4, <2>5, <2>6
  <1> QED BY <1>5, <1>6

LEMMA InHandStored ==
  ASSUME Types, PCsSound, StoreMsg
  PROVE  \A c \in Channels : InHand(c)' = InHand(c)
  <1>1. /\ Ch \in Channels /\ Ch = req.ch /\ req.op = "Putstr" /\ msg \in Seq(Nat)
        /\ UNCHANGED req
        /\ \/ UNCHANGED <<msg, buffer>>
           \/ buffer' = [buffer EXCEPT ![Ch] = buffer[Ch] \o msg] /\ msg' = <<>>
    BY ReqTypes DEF PCsSound, StoreMsg, At, Doing, Types, ServerTypes
  <1>2. ASSUME buffer' = [buffer EXCEPT ![Ch] = buffer[Ch] \o msg], msg' = <<>>, NEW c \in Channels
        PROVE  InHand(c)' = InHand(c)
    <2>1. InHand(c)' = buffer'[c]
      BY <1>2 DEF InHand
    <2>2. CASE c # Ch
      BY <1>1, <1>2, <2>1, <2>2 DEF InHand
    <2>3. CASE c = Ch
      <3>1. buffer \in [Channels -> Seq(Nat)]
        BY DEF Types, ServerTypes
      <3>2. buffer'[c] = buffer[c] \o msg
        BY <1>1, <1>2, <2>3, <3>1
      <3>3. buffer[c] \o <<>> = buffer[c]
        BY <3>1, ConcatEmptySeq
      <3>4. InHand(c) = buffer[c] \o msg
        BY <1>1, <2>3, <3>3 DEF InHand
      <3> QED BY <2>1, <3>2, <3>4
    <2> QED BY <2>2, <2>3
  <1> QED BY <1>1, <1>2, InHandKept

LEMMA InHandPopped ==
  ASSUME Types, PCsSound, SendBuffered
  PROVE  \A c \in Channels : InHand(c)' = InHand(c)
  <1>1. /\ Ch \in Channels /\ Ch = req.ch /\ req.op = "Notify" /\ msg = <<>>
        /\ UNCHANGED req
        /\ \/ UNCHANGED <<msg, buffer>>
           \/ /\ buffer[Ch] # <<>> /\ msg' = <<Head(buffer[Ch])>>
              /\ buffer' = [buffer EXCEPT ![Ch] = Tail(buffer[Ch])]
    BY ReqTypes DEF PCsSound, SendBuffered, At, Doing
  <1>2. ASSUME buffer[Ch] # <<>>, msg' = <<Head(buffer[Ch])>>,
               buffer' = [buffer EXCEPT ![Ch] = Tail(buffer[Ch])], NEW c \in Channels
        PROVE  InHand(c)' = InHand(c)
    <2>1. InHand(c) = buffer[c] /\ buffer \in [Channels -> Seq(Nat)]
      BY <1>1 DEF InHand, Types, ServerTypes
    <2>2. CASE c # Ch
      BY <1>1, <1>2, <2>1, <2>2 DEF InHand
    <2>3. CASE c = Ch
      <3>1. PICK h \in Nat, t \in Seq(Nat) :
               h = Head(buffer[c]) /\ t = Tail(buffer[c]) /\ buffer[c] = <<h>> \o t
        BY <1>2, <2>1, <2>3, HeadAndTail
      <3>2. msg' = <<h>> /\ <<h>> # <<>> /\ buffer'[c] = t
        BY <1>2, <2>1, <2>3, <3>1
      <3>3. InHand(c)' = <<h>> \o t
        BY <1>1, <2>3, <3>2 DEF InHand
      <3> QED BY <2>1, <3>1, <3>3
    <2> QED BY <2>2, <2>3
  <1> QED BY <1>1, <1>2, InHandKept

LEMMA WireNext ==
  ASSUME Types, PCsSound, \A c \in Channels : ReadSound(c), WireInOrder, Next
  PROVE  WireInOrder'
  <1>1. UNCHANGED <<msg, req, buffer>> /\ SentSame => WireInOrder'
    BY InHandKept, WireKept
  <1>2. /\ Hardware => UNCHANGED <<msg, req, buffer>>
        /\ \A c \in Channels : Interrupt(c) \/ Notify(c) \/ AwaitEvent(c)
              => UNCHANGED <<msg, req, buffer>>
        /\ \A cl \in Clients : Call(cl) => UNCHANGED <<msg, req, buffer>>
    BY OthersElsewhere DEF Elsewhere
  <1>3. /\ Hardware => SentSame \/ \E c \in Channels : Shift(c)
        /\ \A c \in Channels : Interrupt(c) \/ Notify(c) \/ AwaitEvent(c) => SentSame
        /\ \A cl \in Clients : Call(cl) => SentSame
    <2>1. /\ PassTime => UNCHANGED <<uart, log>>
          /\ \A a, b : BoxMoves(a, b) => UNCHANGED <<uart, log>>
          /\ \A c \in Channels : Notify(c) \/ AwaitEvent(c) => UNCHANGED <<uart, log>>
          /\ \A cl \in Clients : Call(cl) => UNCHANGED <<uart, log>>
      BY DEF PassTime, BoxMoves, Notify, AwaitEvent, Call, hardware
    <2> QED BY <2>1, SentSameIf DEF Hardware
  <1>4. /\ LoadCtlr \/ StoreCtlr \/ LookAtCts \/ SendDirect \/ Reply \/ Read \/ Take
              => SentSame /\ UNCHANGED <<msg, req, buffer>>
        /\ SendBuffered \/ StoreMsg => SentSame
    <2>1. LoadCtlr \/ LookAtCts \/ SendDirect \/ Reply \/ Read
              => UNCHANGED <<uart, log>> /\ UNCHANGED <<msg, req, buffer>>
      BY DEF LoadCtlr, LookAtCts, SendDirect, Reply, Read, hardware
    <2>2. SendBuffered \/ StoreMsg => UNCHANGED <<uart, log>>
      BY DEF SendBuffered, StoreMsg, hardware
    <2>3. StoreCtlr \/ Take => UNCHANGED <<msg, req, buffer>>
      BY DEF StoreCtlr, Take
    <2> QED BY <2>1, <2>2, <2>3, SentSameIf
  <1>5. SendBuffered \/ StoreMsg => WireInOrder'
    BY <1>4, InHandStored, InHandPopped, WireKept
  <1> QED BY <1>1, <1>2, <1>3, <1>4, <1>5, WireReceive, WireShift, WirePut
          DEF Next, Tasks, Server

-----------------------------------------------------------------------------
(* The bytes on their way in.                                              *)

\* The bytes that have been read or are held, of those that have arrived.
InOrder(all, held, arrived, drained, fresh) ==
    /\ \A i, j \in DOMAIN all : i < j => all[i] < all[j]
    /\ \A i \in DOMAIN all : all[i] <= arrived
    /\ drained + 1 .. arrived \subseteq ToSet(all)
    /\ \A b \in ToSet(held) : b > fresh
    /\ fresh <= arrived

LEMMA OneArrives ==
  ASSUME NEW all \in Seq(Nat), NEW held \in Seq(Nat), NEW a \in Nat, NEW d \in Nat, NEW f \in Nat,
         InOrder(all, held, a, d, f)
  PROVE  InOrder(Append(all, a + 1), Append(held, a + 1), a + 1, d, f)
  <1>1. PICK b \in Nat : b = a + 1
    OBVIOUS
  <1>2. PICK more \in Seq(Nat) : more = Append(all, b)
    BY AppendProperties
  <1>3. PICK n \in Nat : n = Len(all)
    OBVIOUS
  <1>4. /\ DOMAIN all = 1 .. n /\ DOMAIN more = 1 .. n + 1 /\ more[n + 1] = b
        /\ \A i \in 1 .. n : more[i] = all[i]
    BY <1>2, <1>3, AppendProperties
  <1>5. \A i \in 1 .. n : all[i] \in Nat /\ all[i] <= a
    <2>1. \A i \in 1 .. n : all[i] \in Nat
      BY <1>3
    <2>2. \A i \in 1 .. n : all[i] <= a
      BY <1>4, Zenon DEF InOrder
    <2> QED BY <2>1, <2>2
  <1>6. ASSUME NEW i \in DOMAIN more, NEW j \in DOMAIN more, i < j
        PROVE  more[i] < more[j]
    <2>1. CASE j = n + 1
      <3>1. i \in 1 .. n /\ more[i] \in Nat /\ more[i] <= a
        BY <1>4, <1>5, <1>6, <2>1
      <3> QED BY <1>1, <1>4, <2>1, <3>1
    <2>2. CASE j # n + 1
      <3>1. i \in 1 .. n /\ j \in 1 .. n
        BY <1>4, <1>6, <2>2
      <3> QED BY <1>4, <1>6, <3>1 DEF InOrder
    <2> QED BY <2>1, <2>2
  <1>7. ASSUME NEW i \in DOMAIN more
        PROVE  more[i] <= b
    <2>1. i \in 1 .. n \/ i = n + 1
      BY <1>4
    <2> QED BY <1>1, <1>4, <1>5, <2>1
  <1>8. d + 1 .. b \subseteq ToSet(more)
    <2>1. ToSet(all) \cup {b} \subseteq ToSet(more)
      <3>1. n + 1 \in DOMAIN more /\ \A i \in DOMAIN all : i \in DOMAIN more /\ more[i] = all[i]
        BY <1>4
      <3> QED BY <1>4, <3>1, Zenon DEF ToSet
    <2>2. \A k \in d + 1 .. b : k \in d + 1 .. a \/ k = b
      BY <1>1
    <2> QED BY <2>1, <2>2 DEF InOrder
  <1>9. ASSUME NEW k \in ToSet(Append(held, b))
        PROVE  k > f
    <2>1. k \in ToSet(held) \/ k = b
      BY AppendProperties DEF ToSet
    <2> QED BY <1>1, <2>1 DEF InOrder
  <1>10. f <= b
    BY <1>1 DEF InOrder
  <1>11. InOrder(more, Append(held, b), b, d, f)
    BY <1>6, <1>7, <1>8, <1>9, <1>10 DEF InOrder
  <1> QED BY <1>1, <1>2, <1>11

LEMMA AllForgotten ==
  ASSUME NEW read \in Seq(Nat), NEW held \in Seq(Nat), NEW a \in Nat, NEW d \in Nat, NEW f \in Nat,
         NEW g \in Nat, g <= a, InOrder(read \o held, held, a, d, f)
  PROVE  InOrder(read, <<>>, a, a, g)
  <1>1. /\ DOMAIN read \subseteq DOMAIN (read \o held)
        /\ \A i \in DOMAIN read : (read \o held)[i] = read[i]
    BY ConcatProperties
  <1>2. /\ \A i, j \in DOMAIN read : i < j => read[i] < read[j]
        /\ \A i \in DOMAIN read : read[i] <= a
    BY <1>1 DEF InOrder
  <1>3. a + 1 .. a = {} /\ ToSet(<<>>) = {}
    BY DEF ToSet
  <1> QED BY <1>2, <1>3 DEF InOrder

LEMMA SomeTaken ==
  ASSUME NEW all \in Seq(Nat), NEW x \in Seq(Nat), NEW y \in Seq(Nat),
         NEW a \in Nat, NEW d \in Nat, NEW f \in Nat, InOrder(all, x \o y, a, d, f)
  PROVE  InOrder(all, y, a, d, f)
  <1>1. ToSet(y) \subseteq ToSet(x \o y)
    <2> SUFFICES ASSUME NEW i \in DOMAIN y
                 PROVE  \E k \in DOMAIN (x \o y) : (x \o y)[k] = y[i]
      BY DEF ToSet
    <2>1. Len(x) \in Nat /\ Len(y) \in Nat /\ i \in 1 .. Len(y)
      OBVIOUS
    <2>2. /\ Len(x \o y) = Len(x) + Len(y) /\ x \o y \in Seq(Nat)
          /\ \A k \in 1 .. Len(x) + Len(y) : (x \o y)[k] = IF k <= Len(x) THEN x[k] ELSE y[k - Len(x)]
      BY ConcatProperties
    <2>3. /\ Len(x) + i \in 1 .. Len(x) + Len(y) /\ ~(Len(x) + i <= Len(x))
          /\ (Len(x) + i) - Len(x) = i
      BY <2>1
    <2>4. DOMAIN (x \o y) = 1 .. Len(x) + Len(y)
      BY <2>2
    <2> QED BY <2>2, <2>3, <2>4
  <1> QED BY <1>1 DEF InOrder

LEMMA HoldingTypes ==
  ASSUME Types, NEW c \in Channels
  PROVE  Holding(c) \in Seq(Nat) /\ log[c].read \o Holding(c) \in Seq(Nat)
  BY ReaderTypes, ChannelTypes, ConcatProperties, EmptySeq DEF Holding

LEMMA ReadSoundIs ==
  ASSUME NEW c \in Channels
  PROVE  ReadSound(c) <=>
            /\ InOrder(log[c].read \o Holding(c), Holding(c),
                       log[c].arrived, log[c].drained, log[c].fresh)
            /\ reader[c] # Nobody => Len(reader[c].got) <= reader[c].n
  BY DEF ReadSound, InOrder

\* What has arrived and been read does not change.
ReadSame(c) == /\ log'[c].read = log[c].read /\ log'[c].arrived = log[c].arrived
               /\ log'[c].drained = log[c].drained /\ log'[c].fresh = log[c].fresh
               /\ uart'[c].rx = uart[c].rx

LEMMA ReadKept ==
  ASSUME NEW c \in Channels, ReadSound(c), ReadSame(c), UNCHANGED reader
  PROVE  ReadSound(c)'
  <1>1. Holding(c)' = Holding(c)
    BY DEF Holding, ReadSame
  <1> QED BY <1>1 DEF ReadSound, ReadSame

LEMMA ReadSameIf ==
  ASSUME Types
  PROVE  /\ UNCHANGED <<uart, log>> => \A d \in Channels : ReadSame(d)
         /\ \A c \in Channels : Interrupt(c) \/ Shift(c) \/ FallSilent(c) =>
               \A d \in Channels : ReadSame(d)
         /\ \A c \in Channels : Arrive(c) => \A d \in Channels \ {c} : ReadSame(d)
         /\ \A r \in Messages : ReceivePutstr(r) => \A d \in Channels : ReadSame(d)
         /\ \A r \in Messages : ReceiveDrain(r) => \A d \in Channels \ {r.ch} : ReadSame(d)
         /\ StoreCtlr \/ Put => \A d \in Channels : ReadSame(d)
  <1>1. uart \in [Channels -> Uarts] /\ log \in [Channels -> Logs]
    BY DEF Types, HardTypes, TaskTypes, Uarts
  <1>2. UNCHANGED <<uart, log>> => \A d \in Channels : ReadSame(d)
    BY DEF ReadSame
  <1>3. ASSUME NEW c \in Channels, Interrupt(c) \/ FallSilent(c)
        PROVE  \A d \in Channels : ReadSame(d)
    <2>1. CASE Interrupt(c)
      BY <1>1, <2>1 DEF Interrupt, ReadSame, Uarts
    <2>2. CASE FallSilent(c)
      BY <1>1, <2>2 DEF FallSilent, ReadSame, Uarts
    <2> QED BY <1>3, <2>1, <2>2
  <1>4. ASSUME NEW c \in Channels, Shift(c)
        PROVE  \A d \in Channels : ReadSame(d)
    BY <1>1, <1>4 DEF Shift, ReadSame, Uarts, Logs
  <1>5. ASSUME NEW c \in Channels, Arrive(c)
        PROVE  \A d \in Channels \ {c} : ReadSame(d)
    BY <1>1, <1>5 DEF Arrive, ReadSame
  <1>6. ASSUME NEW r \in Messages, ReceivePutstr(r)
        PROVE  \A d \in Channels : ReadSame(d)
    BY <1>1, <1>6, MessageTypes DEF ReceivePutstr, ReadSame, Logs
  <1>7. ASSUME NEW r \in Messages, ReceiveDrain(r)
        PROVE  \A d \in Channels \ {r.ch} : ReadSame(d)
    BY <1>1, <1>7, MessageTypes DEF ReceiveDrain, ReadSame
  <1>8. ASSUME StoreCtlr
        PROVE  \A d \in Channels : ReadSame(d)
    BY <1>1, <1>8 DEF StoreCtlr, ReadSame, Uarts
  <1>9. ASSUME Put
        PROVE  \A d \in Channels : ReadSame(d)
    BY <1>1, <1>9 DEF Put, ReadSame, Uarts
  <1> QED BY <1>2, <1>3, <1>4, <1>5, <1>6, <1>7, <1>8, <1>9

LEMMA ReadArrive ==
  ASSUME Types, NEW c \in Channels, ReadSound(c), Arrive(c)
  PROVE  ReadSound(c)'
  <1>1. uart \in [Channels -> Uarts] /\ log \in [Channels -> Logs] /\ UNCHANGED reader
    BY DEF Types, HardTypes, TaskTypes, Uarts, Arrive, serverVars
  <1>2. PICK read \in Seq(Nat), held \in Seq(Nat), a \in Nat, d \in Nat, f \in Nat :
           /\ read = log[c].read /\ held = Holding(c) /\ a = log[c].arrived
           /\ d = log[c].drained /\ f = log[c].fresh
    BY ChannelTypes, HoldingTypes
  <1>3. /\ log'[c].read = read /\ log'[c].arrived = a + 1
        /\ log'[c].drained = d /\ log'[c].fresh = f
    BY <1>1, <1>2 DEF Arrive, Logs
  <1>4. PICK got \in Seq(Nat), rx \in Seq(Nat) :
           got = (IF reader[c] = Nobody THEN <<>> ELSE reader[c].got) /\ rx = uart[c].rx
    BY ReaderTypes, ChannelTypes, EmptySeq
  <1>5. held = got \o rx
    BY <1>2, <1>4 DEF Holding
  <1>6. Holding(c)' = got \o Append(rx, a + 1)
    <2>1. uart'[c].rx = Append(rx, a + 1)
      BY <1>1, <1>2, <1>4 DEF Arrive, Uarts
    <2> QED BY <1>1, <1>4, <2>1 DEF Holding
  <1>7. PICK b \in Nat : b = a + 1
    OBVIOUS
  <1>8. /\ got \o Append(rx, b) = Append(held, b)
        /\ read \o Append(held, b) = Append(read \o held, b)
    <2>1. \A s, t \in Seq(Nat) : s \o Append(t, b) = Append(s \o t, b)
      <3> SUFFICES ASSUME NEW s \in Seq(Nat), NEW t \in Seq(Nat)
                   PROVE  s \o Append(t, b) = Append(s \o t, b)
        OBVIOUS
      <3>1. /\ Append(t, b) = t \o <<b>> /\ <<b>> \in Seq(Nat) /\ s \o t \in Seq(Nat)
        BY AppendIsConcat, ConcatProperties
      <3>2. Append(s \o t, b) = (s \o t) \o <<b>>
        BY <3>1, AppendIsConcat
      <3>3. (s \o t) \o <<b>> = s \o (t \o <<b>>)
        BY <3>1, Assoc, Zenon
      <3> QED BY <3>1, <3>2, <3>3
    <2> QED BY <1>5, <2>1
  <1>9. InOrder(read \o held, held, a, d, f)
    BY <1>2, ReadSoundIs
  <1>10. read \o held \in Seq(Nat)
    BY ConcatProperties
  <1>11. InOrder(Append(read \o held, b), Append(held, b), b, d, f)
    BY <1>7, <1>9, <1>10, OneArrives
  <1>12. reader[c] # Nobody => Len(reader[c].got) <= reader[c].n
    BY DEF ReadSound
  <1> QED BY <1>1, <1>3, <1>6, <1>7, <1>8, <1>11, <1>12 DEF ReadSound, InOrder

LEMMA ReadDrain ==
  ASSUME Types, NEW r \in Messages, NEW c \in Channels, c = r.ch, ReadSound(c),
         r.arrived <= log[c].arrived, ReceiveDrain(r)
  PROVE  ReadSound(c)'
  <1>1. /\ uart \in [Channels -> Uarts] /\ log \in [Channels -> Logs]
        /\ reader \in [Channels -> {Nobody} \cup Readers]
    BY DEF Types, HardTypes, TaskTypes, ServerTypes, Uarts
  <1>2. PICK read \in Seq(Nat), held \in Seq(Nat), a \in Nat, d \in Nat, f \in Nat, g \in Nat :
           /\ read = log[c].read /\ held = Holding(c) /\ a = log[c].arrived
           /\ d = log[c].drained /\ f = log[c].fresh /\ g = r.arrived
    BY ChannelTypes, HoldingTypes, MessageTypes
  <1>3. /\ log'[c].read = read /\ log'[c].arrived = a
        /\ log'[c].drained = a /\ log'[c].fresh = g
    BY <1>1, <1>2 DEF ReceiveDrain, Logs
  <1>4. uart'[c].rx = <<>>
    BY <1>1 DEF ReceiveDrain, Uarts
  <1>5. /\ reader'[c] # Nobody => reader'[c].got = <<>> /\ reader'[c].n \in Nat
    <2>1. reader'[c] = Cleared(reader[c])
      BY <1>1 DEF ReceiveDrain
    <2>2. \A rd \in Readers : [rd EXCEPT !.got = <<>>].got = <<>> /\ [rd EXCEPT !.got = <<>>].n \in Nat
      BY DEF Readers
    <2> QED BY <1>1, <2>1, <2>2 DEF Cleared
  <1>6. Holding(c)' = <<>>
    <2>1. <<>> \o <<>> = <<>>
      BY ConcatEmptySeq, EmptySeq
    <2> QED BY <1>4, <1>5, <2>1 DEF Holding
  <1>7. read \o <<>> = read
    BY ConcatEmptySeq
  <1>8. InOrder(read, <<>>, a, a, g)
    BY <1>2, ReadSoundIs, AllForgotten
  <1>9. reader'[c] # Nobody => Len(reader'[c].got) <= reader'[c].n
    BY <1>5
  <1> QED BY <1>3, <1>6, <1>7, <1>8, <1>9 DEF ReadSound, InOrder

LEMMA ReadTake ==
  ASSUME Types, NEW c \in Channels, NEW rd \in Readers, NEW first \in Seq(Nat),
         NEW rest \in Seq(Nat), NEW got \in Seq(Nat), rd = reader[c], ReadSound(c),
         TakeEffect(c, rd, first, rest, got)
  PROVE  ReadSound(c)'
  <1>1. /\ uart \in [Channels -> Uarts] /\ log \in [Channels -> Logs]
        /\ reader \in [Channels -> {Nobody} \cup Readers] /\ rd # Nobody
    BY NotAnEntry DEF Types, HardTypes, TaskTypes, ServerTypes, Uarts
  <1>2. PICK read \in Seq(Nat), a \in Nat, d \in Nat, f \in Nat :
           /\ read = log[c].read /\ a = log[c].arrived
           /\ d = log[c].drained /\ f = log[c].fresh
    BY ChannelTypes
  <1>3. rd.got \in Seq(Nat) /\ got \o rest \in Seq(Nat)
    BY ConcatProperties DEF Readers
  <1>4. Holding(c) = got \o rest
    <2>1. Holding(c) = rd.got \o (first \o rest) /\ got = rd.got \o first
      BY <1>1 DEF Holding, TakeEffect
    <2>2. PICK g \in Seq(Nat) : g = rd.got
      BY <1>3
    <2>3. (g \o first) \o rest = g \o (first \o rest)
      BY Assoc, Zenon
    <2> QED BY <2>1, <2>2, <2>3
  <1>5. uart'[c].rx = rest
    BY <1>1 DEF TakeEffect, Uarts
  <1>6. InOrder(read \o (got \o rest), got \o rest, a, d, f)
    BY <1>2, <1>4, ReadSoundIs
  <1>7. CASE /\ reader' = [reader EXCEPT ![c] = Nobody]
             /\ log' = [log EXCEPT ![c].read = log[c].read \o got]
    <2>1. /\ log'[c].read = read \o got /\ log'[c].arrived = a
          /\ log'[c].drained = d /\ log'[c].fresh = f
      BY <1>1, <1>2, <1>7 DEF Logs
    <2>2. reader'[c] = Nobody
      BY <1>1, <1>7
    <2>3. Holding(c)' = rest
      BY <1>5, <2>2, ConcatEmptySeq DEF Holding
    <2>4. (read \o got) \o rest = read \o (got \o rest)
      BY Assoc
    <2>5. read \o (got \o rest) \in Seq(Nat)
      BY <1>3, ConcatProperties
    <2>6. InOrder(read \o (got \o rest), rest, a, d, f)
      BY <1>6, <2>5, SomeTaken
    <2> QED BY <2>1, <2>2, <2>3, <2>4, <2>6 DEF ReadSound, InOrder
  <1>8. CASE /\ reader' = [reader EXCEPT ![c] = [from |-> rd.from, n |-> rd.n, got |-> got]]
             /\ UNCHANGED log
    <2>1. PICK new \in Readers : /\ new = [from |-> rd.from, n |-> rd.n, got |-> got]
                                 /\ new.got = got /\ new.n = rd.n /\ new # Nobody
      <3>1. [from |-> rd.from, n |-> rd.n, got |-> got] \in Readers
        BY DEF Readers
      <3> QED BY <3>1, NotAnEntry
    <2>2. reader'[c] = new
      BY <1>1, <1>8, <2>1
    <2>3. Holding(c)' = got \o rest
      BY <1>5, <2>1, <2>2 DEF Holding
    <2>4. Len(got) <= rd.n
      BY DEF TakeEffect
    <2> QED BY <1>2, <1>6, <1>8, <2>1, <2>2, <2>3, <2>4 DEF ReadSound, InOrder
  <1> QED BY <1>7, <1>8 DEF TakeEffect

LEMMA ReadReceive ==
  ASSUME Types, MailSound, NEW c \in Channels, ReadSound(c), Receive
  PROVE  ReadSound(c)'
  <1>1. CASE ReadSame(c) /\ UNCHANGED reader
    BY <1>1, ReadKept
  <1>2. ASSUME NEW r \in Messages, ReceiveGetn(r)
        PROVE  ReadSound(c)'
    <2>1. ReadSame(c)
      BY <1>2 DEF ReceiveGetn, ReadSame
    <2>2. CASE c = r.ch /\ reader[c] = Nobody
      <3>1. PICK new \in Readers : /\ new = [from |-> r.from, n |-> r.n, got |-> <<>>]
                                   /\ new.got = <<>> /\ new.n \in Nat /\ new # Nobody
        <4>1. [from |-> r.from, n |-> r.n, got |-> <<>>] \in Readers
          BY MessageTypes, EmptySeq DEF Readers
        <4> QED BY <4>1, MessageTypes, NotAnEntry
      <3>2. reader'[c] = new
        BY <1>2, <2>2, <3>1 DEF ReceiveGetn, Types, ServerTypes
      <3>3. Holding(c)' = Holding(c)
        BY <2>1, <2>2, <3>1, <3>2 DEF Holding, ReadSame
      <3>4. Len(reader'[c].got) <= reader'[c].n
        BY <3>1, <3>2
      <3> QED BY <2>1, <3>3, <3>4 DEF ReadSound, ReadSame
    <2>3. CASE ~(c = r.ch /\ reader[c] = Nobody)
      <3>1. reader'[c] = reader[c]
        BY <1>2, <2>3 DEF ReceiveGetn, Types, ServerTypes
      <3>2. Holding(c)' = Holding(c)
        BY <2>1, <3>1 DEF Holding, ReadSame
      <3> QED BY <2>1, <3>1, <3>2 DEF ReadSound, ReadSame
    <2> QED BY <2>2, <2>3
  <1>3. ASSUME NEW r \in Messages, r = Head(mailbox), ReceiveDrain(r)
        PROVE  ReadSound(c)'
    <2>1. CASE c = r.ch
      <3>1. r.arrived <= log[c].arrived
        <4>1. 1 \in DOMAIN mailbox /\ mailbox[1] = r
          BY <1>3, HeadTypes, ReceiveCases
        <4>2. r.op # "Notify"
          BY MessageTypes
        <4> QED BY <2>1, <4>1, <4>2 DEF MailSound
      <3> QED BY <1>3, <2>1, <3>1, ReadDrain
    <2>2. CASE c # r.ch
      <3>1. ReadSame(c)
        BY <1>3, <2>2, ReadSameIf
      <3>2. reader'[c] = reader[c]
        BY <1>3, <2>2 DEF ReceiveDrain, Types, ServerTypes
      <3>3. Holding(c)' = Holding(c)
        BY <3>1, <3>2 DEF Holding, ReadSame
      <3> QED BY <3>1, <3>2, <3>3 DEF ReadSound, ReadSame
    <2> QED BY <2>1, <2>2
  <1>4. \A r \in Notices : ReceiveNotify(r) => ReadSame(c) /\ UNCHANGED reader
    BY ReadSameIf DEF ReceiveNotify
  <1>5. \A r \in Messages : ReceivePutstr(r) \/ ReceiveFlush(r) => ReadSame(c) /\ UNCHANGED reader
    BY ReadSameIf DEF ReceivePutstr, ReceiveFlush
  <1> QED BY <1>1, <1>2, <1>3, <1>4, <1>5, ReceiveCases

LEMMA ReadNext ==
  ASSUME Types, PCsSound, MailSound, \A c \in Channels : ReadSound(c), Next
  PROVE  \A c \in Channels : ReadSound(c)'
  <1> SUFFICES ASSUME NEW c \in Channels
               PROVE  ReadSound(c)'
    OBVIOUS
  <1>1. ReadSound(c)
    OBVIOUS
  <1>2. ReadSame(c) /\ UNCHANGED reader => ReadSound(c)'
    BY <1>1, ReadKept
  <1>3. ASSUME Take
        PROVE  ReadSound(c)'
    <2>1. PICK e \in Channels, rd \in Readers,
                   first \in Seq(Nat), rest \in Seq(Nat), got \in Seq(Nat) :
                      TakeEffect(e, rd, first, rest, got)
      BY <1>3, TakeFacts
    <2>2. CASE c = e
      <3>1. rd = reader[c]
        BY <2>1, <2>2 DEF TakeEffect
      <3> QED BY <1>1, <2>1, <2>2, <3>1, ReadTake
    <2>3. CASE c # e
      <3>1. /\ reader \in [Channels -> {Nobody} \cup Readers]
            /\ uart \in [Channels -> Uarts] /\ log \in [Channels -> Logs]
        BY DEF Types, ServerTypes, HardTypes, TaskTypes, Uarts
      <3>2. reader'[c] = reader[c] /\ uart'[c] = uart[c] /\ log'[c] = log[c]
        BY <2>1, <2>3, <3>1 DEF TakeEffect
      <3>3. Holding(c)' = Holding(c)
        BY <3>2 DEF Holding
      <3> QED BY <1>1, <3>2, <3>3 DEF ReadSound
    <2> QED BY <2>2, <2>3
  <1>4. ASSUME NEW d \in Channels, Arrive(d)
        PROVE  ReadSound(c)'
    <2>1. CASE c = d
      BY <1>1, <1>4, <2>1, ReadArrive
    <2>2. CASE c # d
      BY <1>2, <1>4, <2>2, ReadSameIf DEF Arrive, serverVars
    <2> QED BY <2>1, <2>2
  <1>5. /\ \A d \in Channels : Interrupt(d) \/ Notify(d) \/ AwaitEvent(d) \/ Shift(d) \/ FallSilent(d)
              => ReadSame(c) /\ UNCHANGED reader
        /\ \A cl \in Clients : Call(cl) => ReadSame(c) /\ UNCHANGED reader
        /\ PassTime => ReadSame(c) /\ UNCHANGED reader
        /\ \A a, b : BoxMoves(a, b) => ReadSame(c) /\ UNCHANGED reader
    <2>1. /\ \A d \in Channels : Notify(d) \/ AwaitEvent(d) => UNCHANGED <<uart, log, reader>>
          /\ \A cl \in Clients : Call(cl) => UNCHANGED <<uart, log, reader>>
          /\ PassTime => UNCHANGED <<uart, log, reader>>
          /\ \A a, b : BoxMoves(a, b) => UNCHANGED <<uart, log, reader>>
      BY DEF Notify, AwaitEvent, Call, PassTime, BoxMoves, hardware, serverVars
    <2>2. \A d \in Channels : Interrupt(d) \/ Shift(d) \/ FallSilent(d) => UNCHANGED reader
      BY DEF Interrupt, Shift, FallSilent, serverVars
    <2> QED BY <2>1, <2>2, ReadSameIf
  <1>6. LoadCtlr \/ StoreCtlr \/ LookAtCts \/ SendBuffered \/ SendDirect \/ Put \/ StoreMsg
            \/ Reply \/ Read => ReadSame(c) /\ UNCHANGED reader
    <2>1. LoadCtlr \/ LookAtCts \/ SendBuffered \/ SendDirect \/ StoreMsg \/ Reply \/ Read
              => UNCHANGED <<uart, log, reader>>
      BY DEF LoadCtlr, LookAtCts, SendBuffered, SendDirect, StoreMsg, Reply, Read, hardware
    <2>2. StoreCtlr \/ Put => UNCHANGED reader
      BY DEF StoreCtlr, Put
    <2> QED BY <2>1, <2>2, ReadSameIf
  <1> QED BY <1>1, <1>2, <1>3, <1>4, <1>5, <1>6, ReadReceive DEF Next, Tasks, Hardware, Server

-----------------------------------------------------------------------------
(* The mailbox.                                                            *)

LEMMA ArrivedGrows ==
  ASSUME Types, PCsSound, \A c \in Channels : ReadSound(c), Next
  PROVE  \A c \in Channels : log'[c].arrived >= log[c].arrived
  <1> SUFFICES ASSUME NEW c \in Channels
               PROVE  log'[c].arrived >= log[c].arrived
    OBVIOUS
  <1>1. log \in [Channels -> Logs] /\ log[c].arrived \in Nat
    BY ChannelTypes DEF Types, TaskTypes
  <1>2. ReadSame(c) \/ UNCHANGED log => log'[c].arrived >= log[c].arrived
    BY <1>1 DEF ReadSame
  <1>3. ASSUME NEW d \in Channels, Arrive(d)
        PROVE  log'[c].arrived >= log[c].arrived
    BY <1>1, <1>3 DEF Arrive, Logs
  <1>4. ASSUME Take
        PROVE  log'[c].arrived >= log[c].arrived
    <2>1. PICK e \in Channels, rd \in Readers,
                   first \in Seq(Nat), rest \in Seq(Nat), got \in Seq(Nat) :
                      TakeEffect(e, rd, first, rest, got)
      BY <1>4, TakeFacts
    <2>2. UNCHANGED log \/ log' = [log EXCEPT ![e].read = log[e].read \o got]
      BY <2>1 DEF TakeEffect
    <2>3. log'[c].arrived = log[c].arrived
      <3>1. PICK all \in Seq(Nat) : all = log[e].read \o got
        BY ChannelTypes, ConcatProperties
      <3> QED BY <1>1, <2>2, <3>1 DEF Logs
    <2> QED BY <1>1, <2>3
  <1>5. ASSUME Receive
        PROVE  log'[c].arrived >= log[c].arrived
    <2>1. ASSUME NEW r \in Messages, ReceiveDrain(r)
          PROVE  log'[c].arrived >= log[c].arrived
      BY <1>1, <2>1, MessageTypes DEF ReceiveDrain, Logs
    <2>2. /\ \A r \in Notices : ReceiveNotify(r) => UNCHANGED log
          /\ \A r \in Messages : ReceiveGetn(r) \/ ReceiveFlush(r) => UNCHANGED log
      BY DEF ReceiveNotify, ReceiveGetn, ReceiveFlush
    <2> QED BY <1>2, <1>5, <2>1, <2>2, ReceiveCases, ReadSameIf
  <1>6. /\ \A d \in Channels : Notify(d) \/ AwaitEvent(d) => UNCHANGED log
        /\ \A cl \in Clients : Call(cl) => UNCHANGED log
        /\ PassTime => UNCHANGED log
        /\ \A a, b : BoxMoves(a, b) => UNCHANGED log
        /\ LoadCtlr \/ StoreCtlr \/ LookAtCts \/ SendBuffered \/ SendDirect \/ Put \/ StoreMsg
              \/ Reply \/ Read => UNCHANGED log
    BY DEF Notify, AwaitEvent, Call, PassTime, BoxMoves, LoadCtlr, StoreCtlr, LookAtCts,
           SendBuffered, SendDirect, Put, StoreMsg, Reply, Read
  <1> QED BY <1>2, <1>3, <1>4, <1>5, <1>6, ReadSameIf DEF Next, Tasks, Hardware, Server

\* The notifiers that have sent, and the server's place, are not disturbed.
LEMMA MailKept ==
  ASSUME Types, Types', MailSound, UNCHANGED mailbox, pc = "receive" => pc' = "receive",
         \A c \in Channels : log'[c].arrived >= log[c].arrived,
         \A c \in Channels : notifier[c].state = "sent" => notifier'[c].state = "sent"
  PROVE  MailSound'
  <1>1. ASSUME NEW i \in DOMAIN mailbox, mailbox[i].op # "Notify"
        PROVE  mailbox[i].arrived <= log'[mailbox[i].ch].arrived
    <2>1. PICK c \in Channels, a \in Nat : c = mailbox[i].ch /\ a = mailbox[i].arrived
      BY <1>1, MailTypes
    <2>2. a <= log[c].arrived
      BY <1>1, <2>1 DEF MailSound
    <2>3. PICK m \in Nat, n \in Nat : m = log[c].arrived /\ n = log'[c].arrived
      <3>1. log'[c].arrived \in Nat
        BY DEF Types, TaskTypes, Logs
      <3> QED BY <3>1, ChannelTypes
    <2>4. n >= m
      BY <2>3
    <2> QED BY <2>1, <2>2, <2>3, <2>4
  <1>2. \A i \in DOMAIN mailbox : mailbox[i].ch \in Channels
    BY MailTypes
  <1> QED BY <1>1, <1>2 DEF MailSound

LEMMA MailReceive ==
  ASSUME Types, MailSound, Receive
  PROVE  MailSound'
  <1>1. /\ mailbox # <<>> /\ mailbox' = Tail(mailbox)
        /\ \A i \in DOMAIN Tail(mailbox) :
              i + 1 \in DOMAIN mailbox /\ Tail(mailbox)[i] = mailbox[i + 1] /\ i \in Nat \ {0}
    BY ReceiveCases, HeadTypes
  <1>2. \A i \in DOMAIN mailbox' : mailbox'[i].op = "Notify"
    <2> SUFFICES ASSUME NEW i \in DOMAIN mailbox'
                 PROVE  mailbox'[i].op = "Notify"
      OBVIOUS
    <2>1. i + 1 # 1 /\ i + 1 \in DOMAIN mailbox
      BY <1>1
    <2> QED BY <1>1, <2>1 DEF MailSound
  <1>3. \A i, j \in DOMAIN mailbox' : mailbox'[i].ch = mailbox'[j].ch => i = j
    <2> SUFFICES ASSUME NEW i \in DOMAIN mailbox', NEW j \in DOMAIN mailbox',
                        mailbox'[i].ch = mailbox'[j].ch
                 PROVE  i = j
      OBVIOUS
    <2>1. /\ i + 1 \in DOMAIN mailbox /\ mailbox[i + 1] = mailbox'[i]
          /\ j + 1 \in DOMAIN mailbox /\ mailbox[j + 1] = mailbox'[j] /\ i \in Nat /\ j \in Nat
      BY <1>1
    <2>2. i + 1 = j + 1
      BY <1>2, <2>1 DEF MailSound
    <2> QED BY <2>1, <2>2
  <1>4. ASSUME NEW i \in DOMAIN mailbox'
        PROVE  notifier'[mailbox'[i].ch].state = "sent"
    <2>1. PICK k \in DOMAIN mailbox : k = i + 1 /\ k # 1 /\ mailbox[k] = mailbox'[i]
      BY <1>1, <1>4
    <2>2. PICK c \in Channels : c = mailbox[k].ch
      BY MailTypes
    <2>3. mailbox[k].op = "Notify" /\ notifier[c].state = "sent"
      BY <1>2, <1>4, <2>1, <2>2 DEF MailSound
    <2>4. ASSUME NEW r \in Notices, r = Head(mailbox), ReceiveNotify(r)
          PROVE  notifier'[c] = notifier[c]
      <3>1. 1 \in DOMAIN mailbox /\ mailbox[1] = r /\ r.op = "Notify"
        BY <1>1, <2>4, HeadTypes DEF Notices
      <3>2. r.ch # c
        BY <2>1, <2>2, <2>3, <3>1 DEF MailSound
      <3> QED BY <2>4, <3>2 DEF ReceiveNotify, Types, TaskTypes
    <2>5. \A r \in Messages : ReceivePutstr(r) \/ ReceiveGetn(r) \/ ReceiveDrain(r) \/ ReceiveFlush(r)
             => UNCHANGED notifier
      BY DEF ReceivePutstr, ReceiveGetn, ReceiveDrain, ReceiveFlush
    <2>6. notifier'[c] = notifier[c]
      BY <2>4, <2>5, ReceiveCases
    <2> QED BY <2>1, <2>2, <2>3, <2>6
  <1> QED BY <1>2, <1>3, <1>4 DEF MailSound

LEMMA MailNotify ==
  ASSUME Types, MailSound, NEW c \in Channels, Notify(c)
  PROVE  MailSound'
  <1>1. PICK m \in Notices : /\ m = [op |-> "Notify", ch |-> c, data |-> notifier[c].data]
                             /\ m.op = "Notify" /\ m.ch = c
    <2>1. [op |-> "Notify", ch |-> c, data |-> notifier[c].data] \in Notices
      BY ChannelTypes DEF Notices
    <2> QED BY <2>1
  <1>2. /\ mailbox' = Append(mailbox, m) /\ mailbox \in Seq(Notices \cup Messages)
        /\ notifier[c].state = "woken" /\ UNCHANGED <<pc, log>>
    BY <1>1 DEF Notify, Types, TaskTypes, serverVars
  <1>3. PICK n \in Nat : n = Len(mailbox)
    BY <1>2
  <1>4. /\ DOMAIN mailbox = 1 .. n /\ DOMAIN mailbox' = 1 .. n + 1 /\ mailbox'[n + 1] = m
        /\ \A i \in 1 .. n : mailbox'[i] = mailbox[i]
    BY <1>2, <1>3
  <1>5. \A i \in 1 .. n + 1 : i \in 1 .. n \/ i = n + 1
    OBVIOUS
  <1>6. /\ notifier'[c].state = "sent"
        /\ \A d \in Channels \ {c} : notifier'[d] = notifier[d]
    BY DEF Notify, Types, TaskTypes
  <1>7. \A i \in 1 .. n : mailbox[i].op = "Notify" => mailbox[i].ch # c
    BY <1>2, <1>4 DEF MailSound
  <1>8. ASSUME NEW i \in DOMAIN mailbox'
        PROVE  /\ mailbox'[i].op = "Notify" => notifier'[mailbox'[i].ch].state = "sent"
               /\ mailbox'[i].op # "Notify" => /\ i = 1 /\ pc' = "receive"
                                               /\ mailbox'[i].arrived <= log'[mailbox'[i].ch].arrived
    <2>1. CASE i = n + 1
      BY <1>1, <1>4, <1>6, <2>1
    <2>2. CASE i \in 1 .. n
      <3>1. mailbox[i].ch \in Channels
        BY <1>4, <2>2, MailTypes
      <3> QED BY <1>2, <1>4, <1>6, <1>7, <2>2, <3>1 DEF MailSound
    <2> QED BY <1>4, <1>5, <2>1, <2>2
  <1>9. ASSUME NEW i \in DOMAIN mailbox', NEW j \in DOMAIN mailbox',
               mailbox'[i].op = "Notify", mailbox'[j].op = "Notify", mailbox'[i].ch = mailbox'[j].ch
        PROVE  i = j
    <2>1. CASE i = n + 1 \/ j = n + 1
      BY <1>1, <1>4, <1>5, <1>7, <1>9, <2>1
    <2>2. CASE i \in 1 .. n /\ j \in 1 .. n
      BY <1>4, <1>9, <2>2 DEF MailSound
    <2> QED BY <1>4, <1>5, <2>1, <2>2
  <1> QED BY <1>8, <1>9 DEF MailSound

LEMMA MailSoundNext ==
  ASSUME Types, PCsSound, MailSound, \A c \in Channels : ReadSound(c), Next
  PROVE  MailSound'
  <1>1. Types' /\ \A c \in Channels : log'[c].arrived >= log[c].arrived
    BY TypesNext, ArrivedGrows
  <1> DEFINE Kept == /\ UNCHANGED mailbox /\ (pc = "receive" => pc' = "receive")
                     /\ \A c \in Channels : notifier[c].state = "sent" => notifier'[c].state = "sent"
  <1>2. Kept => MailSound'
    BY <1>1, MailKept
  <1>3. ASSUME NEW c \in Channels, Interrupt(c) \/ AwaitEvent(c)
        PROVE  Kept
    <2>1. /\ UNCHANGED <<mailbox, pc>>
          /\ UNCHANGED notifier
             \/ /\ notifier[c].state # "sent"
                /\ \A d \in Channels \ {c} : notifier'[d] = notifier[d]
      BY <1>3 DEF Interrupt, AwaitEvent, serverVars, Types, TaskTypes
    <2> QED BY <2>1
  <1>4. ASSUME NEW cl \in Clients, Call(cl)
        PROVE  MailSound'
    <2>1. PICK r \in Calls, m \in Messages :
             /\ pc = "receive" /\ m.ch = r.ch /\ m.arrived = log[r.ch].arrived
             /\ mailbox' = <<m>> /\ UNCHANGED <<pc, log>>
      BY <1>4, CallFacts DEF serverVars
    <2>2. /\ DOMAIN <<m>> = {1} /\ <<m>>[1] = m /\ m.op # "Notify" /\ m.arrived \in Nat
      BY MessageTypes
    <2> QED BY <2>1, <2>2 DEF MailSound
  <1>5. Hardware => Kept
    BY DEF Hardware, BoxMoves, PassTime, Shift, Arrive, FallSilent, serverVars
  <1>6. LoadCtlr \/ StoreCtlr \/ LookAtCts \/ SendBuffered \/ SendDirect \/ Put \/ StoreMsg
            \/ Reply \/ Read \/ Take => Kept
    BY DEF LoadCtlr, StoreCtlr, LookAtCts, SendBuffered, SendDirect, Put, StoreMsg,
           Reply, Read, Take, At
  <1> QED BY <1>2, <1>3, <1>4, <1>5, <1>6, MailReceive, MailNotify DEF Next, Tasks, Server

-----------------------------------------------------------------------------
(* Whoever is to be answered.                                              *)

Asks(call, op, c) == call.op = op /\ call.ch = c

\* The server has a message of a Putstr to write.
OfPutstr == Doing \in {"direct", "store_msg", "put", "reply"} /\ req.op = "Putstr"

LEMMA CallersSoundIs ==
  CallersSound <=>
    /\ \A i \in DOMAIN mailbox : mailbox[i].op # "Notify" =>
          /\ Asks(client[mailbox[i].from].call, mailbox[i].op, mailbox[i].ch)
          /\ \A c \in Channels : /\ reader[c] # Nobody  => reader[c].from # mailbox[i].from
                                 /\ flusher[c] # Nobody => flusher[c].from # mailbox[i].from
    /\ \A c \in Channels : reader[c] # Nobody => Asks(client[reader[c].from].call, "Getn", c)
    /\ \A c \in Channels : flusher[c] # Nobody => Asks(client[flusher[c].from].call, "Flush", c)
    /\ OfPutstr => client[req.from].call.op = "Putstr"
  BY DEF CallersSound, Asks, OfPutstr

LEMMA CallersSoundPrime ==
  (/\ \A i \in DOMAIN mailbox' : mailbox'[i].op # "Notify" =>
          /\ Asks(client'[mailbox'[i].from].call, mailbox'[i].op, mailbox'[i].ch)
          /\ \A c \in Channels : /\ reader'[c] # Nobody  => reader'[c].from # mailbox'[i].from
                                 /\ flusher'[c] # Nobody => flusher'[c].from # mailbox'[i].from
   /\ \A c \in Channels : reader'[c] # Nobody => Asks(client'[reader'[c].from].call, "Getn", c)
   /\ \A c \in Channels : flusher'[c] # Nobody => Asks(client'[flusher'[c].from].call, "Flush", c)
   /\ OfPutstr' => client'[req'.from].call.op = "Putstr") => CallersSound'
  BY DEF CallersSound, Asks, OfPutstr

\* Nobody calls, is answered or is noted down.
CallersSame ==
    /\ UNCHANGED <<client, reader, flusher>>
    /\ \A i \in DOMAIN mailbox' : mailbox'[i].op # "Notify" =>
          \E j \in DOMAIN mailbox : mailbox'[i] = mailbox[j]
    /\ OfPutstr' => OfPutstr /\ req' = req

LEMMA CallersKept ==
  ASSUME CallersSound, CallersSame
  PROVE  CallersSound'
  <1>1. \A i \in DOMAIN mailbox' : mailbox'[i].op # "Notify" =>
          /\ Asks(client'[mailbox'[i].from].call, mailbox'[i].op, mailbox'[i].ch)
          /\ \A c \in Channels : /\ reader'[c] # Nobody  => reader'[c].from # mailbox'[i].from
                                 /\ flusher'[c] # Nobody => flusher'[c].from # mailbox'[i].from
    <2> SUFFICES ASSUME NEW i \in DOMAIN mailbox', mailbox'[i].op # "Notify"
                 PROVE  /\ Asks(client'[mailbox'[i].from].call, mailbox'[i].op, mailbox'[i].ch)
                        /\ \A c \in Channels : /\ reader'[c] # Nobody  => reader'[c].from # mailbox'[i].from
                                               /\ flusher'[c] # Nobody => flusher'[c].from # mailbox'[i].from
      OBVIOUS
    <2>1. PICK j \in DOMAIN mailbox : mailbox'[i] = mailbox[j]
      BY DEF CallersSame
    <2>2. /\ Asks(client[mailbox[j].from].call, mailbox[j].op, mailbox[j].ch)
          /\ \A c \in Channels : /\ reader[c] # Nobody  => reader[c].from # mailbox[j].from
                                 /\ flusher[c] # Nobody => flusher[c].from # mailbox[j].from
      BY <2>1, CallersSoundIs
    <2> QED BY <2>1, <2>2 DEF CallersSame, Asks
  <1>2. /\ \A c \in Channels : reader'[c] # Nobody => Asks(client'[reader'[c].from].call, "Getn", c)
        /\ \A c \in Channels : flusher'[c] # Nobody => Asks(client'[flusher'[c].from].call, "Flush", c)
        /\ OfPutstr' => client'[req'.from].call.op = "Putstr"
    BY CallersSoundIs DEF CallersSame, Asks
  <1> QED BY <1>1, <1>2, CallersSoundPrime

\* A caller is answered, and is noted down nowhere any more.
LEMMA CallersAnswered ==
  ASSUME Types, CallersSound, NEW cl \in Clients, Answer(cl), ~ OfPutstr',
         \A i \in DOMAIN mailbox' : mailbox'[i].op = "Notify",
         \A c \in Channels : reader'[c] # Nobody =>
             reader[c] # Nobody /\ reader'[c].from = reader[c].from /\ reader[c].from # cl,
         \A c \in Channels : flusher'[c] # Nobody =>
             flusher[c] # Nobody /\ flusher'[c].from = flusher[c].from /\ flusher[c].from # cl
  PROVE  CallersSound'
  <1>1. \A k \in Clients \ {cl} : client'[k] = client[k]
    BY DEF Answer, Types, TaskTypes
  <1>2. ASSUME NEW c \in Channels, reader'[c] # Nobody
        PROVE  Asks(client'[reader'[c].from].call, "Getn", c)
    <2>1. PICK k \in Clients : k = reader[c].from /\ k # cl /\ reader'[c].from = k /\ reader[c] # Nobody
      BY <1>2, ReaderTypes
    <2>2. Asks(client[k].call, "Getn", c)
      BY <2>1, CallersSoundIs
    <2> QED BY <1>1, <2>1, <2>2 DEF Asks
  <1>3. ASSUME NEW c \in Channels, flusher'[c] # Nobody
        PROVE  Asks(client'[flusher'[c].from].call, "Flush", c)
    <2>1. PICK k \in Clients : k = flusher[c].from /\ k # cl /\ flusher'[c].from = k /\ flusher[c] # Nobody
      BY <1>3, FlusherTypes
    <2>2. Asks(client[k].call, "Flush", c)
      BY <2>1, CallersSoundIs
    <2> QED BY <1>1, <2>1, <2>2 DEF Asks
  <1> QED BY <1>2, <1>3, CallersSoundPrime

LEMMA NoClientMail ==
  ASSUME MailSound, pc # "receive"
  PROVE  \A i \in DOMAIN mailbox : mailbox[i].op = "Notify"
  BY DEF MailSound

LEMMA NoMoreClientMail ==
  ASSUME Types, MailSound, Receive
  PROVE  \A i \in DOMAIN mailbox' : mailbox'[i].op = "Notify"
  <1> SUFFICES ASSUME NEW i \in DOMAIN mailbox'
               PROVE  mailbox'[i].op = "Notify"
    OBVIOUS
  <1>1. /\ mailbox # <<>> /\ mailbox' = Tail(mailbox) /\ mailbox \in Seq(Notices \cup Messages)
    BY ReceiveCases DEF Types, TaskTypes
  <1>2. i \in Nat \ {0} /\ i + 1 \in DOMAIN mailbox /\ mailbox'[i] = mailbox[i + 1]
    BY <1>1, HeadTypes
  <1>3. i + 1 # 1
    BY <1>2
  <1> QED BY <1>2, <1>3 DEF MailSound

LEMMA CallersReceive ==
  ASSUME Types, PCsSound, MailSound, CallersSound, Receive
  PROVE  CallersSound'
  <1>1. \A i \in DOMAIN mailbox' : mailbox'[i].op = "Notify"
    BY NoMoreClientMail
  <1>2. mailbox # <<>> /\ 1 \in DOMAIN mailbox /\ Head(mailbox) = mailbox[1] /\ UNCHANGED ctl
    BY ReceiveCases, HeadTypes
  <1>3. ASSUME NEW r \in Messages, r = Head(mailbox)
        PROVE  /\ r.op # "Notify" /\ r.from \in Clients /\ r.ch \in Channels
               /\ Asks(client[r.from].call, r.op, r.ch)
               /\ \A c \in Channels : /\ reader[c] # Nobody  => reader[c].from # r.from
                                      /\ flusher[c] # Nobody => flusher[c].from # r.from
    BY <1>2, <1>3, MessageTypes, CallersSoundIs
  <1>4. ASSUME NEW r \in Notices, req' = r, ReceiveNotify(r)
        PROVE  CallersSame
    <2>1. r.op # "Putstr"
      BY DEF Notices
    <2> QED BY <1>1, <1>4, <2>1 DEF CallersSame, OfPutstr, ReceiveNotify
  <1>5. ASSUME NEW r \in Messages, r = Head(mailbox), req' = r, ReceivePutstr(r)
        PROVE  CallersSound'
    <2>1. client'[req'.from].call.op = "Putstr" /\ UNCHANGED <<client, reader, flusher>>
      BY <1>3, <1>5 DEF ReceivePutstr, Asks
    <2> QED BY <1>1, <2>1, CallersSoundIs, CallersSoundPrime DEF Asks
  <1>6. ASSUME NEW r \in Messages, r = Head(mailbox), req' = r, ReceiveGetn(r)
        PROVE  CallersSound'
    <2>1. ~ OfPutstr' /\ r.op = "Getn" /\ UNCHANGED <<client, flusher>>
      BY <1>6 DEF OfPutstr, ReceiveGetn
    <2>2. ASSUME NEW c \in Channels, reader'[c] # Nobody
          PROVE  Asks(client'[reader'[c].from].call, "Getn", c)
      <3>1. reader'[c] = reader[c] \/ (c = r.ch /\ reader'[c].from = r.from)
        BY <1>6 DEF ReceiveGetn, Types, ServerTypes
      <3>2. reader[c] # Nobody => Asks(client[reader[c].from].call, "Getn", c)
        BY CallersSoundIs
      <3> QED BY <1>3, <1>6, <2>1, <2>2, <3>1, <3>2 DEF Asks
    <2> QED BY <1>1, <2>1, <2>2, CallersSoundIs, CallersSoundPrime DEF Asks
  <1>7. ASSUME NEW r \in Messages, r = Head(mailbox), req' = r, ReceiveDrain(r)
        PROVE  CallersSound'
    <2>1. ~ OfPutstr' /\ Answer(r.from) /\ UNCHANGED flusher /\ r.from \in Clients
      BY <1>7, MessageTypes DEF OfPutstr, ReceiveDrain
    <2>2. \A c \in Channels : reader'[c] # Nobody =>
             reader[c] # Nobody /\ reader'[c].from = reader[c].from
      <3>1. reader \in [Channels -> {Nobody} \cup Readers]
        BY DEF Types, ServerTypes
      <3>2. \A rd \in {Nobody} \cup Readers :
               Cleared(rd) # Nobody => rd # Nobody /\ Cleared(rd).from = rd.from
        BY DEF Cleared, Readers
      <3>3. \A c \in Channels : reader'[c] = reader[c] \/ reader'[c] = Cleared(reader[c])
        BY <1>7, <3>1 DEF ReceiveDrain
      <3> QED BY <3>1, <3>2, <3>3
    <2> QED BY <1>1, <1>3, <1>7, <2>1, <2>2, CallersAnswered
  <1>8. ASSUME NEW r \in Messages, r = Head(mailbox), req' = r, ReceiveFlush(r)
        PROVE  CallersSound'
    <2>1. ~ OfPutstr' /\ UNCHANGED reader /\ r.from \in Clients /\ r.op = "Flush"
      BY <1>8, MessageTypes DEF OfPutstr, ReceiveFlush
    <2>2. CASE Answer(r.from) /\ UNCHANGED flusher
      BY <1>1, <1>3, <1>8, <2>1, <2>2, CallersAnswered
    <2>3. CASE UNCHANGED <<client, flusher>>
      BY <1>1, <2>1, <2>3, CallersSoundIs, CallersSoundPrime DEF Asks
    <2>4. CASE /\ flusher' = [flusher EXCEPT ![r.ch] =
                                [from |-> r.from, bytes_remaining |-> ToFlush(buffer[r.ch])]]
               /\ UNCHANGED client
      <3>1. ASSUME NEW c \in Channels, flusher'[c] # Nobody
            PROVE  Asks(client'[flusher'[c].from].call, "Flush", c)
        <4>1. flusher'[c] = flusher[c] \/ (c = r.ch /\ flusher'[c].from = r.from)
          BY <2>4 DEF Types, ServerTypes
        <4>2. flusher[c] # Nobody => Asks(client[flusher[c].from].call, "Flush", c)
          BY CallersSoundIs
        <4> QED BY <1>3, <1>8, <2>1, <2>4, <3>1, <4>1, <4>2 DEF Asks
      <3> QED BY <1>1, <2>1, <2>4, <3>1, CallersSoundIs, CallersSoundPrime DEF Asks
    <2> QED BY <1>8, <2>2, <2>3, <2>4 DEF ReceiveFlush
  <1> QED BY <1>4, <1>5, <1>6, <1>7, <1>8, CallersKept, ReceiveCases

LEMMA CallersPut ==
  ASSUME Types, PCsSound, MailSound, CallersSound, Put
  PROVE  CallersSound'
  <1>1. /\ Ch \in Channels /\ pc = "put" /\ req # Nobody /\ UNCHANGED <<mailbox, req, reader>>
        /\ req.op \in {"Putstr", "Notify"} /\ Doing = "put"
    BY ReqTypes DEF PCsSound, Put, At, Doing
  <1>2. \A i \in DOMAIN mailbox' : mailbox'[i].op = "Notify"
    BY <1>1, NoClientMail
  <1>3. CASE UNCHANGED <<client, flusher>>
    <2>1. OfPutstr' => OfPutstr
      BY <1>1 DEF OfPutstr
    <2> QED BY <1>1, <1>3, <2>1, CallersKept DEF CallersSame
  <1>4. CASE /\ req.op # "Putstr" /\ flusher[Ch] # Nobody /\ UNCHANGED client
             /\ flusher' = [flusher EXCEPT ![Ch].bytes_remaining = @ - 1]
    <2>1. ~ OfPutstr'
      BY <1>1, <1>4 DEF OfPutstr
    <2>2. \A c \in Channels : flusher'[c] # Nobody =>
             flusher[c] # Nobody /\ flusher'[c].from = flusher[c].from
      <3>1. flusher \in [Channels -> {Nobody} \cup Flushers]
        BY DEF Types, ServerTypes
      <3>2. PICK f \in Flushers : f = flusher[Ch]
        BY <1>1, <1>4, <3>1
      <3>3. PICK g \in Flushers : g = [f EXCEPT !.bytes_remaining = f.bytes_remaining - 1]
        BY OneFewer
      <3>4. g.from = f.from
        BY <3>3 DEF Flushers
      <3>5. flusher' = [flusher EXCEPT ![Ch] = g]
        BY <1>1, <1>4, <3>1, <3>2, <3>3
      <3>6. flusher'[Ch].from = flusher[Ch].from
        BY <1>1, <3>1, <3>2, <3>4, <3>5
      <3>7. \A c \in Channels \ {Ch} : flusher'[c] = flusher[c]
        BY <1>1, <3>1, <3>5
      <3> QED BY <1>4, <3>6, <3>7
    <2>3. \A c \in Channels : flusher'[c] # Nobody => Asks(client'[flusher'[c].from].call, "Flush", c)
      BY <1>4, <2>2, CallersSoundIs DEF Asks
    <2>4. \A c \in Channels : reader'[c] # Nobody => Asks(client'[reader'[c].from].call, "Getn", c)
      BY <1>1, <1>4, CallersSoundIs
    <2> QED BY <1>2, <2>1, <2>3, <2>4, CallersSoundPrime
  <1>5. CASE /\ req.op # "Putstr" /\ flusher[Ch] # Nobody
             /\ flusher' = [flusher EXCEPT ![Ch] = Nobody] /\ Answer(flusher[Ch].from)
    <2>1. ~ OfPutstr'
      BY <1>1, <1>5 DEF OfPutstr
    <2>2. PICK cl \in Clients : cl = flusher[Ch].from /\ Asks(client[cl].call, "Flush", Ch)
      BY <1>1, <1>5, FlusherTypes, CallersSoundIs
    <2>3. \A c \in Channels : reader[c] # Nobody => reader[c].from # cl
      BY <2>2, CallersSoundIs DEF Asks
    <2>4. \A c \in Channels : flusher'[c] # Nobody => flusher'[c] = flusher[c] /\ c # Ch
      BY <1>1, <1>5 DEF Types, ServerTypes
    <2>5. \A c \in Channels \ {Ch} : flusher[c] # Nobody => flusher[c].from # cl
      BY <2>2, CallersSoundIs DEF Asks
    <2> QED BY <1>1, <1>2, <1>5, <2>1, <2>2, <2>3, <2>4, <2>5, CallersAnswered
  <1> QED BY <1>3, <1>4, <1>5 DEF Put

LEMMA CallersReply ==
  ASSUME Types, PCsSound, MailSound, CallersSound, Reply
  PROVE  CallersSound'
  <1>1. /\ pc = "reply" /\ req # Nobody /\ OfPutstr /\ ~ OfPutstr' /\ Answer(req.from)
        /\ UNCHANGED <<mailbox, reader, flusher>> /\ req.from \in Clients
    BY ReqTypes DEF PCsSound, Reply, At, Doing, OfPutstr
  <1>2. client[req.from].call.op = "Putstr"
    BY <1>1, CallersSoundIs
  <1>3. /\ \A c \in Channels : reader[c] # Nobody => reader[c].from # req.from
        /\ \A c \in Channels : flusher[c] # Nobody => flusher[c].from # req.from
    BY <1>2, CallersSoundIs DEF Asks
  <1>4. \A i \in DOMAIN mailbox' : mailbox'[i].op = "Notify"
    BY <1>1, NoClientMail
  <1>5. PICK cl \in Clients : cl = req.from
    BY <1>1
  <1> QED BY <1>1, <1>3, <1>4, <1>5, CallersAnswered

LEMMA CallersTake ==
  ASSUME Types, PCsSound, MailSound, CallersSound, \A c \in Channels : ReadSound(c), Take
  PROVE  CallersSound'
  <1>1. PICK e \in Channels, rd \in Readers,
                 first \in Seq(Nat), rest \in Seq(Nat), got \in Seq(Nat) :
                    TakeEffect(e, rd, first, rest, got)
    BY TakeFacts
  <1>2. /\ rd = reader[e] /\ rd # Nobody /\ rd.from \in Clients /\ UNCHANGED <<mailbox, flusher>>
        /\ reader \in [Channels -> {Nobody} \cup Readers]
    BY <1>1, NotAnEntry DEF TakeEffect, Readers, Types, ServerTypes
  <1>3. \A i \in DOMAIN mailbox' : mailbox'[i].op = "Notify"
    BY <1>2, NoClientMail DEF Take, At
  <1>4. ~ OfPutstr'
    <2>1. pc' = "receive" \/ AwaitMore(e)
      BY <1>1 DEF TakeEffect
    <2> QED BY <2>1 DEF AwaitMore, Enable, OfPutstr, Doing
  <1>5. CASE reader' = [reader EXCEPT ![e] = Nobody] /\ Answer(rd.from)
    <2>1. PICK cl \in Clients : cl = rd.from /\ Asks(client[cl].call, "Getn", e)
      BY <1>2, CallersSoundIs
    <2>2. \A c \in Channels : flusher[c] # Nobody => flusher[c].from # cl
      BY <2>1, CallersSoundIs DEF Asks
    <2>3. \A c \in Channels \ {e} : reader[c] # Nobody => reader[c].from # cl
      BY <2>1, CallersSoundIs DEF Asks
    <2>4. \A c \in Channels : reader'[c] # Nobody => reader'[c] = reader[c] /\ c # e
      BY <1>2, <1>5
    <2> QED BY <1>2, <1>3, <1>4, <1>5, <2>1, <2>2, <2>3, <2>4, CallersAnswered
  <1>6. CASE /\ reader' = [reader EXCEPT ![e] = [from |-> rd.from, n |-> rd.n, got |-> got]]
             /\ UNCHANGED client
    <2>1. \A c \in Channels : reader'[c] # Nobody =>
             reader[c] # Nobody /\ reader'[c].from = reader[c].from
      BY <1>2, <1>6
    <2>2. \A c \in Channels : reader'[c] # Nobody => Asks(client'[reader'[c].from].call, "Getn", c)
      BY <1>6, <2>1, CallersSoundIs
    <2>3. \A c \in Channels : flusher'[c] # Nobody => Asks(client'[flusher'[c].from].call, "Flush", c)
      BY <1>2, <1>6, CallersSoundIs
    <2> QED BY <1>3, <1>4, <2>2, <2>3, CallersSoundPrime
  <1> QED BY <1>1, <1>5, <1>6 DEF TakeEffect

LEMMA CallersCall ==
  ASSUME Types, CallersSound, NEW cl \in Clients, Call(cl)
  PROVE  CallersSound'
  <1>1. PICK r \in Calls, m \in Messages :
           /\ client[cl].call = None /\ client'[cl].call = r
           /\ \A k \in Clients \ {cl} : client'[k] = client[k]
           /\ m.op = r.op /\ m.ch = r.ch /\ m.from = cl /\ mailbox' = <<m>>
           /\ pc' = "receive" /\ UNCHANGED <<reader, flusher>>
    <2>1. PICK r \in Calls, rest \in Seq(Calls), m \in Messages :
            /\ client[cl].call = None /\ mailbox = <<>> /\ pc = "receive"
            /\ client' = [client EXCEPT ![cl] = [call |-> r, left |-> rest,
                                                 upto |-> log[r.ch].accepted]]
            /\ m.op = r.op /\ m.ch = r.ch /\ m.n = r.n /\ m.from = cl
            /\ m.arrived = log[r.ch].arrived
            /\ mailbox' = <<m>>
            /\ UNCHANGED <<hardware, event, notifier, serverVars, log>>
      BY CallFacts
    <2> QED BY <2>1 DEF serverVars, Types, TaskTypes
  <1>2. /\ DOMAIN mailbox' = {1} /\ mailbox'[1] = m
    BY <1>1
  <1>3. /\ \A c \in Channels : reader[c] # Nobody => reader[c].from # cl
        /\ \A c \in Channels : flusher[c] # Nobody => flusher[c].from # cl
    <2>1. client[cl].call.op = "none"
      BY <1>1 DEF None
    <2> QED BY <2>1, CallersSoundIs DEF Asks
  <1>4. /\ \A c \in Channels : reader'[c] # Nobody => Asks(client'[reader'[c].from].call, "Getn", c)
        /\ \A c \in Channels : flusher'[c] # Nobody => Asks(client'[flusher'[c].from].call, "Flush", c)
    BY <1>1, <1>3, CallersSoundIs, ReaderTypes, FlusherTypes
  <1>5. ~ OfPutstr'
    BY <1>1 DEF OfPutstr, Doing
  <1> QED BY <1>1, <1>2, <1>3, <1>4, <1>5, CallersSoundPrime DEF Asks

LEMMA CallersNext ==
  ASSUME Types, PCsSound, MailSound, CallersSound, \A c \in Channels : ReadSound(c), Next
  PROVE  CallersSound'
  <1>1. ASSUME NEW c \in Channels, Notify(c)
        PROVE  CallersSame
    <2>1. PICK m \in Notices : mailbox' = Append(mailbox, m)
      <3>1. [op |-> "Notify", ch |-> c, data |-> notifier[c].data] \in Notices
        BY ChannelTypes DEF Notices
      <3> QED BY <1>1, <3>1 DEF Notify
    <2>2. mailbox \in Seq(Notices \cup Messages) /\ m.op = "Notify"
      BY DEF Types, TaskTypes, Notices
    <2>3. \A i \in DOMAIN mailbox' : mailbox'[i] = m \/ \E j \in DOMAIN mailbox : mailbox'[i] = mailbox[j]
      BY <2>1, <2>2
    <2> QED BY <1>1, <2>2, <2>3 DEF CallersSame, Notify, serverVars, OfPutstr, Doing
  <1>2. ASSUME UNCHANGED <<client, reader, flusher, mailbox, pc, ctl, req>>
        PROVE  CallersSame
    BY <1>2 DEF CallersSame, OfPutstr, Doing
  <1>3. /\ \A c \in Channels : Interrupt(c) \/ AwaitEvent(c)
              => UNCHANGED <<client, reader, flusher, mailbox, pc, ctl, req>>
        /\ Hardware => UNCHANGED <<client, reader, flusher, mailbox, pc, ctl, req>>
    BY DEF Interrupt, AwaitEvent, Hardware, BoxMoves, PassTime, Shift, Arrive, FallSilent, serverVars
  <1>4. LoadCtlr \/ StoreCtlr => CallersSame
    <2>1. ctl \in [bits : SUBSET Bits, loaded : SUBSET Bits, after : Afters]
      BY DEF Types, ServerTypes
    <2> QED BY <2>1 DEF LoadCtlr, StoreCtlr, At, CallersSame, OfPutstr, Doing, Afters
  <1>5. LookAtCts \/ SendBuffered \/ Read => CallersSame
    <2>1. LookAtCts \/ SendBuffered \/ Read => req.op = "Notify" /\ UNCHANGED req
      BY DEF LookAtCts, SendBuffered, Read, At, PCsSound, Doing
    <2> QED BY <2>1 DEF LookAtCts, SendBuffered, Read, CallersSame, OfPutstr
  <1>6. SendDirect \/ StoreMsg => CallersSame
    <2>1. SendDirect \/ StoreMsg => OfPutstr /\ UNCHANGED req
      BY DEF SendDirect, StoreMsg, At, PCsSound, Doing, OfPutstr
    <2> QED BY <2>1 DEF SendDirect, StoreMsg, CallersSame
  <1> QED BY <1>1, <1>2, <1>3, <1>4, <1>5, <1>6, CallersKept, CallersReceive, CallersPut,
             CallersReply, CallersTake, CallersCall DEF Next, Tasks, Server

-----------------------------------------------------------------------------
(* Flushes.                                                                *)

\* How many bytes of channel c have been given to the UART.
Out(c) == Len(log[c].wire) + Len(uart[c].tx)

LEMMA OutTypes ==
  ASSUME Types, NEW c \in Channels
  PROVE  Out(c) \in Nat /\ Len(log[c].wire) \in Nat /\ Len(uart[c].tx) \in Nat
  <1>1. log[c].wire \in Seq(Nat) /\ uart[c].tx \in Seq(Nat)
    BY ChannelTypes
  <1>2. Len(log[c].wire) \in Nat /\ Len(uart[c].tx) \in Nat
    BY <1>1
  <1>3. \A m, n \in Nat : m + n \in Nat
    OBVIOUS
  <1> QED BY <1>2, <1>3, Zenon DEF Out

LEMMA InHandTypes ==
  ASSUME Types, NEW c \in Channels
  PROVE  InHand(c) \in Seq(Nat)
  <1>1. buffer[c] \in Seq(Nat) /\ msg \in Seq(Nat)
    BY DEF Types, ServerTypes
  <1> QED BY <1>1, ConcatProperties DEF InHand

LEMMA AcceptedIs ==
  ASSUME Types, WireInOrder, NEW c \in Channels
  PROVE  Len(InHand(c)) \in Nat /\ log[c].accepted = Out(c) + Len(InHand(c))
  <1>1. PICK w \in Seq(Nat), x \in Seq(Nat), h \in Seq(Nat), a \in Nat :
           w = log[c].wire /\ x = uart[c].tx /\ h = InHand(c) /\ a = log[c].accepted
    BY ChannelTypes, InHandTypes
  <1>2. w \o x \o h = [i \in 1 .. a |-> i]
    BY <1>1 DEF WireInOrder
  <1>3. Len(w \o x \o h) = Len(w) + Len(x) + Len(h)
    <2>1. w \o x \in Seq(Nat) /\ Len(w \o x) = Len(w) + Len(x)
      BY ConcatProperties
    <2> QED BY <2>1, ConcatProperties
  <1>4. Len([i \in 1 .. a |-> i]) = a
    <2> DEFINE s == [i \in 1 .. a |-> i]
    <2>1. s \in [1 .. a -> Nat]
      OBVIOUS
    <2> HIDE DEF s
    <2> QED BY <2>1 DEF s
  <1>5. Len(w) \in Nat /\ Len(x) \in Nat /\ Len(h) \in Nat
    OBVIOUS
  <1>6. a = Len(w) + Len(x) + Len(h)
    BY <1>2, <1>3, <1>4
  <1> QED BY <1>1, <1>5, <1>6 DEF Out

LEMMA OutPut ==
  ASSUME Types, PCsSound, Put
  PROVE  /\ UNCHANGED log
         /\ \E e \in Channels : /\ e = Ch /\ Out(e)' = Out(e) + 1
                                /\ \A c \in Channels : c # e => Out(c)' = Out(c)
  <1>1. Ch \in Channels /\ Ch' = Ch /\ msg # <<>> /\ msg \in Seq(Nat)
    BY ReqTypes DEF PCsSound, Put, At, Doing, Types, ServerTypes, Ch
  <1>2. PICK e \in Channels, x \in Seq(Nat), h \in Nat :
           e = Ch /\ x = uart[e].tx /\ h = Head(msg)
    BY <1>1, ChannelTypes, HeadAndTail
  <1>3. /\ uart' = [uart EXCEPT ![e].tx = Append(x, h)] /\ uart \in [Channels -> Uarts]
        /\ UNCHANGED log
    BY <1>2 DEF Put, Types, HardTypes, Uarts
  <1>4. uart'[e].tx = Append(x, h) /\ \A c \in Channels : c # e => uart'[c] = uart[c]
    BY <1>3 DEF Uarts
  <1>5. PICK m \in Nat, n \in Nat : m = Len(log[e].wire) /\ n = Len(x) /\ Len(Append(x, h)) = n + 1
    BY OutTypes, AppendProperties
  <1>6. Out(e)' = Out(e) + 1
    <2>1. Out(e) = m + n /\ Out(e)' = m + (n + 1)
      BY <1>2, <1>3, <1>4, <1>5, Zenon DEF Out
    <2>2. m + (n + 1) = (m + n) + 1
      OBVIOUS
    <2> QED BY <2>1, <2>2
  <1>7. \A c \in Channels : c # e => Out(c)' = Out(c)
    BY <1>3, <1>4 DEF Out
  <1> QED BY <1>2, <1>3, <1>6, <1>7

LEMMA OutShift ==
  ASSUME Types, NEW e \in Channels, Shift(e)
  PROVE  \A c \in Channels : Out(c)' = Out(c) /\ log'[c].accepted = log[c].accepted
  <1>1. PICK w \in Seq(Nat), x \in Seq(Nat), h \in Nat, t \in Seq(Nat) :
           /\ w = log[e].wire /\ x = uart[e].tx /\ h = Head(x) /\ t = Tail(x) /\ Len(x) = 1 + Len(t)
    <2>1. PICK w \in Seq(Nat), x \in Seq(Nat) : w = log[e].wire /\ x = uart[e].tx /\ x # <<>>
      BY ChannelTypes DEF Shift
    <2>2. PICK h \in Nat, t \in Seq(Nat) : h = Head(x) /\ t = Tail(x) /\ Len(x) = 1 + Len(t)
      BY <2>1, HeadAndTail
    <2> QED BY <2>1, <2>2
  <1>2. /\ uart' = [uart EXCEPT ![e].tx = t] /\ uart \in [Channels -> Uarts]
        /\ log' = [log EXCEPT ![e].wire = Append(w, h)] /\ log \in [Channels -> Logs]
    BY <1>1 DEF Shift, Types, HardTypes, TaskTypes, Uarts
  <1>3. /\ uart'[e].tx = t /\ log'[e].wire = Append(w, h) /\ log'[e].accepted = log[e].accepted
        /\ \A c \in Channels : c # e => uart'[c] = uart[c] /\ log'[c] = log[c]
    BY <1>2 DEF Uarts, Logs
  <1>4. PICK m \in Nat, n \in Nat :
           m = Len(w) /\ n = Len(t) /\ Len(Append(w, h)) = m + 1 /\ Len(x) = 1 + n
    <2>1. Len(w) \in Nat /\ Len(t) \in Nat /\ Len(Append(w, h)) = Len(w) + 1
      BY AppendProperties
    <2> QED BY <1>1, <2>1
  <1>5. Len(Append(w, h)) + Len(t) = Len(w) + Len(x)
    BY <1>4
  <1>6. Out(e)' = Out(e)
    BY <1>1, <1>3, <1>5 DEF Out
  <1> QED BY <1>3, <1>6 DEF Out

\* Bytes are accepted and go out, and neither is undone.
LEMMA OutGrows ==
  ASSUME Types, PCsSound, \A c \in Channels : ReadSound(c), Next
  PROVE  \A c \in Channels : log'[c].accepted >= log[c].accepted /\ Out(c)' >= Out(c)
  <1> SUFFICES ASSUME NEW c \in Channels
               PROVE  log'[c].accepted >= log[c].accepted /\ Out(c)' >= Out(c)
    OBVIOUS
  <1>1. log[c].accepted \in Nat /\ Out(c) \in Nat
    BY ChannelTypes, OutTypes
  <1>2. log'[c].accepted = log[c].accepted /\ Out(c)' = Out(c)
          => log'[c].accepted >= log[c].accepted /\ Out(c)' >= Out(c)
    BY <1>1
  <1>3. SentSame => log'[c].accepted = log[c].accepted /\ Out(c)' = Out(c)
    BY DEF SentSame, Out
  <1>4. ASSUME Put
        PROVE  log'[c].accepted >= log[c].accepted /\ Out(c)' >= Out(c)
    <2>1. Out(c)' = Out(c) \/ Out(c)' = Out(c) + 1
      <3>1. PICK e \in Channels : /\ Out(e)' = Out(e) + 1
                                  /\ \A d \in Channels : d # e => Out(d)' = Out(d)
        BY <1>4, OutPut
      <3> QED BY <3>1
    <2>2. log'[c].accepted = log[c].accepted
      BY <1>4, OutPut
    <2> QED BY <1>1, <2>1, <2>2
  <1>5. ASSUME NEW r \in Messages, ReceivePutstr(r)
        PROVE  log'[c].accepted >= log[c].accepted /\ Out(c)' >= Out(c)
    <2>1. PICK n \in Nat, a \in Nat : n = r.n /\ a = log[r.ch].accepted
      BY MessageTypes, ChannelTypes
    <2>2. /\ log' = [log EXCEPT ![r.ch].accepted = a + n] /\ UNCHANGED uart
          /\ log \in [Channels -> Logs] /\ r.ch \in Channels
      BY <1>5, <2>1, MessageTypes DEF ReceivePutstr, Types, TaskTypes
    <2>3. /\ log'[c].wire = log[c].wire
          /\ \/ log'[c].accepted = log[c].accepted
             \/ log[c].accepted = a /\ log'[c].accepted = a + n
      BY <2>1, <2>2 DEF Logs
    <2>4. Out(c)' = Out(c)
      BY <2>2, <2>3 DEF Out
    <2>5. log'[c].accepted >= log[c].accepted
      BY <1>1, <2>3
    <2> QED BY <1>1, <2>4, <2>5
  <1>6. /\ \A r \in Notices : ReceiveNotify(r) => SentSame
        /\ \A r \in Messages : ReceiveGetn(r) \/ ReceiveDrain(r) \/ ReceiveFlush(r) => SentSame
    BY SentSameIf DEF ReceiveNotify, ReceiveGetn, ReceiveFlush
  <1>7. Receive => log'[c].accepted >= log[c].accepted /\ Out(c)' >= Out(c)
    BY <1>2, <1>3, <1>5, <1>6, ReceiveCases
  <1>8. /\ PassTime => UNCHANGED <<uart, log>>
        /\ \A a, b : BoxMoves(a, b) => UNCHANGED <<uart, log>>
        /\ \A d \in Channels : Notify(d) \/ AwaitEvent(d) => UNCHANGED <<uart, log>>
        /\ \A cl \in Clients : Call(cl) => UNCHANGED <<uart, log>>
        /\ LoadCtlr \/ LookAtCts \/ SendDirect \/ SendBuffered \/ StoreMsg \/ Reply \/ Read
              => UNCHANGED <<uart, log>>
    BY DEF PassTime, BoxMoves, Notify, AwaitEvent, Call, hardware, LoadCtlr, LookAtCts,
           SendDirect, SendBuffered, StoreMsg, Reply, Read
  <1>9. Server => log'[c].accepted >= log[c].accepted /\ Out(c)' >= Out(c)
    BY <1>2, <1>3, <1>4, <1>7, <1>8, SentSameIf DEF Server
  <1>10. Hardware \/ (\E d \in Channels : Interrupt(d) \/ Notify(d) \/ AwaitEvent(d))
            \/ (\E cl \in Clients : Call(cl)) => log'[c].accepted = log[c].accepted /\ Out(c)' = Out(c)
    BY <1>3, <1>8, SentSameIf, OutShift DEF Hardware
  <1> QED BY <1>2, <1>9, <1>10 DEF Next, Tasks

LEMMA FlushSoundIs ==
  ASSUME FlushSound
  PROVE  /\ \A cl \in Clients : client[cl].call.op = "Flush" =>
               client[cl].upto <= log[client[cl].call.ch].accepted
         /\ \A c \in Channels : flusher[c] # Nobody =>
               client[flusher[c].from].upto <= Out(c) + flusher[c].bytes_remaining
  BY DEF FlushSound, Out

\* Who is answered, and what becomes of the others.
OnlyAnswers == \E cl \in Clients : Answer(cl)

LEMMA WhoIsAnswered ==
  ASSUME Types, PCsSound, MailSound, CallersSound, \A c \in Channels : ReadSound(c), Server
  PROVE  UNCHANGED client \/ OnlyAnswers
  <1>1. ASSUME Receive
        PROVE  UNCHANGED client \/ OnlyAnswers
    <2>1. \A r \in Messages : ReceiveDrain(r) \/ ReceiveFlush(r) => UNCHANGED client \/ OnlyAnswers
      BY MessageTypes DEF ReceiveDrain, ReceiveFlush, OnlyAnswers
    <2> QED BY <1>1, <2>1, ReceiveCases DEF ReceiveNotify, ReceivePutstr, ReceiveGetn
  <1>2. ASSUME Put
        PROVE  UNCHANGED client \/ OnlyAnswers
    <2>1. Ch \in Channels
      BY <1>2, ReqTypes DEF PCsSound, Put, At, Doing
    <2>2. flusher[Ch] # Nobody => flusher[Ch].from \in Clients
      BY <2>1, FlusherTypes
    <2> QED BY <1>2, <2>2 DEF Put, OnlyAnswers
  <1>3. ASSUME Reply
        PROVE  OnlyAnswers
    <2>1. req.from \in Clients
      BY <1>3, ReqTypes DEF PCsSound, Reply, At, Doing
    <2> QED BY <1>3, <2>1 DEF Reply, OnlyAnswers
  <1>4. ASSUME Take
        PROVE  UNCHANGED client \/ OnlyAnswers
    <2>1. PICK c \in Channels, rd \in Readers,
                   first \in Seq(Nat), rest \in Seq(Nat), got \in Seq(Nat) :
                      TakeEffect(c, rd, first, rest, got)
      BY <1>4, TakeFacts
    <2>2. Answer(rd.from) \/ UNCHANGED client
      BY <2>1 DEF TakeEffect
    <2>3. rd.from \in Clients
      BY DEF Readers
    <2> QED BY <2>2, <2>3 DEF OnlyAnswers
  <1>5. LookAtCts \/ SendBuffered \/ SendDirect \/ StoreMsg \/ Read \/ LoadCtlr \/ StoreCtlr
           => UNCHANGED client
    BY DEF LookAtCts, SendBuffered, SendDirect, StoreMsg, Read, LoadCtlr, StoreCtlr
  <1> QED BY <1>1, <1>2, <1>3, <1>4, <1>5 DEF Server

LEMMA AnswersAre ==
  ASSUME Types, UNCHANGED client \/ OnlyAnswers
  PROVE  \A k \in Clients : /\ client'[k].upto = client[k].upto
                            /\ client'[k].call = client[k].call \/ client'[k].call = None
  <1>1. client \in [Clients -> [call : {None} \cup Calls, left : Seq(Calls), upto : Nat]]
    BY DEF Types, TaskTypes
  <1>2. ASSUME NEW cl \in Clients, Answer(cl)
        PROVE  \A k \in Clients : /\ client'[k].upto = client[k].upto
                                  /\ client'[k].call = client[k].call \/ client'[k].call = None
    BY <1>1, <1>2 DEF Answer
  <1> QED BY <1>2 DEF OnlyAnswers

\* What the callers ask of a flush is no more than what has been accepted.
FlushCallers == \A cl \in Clients : client[cl].call.op = "Flush" =>
                    client[cl].upto <= log[client[cl].call.ch].accepted

FlushCounts == \A c \in Channels : flusher[c] # Nobody =>
                    client[flusher[c].from].upto <= Out(c) + flusher[c].bytes_remaining

LEMMA FlushParts == /\ FlushSound <=> FlushCallers /\ FlushCounts
                    /\ FlushCallers' /\ FlushCounts' => FlushSound'
  BY DEF FlushSound, FlushCallers, FlushCounts, Out

LEMMA FlushCallersNext ==
  ASSUME Types, PCsSound, MailSound, CallersSound, FlushSound,
         \A c \in Channels : ReadSound(c), Next
  PROVE  FlushCallers'
  <1>1. \A c \in Channels : log'[c].accepted >= log[c].accepted
    BY OutGrows
  <1>2. Types'
    BY TypesNext
  <1>3. ASSUME NEW k \in Clients, client'[k].upto = client[k].upto,
               client'[k].call = client[k].call \/ client'[k].call = None,
               client'[k].call.op = "Flush"
        PROVE  client'[k].upto <= log'[client'[k].call.ch].accepted
    <2>1. client'[k].call = client[k].call
      BY <1>3 DEF None
    <2>2. PICK c \in Channels : c = client[k].call.ch
      BY <1>3, <2>1, ClientParts DEF None
    <2>3. client[k].upto <= log[c].accepted
      BY <1>3, <2>1, <2>2, FlushParts DEF FlushCallers
    <2>4. PICK u \in Nat, a \in Nat, b \in Nat :
             u = client[k].upto /\ a = log[c].accepted /\ b = log'[c].accepted
      <3>1. log'[c].accepted \in Nat
        BY <1>2 DEF Types, TaskTypes, Logs
      <3> QED BY <3>1, ClientParts, ChannelTypes
    <2>5. u <= a /\ b >= a
      BY <1>1, <2>3, <2>4
    <2>6. u <= b
      BY <2>5
    <2> QED BY <1>3, <2>1, <2>2, <2>4, <2>6
  <1>4. UNCHANGED client \/ OnlyAnswers => FlushCallers'
    BY <1>3, AnswersAre DEF FlushCallers
  <1>5. ASSUME NEW cl \in Clients, Call(cl)
        PROVE  FlushCallers'
    <2>1. PICK r \in Calls, rest \in Seq(Calls) :
             /\ client' = [client EXCEPT ![cl] = [call |-> r, left |-> rest,
                                                  upto |-> log[r.ch].accepted]]
             /\ UNCHANGED log
      BY <1>5, CallFacts
    <2>2. /\ client'[cl].call = r /\ client'[cl].upto = log[r.ch].accepted
          /\ \A k \in Clients : k # cl => client'[k] = client[k]
      BY <2>1 DEF Types, TaskTypes
    <2>3. log[r.ch].accepted \in Nat
      BY ChannelTypes DEF Calls
    <2>4. client'[cl].upto <= log'[client'[cl].call.ch].accepted
      BY <2>1, <2>2, <2>3
    <2> QED BY <1>3, <2>2, <2>4 DEF FlushCallers
  <1>6. /\ Hardware => UNCHANGED client
        /\ \A c \in Channels : Interrupt(c) \/ Notify(c) \/ AwaitEvent(c) => UNCHANGED client
    BY DEF Hardware, BoxMoves, PassTime, Shift, Arrive, FallSilent, Interrupt, Notify, AwaitEvent
  <1> QED BY <1>4, <1>5, <1>6, WhoIsAnswered DEF Next, Tasks

LEMMA UptoKept ==
  ASSUME Types, PCsSound, MailSound, CallersSound, \A c \in Channels : ReadSound(c), Next,
         NEW k \in Clients, client[k].call # None
  PROVE  client'[k].upto = client[k].upto
  <1>1. ASSUME NEW cl \in Clients, Call(cl)
        PROVE  client'[k] = client[k]
    <2>1. client[cl].call = None
      BY <1>1 DEF Call
    <2> QED BY <1>1, <2>1 DEF Call, Types, TaskTypes
  <1>2. /\ Hardware => UNCHANGED client
        /\ \A c \in Channels : Interrupt(c) \/ Notify(c) \/ AwaitEvent(c) => UNCHANGED client
    BY DEF Hardware, BoxMoves, PassTime, Shift, Arrive, FallSilent, Interrupt, Notify, AwaitEvent
  <1> QED BY <1>1, <1>2, WhoIsAnswered, AnswersAre DEF Next, Tasks

LEMMA FlusherUpto ==
  ASSUME Types, PCsSound, MailSound, CallersSound, \A c \in Channels : ReadSound(c), Next,
         NEW c \in Channels, flusher[c] # Nobody
  PROVE  client'[flusher[c].from].upto = client[flusher[c].from].upto
  <1>1. PICK k \in Clients : k = flusher[c].from /\ client[k].call.op = "Flush"
    BY FlusherTypes, CallersSoundIs DEF Asks
  <1> QED BY <1>1, UptoKept DEF None

LEMMA FlushCountKept ==
  ASSUME Types, PCsSound, MailSound, CallersSound, FlushSound,
         \A c \in Channels : ReadSound(c), Next,
         NEW c \in Channels, flusher'[c] # Nobody, flusher'[c] = flusher[c]
  PROVE  client'[flusher'[c].from].upto <= Out(c)' + flusher'[c].bytes_remaining
  <1>1. client[flusher[c].from].upto <= Out(c) + flusher[c].bytes_remaining
    BY FlushParts DEF FlushCounts
  <1>2. PICK u \in Nat, m \in Nat, n \in Nat, b \in Int :
           /\ u = client[flusher[c].from].upto /\ m = Out(c) /\ n = Out(c)'
           /\ b = flusher[c].bytes_remaining
    <2>1. Types'
      BY TypesNext
    <2>2. Out(c)' \in Nat
      <3>1. log'[c].wire \in Seq(Nat) /\ uart'[c].tx \in Seq(Nat)
        BY <2>1 DEF Types, HardTypes, TaskTypes, Logs
      <3>2. PICK m \in Nat, n \in Nat : m = Len(log'[c].wire) /\ n = Len(uart'[c].tx)
        BY <3>1
      <3>3. Out(c)' = m + n
        BY <3>2 DEF Out
      <3>4. m + n \in Nat
        OBVIOUS
      <3> QED BY <3>3, <3>4
    <2>3. Out(c) \in Nat
      BY OutTypes
    <2>4. flusher[c].from \in Clients /\ flusher[c].bytes_remaining \in Int
      BY FlusherTypes
    <2>5. client[flusher[c].from].upto \in Nat
      BY <2>4, ClientParts
    <2> QED BY <2>2, <2>3, <2>4, <2>5
  <1>3. Out(c)' >= Out(c)
    BY OutGrows
  <1>4. u <= m + b /\ n >= m
    BY <1>1, <1>2, <1>3
  <1>5. u <= n + b
    BY <1>4
  <1>6. client'[flusher[c].from].upto = u
    BY <1>2, FlusherUpto
  <1> QED BY <1>2, <1>5, <1>6

\* A flush that is answered or noted down waits for no more than the buffer.
LEMMA FlushWaitsFor ==
  ASSUME Types, PCsSound, MailSound, CallersSound, FlushSound, WireInOrder, Receive,
         NEW r \in Messages, r = Head(mailbox), ReceiveFlush(r)
  PROVE  /\ client[r.from].upto \in Nat /\ Len(buffer[r.ch]) \in Nat
         /\ client[r.from].call.op = "Flush" /\ client[r.from].call.ch = r.ch
         /\ client[r.from].upto <= Out(r.ch) + Len(buffer[r.ch])
  <1>1. /\ r.from \in Clients /\ r.ch \in Channels /\ r.op = "Flush" /\ msg = <<>>
    BY MessageTypes, ReceiveCases DEF ReceiveFlush, PCsSound, Doing
  <1>2. client[r.from].call.op = "Flush" /\ client[r.from].call.ch = r.ch
    <2>1. 1 \in DOMAIN mailbox /\ mailbox[1] = r
      BY HeadTypes, ReceiveCases
    <2> QED BY <1>1, <2>1 DEF CallersSound
  <1>3. client[r.from].upto <= log[r.ch].accepted
    BY <1>1, <1>2, FlushParts DEF FlushCallers
  <1>4. InHand(r.ch) = buffer[r.ch]
    BY <1>1 DEF InHand
  <1>5. log[r.ch].accepted = Out(r.ch) + Len(buffer[r.ch]) /\ Len(buffer[r.ch]) \in Nat
    BY <1>1, <1>4, AcceptedIs
  <1> QED BY <1>1, <1>2, <1>3, <1>5, ClientParts

LEMMA FlushCountsNext ==
  ASSUME Types, PCsSound, MailSound, CallersSound, FlushSound, WireInOrder,
         \A c \in Channels : ReadSound(c), Next
  PROVE  FlushCounts'
  <1> SUFFICES ASSUME NEW c \in Channels, flusher'[c] # Nobody
               PROVE  client'[flusher'[c].from].upto <= Out(c)' + flusher'[c].bytes_remaining
    BY DEF FlushCounts
  <1>1. flusher \in [Channels -> {Nobody} \cup Flushers]
    BY DEF Types, ServerTypes
  <1>2. CASE flusher'[c] = flusher[c]
    BY <1>2, FlushCountKept
  <1>3. ASSUME Receive, flusher'[c] # flusher[c]
        PROVE  client'[flusher'[c].from].upto <= Out(c)' + flusher'[c].bytes_remaining
    <2>1. PICK r \in Messages : r = Head(mailbox) /\ ReceiveFlush(r)
      BY <1>3, ReceiveCases DEF ReceiveNotify, ReceivePutstr, ReceiveGetn, ReceiveDrain
    <2>2. /\ r.ch = c /\ UNCHANGED <<client, uart, log>>
          /\ flusher' = [flusher EXCEPT ![c] = [from |-> r.from, bytes_remaining |-> Len(buffer[c])]]
      BY <1>1, <1>3, <2>1 DEF ReceiveFlush, ToFlush
    <2>3. flusher'[c] = [from |-> r.from, bytes_remaining |-> Len(buffer[c])]
      BY <1>1, <2>2
    <2>4. flusher'[c].from = r.from /\ flusher'[c].bytes_remaining = Len(buffer[c])
      BY <2>3
    <2>5. Out(c)' = Out(c)
      BY <2>2 DEF Out
    <2>6. client[r.from].upto <= Out(c) + Len(buffer[c])
      BY <1>3, <2>1, <2>2, FlushWaitsFor
    <2> QED BY <2>2, <2>4, <2>5, <2>6
  <1>4. ASSUME Put, flusher'[c] # flusher[c]
        PROVE  client'[flusher'[c].from].upto <= Out(c)' + flusher'[c].bytes_remaining
    <2>1. PICK e \in Channels : e = Ch /\ Out(e)' = Out(e) + 1
      BY <1>4, OutPut
    <2>2. /\ c = e /\ flusher[e] # Nobody
          /\ flusher' = [flusher EXCEPT ![e].bytes_remaining = flusher[e].bytes_remaining - 1]
      BY <1>1, <1>4, <2>1 DEF Put
    <2>3. PICK f \in Flushers : f = flusher[e]
      BY <1>1, <2>2
    <2>4. PICK b \in Int, k \in Clients : b = f.bytes_remaining /\ k = f.from
      BY DEF Flushers
    <2>5. PICK a \in Int : a = b - 1
      OBVIOUS
    <2>6. flusher' = [flusher EXCEPT ![e].bytes_remaining = a]
      BY <2>2, <2>3, <2>4, <2>5
    <2>7. flusher'[e].bytes_remaining = a /\ flusher'[e].from = k
      BY <1>1, <2>3, <2>4, <2>6 DEF Flushers
    <2>8. client[k].upto <= Out(e) + b
      BY <2>2, <2>3, <2>4, FlushParts DEF FlushCounts
    <2>9. client'[k].upto = client[k].upto
      BY <2>2, <2>3, <2>4, FlusherUpto
    <2>10. PICK u \in Nat, m \in Nat : u = client[k].upto /\ m = Out(e)
      BY ClientParts, OutTypes
    <2>11. u <= m + b
      BY <2>8, <2>10
    <2>12. u <= (m + 1) + a
      BY <2>5, <2>11
    <2> QED BY <2>1, <2>2, <2>7, <2>9, <2>10, <2>12
  <1>5. Receive \/ Put \/ UNCHANGED flusher
    <2>1. /\ \A d \in Channels : Interrupt(d) \/ Notify(d) \/ AwaitEvent(d) => UNCHANGED flusher
          /\ \A cl \in Clients : Call(cl) => UNCHANGED flusher
          /\ Hardware => UNCHANGED flusher
      BY DEF Interrupt, Notify, AwaitEvent, Call, Hardware, BoxMoves, PassTime, Shift, Arrive,
             FallSilent, serverVars
    <2>2. Server => Receive \/ Put \/ UNCHANGED flusher
      BY DEF Server, LookAtCts, SendBuffered, SendDirect, StoreMsg, Reply, Read, Take,
             LoadCtlr, StoreCtlr
    <2> QED BY <2>1, <2>2 DEF Next, Tasks
  <1> QED BY <1>2, <1>3, <1>4, <1>5

LEMMA FlushNext ==
  ASSUME Types, PCsSound, MailSound, CallersSound, FlushSound, WireInOrder,
         \A c \in Channels : ReadSound(c), Next
  PROVE  FlushSound'
  BY FlushCallersNext, FlushCountsNext, FlushParts

\* FlushHonest, for one caller and one step.
LEMMA FlushHonestStep ==
  ASSUME Types, PCsSound, MailSound, CallersSound, FlushSound, WireInOrder,
         \A c \in Channels : ReadSound(c), Next,
         NEW cl \in Clients, client[cl].call.op = "Flush", client'[cl].call = None
  PROVE  \A c \in Channels : c = client[cl].call.ch => client[cl].upto <= Out(c)'
  <1> DEFINE Honest == \A c \in Channels : c = client[cl].call.ch => client[cl].upto <= Out(c)'
  <1>1. client[cl].call # None
    BY DEF None
  <1>2. client \in [Clients -> [call : {None} \cup Calls, left : Seq(Calls), upto : Nat]]
    BY DEF Types, TaskTypes
  <1>3. \A k \in Clients : Answer(k) => k = cl
    <2> SUFFICES ASSUME NEW k \in Clients, Answer(k), k # cl
                 PROVE  FALSE
      OBVIOUS
    <2>1. client'[cl] = client[cl]
      BY <1>2 DEF Answer
    <2> QED BY <1>1, <2>1
  <1>4. ~ UNCHANGED client
    BY <1>1
  <1>5. ASSUME Receive
        PROVE  Honest
    <2>1. PICK r \in Messages : r = Head(mailbox) /\ (ReceiveDrain(r) \/ ReceiveFlush(r))
      BY <1>4, <1>5, ReceiveCases DEF ReceiveNotify, ReceivePutstr, ReceiveGetn
    <2>2. Answer(r.from) /\ r.from = cl
      BY <1>3, <1>4, <2>1, MessageTypes DEF ReceiveDrain, ReceiveFlush
    <2>3. ~ ReceiveDrain(r)
      <3>1. 1 \in DOMAIN mailbox /\ mailbox[1] = r /\ r.op # "Notify"
        BY <1>5, <2>1, HeadTypes, ReceiveCases, MessageTypes
      <3>2. client[r.from].call.op = r.op
        BY <3>1 DEF CallersSound
      <3> QED BY <2>2, <3>2 DEF ReceiveDrain
    <2>4. ReceiveFlush(r) /\ buffer[r.ch] = <<>> /\ UNCHANGED <<uart, log>>
      BY <1>4, <2>1, <2>3 DEF ReceiveFlush
    <2>5. client[cl].upto <= Out(r.ch) + Len(buffer[r.ch]) /\ client[cl].call.ch = r.ch
      BY <1>5, <2>1, <2>2, <2>4, FlushWaitsFor
    <2>6. PICK c \in Channels : c = r.ch
      BY MessageTypes
    <2>7. Out(c)' = Out(c) /\ Out(c) \in Nat /\ Len(buffer[c]) = 0
      BY <2>4, <2>6, OutTypes DEF Out
    <2>8. PICK u \in Nat, m \in Nat : u = client[cl].upto /\ m = Out(c)
      BY <2>7, ClientParts
    <2>9. u <= m + 0
      BY <2>5, <2>6, <2>7, <2>8
    <2>10. u <= m
      BY <2>9
    <2> QED BY <2>5, <2>6, <2>7, <2>8, <2>10
  <1>6. ASSUME Put
        PROVE  Honest
    <2>1. PICK e \in Channels : e = Ch /\ Out(e)' = Out(e) + 1
      BY <1>6, OutPut
    <2>2. /\ flusher[e] # Nobody /\ Answer(flusher[e].from)
          /\ ~(flusher[e].bytes_remaining > 1)
      BY <1>4, <1>6, <2>1 DEF Put
    <2>3. /\ flusher[e].from = cl /\ flusher[e].bytes_remaining \in Int
          /\ client[cl].call.ch = e
      BY <1>3, <2>2, FlusherTypes, CallersSoundIs DEF Asks
    <2>4. client[cl].upto <= Out(e) + flusher[e].bytes_remaining
      BY <2>2, <2>3, FlushParts DEF FlushCounts
    <2>5. PICK u \in Nat, m \in Nat, b \in Int :
             u = client[cl].upto /\ m = Out(e) /\ b = flusher[e].bytes_remaining
      BY <2>3, ClientParts, OutTypes
    <2>6. u <= m + b /\ b <= 1
      BY <2>2, <2>4, <2>5
    <2>7. u <= m + 1
      BY <2>6
    <2> QED BY <2>1, <2>3, <2>5, <2>7
  <1>7. ~ Reply
    <2> SUFFICES ASSUME Reply
                 PROVE  FALSE
      OBVIOUS
    <2>1. /\ OfPutstr /\ Answer(req.from) /\ req.from \in Clients
      BY ReqTypes DEF PCsSound, Reply, At, Doing, OfPutstr
    <2>2. client[req.from].call.op = "Putstr"
      BY <2>1, CallersSoundIs
    <2> QED BY <1>3, <2>1, <2>2
  <1>8. ~ Take
    <2> SUFFICES ASSUME Take
                 PROVE  FALSE
      OBVIOUS
    <2>1. PICK e \in Channels, rd \in Readers,
                   first \in Seq(Nat), rest \in Seq(Nat), got \in Seq(Nat) :
                      TakeEffect(e, rd, first, rest, got)
      BY TakeFacts
    <2>2. /\ rd = reader[e] /\ rd # Nobody /\ rd.from \in Clients /\ Answer(rd.from)
      BY <1>4, <2>1, NotAnEntry DEF TakeEffect, Readers
    <2>3. client[rd.from].call.op = "Getn"
      BY <2>2, CallersSoundIs DEF Asks
    <2> QED BY <1>3, <2>2, <2>3
  <1>9. ASSUME NEW k \in Clients, Call(k)
        PROVE  FALSE
    <2>1. PICK r \in Calls, rest \in Seq(Calls) :
             /\ client[k].call = None
             /\ client' = [client EXCEPT ![k] = [call |-> r, left |-> rest,
                                                 upto |-> log[r.ch].accepted]]
      BY <1>9, CallFacts
    <2>2. client'[cl] = client[cl]
      BY <1>1, <1>2, <2>1
    <2> QED BY <1>1, <2>2
  <1>10. /\ Hardware => UNCHANGED client
         /\ \A c \in Channels : Interrupt(c) \/ Notify(c) \/ AwaitEvent(c) => UNCHANGED client
         /\ LookAtCts \/ SendBuffered \/ SendDirect \/ StoreMsg \/ Read \/ LoadCtlr \/ StoreCtlr
               => UNCHANGED client
    BY DEF Hardware, BoxMoves, PassTime, Shift, Arrive, FallSilent, Interrupt, Notify, AwaitEvent,
           LookAtCts, SendBuffered, SendDirect, StoreMsg, Read, LoadCtlr, StoreCtlr
  <1> QED BY <1>4, <1>5, <1>6, <1>7, <1>8, <1>9, <1>10 DEF Next, Tasks, Server

-----------------------------------------------------------------------------
(* The box.                                                                *)

\* A byte for the box is about to be put.
ToTheBox == Doing = "put" /\ Ch = "COM1"

LEMMA CtsSoundIs ==
  /\ CtsSound <=>
        /\ uart["COM1"].tx # <<>> \/ box = "reached" => Awaits
        /\ uart["COM1"].tx # <<>> => box = "ready" /\ Len(uart["COM1"].tx) = 1
        /\ ToTheBox => Awaits /\ uart["COM1"].tx = <<>> /\ box = "ready"
  /\ (/\ uart'["COM1"].tx # <<>> \/ box' = "reached" => Awaits'
      /\ uart'["COM1"].tx # <<>> => box' = "ready" /\ Len(uart'["COM1"].tx) = 1
      /\ ToTheBox' => Awaits' /\ uart'["COM1"].tx = <<>> /\ box' = "ready") => CtsSound'
  BY DEF CtsSound, ToTheBox

CtsSame == /\ uart'["COM1"].tx = uart["COM1"].tx /\ UNCHANGED <<box, cts>>
           /\ ToTheBox' => ToTheBox

LEMMA CtsKept ==
  ASSUME CtsSound, CtsSame
  PROVE  CtsSound'
  BY CtsSoundIs DEF CtsSame, Awaits

LEMMA CtsLetGo ==
  ASSUME Types, CtsSound, NEW c \in Channels, c = Ch, ClearToSend(c), LetGo, ToPut,
         UNCHANGED <<uart, box, req>>
  PROVE  CtsSound'
  <1>1. ToTheBox' => c = "COM1"
    BY DEF ToTheBox, Ch
  <1>2. CASE c = "COM1"
    <2>1. ~ Awaits
      <3>1. cts.age \in 0 .. COM1_WAITING_FOR_DOWN_TIMEOUT + 1
        BY DEF Types, ServerTypes
      <3> QED BY <1>2, <3>1, UartAssumption DEF Awaits, ClearToSend
    <2>2. uart["COM1"].tx = <<>> /\ box # "reached" /\ box # "busy"
      BY <1>2, <2>1, CtsSoundIs DEF ClearToSend
    <2>3. box = "ready"
      BY <2>2 DEF Types, HardTypes
    <2>4. Awaits'
      BY <1>2, UartAssumption DEF LetGo, Awaits
    <2> QED BY <2>2, <2>3, <2>4, CtsSoundIs
  <1>3. CASE c # "COM1"
    <2>1. CtsSame
      BY <1>1, <1>3 DEF CtsSame, LetGo
    <2> QED BY <2>1, CtsKept
  <1> QED BY <1>2, <1>3

LEMMA CtsPut ==
  ASSUME Types, PCsSound, CtsSound, Put
  PROVE  CtsSound'
  <1>1. PICK e \in Channels, h \in Nat, x \in Seq(Nat) :
           e = Ch /\ h = Head(msg) /\ x = uart[e].tx
    <2>1. Ch \in Channels /\ msg # <<>> /\ msg \in Seq(Nat)
      BY ReqTypes DEF PCsSound, Put, At, Doing, Types, ServerTypes
    <2> QED BY <2>1, ChannelTypes, HeadAndTail
  <1>2. /\ uart' = [uart EXCEPT ![e].tx = Append(x, h)] /\ uart \in [Channels -> Uarts]
        /\ UNCHANGED <<box, cts, req>> /\ ~ ToTheBox' /\ Doing = "put"
    BY <1>1 DEF Put, At, Types, HardTypes, Uarts, ToTheBox, Doing
  <1>3. CASE e = "COM1"
    <2>1. Awaits /\ x = <<>> /\ box = "ready"
      BY <1>1, <1>2, <1>3, CtsSoundIs DEF ToTheBox
    <2>2. uart'["COM1"].tx = Append(x, h)
      BY <1>2, <1>3 DEF Uarts
    <2>3. Len(Append(x, h)) = 1
      BY <2>1
    <2>4. Awaits'
      BY <1>2, <2>1 DEF Awaits
    <2> QED BY <1>2, <2>1, <2>2, <2>3, <2>4, CtsSoundIs
  <1>4. CASE e # "COM1"
    <2>1. CtsSame
      BY <1>2, <1>4 DEF CtsSame, Channels
    <2> QED BY <2>1, CtsKept
  <1> QED BY <1>3, <1>4

LEMMA CtsShift ==
  ASSUME Types, CtsSound, NEW c \in Channels, Shift(c)
  PROVE  CtsSound'
  <1>1. PICK t \in Seq(Nat), x \in Seq(Nat) :
           x = uart[c].tx /\ x # <<>> /\ t = Tail(x)
    <2>1. uart[c].tx \in Seq(Nat) /\ uart[c].tx # <<>>
      BY ChannelTypes DEF Shift
    <2> QED BY <2>1, HeadAndTail
  <1>2. /\ uart' = [uart EXCEPT ![c].tx = t] /\ uart \in [Channels -> Uarts]
        /\ UNCHANGED cts /\ ToTheBox' = ToTheBox
    BY <1>1 DEF Shift, Types, HardTypes, Uarts, serverVars, ToTheBox, Doing, Ch
  <1>3. CASE c = "COM1"
    <2>1. Awaits /\ box = "ready" /\ Len(x) = 1 /\ ~ ToTheBox
      BY <1>1, <1>3, CtsSoundIs
    <2>2. uart'["COM1"].tx = t
      BY <1>2, <1>3 DEF Uarts
    <2>3. t = <<>>
      BY <1>1, <2>1
    <2>4. Awaits'
      BY <1>2, <2>1 DEF Awaits
    <2> QED BY <1>2, <2>1, <2>2, <2>3, <2>4, CtsSoundIs
  <1>4. CASE c # "COM1"
    <2>1. CtsSame
      BY <1>2, <1>4 DEF CtsSame, Channels, Shift
    <2> QED BY <2>1, CtsKept
  <1> QED BY <1>3, <1>4

LEMMA CtsTime ==
  ASSUME Types, PCsSound, CtsSound, PassTime
  PROVE  CtsSound'
  <1>1. PICK a \in Nat, n \in Nat : a = cts.age /\ n = COM1_WAITING_FOR_DOWN_TIMEOUT
    BY UartAssumption DEF Types, ServerTypes
  <1>2. /\ cts.tag = "d" /\ a <= n /\ (a = n => ~ OnItsWay) /\ UNCHANGED <<uart, box>>
        /\ ToTheBox' = ToTheBox
    BY <1>1 DEF PassTime, hardware, ToTheBox, Doing, Ch
  <1>3. cts'.tag = "d" /\ cts'.age = a + 1
    BY <1>1, <1>2 DEF PassTime, Types, ServerTypes
  <1>4. OnItsWay => Awaits'
    <2>1. OnItsWay => a + 1 <= n
      BY <1>2
    <2> QED BY <1>1, <1>3, <2>1 DEF Awaits
  <1>5. ToTheBox => msg # <<>>
    BY DEF ToTheBox, PCsSound
  <1> QED BY <1>2, <1>4, <1>5, CtsSoundIs DEF OnItsWay

LEMMA CtsNext ==
  ASSUME Types, PCsSound, CtsSound, \A c \in Channels : ReadSound(c), Next
  PROVE  CtsSound'
  <1>1. "COM1" \in Channels
    BY DEF Channels
  <1>2. ASSUME NEW a, NEW b, BoxMoves(a, b), b # "reached", a # "ready"
        PROVE  CtsSound'
    <2>1. /\ uart["COM1"].tx = <<>> /\ ~ ToTheBox /\ box' = b
      BY <1>2, CtsSoundIs DEF BoxMoves
    <2>2. uart'["COM1"].tx = uart["COM1"].tx /\ ~ ToTheBox'
      BY <1>2, <2>1 DEF BoxMoves, serverVars, ToTheBox, Doing, Ch
    <2> QED BY <1>2, <2>1, <2>2, CtsSoundIs
  <1>3. ASSUME Receive
        PROVE  CtsSame
    <2>1. uart'["COM1"].tx = uart["COM1"].tx
      <3>1. \A r \in Messages : ReceiveDrain(r) => uart'["COM1"].tx = uart["COM1"].tx
        BY <1>1, SentSameIf DEF SentSame
      <3>2. /\ \A r \in Notices : ReceiveNotify(r) => UNCHANGED uart
            /\ \A r \in Messages : ReceivePutstr(r) \/ ReceiveGetn(r) \/ ReceiveFlush(r) => UNCHANGED uart
        BY DEF ReceiveNotify, ReceivePutstr, ReceiveGetn, ReceiveFlush
      <3> QED BY <1>3, <3>1, <3>2, ReceiveCases
    <2>2. pc' \notin {"put", "load", "store"}
      BY <1>3, ReceiveCases
         DEF ReceiveNotify, ReceivePutstr, ReceiveGetn, ReceiveDrain, ReceiveFlush, Begin
    <2> QED BY <1>3, <2>1, <2>2 DEF CtsSame, Receive, ToTheBox, Doing
  <1>4. ASSUME LoadCtlr \/ StoreCtlr
        PROVE  CtsSame
    <2>1. uart'["COM1"].tx = uart["COM1"].tx
      <3>1. StoreCtlr => uart'["COM1"].tx = uart["COM1"].tx
        BY <1>1, SentSameIf DEF SentSame
      <3> QED BY <1>4, <3>1 DEF LoadCtlr, hardware
    <2>2. ToTheBox' = ToTheBox
      <3>1. ctl \in [bits : SUBSET Bits, loaded : SUBSET Bits, after : Afters]
        BY DEF Types, ServerTypes
      <3> QED BY <1>4, <3>1 DEF LoadCtlr, StoreCtlr, ToTheBox, Doing, Ch, At, Afters
    <2> QED BY <1>4, <2>1, <2>2 DEF CtsSame, LoadCtlr, StoreCtlr, hardware
  <1>5. ASSUME LookAtCts
        PROVE  CtsSound'
    <2>1. /\ UNCHANGED <<uart, box>> /\ ~ ToTheBox'
      BY <1>5 DEF LookAtCts, hardware, ToTheBox, Doing, Enable
    <2>2. CASE box # "busy"
      <3>1. Awaits => Awaits'
        BY <1>5, <2>2 DEF LookAtCts, SeenUp, Awaits
      <3> QED BY <2>1, <3>1, CtsSoundIs
    <2>3. CASE box = "busy"
      <3>1. uart["COM1"].tx = <<>>
        BY <2>3, CtsSoundIs
      <3> QED BY <2>1, <2>3, <3>1, CtsSoundIs
    <2> QED BY <2>2, <2>3
  <1>6. ASSUME SendBuffered \/ SendDirect
        PROVE  CtsSound'
    <2>1. PICK c \in Channels : c = Ch
      BY <1>6, ReqTypes DEF PCsSound, SendBuffered, SendDirect, At
    <2>2. UNCHANGED <<uart, box, req>>
      BY <1>6 DEF SendBuffered, SendDirect, hardware
    <2>3. CASE ClearToSend(c) /\ LetGo /\ ToPut
      BY <2>1, <2>2, <2>3, CtsLetGo
    <2>4. CASE UNCHANGED cts /\ (pc' \in {"read", "reply", "store_msg"} \/ More(c))
      <3>1. ~ ToTheBox'
        BY <2>4 DEF ToTheBox, Doing, More, Enable
      <3>2. CtsSame
        BY <2>2, <2>4, <3>1 DEF CtsSame
      <3> QED BY <3>2, CtsKept
    <2> QED BY <1>6, <2>1, <2>3, <2>4 DEF SendBuffered, SendDirect
  <1>7. StoreMsg \/ Reply \/ Read => CtsSame
    BY DEF StoreMsg, Reply, Read, hardware, CtsSame, ToTheBox, Doing, Enable
  <1>8. ASSUME Take
        PROVE  CtsSame
    <2>1. PICK e \in Channels, rd \in Readers,
                   first \in Seq(Nat), rest \in Seq(Nat), got \in Seq(Nat) :
                      TakeEffect(e, rd, first, rest, got)
      BY <1>8, TakeFacts
    <2>2. pc' = "receive" \/ AwaitMore(e)
      BY <2>1 DEF TakeEffect
    <2>3. ~ ToTheBox'
      BY <2>2 DEF AwaitMore, Enable, ToTheBox, Doing
    <2>4. uart'["COM1"].tx = uart["COM1"].tx
      BY <1>1, <1>8, SentSameIf DEF SentSame
    <2> QED BY <1>8, <2>3, <2>4 DEF CtsSame, Take
  <1>9. /\ \A c \in Channels : Interrupt(c) \/ Notify(c) \/ AwaitEvent(c)
                                  \/ Arrive(c) \/ FallSilent(c) => CtsSame
        /\ \A cl \in Clients : Call(cl) => CtsSame
    <2>1. /\ \A c \in Channels : Interrupt(c) \/ Arrive(c) \/ FallSilent(c)
                 => uart'["COM1"].tx = uart["COM1"].tx
          /\ \A c \in Channels : Notify(c) \/ AwaitEvent(c) => UNCHANGED uart
          /\ \A cl \in Clients : Call(cl) => UNCHANGED uart
      BY <1>1, SentSameIf DEF SentSame, Notify, AwaitEvent, Call, hardware
    <2>2. /\ \A c \in Channels : Interrupt(c) \/ Notify(c) \/ AwaitEvent(c)
                                    \/ Arrive(c) \/ FallSilent(c)
                => UNCHANGED <<box, cts, pc, ctl, req>>
          /\ \A cl \in Clients : Call(cl) => UNCHANGED <<box, cts, pc, ctl, req>>
      BY DEF Interrupt, Notify, AwaitEvent, Arrive, FallSilent, Call, hardware, serverVars
    <2>3. UNCHANGED <<pc, ctl, req>> => ToTheBox' = ToTheBox
      BY DEF ToTheBox, Doing, Ch
    <2> QED BY <2>1, <2>2, <2>3 DEF CtsSame
  <1> QED BY <1>2, <1>3, <1>4, <1>5, <1>6, <1>7, <1>8, <1>9, CtsKept, CtsPut, CtsShift, CtsTime
          DEF Next, Tasks, Hardware, Server

\* CtsRespected, for one step.
LEMMA CtsStep ==
  ASSUME Types, PCsSound, CtsSound, \A c \in Channels : ReadSound(c), Next,
         log'["COM1"].wire # log["COM1"].wire
  PROVE  box = "ready"
  <1>1. "COM1" \in Channels
    BY DEF Channels
  <1>2. ~ SentSame /\ ~ UNCHANGED log
    BY <1>1 DEF SentSame
  <1>3. ASSUME NEW c \in Channels, Shift(c)
        PROVE  box = "ready"
    <2>1. c = "COM1"
      BY <1>1, <1>3 DEF Shift, Types, TaskTypes
    <2> QED BY <1>3, <2>1, CtsSoundIs DEF Shift
  <1>4. ASSUME NEW r \in Messages, ReceivePutstr(r)
        PROVE  FALSE
    BY <1>1, <1>4, MessageTypes DEF ReceivePutstr, Types, TaskTypes, Logs
  <1>5. ~ Receive
    <2>1. /\ \A r \in Notices : ReceiveNotify(r) => UNCHANGED log
          /\ \A r \in Messages : ReceiveGetn(r) \/ ReceiveFlush(r) => UNCHANGED log
      BY DEF ReceiveNotify, ReceiveGetn, ReceiveFlush
    <2> QED BY <1>2, <1>4, <2>1, ReceiveCases, SentSameIf
  <1>6. /\ PassTime => UNCHANGED log
        /\ \A a, b : BoxMoves(a, b) => UNCHANGED log
        /\ \A d \in Channels : Notify(d) \/ AwaitEvent(d) => UNCHANGED log
        /\ \A cl \in Clients : Call(cl) => UNCHANGED log
        /\ LoadCtlr \/ LookAtCts \/ SendDirect \/ SendBuffered \/ Put \/ StoreMsg \/ Reply \/ Read
              => UNCHANGED log
    BY DEF PassTime, BoxMoves, Notify, AwaitEvent, Call, LoadCtlr, LookAtCts,
           SendDirect, SendBuffered, Put, StoreMsg, Reply, Read
  <1> QED BY <1>2, <1>3, <1>5, <1>6, SentSameIf DEF Next, Tasks, Hardware, Server

-----------------------------------------------------------------------------
(* Room: in the FIFOs, the buffers and the mailbox.                        *)

TxRoom(c)  == Len(uart[c].tx) <= FifoSize[c]
RxRoom(c)  == Len(uart[c].rx) <= FifoSize[c] /\ (uart[c].silent => uart[c].rx # <<>>)
BufRoom(c) == Len(buffer[c]) <= IOBUF_SIZE

LEMMA TypeOKIs ==
  /\ UartTypeOK => \A c \in Channels : TxRoom(c) /\ RxRoom(c) /\ BufRoom(c)
  /\ Types' /\ Len(mailbox') <= 3 /\ (\A c \in Channels : TxRoom(c)' /\ RxRoom(c)' /\ BufRoom(c)')
        => UartTypeOK'
  <1>1. UartTypeOK => \A c \in Channels : TxRoom(c) /\ RxRoom(c) /\ BufRoom(c)
    BY DEF UartTypeOK, TxRoom, RxRoom, BufRoom
  <1>2. ASSUME Types', Len(mailbox') <= 3,
               \A c \in Channels : TxRoom(c)' /\ RxRoom(c)' /\ BufRoom(c)'
        PROVE  UartTypeOK'
    <2>1. \A c \in Channels : /\ uart'[c].ctlr \subseteq Bits
                              /\ notifier'[c].state \in {"waits", "woken", "sent", "answered"}
      BY <1>2 DEF Types, HardTypes, TaskTypes
    <2>2. cts'.tag \in {"c", "d", "u"} /\ cts'.age \in 0 .. COM1_WAITING_FOR_DOWN_TIMEOUT + 1
      BY <1>2 DEF Types, ServerTypes
    <2> QED BY <1>2, <2>1, <2>2 DEF UartTypeOK, TxRoom, RxRoom, BufRoom, Bits
  <1> QED BY <1>1, <1>2

\* One message of each notifier at most, and one of a client, which comes first.
LEMMA ThreeMessages ==
  ASSUME NEW m \in Seq(Notices \cup Messages),
         \A i \in DOMAIN m : m[i].op # "Notify" => i = 1,
         \A i, j \in DOMAIN m :
            m[i].op = "Notify" /\ m[j].op = "Notify" /\ m[i].ch = m[j].ch => i = j
  PROVE  Len(m) <= 3
  <1> SUFFICES ASSUME ~(Len(m) <= 3)
               PROVE  FALSE
    OBVIOUS
  <1>1. 2 \in DOMAIN m /\ 3 \in DOMAIN m /\ 4 \in DOMAIN m
    OBVIOUS
  <1>2. m[2].op = "Notify" /\ m[3].op = "Notify" /\ m[4].op = "Notify"
    BY <1>1
  <1>3. \A r \in Notices \cup Messages : r.ch \in {"COM1", "COM2"}
    BY DEF Notices, Messages, Channels
  <1>4. \A i \in DOMAIN m : m[i] \in Notices \cup Messages
    OBVIOUS
  <1>5. m[2].ch = m[3].ch \/ m[2].ch = m[4].ch \/ m[3].ch = m[4].ch
    BY <1>1, <1>3, <1>4
  <1>6. (2 = 3) \/ (2 = 4) \/ (3 = 4)
    BY <1>1, <1>2, <1>5
  <1> QED BY <1>6

LEMMA MailRoom ==
  ASSUME Types', MailSound'
  PROVE  Len(mailbox') <= 3
  <1>1. PICK m \in Seq(Notices \cup Messages) : m = mailbox'
    BY DEF Types, TaskTypes
  <1>2. /\ \A i \in DOMAIN m : m[i].op # "Notify" => i = 1
        /\ \A i, j \in DOMAIN m :
            m[i].op = "Notify" /\ m[j].op = "Notify" /\ m[i].ch = m[j].ch => i = j
    BY <1>1 DEF MailSound
  <1> QED BY <1>1, <1>2, ThreeMessages

LEMMA TxNext ==
  ASSUME Types, PCsSound, \A c \in Channels : ReadSound(c), Next,
         NEW c \in Channels, TxRoom(c)
  PROVE  TxRoom(c)'
  <1>1. PICK x \in Seq(Nat), f \in Nat : x = uart[c].tx /\ f = FifoSize[c]
    BY ChannelTypes, UartAssumption
  <1>2. Len(x) \in Nat /\ Len(x) <= f
    BY <1>1 DEF TxRoom
  <1>3. uart'[c].tx = x => TxRoom(c)'
    BY <1>1, <1>2 DEF TxRoom
  <1>4. ASSUME Elsewhere
        PROVE  TxRoom(c)'
    <2>1. CASE uart'[c].tx = Tail(x) /\ x # <<>>
      <3>1. PICK t \in Seq(Nat) : t = Tail(x) /\ Len(x) = 1 + Len(t)
        BY <2>1, HeadAndTail
      <3>2. Len(t) <= f
        BY <1>2, <3>1
      <3> QED BY <1>1, <2>1, <3>1, <3>2 DEF TxRoom
    <2> QED BY <1>1, <1>3, <1>4, <2>1 DEF Elsewhere
  <1>5. ASSUME Put
        PROVE  TxRoom(c)'
    <2>1. PICK e \in Channels, h \in Nat : e = Ch /\ h = Head(msg) /\ Len(uart[e].tx) < FifoSize[e]
      <3>1. /\ Ch \in Channels /\ msg # <<>> /\ msg \in Seq(Nat)
            /\ Len(uart[Ch].tx) < FifoSize[Ch]
        BY <1>5, ReqTypes DEF PCsSound, Put, At, Doing, Types, ServerTypes
      <3> QED BY <3>1, HeadAndTail
    <2>2. /\ uart' = [uart EXCEPT ![e].tx = Append(uart[e].tx, h)] /\ uart \in [Channels -> Uarts]
      BY <1>5, <2>1 DEF Put, Types, HardTypes, Uarts
    <2>3. CASE c = e
      <3>1. uart'[c].tx = Append(x, h)
        BY <1>1, <2>2, <2>3 DEF Uarts
      <3>2. Len(Append(x, h)) = Len(x) + 1
        BY AppendProperties
      <3>3. Len(x) < f
        BY <1>1, <2>1, <2>3
      <3>4. Len(x) + 1 <= f
        BY <1>2, <3>3
      <3> QED BY <1>1, <3>1, <3>2, <3>4 DEF TxRoom
    <2>4. CASE c # e
      BY <1>1, <1>3, <2>2, <2>4
    <2> QED BY <2>3, <2>4
  <1>6. SentSame => TxRoom(c)'
    BY <1>1, <1>3 DEF SentSame
  <1>7. /\ \A r \in Notices : ReceiveNotify(r) => UNCHANGED uart
        /\ \A r \in Messages : ReceivePutstr(r) \/ ReceiveGetn(r) \/ ReceiveFlush(r) => UNCHANGED uart
        /\ LoadCtlr \/ LookAtCts \/ SendDirect \/ SendBuffered \/ StoreMsg \/ Reply \/ Read
              => UNCHANGED uart
    BY DEF ReceiveNotify, ReceivePutstr, ReceiveGetn, ReceiveFlush, hardware, LoadCtlr, LookAtCts,
           SendDirect, SendBuffered, StoreMsg, Reply, Read
  <1>8. UNCHANGED uart => TxRoom(c)'
    BY <1>1, <1>3
  <1>9. Receive => TxRoom(c)'
    BY <1>6, <1>7, <1>8, ReceiveCases, SentSameIf
  <1>10. Server => TxRoom(c)'
    BY <1>5, <1>6, <1>7, <1>8, <1>9, SentSameIf DEF Server
  <1> QED BY <1>4, <1>10, OthersElsewhere DEF Next, Tasks

LEMMA RxNext ==
  ASSUME Types, PCsSound, \A c \in Channels : ReadSound(c), Next,
         NEW c \in Channels, RxRoom(c)
  PROVE  RxRoom(c)'
  <1>1. uart \in [Channels -> Uarts]
    BY DEF Types, HardTypes, Uarts
  <1>2. PICK x \in Seq(Nat), f \in Nat : x = uart[c].rx /\ f = FifoSize[c]
    BY ChannelTypes, UartAssumption
  <1>3. Len(x) \in Nat /\ Len(x) <= f
    BY <1>2 DEF RxRoom
  <1>4. uart'[c].rx = x /\ uart'[c].silent = uart[c].silent => RxRoom(c)'
    BY <1>2 DEF RxRoom
  <1>5. UNCHANGED uart => RxRoom(c)'
    BY <1>2, <1>4
  <1>6. ASSUME NEW d \in Channels, Interrupt(d) \/ Shift(d)
        PROVE  RxRoom(c)'
    <2>1. CASE Interrupt(d)
      BY <1>1, <1>2, <1>4, <2>1 DEF Interrupt, Uarts
    <2>2. CASE Shift(d)
      BY <1>1, <1>2, <1>4, <2>2 DEF Shift, Uarts
    <2> QED BY <1>6, <2>1, <2>2
  <1>7. ASSUME NEW d \in Channels, FallSilent(d)
        PROVE  RxRoom(c)'
    <2>1. CASE c = d
      <3>1. uart'[c].rx = x /\ x # <<>>
        BY <1>1, <1>2, <1>7, <2>1 DEF FallSilent, Uarts
      <3> QED BY <1>2, <1>3, <3>1 DEF RxRoom
    <2>2. CASE c # d
      BY <1>1, <1>2, <1>4, <1>7, <2>2 DEF FallSilent
    <2> QED BY <2>1, <2>2
  <1>8. ASSUME NEW d \in Channels, Arrive(d)
        PROVE  RxRoom(c)'
    <2>1. PICK b \in Nat, y \in Uarts : b = log[d].arrived + 1 /\ y = uart[d]
      BY <1>1, ChannelTypes
    <2>2. uart' = [uart EXCEPT ![d] = [y EXCEPT !.rx = Append(y.rx, b), !.silent = FALSE]]
      BY <1>1, <1>8, <2>1 DEF Arrive
    <2>3. CASE c = d
      <3>1. PICK z \in Seq(Nat) : z = Append(x, b) /\ Len(z) = Len(x) + 1
        BY AppendProperties
      <3>2. uart'[c].rx = z /\ uart'[c].silent = FALSE
        BY <1>1, <1>2, <2>1, <2>2, <2>3, <3>1 DEF Uarts
      <3>3. Len(x) < f
        BY <1>2, <1>8, <2>3 DEF Arrive
      <3>4. Len(z) <= f
        BY <1>3, <3>1, <3>3
      <3> QED BY <1>2, <3>2, <3>4 DEF RxRoom
    <2>4. CASE c # d
      BY <1>1, <1>2, <1>4, <2>2, <2>4
    <2> QED BY <2>3, <2>4
  <1>9. ASSUME NEW r \in Messages, ReceiveDrain(r)
        PROVE  RxRoom(c)'
    <2>1. PICK d \in Channels, y \in Uarts : d = r.ch /\ y = uart[d]
      BY <1>1, MessageTypes
    <2>2. uart' = [uart EXCEPT ![d] = [y EXCEPT !.rx = <<>>, !.silent = FALSE]]
      BY <1>1, <1>9, <2>1 DEF ReceiveDrain
    <2>3. CASE c = d
      <3>1. uart'[c].rx = <<>> /\ uart'[c].silent = FALSE
        BY <1>1, <2>1, <2>2, <2>3 DEF Uarts
      <3> QED BY <1>2, <3>1 DEF RxRoom
    <2>4. CASE c # d
      BY <1>1, <1>2, <1>4, <2>2, <2>4
    <2> QED BY <2>3, <2>4
  <1>10. ASSUME StoreCtlr \/ Put
        PROVE  RxRoom(c)'
    <2>1. CASE StoreCtlr
      BY <1>1, <1>2, <1>4, <2>1 DEF StoreCtlr, Uarts
    <2>2. CASE Put
      BY <1>1, <1>2, <1>4, <2>2 DEF Put, Uarts
    <2> QED BY <1>10, <2>1, <2>2
  <1>11. ASSUME Take
         PROVE  RxRoom(c)'
    <2>1. PICK e \in Channels, rd \in Readers,
                   first \in Seq(Nat), rest \in Seq(Nat), got \in Seq(Nat) :
                      TakeEffect(e, rd, first, rest, got)
      BY <1>11, TakeFacts
    <2>2. PICK y \in Uarts : y = uart[e]
      BY <1>1
    <2>3. /\ y.rx = first \o rest
          /\ uart' = [uart EXCEPT ![e] = [y EXCEPT !.rx = rest, !.silent = y.silent /\ rest # <<>>]]
      BY <1>1, <2>1, <2>2 DEF TakeEffect
    <2>4. CASE c = e
      <3>1. uart'[c].rx = rest /\ (uart'[c].silent => rest # <<>>)
        BY <1>1, <2>2, <2>3, <2>4 DEF Uarts
      <3>2. x = first \o rest /\ Len(x) = Len(first) + Len(rest)
        <4>1. x = first \o rest
          BY <1>2, <2>2, <2>3, <2>4
        <4> QED BY <4>1, ConcatProperties
      <3>3. Len(first) \in Nat /\ Len(rest) \in Nat
        OBVIOUS
      <3>4. Len(rest) <= f
        BY <1>3, <3>2, <3>3
      <3> QED BY <1>2, <3>1, <3>4 DEF RxRoom
    <2>5. CASE c # e
      BY <1>1, <1>2, <1>4, <2>3, <2>5
    <2> QED BY <2>4, <2>5
  <1>12. /\ \A r \in Notices : ReceiveNotify(r) => UNCHANGED uart
         /\ \A r \in Messages : ReceivePutstr(r) \/ ReceiveGetn(r) \/ ReceiveFlush(r) => UNCHANGED uart
         /\ LoadCtlr \/ LookAtCts \/ SendDirect \/ SendBuffered \/ StoreMsg \/ Reply \/ Read
               => UNCHANGED uart
         /\ PassTime => UNCHANGED uart
         /\ \A a, b : BoxMoves(a, b) => UNCHANGED uart
         /\ \A d \in Channels : Notify(d) \/ AwaitEvent(d) => UNCHANGED uart
         /\ \A cl \in Clients : Call(cl) => UNCHANGED uart
    BY DEF ReceiveNotify, ReceivePutstr, ReceiveGetn, ReceiveFlush, hardware, LoadCtlr, LookAtCts,
           SendDirect, SendBuffered, StoreMsg, Reply, Read, PassTime, BoxMoves, Notify,
           AwaitEvent, Call
  <1>13. Receive => RxRoom(c)'
    BY <1>5, <1>9, <1>12, ReceiveCases
  <1>14. Server => RxRoom(c)'
    BY <1>5, <1>10, <1>11, <1>12, <1>13 DEF Server
  <1> QED BY <1>5, <1>6, <1>7, <1>8, <1>12, <1>14 DEF Next, Tasks, Hardware

LEMMA BufNext ==
  ASSUME Types, PCsSound, Next, NEW c \in Channels, BufRoom(c)
  PROVE  BufRoom(c)'
  <1>1. buffer \in [Channels -> Seq(Nat)] /\ msg \in Seq(Nat)
    BY DEF Types, ServerTypes
  <1>2. PICK b \in Seq(Nat), n \in Nat : b = buffer[c] /\ n = IOBUF_SIZE
    BY <1>1, UartAssumption
  <1>3. buffer'[c] = buffer[c] => BufRoom(c)'
    BY DEF BufRoom
  <1>4. ASSUME SendBuffered
        PROVE  BufRoom(c)'
    <2>1. \/ UNCHANGED buffer
          \/ buffer[Ch] # <<>> /\ buffer' = [buffer EXCEPT ![Ch] = Tail(buffer[Ch])]
      BY <1>4 DEF SendBuffered
    <2>2. CASE Ch = c /\ b # <<>> /\ buffer'[c] = Tail(b)
      <3>1. PICK t \in Seq(Nat) : t = Tail(b) /\ Len(b) = 1 + Len(t)
        BY <2>2, HeadAndTail
      <3>2. Len(b) <= n /\ Len(b) \in Nat /\ Len(t) \in Nat
        BY <1>2 DEF BufRoom
      <3>3. Len(t) <= n
        BY <3>1, <3>2
      <3> QED BY <1>2, <2>2, <3>1, <3>3 DEF BufRoom
    <2> QED BY <1>1, <1>2, <1>3, <2>1, <2>2
  <1>5. ASSUME StoreMsg
        PROVE  BufRoom(c)'
    <2>1. \/ UNCHANGED buffer
          \/ HasRoom(Ch) /\ buffer' = [buffer EXCEPT ![Ch] = buffer[Ch] \o msg]
      BY <1>5 DEF StoreMsg
    <2>2. CASE Ch = c /\ HasRoom(Ch) /\ buffer' = [buffer EXCEPT ![Ch] = buffer[Ch] \o msg]
      <3>1. PICK m \in Seq(Nat) : m = msg
        BY <1>1
      <3>2. buffer'[c] = b \o m /\ Len(b) + Len(m) <= n
        BY <1>1, <1>2, <2>2, <3>1 DEF HasRoom
      <3>3. Len(b \o m) = Len(b) + Len(m)
        BY ConcatProperties
      <3> QED BY <1>2, <3>2, <3>3 DEF BufRoom
    <2> QED BY <1>1, <1>3, <2>1, <2>2
  <1>6. Server => SendBuffered \/ StoreMsg \/ UNCHANGED buffer
    BY DEF Server, Receive, LookAtCts, SendDirect, Put, Reply, Read, Take, LoadCtlr, StoreCtlr
  <1> QED BY <1>3, <1>4, <1>5, <1>6, OthersElsewhere DEF Next, Tasks, Elsewhere

LEMMA TypeOKNext ==
  ASSUME Types, UartTypeOK, PCsSound, MailSound, \A c \in Channels : ReadSound(c), Next
  PROVE  UartTypeOK'
  <1>1. Types' /\ Len(mailbox') <= 3
    BY TypesNext, MailSoundNext, MailRoom
  <1>2. ASSUME NEW c \in Channels
        PROVE  TxRoom(c)' /\ RxRoom(c)' /\ BufRoom(c)'
    BY TypeOKIs, TxNext, RxNext, BufNext
  <1> QED BY <1>1, <1>2, TypeOKIs

-----------------------------------------------------------------------------
(* The invariant holds.                                                    *)

\* When nothing changes, each of these stays as it is.
LEMMA InvStutters ==
  ASSUME Inv, UNCHANGED vars
  PROVE  Inv'
  <1>1. /\ UNCHANGED <<uart, box, modem, event, notifier, mailbox>>
        /\ UNCHANGED <<pc, req, msg, ctl, cts, buffer, reader, flusher, client, log>>
    BY DEF vars, hardware, serverVars
  <1>2. Doing' = Doing /\ Ch' = Ch /\ \A c \in Channels : InHand(c)' = InHand(c) /\ Holding(c)' = Holding(c)
    BY <1>1 DEF Doing, Ch, InHand, Holding
  <1>3. Types'
    BY <1>1 DEF Inv, Types, HardTypes, TaskTypes, ServerTypes
  <1>4. UartTypeOK'
    BY <1>1 DEF Inv, UartTypeOK
  <1>5. WireInOrder'
    BY <1>1, <1>2 DEF Inv, WireInOrder
  <1>6. PCsSound'
    BY <1>1, <1>2 DEF Inv, PCsSound
  <1>7. MailSound'
    BY <1>1 DEF Inv, MailSound
  <1>8. CallersSound'
    BY <1>1, <1>2 DEF Inv, CallersSound
  <1>9. FlushSound'
    BY <1>1 DEF Inv, FlushSound
  <1>10. CtsSound'
    BY <1>1, <1>2 DEF Inv, CtsSound, Awaits
  <1>11. \A c \in Channels : ReadSound(c)'
    BY <1>1, <1>2 DEF Inv, ReadSound
  <1> QED BY <1>3, <1>4, <1>5, <1>6, <1>7, <1>8, <1>9, <1>10, <1>11 DEF Inv

LEMMA InitFacts ==
  ASSUME Init
  PROVE  /\ uart = [c \in Channels |-> [tx |-> <<>>, rx |-> <<>>, ctlr |-> {}, silent |-> FALSE]]
         /\ mailbox = <<>> /\ pc = "receive" /\ msg = <<>> /\ box = "ready"
         /\ \A c \in Channels : /\ reader[c] = Nobody /\ flusher[c] = Nobody /\ buffer[c] = <<>>
                                /\ uart[c].tx = <<>> /\ uart[c].rx = <<>> /\ uart[c].silent = FALSE
                                /\ log[c].wire = <<>> /\ log[c].accepted = 0 /\ log[c].read = <<>>
                                /\ log[c].arrived = 0 /\ log[c].drained = 0 /\ log[c].fresh = 0
         /\ \A cl \in Clients : client[cl].call = None
  BY DEF Init

LEMMA InitTypes == Init => Types
  <1> SUFFICES ASSUME Init
               PROVE  Types
    OBVIOUS
  <1>1. PICK e \in Seq(Nat) : e = <<>>
    BY EmptySeq
  <1>2. HardTypes
    <2>1. uart = [c \in Channels |-> [tx |-> e, rx |-> e, ctlr |-> {}, silent |-> FALSE]]
      BY <1>1 DEF Init
    <2>2. uart \in [Channels -> [tx : Seq(Nat), rx : Seq(Nat), ctlr : SUBSET Bits, silent : BOOLEAN]]
      BY <2>1
    <2>3. box \in {"ready", "reached", "busy"} /\ modem \in BOOLEAN
      BY DEF Init
    <2> QED BY <2>2, <2>3 DEF HardTypes
  <1>3. TaskTypes
    <2>1. PICK s \in Scenarios :
            /\ client = [cl \in Clients |-> [call |-> None, left |-> s.calls[cl], upto |-> 0]]
            /\ log = [c \in Channels |-> [wire |-> e, accepted |-> 0, read |-> e, arrived |-> 0,
                                          coming |-> s.bytes[c], drained |-> 0, fresh |-> 0]]
      BY <1>1 DEF Init
    <2>2. s.bytes \in [Channels -> Nat] /\ s.calls \in [Clients -> Seq(Calls)]
      BY UartAssumption
    <2>3. client \in [Clients -> [call : {None} \cup Calls, left : Seq(Calls), upto : Nat]]
      BY <2>1, <2>2
    <2>4. log \in [Channels -> Logs]
      BY <2>1, <2>2 DEF Logs
    <2>5. mailbox \in Seq(Notices \cup Messages)
      BY EmptySeq DEF Init
    <2>6. /\ event \in [Channels -> SUBSET Bits]
          /\ notifier \in [Channels -> [state : {"waits", "woken", "sent", "answered"}, data : SUBSET Bits]]
      BY DEF Init
    <2> QED BY <2>3, <2>4, <2>5, <2>6 DEF TaskTypes
  <1>4. ServerTypes
    BY EmptySeq, UartAssumption DEF Init, ServerTypes, PCs, Afters
  <1> QED BY <1>2, <1>3, <1>4 DEF Types

LEMMA InitInv == Init => Inv
  <1> SUFFICES ASSUME Init
               PROVE  Inv
    OBVIOUS
  <1>1. Types
    BY InitTypes
  <1>2. UartTypeOK
    <2>1. Len(mailbox) <= 3
      BY InitFacts
    <2>2. \A c \in Channels : /\ Len(uart[c].tx) <= FifoSize[c] /\ Len(uart[c].rx) <= FifoSize[c]
                              /\ Len(buffer[c]) <= IOBUF_SIZE /\ ~ uart[c].silent
      <3>1. Len(<<>>) = 0 /\ \A n \in Nat : 0 <= n
        OBVIOUS
      <3> QED BY <3>1, InitFacts, UartAssumption
    <2>3. \A c \in Channels : /\ uart[c].ctlr \subseteq Bits
                              /\ notifier[c].state \in {"waits", "woken", "sent", "answered"}
      BY <1>1, ChannelTypes
    <2>4. cts.tag \in {"c", "d", "u"} /\ cts.age \in 0 .. COM1_WAITING_FOR_DOWN_TIMEOUT + 1
      BY <1>1 DEF Types, ServerTypes
    <2> QED BY <2>1, <2>2, <2>3, <2>4 DEF UartTypeOK, Bits
  <1>3. <<>> \o <<>> = <<>>
    BY EmptySeq, ConcatEmptySeq
  <1>4. WireInOrder
    <2>1. [i \in 1 .. 0 |-> i] = <<>>
      <3> DEFINE s == [i \in 1 .. 0 |-> i]
      <3>1. s \in [1 .. 0 -> Nat]
        OBVIOUS
      <3> HIDE DEF s
      <3>2. s \in Seq(Nat) /\ Len(s) = 0
        BY <3>1
      <3>3. s = <<>>
        BY <3>2
      <3> QED BY <3>3 DEF s
    <2>2. \A c \in Channels : InHand(c) = <<>>
      BY InitFacts DEF InHand
    <2> QED BY <1>3, <2>1, <2>2, InitFacts DEF WireInOrder
  <1>5. PCsSound
    BY InitFacts DEF PCsSound, Doing
  <1>6. MailSound /\ CallersSound
    <2>1. DOMAIN mailbox = {}
      BY InitFacts
    <2> QED BY <2>1, InitFacts DEF MailSound, CallersSound, Doing
  <1>7. FlushSound
    <2>1. \A cl \in Clients : client[cl].call.op # "Flush"
      BY InitFacts DEF None
    <2> QED BY <2>1, InitFacts DEF FlushSound
  <1>8. CtsSound
    BY InitFacts DEF CtsSound, Doing, Channels
  <1>9. \A c \in Channels : ReadSound(c)
    <2>1. \A c \in Channels : Holding(c) = <<>>
      BY <1>3, InitFacts DEF Holding
    <2>2. ToSet(<<>>) = {} /\ 0 + 1 .. 0 = {}
      BY DEF ToSet
    <2>3. ASSUME NEW c \in Channels
          PROVE  ReadSound(c)
      <3>1. log[c].read \o Holding(c) = <<>> /\ DOMAIN <<>> = {}
        <4>1. log[c].read = <<>> /\ Holding(c) = <<>>
          BY <2>1, InitFacts
        <4> QED BY <1>3, <4>1
      <3>2. /\ log[c].arrived = 0 /\ log[c].drained = 0 /\ log[c].fresh = 0
            /\ reader[c] = Nobody
        BY InitFacts
      <3> QED BY <2>1, <2>2, <3>1, <3>2 DEF ReadSound
    <2> QED BY <2>3
  <1> QED BY <1>1, <1>2, <1>4, <1>5, <1>6, <1>7, <1>8, <1>9 DEF Inv

LEMMA InvStep == Inv /\ [Next]_vars => Inv'
  <1>1. ASSUME Inv, Next
        PROVE  Inv'
    <2>1. /\ Types /\ UartTypeOK /\ WireInOrder /\ PCsSound /\ MailSound /\ CallersSound
          /\ FlushSound /\ CtsSound /\ \A c \in Channels : ReadSound(c)
      BY <1>1 DEF Inv
    <2>2. Types' /\ UartTypeOK'
      BY <1>1, <2>1, TypesNext, TypeOKNext
    <2>3. WireInOrder' /\ PCsSound' /\ MailSound' /\ CallersSound'
      BY <1>1, <2>1, WireNext, PCsNext, MailSoundNext, CallersNext
    <2>4. FlushSound' /\ CtsSound' /\ \A c \in Channels : ReadSound(c)'
      BY <1>1, <2>1, FlushNext, CtsNext, ReadNext
    <2> QED BY <2>2, <2>3, <2>4 DEF Inv
  <1> QED BY <1>1, InvStutters

LEMMA Invariance == Spec => []Inv
  BY InitInv, InvStep, PTL DEF Spec

-----------------------------------------------------------------------------
(* The theorems.                                                           *)

\* FIFOs, buffers and the mailbox never hold more than they have room for: a byte is
\* written to the data register only after TXFF was seen clear, at the same or at an
\* earlier step (uartserver.cc:201-222 and 324-334), and a Putstr that does not fit
\* panics.  The mailbox holds at most one notice of each notifier and one call.
THEOREM UartTypes == Spec => []UartTypeOK
  <1>1. Inv => UartTypeOK
    BY DEF Inv
  <1> QED BY <1>1, Invariance, PTL

\* The bytes of the messages accepted leave in order, none lost and none twice, whether
\* they go straight to the UART or through the buffer (uartserver.cc:324-334, 384-422).
THEOREM WireStaysInOrder == Spec => []WireInOrder
  <1>1. Inv => WireInOrder
    BY DEF Inv
  <1> QED BY <1>1, Invariance, PTL

\* Bytes are read in the order of their arrival and none but drained ones is forgotten;
\* a reader holds only bytes that arrived after the last Drain was called
\* (uartserver.cc:346-371, 452-475 and 478-497).
THEOREM ReadsInOrder == Spec => []ReadInOrder
  <1>1. Inv => ReadInOrder
    BY DEF Inv, ReadSound, ReadInOrder
  <1> QED BY <1>1, Invariance, PTL

\* Whatever the interrupts, their delay and the speed of the box, no byte reaches it
\* while it cannot take one (uartserver.cc:189-222 and 309-322).
THEOREM CtsIsRespected == Spec => CtsRespected
  <1>1. Inv /\ [Next]_vars => [log'["COM1"].wire # log["COM1"].wire => box = "ready"]_vars
    <2>1. Inv /\ Next => (log'["COM1"].wire # log["COM1"].wire => box = "ready")
      BY CtsStep DEF Inv
    <2> QED BY <2>1
  <1> QED BY <1>1, Invariance, PTL DEF Spec, CtsRespected

\* A Flush() is answered only when all that had been accepted before it is in the UART or
\* on the wire, however many other messages are accepted meanwhile
\* (uartserver.cc:245-254 and 498-513).
THEOREM FlushesAreHonest == Spec => FlushHonest
  <1> DEFINE Honest ==
        \A cl \in Clients :
          client[cl].call.op = "Flush" /\ client'[cl].call = None =>
              LET c == client[cl].call.ch
              IN  client[cl].upto <= Len(log'[c].wire) + Len(uart'[c].tx)
  <1>1. Inv /\ Next => Honest
    <2> SUFFICES ASSUME Inv, Next, NEW cl \in Clients,
                        client[cl].call.op = "Flush", client'[cl].call = None
                 PROVE  client[cl].upto <= Len(log'[client[cl].call.ch].wire)
                                              + Len(uart'[client[cl].call.ch].tx)
      OBVIOUS
    <2>1. PICK c \in Channels : c = client[cl].call.ch
      BY ClientParts DEF Inv, None
    <2>2. client[cl].upto <= Out(c)'
      BY <2>1, FlushHonestStep DEF Inv
    <2> QED BY <2>1, <2>2 DEF Out
  <1>2. Inv /\ [Next]_vars => [Honest]_vars
    BY <1>1
  <1>3. Spec => [][Honest]_vars
    BY <1>2, Invariance, PTL DEF Spec
  <1> QED BY <1>3 DEF FlushHonest

=============================================================================
