---------------------------- MODULE MCUartServer ----------------------------
EXTENDS UartServer

Putstr(c, n) == [op |-> "Putstr", ch |-> c, n |-> n]
Getn(c, n)   == [op |-> "Getn", ch |-> c, n |-> n]
Drain(c)     == [op |-> "Drain", ch |-> c, n |-> 0]
Flush(c)     == [op |-> "Flush", ch |-> c, n |-> 0]

Fifos  == [c \in Channels |-> IF c = "COM1" THEN 1 ELSE 2]
Levels == Fifos

Receiving(com1, com2) == [c \in Channels |-> IF c = "COM1" THEN com1 ELSE com2]

Scenario(first, second, bytes) == [calls |-> [cl \in {1, 2} |-> IF cl = 1 THEN first ELSE second],
                                   bytes |-> bytes]

\* The Marklin box is sent a query and answers; another task sends it a byte, or drains.
Marklin == {Scenario(<<Putstr("COM1", 2), Getn("COM1", 2)>>, <<second>>, Receiving(2, 0)) :
               second \in {Putstr("COM1", 1), Drain("COM1"), Getn("COM1", 1)}}

\* Two tasks write to the terminal, more than the buffer holds, and flush.
Writers == {Scenario(<<Putstr("COM2", 3), Flush("COM2")>>, <<Putstr("COM2", 2), Flush("COM2")>>,
                     Receiving(0, 0))}

\* Both channels are written to.
Both == {Scenario(<<Putstr("COM1", 2), Flush("COM1")>>, <<Putstr("COM2", 4)>>, Receiving(0, 0))}

\* A task reads the terminal while another drains it.
Reader == {Scenario(<<Getn("COM2", 2)>>, <<Drain("COM2")>>, Receiving(0, 3))}

AllScenarios == Marklin \cup Writers \cup Both \cup Reader

\* A task reads the terminal while another writes to it.
ReaderAndWriter == {Scenario(<<Getn("COM2", 2)>>, <<Putstr("COM2", 4)>>, Receiving(0, 2))}

=============================================================================
