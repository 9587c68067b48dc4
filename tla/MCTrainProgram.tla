-------------------------- MODULE MCTrainProgram ---------------------------
(* One train: registered, driven about, sent somewhere.                      *)
EXTENDS TrainProgram

AddTrain(t)     == [tag |-> "CalibrateTrain", id |-> t]
Route(t, s)     == [tag |-> "Route", id |-> t, to |-> s]

\* A sensor on the way of a train that starts at 70.
Faults == {{75}}

\* Far enough to slow down, and into a siding, whose last sensor is 6.
UserCommands ==
    {AddTrain(58), SetSpeed(58, 14), SetSpeed(58, 0), TurnRound(58), [tag |-> "MakeLoop"],
     [tag |-> "SetBranchDir", id |-> 15, dir |-> "curved"]}
        \cup {Route(58, s) : s \in {2, 6}}

\* The program goes on: a variable that changes with every step but the user's,
\* whose fairness stands for that of those steps and costs TLC less.
VARIABLE turn

Turn == up /\ turn' = 1 - turn

Steps == \/ (CmdStep \/ OracleStep) /\ Turn
         \/ (\E c \in Commands : Type(c)) /\ UNCHANGED turn

\* What tells states apart: the graph is always the same.
Seen == <<up, oracle, calibrating, mailbox, answer, world, typed, todo, route, turn>>

TurnInit == ProgramInit /\ turn = 0

TurnSpec == TurnInit /\ [][Steps]_<<programVars, turn>> /\ WF_turn(Turn)

=============================================================================
