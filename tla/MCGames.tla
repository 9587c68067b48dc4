------------------------------ MODULE MCGames ------------------------------
EXTENDS RpsGames

CONSTANTS
    Guests,    \* tasks of other programs, which call the name server as they like
    MaxCalls   \* how many times each of them may call

VARIABLE budget   \* the calls each guest has left

mcvars == <<vars, budget>>

Characters == [n \in Name |-> IF n = "RPSServer" THEN 1 ELSE IF n = "a" THEN 1 ELSE 2]

\* How many games each player wants, in the order in which they are created.
Wants == {<<2, 1, 0>>, <<1, 2, 2>>, <<1, 0, 1, 0>>}

Seated(w) == [k \in DOMAIN w |-> RpsServer + k]
WantOf(w) == [p \in Players |-> IF p - RpsServer \in DOMAIN w THEN w[p - RpsServer] ELSE 0]

Init == /\ NInit
        /\ \/ /\ \E w \in Wants : RInit(Seated(w), WantOf(w))
              /\ budget = [t \in Guests |-> 0]
           \/ /\ RInit(<<>>, [p \in Players |-> 0])
              /\ budget = [t \in Guests |-> MaxCalls]

GuestCalls(t) == /\ budget[t] > 0
                 /\ \E kind \in Kinds, n \in Name : Send(t, kind, n) \/ SendFails(t, kind, n)
                 /\ budget' = [budget EXCEPT ![t] = @ - 1]
                 /\ UNCHANGED rvars

GuestReturns(t) == Return(t) /\ UNCHANGED <<rvars, budget>>

Games == RpsNext /\ UNCHANGED budget

Next == Games \/ \E t \in Guests : GuestCalls(t) \/ GuestReturns(t)

\* Every task that can run does in the end: no task runs for ever.
Spec == /\ Init /\ [][Next]_mcvars
        /\ WF_mcvars(Server /\ UNCHANGED budget) /\ WF_mcvars(NamesServed /\ UNCHANGED budget)
        /\ \A p \in Players : WF_mcvars(Player(p) /\ UNCHANGED budget)
        /\ \A t \in Guests : WF_mcvars(GuestReturns(t))

=============================================================================
