------------------------------ MODULE RpsGames ------------------------------
(***************************************************************************)
(* Rock, paper, scissors: the server, which finds the players through a    *)
(* queue of one place and seats them in games of two, the players, and the *)
(* first user task, which configures them one after the other.  The server *)
(* registers with the name server and the players look it up there.        *)
(***************************************************************************)
EXTENDS NameServer

CONSTANTS
    RpsServer,    \* its tid
    Players,      \* tids
    RPS_SERVER,   \* its name
    NUM_GAMES

ASSUME RpsAssumption ==
    /\ {RpsServer} \cup Players \subseteq Task /\ RpsServer \notin Players
    /\ RPS_SERVER \in Name
    /\ IsFiniteSet(Players) /\ NUM_GAMES \in Nat /\ Cardinality(Players) <= 2 * NUM_GAMES

Hands  == {"ROCK", "PAPER", "SCISSORS"}
NONE   == "NONE"
Nobody == -1
Waits  == [tag |-> "none"]

VARIABLES
    setup,      \* the tasks the first user task still has to configure, in order
    server,     \* where the server is
    mailbox,    \* the requests it has not received yet
    queue,
    games,
    player      \* per player, where it is, the games it still wants, its choice and
                \* the answer it has got

rvars == <<setup, server, mailbox, queue, games, player>>
vars  == <<nvars, rvars>>

Game(t, u) == [tid |-> <<t, u>>, choice |-> <<NONE, NONE>>]
NoGame     == Game(Nobody, Nobody)

\* The players seated are created and configured in that order; without any, nothing runs.
RInit(seated, wants) ==
    /\ setup = IF seated = <<>> THEN <<>> ELSE <<RpsServer>> \o seated
    /\ server = IF seated = <<>> THEN "absent" ELSE "registers"
    /\ mailbox = <<>> /\ queue = <<>>
    /\ games = [g \in 1 .. NUM_GAMES |-> NoGame]
    /\ player = [p \in Players |-> [at |-> IF \E k \in DOMAIN seated : seated[k] = p THEN "new" ELSE "gone",
                                    left |-> wants[p], choice |-> NONE, got |-> Waits]]

\* A failed assertion or a panic: the machine halts.
Halt == state' = "halted" /\ UNCHANGED <<names, index, inbox, call>>

-----------------------------------------------------------------------------
(* The server, until it takes requests: RegisterAs(), WhoIs(), and the     *)
(* message with its configuration.                                         *)

Calls(t, kind, at) == /\ Send(t, kind, RPS_SERVER)
                      /\ server' = at
                      /\ UNCHANGED <<setup, mailbox, queue, games, player>>

ServerRegisters == server = "registers" /\ Calls(RpsServer, "RegisterAs", "registering")

ServerLooks == /\ server = "registering" /\ Return(RpsServer)
               /\ server' = "registered"
               /\ UNCHANGED <<setup, mailbox, queue, games, player>>

ServerChecks == server = "registered" /\ Calls(RpsServer, "WhoIs", "checking")

ServerFound == /\ server = "checking" /\ call[RpsServer].at = "back"
               /\ IF call[RpsServer].code = RpsServer THEN Return(RpsServer) ELSE Halt
               /\ server' = "configured"
               /\ UNCHANGED <<setup, mailbox, queue, games, player>>

ServerConfigured == /\ state # "halted"
                    /\ server = "configured" /\ setup # <<>> /\ Head(setup) = RpsServer
                    /\ setup' = Tail(setup)
                    /\ server' = "serves"
                    /\ UNCHANGED <<nvars, mailbox, queue, games, player>>

-----------------------------------------------------------------------------
(* The games.                                                              *)

Has(g, t)      == \E k \in {1, 2} : games[g].tid[k] = t
Seat(g, t)     == IF games[g].tid[1] = t THEN 1 ELSE 2
Other(g, t)    == games[g].tid[3 - Seat(g, t)]
Empty(g)       == Nobody \in {games[g].tid[1], games[g].tid[2]}
EmptyGames     == {g \in DOMAIN games : Empty(g)}
GamesOf(t)     == {g \in DOMAIN games : Has(g, t)}
First(S)       == CHOOSE g \in S : \A h \in S : g <= h

With(game, k, choice) == [game EXCEPT !.choice[k] = choice]
IsOver(game)          == NONE \notin {game.choice[1], game.choice[2]}

Beats == {<<"PAPER", "ROCK">>, <<"SCISSORS", "PAPER">>, <<"ROCK", "SCISSORS">>}

\* Mutant: the second player is told what the first is.
FirstResult(game, k) ==
    LET mine == game.choice[1]  theirs == game.choice[2] IN
    IF mine = theirs THEN "DRAW" ELSE IF <<mine, theirs>> \in Beats THEN "I_WON" ELSE "I_LOST"

\* What the player in seat k is told.
Result(game, k) ==
    LET mine == game.choice[k]  theirs == game.choice[3 - k] IN
    IF mine = theirs THEN "DRAW" ELSE IF <<mine, theirs>> \in Beats THEN "I_WON" ELSE "I_LOST"

\* The server's replies: answers is a function of the players answered.
Tell(answers) == player' = [p \in Players |-> IF p \in DOMAIN answers
                                              THEN [player[p] EXCEPT !.got = answers[p]]
                                              ELSE player[p]]

Just(tag) == [tag |-> tag]

Takes(tag, t) == /\ state # "halted" /\ server = "serves" /\ mailbox # <<>>
                 /\ Head(mailbox).tag = tag /\ Head(mailbox).from = t
                 /\ mailbox' = Tail(mailbox)
                 /\ UNCHANGED <<setup, nvars>>

Queued(t) == /\ queue = <<>>
             /\ queue' = <<t>>
             /\ UNCHANGED <<server, games, player>>

\* Without an empty game both are refused, and then a game is written all the same,
\* through a null pointer.
Matched(t, other) ==
    /\ queue' = <<>>
    /\ IF EmptyGames = {}
       THEN /\ Tell([p \in {t, other} |-> Just("OUT_OF_SPACE")])
            /\ server' = "wild"
            /\ UNCHANGED games
       ELSE /\ games' = [games EXCEPT ![First(EmptyGames)] = Game(t, other)]
            /\ Tell([p \in {t, other} |-> Just("ACK")])
            /\ UNCHANGED server

Signup(t) == Takes("SIGNUP", t) /\ (Queued(t) \/ (queue # <<>> /\ Matched(t, Head(queue))))

\* Mutant: the choices are not reset after a round.
RoundNotReset(g, game) ==
    /\ IF IsOver(game)
       THEN Tell([p \in {game.tid[1], game.tid[2]} |->
                    [tag |-> "PLAY_RESP", result |-> Result(game, Seat(g, p))]])
       ELSE UNCHANGED player
    /\ games' = [games EXCEPT ![g] = game]

Round(g, game) ==
    IF IsOver(game)
    THEN /\ Tell([p \in {game.tid[1], game.tid[2]} |->
                    [tag |-> "PLAY_RESP", result |-> Result(game, Seat(g, p))]])
         /\ games' = [games EXCEPT ![g] = Game(game.tid[1], game.tid[2])]
    ELSE games' = [games EXCEPT ![g] = game] /\ UNCHANGED player

Play(t) ==
    /\ Takes("PLAY", t)
    /\ IF GamesOf(t) = {}
       THEN Tell([p \in {t} |-> Just("OTHER_PLAYER_QUIT")]) /\ UNCHANGED games
       ELSE LET g == First(GamesOf(t)) IN
            Round(g, With(games[g], Seat(g, t), Head(mailbox).choice))
    /\ UNCHANGED <<server, queue>>


\* The player that stays keeps the choice it has made.
Rematched(g, stays, waiting) ==
    With(Game(stays, waiting), 1, games[g].choice[Seat(g, stays)])

QuitAlone(g, t) == /\ queue = <<>>
                   /\ games' = [games EXCEPT ![g] = NoGame]
                   /\ Tell([p \in {t} |-> Just("ACK")])
                   /\ UNCHANGED queue

QuitReplaced(g, t) == /\ queue # <<>>
                      /\ games' = [games EXCEPT ![g] = Rematched(g, Other(g, t), Head(queue))]
                      /\ queue' = <<>>
                      /\ Tell([p \in {t, Head(queue)} |-> Just("ACK")])

Quit(t) ==
    /\ Takes("QUIT", t)
    /\ IF GamesOf(t) = {}
       THEN Tell([p \in {t} |-> Just("ACK")]) /\ UNCHANGED <<games, queue>>
       ELSE LET g == First(GamesOf(t)) IN QuitAlone(g, t) \/ QuitReplaced(g, t)
    /\ UNCHANGED server

-----------------------------------------------------------------------------
(* The players.                                                            *)

At(p, place) == state # "halted" /\ player[p].at = place

Goes(p, place) == player' = [player EXCEPT ![p].at = place, ![p].got = Waits]

PlayerConfigured(p) == /\ At(p, "new") /\ setup # <<>> /\ Head(setup) = p
                       /\ setup' = Tail(setup)
                       /\ Goes(p, "looks")
                       /\ UNCHANGED <<nvars, server, mailbox, queue, games>>

Looks(p) == /\ At(p, "looks")
            /\ Send(p, "WhoIs", RPS_SERVER)
            /\ Goes(p, "looking")
            /\ UNCHANGED <<setup, server, mailbox, queue, games>>

Finds(p) == /\ At(p, "looking") /\ call[p].at = "back"
            /\ IF call[p].code >= 0 THEN Return(p) ELSE Halt
            /\ Goes(p, "signs up")
            /\ UNCHANGED <<setup, server, mailbox, queue, games>>

Asks(p, tag, choice) ==
    /\ mailbox' = Append(mailbox, [from |-> p, tag |-> tag, choice |-> choice])
    /\ UNCHANGED <<nvars, setup, server, queue, games>>

SignsUp(p) == At(p, "signs up") /\ Asks(p, "SIGNUP", NONE) /\ Goes(p, "signing up")

Plays(p) == /\ At(p, "plays") /\ player[p].left > 0
            /\ \E c \in Hands :
                  /\ Asks(p, "PLAY", c)
                  /\ player' = [player EXCEPT ![p] = [at |-> "playing", left |-> @.left - 1,
                                                      choice |-> c, got |-> Waits]]

Quits(p) == At(p, "plays") /\ player[p].left = 0 /\ Asks(p, "QUIT", NONE) /\ Goes(p, "quitting")

\* Where an answer takes a player; any other answer is a panic.
Then(place, tag) == CASE place = "signing up" /\ tag = "ACK" -> "plays"
                      [] place = "playing" /\ tag = "PLAY_RESP" -> "plays"
                      [] place = "playing" /\ tag = "OTHER_PLAYER_QUIT" -> "gone"
                      [] place = "quitting" -> "gone"
                      [] OTHER -> "panics"

Answered(p) == /\ \E place \in {"signing up", "playing", "quitting"} : At(p, place)
               /\ player[p].got # Waits
               /\ Goes(p, Then(player[p].at, player[p].got.tag))
               /\ IF player'[p].at = "panics" THEN Halt ELSE UNCHANGED nvars
               /\ UNCHANGED <<setup, server, mailbox, queue, games>>

-----------------------------------------------------------------------------
Server == \/ ServerRegisters \/ ServerLooks \/ ServerChecks \/ ServerFound \/ ServerConfigured
          \/ \E t \in Players : Signup(t) \/ Play(t) \/ Quit(t)

Player(p) == \/ PlayerConfigured(p) \/ Looks(p) \/ Finds(p)
             \/ SignsUp(p) \/ Plays(p) \/ Quits(p) \/ Answered(p)

NamesServed == Serve /\ UNCHANGED rvars

RpsNext == Server \/ NamesServed \/ \E p \in Players : Player(p)

\* Any players, once each, in any order; or none, and the tasks of other programs run.
GamesInit == /\ NInit
             /\ \E seated \in Seq(Players), wants \in [Players -> Nat] :
                   /\ \A j, k \in DOMAIN seated : seated[j] = seated[k] => j = k
                   /\ RInit(seated, wants)

Guest(t) == server = "absent" /\ Client(t) /\ UNCHANGED rvars

GamesNext == RpsNext \/ \E t \in Task \ (Players \cup {RpsServer}) : Guest(t)
GamesSpec == GamesInit /\ [][GamesNext]_vars

-----------------------------------------------------------------------------
(* What could be wrong.                                                    *)

RpsTypeOK ==
    /\ DOMAIN call = Task /\ state \in {"running", "exited", "halted"}
    /\ Len(names) <= MAX_NAMES /\ index <= ARENA
    /\ Len(queue) <= 1 /\ \A k \in DOMAIN queue : queue[k] \in Players
    /\ \A g \in DOMAIN games : \A k \in {1, 2} :
          games[g].tid[k] \in Players \cup {Nobody} /\ games[g].choice[k] \in Hands \cup {NONE}
    /\ \A p \in Players : player[p].choice \in Hands \cup {NONE} /\ player[p].left \in Nat

Unread(p)  == \E k \in DOMAIN mailbox : mailbox[k].from = p
Blocked(p) == player[p].got = Waits /\ ~ Unread(p)    \* and its request has been received

\* The server finds a player's game by the first game that has its tid (rps.cc:210-212) and
\* matches the waiting player with whoever stays (rps.cc:265-280).  So no player may sit in
\* two places, or against itself; the player in the queue is the one whose signup has no
\* answer; and a choice stands in a game exactly as long as its player waits for the result.
SeatsSound ==
    /\ \A p \in Players : Cardinality({s \in (1 .. NUM_GAMES) \X {1, 2} : games[s[1]].tid[s[2]] = p})
                              + Cardinality({k \in DOMAIN queue : queue[k] = p}) <= 1
    /\ \A g \in DOMAIN games : (games[g].tid[1] = Nobody) <=> (games[g].tid[2] = Nobody)
    /\ \A p \in Players : (queue = <<p>>) <=> (player[p].at = "signing up" /\ Blocked(p))
    /\ \A p \in Players, g \in DOMAIN games : Has(g, p) =>
          games[g].choice[Seat(g, p)] =
             (IF player[p].at = "playing" /\ Blocked(p) THEN player[p].choice ELSE NONE)

Told(p) == player[p].got = Waits /\ player'[p].got # Waits /\ player'[p].got.tag = "PLAY_RESP"

\* The result of a round goes to two players at once, and fits what each of them chose, also
\* when one of them had chosen against a player that has quit since (rps.cc:216-233, 270-278).
RoundsAreFair ==
    [][\A p \in Players : Told(p) =>
         \E q \in Players \ {p} :
            /\ Told(q)
            /\ LET mine == player[p].choice  theirs == player[q].choice IN
               player'[p].got.result = (IF mine = theirs THEN "DRAW"
                                        ELSE IF <<mine, theirs>> \in Beats THEN "I_WON" ELSE "I_LOST")
            /\ player'[p].got.result = "I_WON" <=> player'[q].got.result = "I_LOST"]_vars

\* A player whose partner has quit while it waited for the result: nobody answers it.
Forsaken(p) == player[p].at = "playing" /\ Blocked(p) /\ GamesOf(p) = {}


\* Every call of the name server returns, also one that waits when the server is shut down
\* (nameserver.cc:90-95, 170-190), unless the machine halts: as there are finitely many calls,
\* in the end none is left waiting.
CallsReturn == <>[](state = "halted" \/ \A t \in Task : call[t].at # "sent")

=============================================================================
