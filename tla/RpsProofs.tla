----------------------------- MODULE RpsProofs -----------------------------
(***************************************************************************)
(* Whoever comes, plays and quits, in whatever order: no player sits in    *)
(* two places, the two players of a round are told the same result, and    *)
(* the games never run out; and with the games as its clients, the name    *)
(* server still is a directory.  For every set of players.                 *)
(***************************************************************************)
EXTENDS RpsGames, NameServerProofs

-----------------------------------------------------------------------------
(* The invariant.                                                          *)

Choices  == Hands \cup {NONE}
Places   == {"new", "looks", "looking", "signs up", "signing up", "plays", "playing", "quitting",
             "gone", "panics"}
Requests == [from : Players, tag : {"SIGNUP", "PLAY", "QUIT"}, choice : Choices]
Answers  == [tag : {"none", "ACK", "OUT_OF_SPACE", "OTHER_PLAYER_QUIT"}]
               \cup [tag : {"PLAY_RESP"}, result : {"DRAW", "I_WON", "I_LOST"}]
Tables   == [tid : [{1, 2} -> Players \cup {Nobody}], choice : [{1, 2} -> Choices]]
Persons  == [at : Places, left : Nat, choice : Choices, got : Answers]

RTypes == /\ setup \in Seq(Players \cup {RpsServer})
          /\ mailbox \in Seq(Requests)
          /\ queue \in Seq(Players) /\ Len(queue) <= 1
          /\ games \in [1 .. NUM_GAMES -> Tables]
          /\ player \in [Players -> Persons]

\* Where a player waits for the answer to a request.
Asking == [SIGNUP |-> "signing up", PLAY |-> "playing", QUIT |-> "quitting"]

MailSound ==
    /\ \A i \in DOMAIN mailbox : LET p == mailbox[i].from IN
          /\ player[p].at = Asking[mailbox[i].tag] /\ player[p].got = Waits
          /\ mailbox[i].tag = "PLAY" => mailbox[i].choice = player[p].choice /\ player[p].choice # NONE
    /\ \A i, j \in DOMAIN mailbox : mailbox[i].from = mailbox[j].from => i = j

Queues(p) == player[p].at = "signing up" /\ Blocked(p)

QueueSound == \A p \in Players : (queue = <<p>>) <=> Queues(p)

\* Where a player can be that has a seat, and the choice that then stands in its game.
Seatable(p) == \/ player[p].at = "signing up" /\ player[p].got # Waits
               \/ player[p].at = "plays"
               \/ player[p].at = "playing" /\ player[p].got.tag # "OTHER_PLAYER_QUIT"
               \/ player[p].at = "quitting" /\ player[p].got = Waits

Standing(p) == IF player[p].at = "playing" /\ Blocked(p) THEN player[p].choice ELSE NONE

Sits(g, k, p) == games[g].tid[k] = p

SeatedSound ==
    /\ \A g, h \in 1 .. NUM_GAMES, k, l \in {1, 2}, p \in Players :
          Sits(g, k, p) /\ Sits(h, l, p) => g = h /\ k = l
    /\ \A g \in 1 .. NUM_GAMES : Sits(g, 1, Nobody) <=> Sits(g, 2, Nobody)
    /\ \A g \in 1 .. NUM_GAMES, k \in {1, 2}, p \in Players :
          Sits(g, k, p) => Seatable(p) /\ games[g].choice[k] = Standing(p)

\* A player gets no answer it does not expect, and the games do not run out.
AnswersSound ==
    /\ \A p \in Players :
          /\ player[p].at # "panics"
          /\ player[p].got # Waits =>
                \/ player[p].at = "signing up" /\ player[p].got = Just("ACK")
                \/ player[p].at = "playing" /\ player[p].got.tag \in {"PLAY_RESP", "OTHER_PLAYER_QUIT"}
                \/ player[p].at = "quitting"
          /\ player[p].at = "playing" => player[p].choice # NONE
    /\ server # "wild"

SetUp == {"registers", "registering", "registered", "checking", "configured"}

\* Nobody is configured before the server serves.
SetupSound ==
    /\ server \in SetUp \cup {"absent", "serves"}
    /\ server \in SetUp => setup # <<>> /\ Head(setup) = RpsServer
    /\ server = "absent" => setup = <<>>
    /\ server # "serves" => \A p \in Players : player[p].at \in {"new", "gone"}

\* The server's name is bound once it has registered, and only the games call the name server.
RpsBound == Lookup(names, RPS_SERVER) = RpsServer

NoCall(t)   == call[t].at = "none"
Asked(t)    == /\ call[t].at \in {"sent", "back"} /\ call[t].kind = "WhoIs" /\ call[t].name = RPS_SERVER
               /\ call[t].at = "back" => call[t].code = RpsServer
CallSound ==
    server # "absent" =>
       /\ state # "exited"
       /\ \A t \in Task \ (Players \cup {RpsServer}) : NoCall(t)
       /\ \A p \in Players : IF player[p].at = "looking" THEN Asked(p) ELSE NoCall(p)
       /\ server \notin {"registers", "registering"} => RpsBound
       /\ server \in {"registers", "registered", "configured", "serves"} => NoCall(RpsServer)
       /\ server = "registering" =>
             /\ call[RpsServer].at \in {"sent", "back"} /\ call[RpsServer].kind = "RegisterAs"
             /\ call[RpsServer].name = RPS_SERVER
             /\ call[RpsServer].at = "back" => RpsBound
       /\ server = "checking" => Asked(RpsServer)

RInv == /\ RTypes /\ MailSound /\ QueueSound /\ SeatedSound /\ AnswersSound

Roomy == Len(names) <= MAX_NAMES /\ index <= ARENA

Inv == NInv /\ Roomy /\ RInv /\ SetupSound /\ CallSound

-----------------------------------------------------------------------------
(* Facts.                                                                  *)

LEMMA NobodyPlays == Nobody \notin Players /\ RpsServer \notin Players /\ RpsServer \in Task
                     /\ RPS_SERVER \in Name /\ NUM_GAMES \in Nat /\ Players \subseteq Task
  BY RpsAssumption, NameServerAssumption DEF Nobody

LEMMA TagsAre == /\ Waits \in Answers /\ Just("ACK") \in Answers /\ Just("OTHER_PLAYER_QUIT") \in Answers
                 /\ Just("ACK") # Waits /\ Just("OTHER_PLAYER_QUIT") # Waits
                 /\ Just("ACK").tag = "ACK" /\ Just("OTHER_PLAYER_QUIT").tag = "OTHER_PLAYER_QUIT"
                 /\ Waits.tag = "none" /\ NONE \notin Hands
                 /\ Asking["SIGNUP"] = "signing up" /\ Asking["PLAY"] = "playing"
                 /\ Asking["QUIT"] = "quitting"
  BY DEF Waits, Answers, Just, NONE, Hands, Asking

LEMMA Pairs == ASSUME NEW S, NEW a \in S, NEW b \in S
               PROVE  <<a, b>> \in [{1, 2} -> S]
  <1>1. DOMAIN <<a, b>> = {1, 2}
    OBVIOUS
  <1>2. <<a, b>>[1] \in S /\ <<a, b>>[2] \in S
    OBVIOUS
  <1>3. <<a, b>> = [k \in {1, 2} |-> <<a, b>>[k]]
    BY <1>1
  <1> QED BY <1>2, <1>3

\* A new game, and one in which a choice is made.
LEMMA GameTypes ==
  ASSUME NEW t \in Players \cup {Nobody}, NEW u \in Players \cup {Nobody}
  PROVE  /\ Game(t, u) \in Tables
         /\ Game(t, u).tid[1] = t /\ Game(t, u).tid[2] = u
         /\ Game(t, u).choice[1] = NONE /\ Game(t, u).choice[2] = NONE
  <1>1. <<t, u>> \in [{1, 2} -> Players \cup {Nobody}] /\ <<NONE, NONE>> \in [{1, 2} -> Choices]
    BY Pairs DEF Choices
  <1> QED BY <1>1 DEF Game, Tables

LEMMA WithTypes ==
  ASSUME NEW game \in Tables, NEW k \in {1, 2}, NEW c \in Choices
  PROVE  /\ With(game, k, c) \in Tables
         /\ With(game, k, c).tid = game.tid
         /\ With(game, k, c).choice[k] = c
         /\ With(game, k, c).choice[3 - k] = game.choice[3 - k]
  <1>1. game.choice \in [{1, 2} -> Choices] /\ 3 - k \in {1, 2} /\ 3 - k # k
    BY DEF Tables
  <1>2. With(game, k, c) = [game EXCEPT !.choice = [game.choice EXCEPT ![k] = c]]
    BY DEF With, Tables
  <1>3. [game.choice EXCEPT ![k] = c] \in [{1, 2} -> Choices]
    BY <1>1
  <1> QED BY <1>1, <1>2, <1>3 DEF Tables

LEMMA TableTypes ==
  ASSUME RTypes, NEW g \in 1 .. NUM_GAMES, NEW k \in {1, 2}
  PROVE  /\ games[g] \in Tables /\ games[g].tid[k] \in Players \cup {Nobody}
         /\ games[g].choice[k] \in Choices /\ DOMAIN games = 1 .. NUM_GAMES
  BY DEF RTypes, Tables

LEMMA PersonTypes ==
  ASSUME RTypes, NEW p \in Players
  PROVE  /\ player[p] \in Persons /\ player[p].at \in Places /\ player[p].left \in Nat
         /\ player[p].choice \in Choices /\ player[p].got \in Answers
  BY DEF RTypes, Persons

\* The first of some games is one of them.
LEMMA FirstIs == ASSUME NEW S \in SUBSET (1 .. NUM_GAMES), S # {}
                 PROVE  First(S) \in S
  <1> DEFINE less == OpToRel(<, Nat)
  <1>1. \A a, b \in Nat : <<a, b>> \in less <=> a < b
    BY DEF OpToRel
  <1>2. IsWellFoundedOn(less, Nat)
    BY NatLessThanWellFounded
  <1>3. S \in SUBSET Nat /\ S # {}
    OBVIOUS
  <1> HIDE DEF less
  <1>4. PICK g \in S : \A h \in S : ~(<<h, g>> \in less)
    BY <1>2, <1>3, WFMin
  <1>5. \A h \in S : g <= h
    <2>1. \A h \in S : h \in Nat /\ g \in Nat /\ ~(h < g)
      BY <1>1, <1>3, <1>4
    <2> QED BY <2>1
  <1> QED BY <1>4, <1>5 DEF First

LEMMA QueueIs ==
  ASSUME RTypes
  PROVE  /\ queue # <<>> => Head(queue) \in Players /\ queue = <<Head(queue)>>
         /\ queue = <<>> => \A p \in Players : queue # <<p>>
         /\ \A p \in Players : queue = <<p>> => queue # <<>> /\ Head(queue) = p
  <1>1. queue \in Seq(Players) /\ Len(queue) <= 1
    BY DEF RTypes
  <1>2. ASSUME queue # <<>> PROVE Head(queue) \in Players /\ queue = <<Head(queue)>>
    <2>1. PICK h \in Players : h = Head(queue)
      BY <1>1, <1>2
    <2>2. Len(queue) = 1 /\ queue[1] = h
      BY <1>1, <1>2, <2>1
    <2>3. <<h>> \in Seq(Players) /\ Len(<<h>>) = 1 /\ <<h>>[1] = h
      OBVIOUS
    <2>4. queue = <<h>>
      BY <1>1, <2>2, <2>3, SeqEqual
    <2> QED BY <2>1, <2>4
  <1>3. \A p \in Players : <<p>> # <<>> /\ Head(<<p>>) = p
    OBVIOUS
  <1> QED BY <1>2, <1>3

\* Receiving a request: whose it is, and that the others stay.
LEMMA Taken ==
  ASSUME RTypes, MailSound, NEW tag \in {"SIGNUP", "PLAY", "QUIT"}, NEW t, Takes(tag, t)
  PROVE  /\ t \in Players /\ mailbox' \in Seq(Requests)
         /\ player[t].at = Asking[tag] /\ player[t].got = Waits /\ Unread(t) /\ ~ Unread(t)'
         /\ \A q \in Players : q # t => (Unread(q)' <=> Unread(q))
         /\ Head(mailbox).choice \in Choices
         /\ tag = "PLAY" => Head(mailbox).choice = player[t].choice /\ player[t].choice # NONE
         /\ (\A q \in Players : Unread(q)' => player'[q] = player[q]) => MailSound'
  <1>1. /\ mailbox \in Seq(Requests) /\ mailbox # <<>> /\ mailbox' = Tail(mailbox)
        /\ Head(mailbox).tag = tag /\ Head(mailbox).from = t
    BY DEF Takes, RTypes
  <1>2. /\ Len(mailbox) \in Nat \ {0} /\ DOMAIN mailbox = 1 .. Len(mailbox)
        /\ mailbox' \in Seq(Requests) /\ Len(mailbox') = Len(mailbox) - 1
        /\ \A i \in 1 .. Len(mailbox') : mailbox'[i] = mailbox[i + 1]
        /\ DOMAIN mailbox' = 1 .. Len(mailbox')
        /\ Head(mailbox) = mailbox[1] /\ Head(mailbox) \in Requests
    BY <1>1
  <1>3. /\ \A i \in DOMAIN mailbox : mailbox[i] \in Requests /\ mailbox[i].from \in Players
        /\ \A i \in DOMAIN mailbox' : i + 1 \in DOMAIN mailbox /\ mailbox'[i] = mailbox[i + 1]
    <2>1. \A i \in DOMAIN mailbox : mailbox[i] \in Requests
      BY <1>1, <1>2
    <2>2. \A r \in Requests : r.from \in Players
      BY DEF Requests
    <2>3. \A i \in 1 .. Len(mailbox') : i + 1 \in 1 .. Len(mailbox)
      BY <1>2
    <2> QED BY <1>2, <2>1, <2>2, <2>3
  <1>4. /\ \A i \in DOMAIN mailbox :
              /\ player[mailbox[i].from].at = Asking[mailbox[i].tag]
              /\ player[mailbox[i].from].got = Waits
              /\ mailbox[i].tag = "PLAY" => /\ mailbox[i].choice = player[mailbox[i].from].choice
                                            /\ player[mailbox[i].from].choice # NONE
        /\ \A i, j \in DOMAIN mailbox : mailbox[i].from = mailbox[j].from => i = j
    BY DEF MailSound
  <1>5. 1 \in DOMAIN mailbox
    BY <1>2
  <1>6. t \in Players /\ Unread(t) /\ Head(mailbox).choice \in Choices
    BY <1>1, <1>2, <1>3, <1>5 DEF Unread, Requests
  <1>7. /\ player[t].at = Asking[tag] /\ player[t].got = Waits
        /\ tag = "PLAY" => Head(mailbox).choice = player[t].choice /\ player[t].choice # NONE
    BY <1>1, <1>2, <1>4, <1>5
  <1>8. ~ Unread(t)'
    <2>1. \A i \in DOMAIN mailbox' : mailbox[i + 1].from # mailbox[1].from
      BY <1>2, <1>3, <1>4, <1>5
    <2> QED BY <1>1, <1>2, <1>3, <2>1 DEF Unread
  <1>9. ASSUME NEW q \in Players, q # t
        PROVE  Unread(q)' <=> Unread(q)
    <2>1. ASSUME NEW i \in DOMAIN mailbox, mailbox[i].from = q
          PROVE  \E j \in DOMAIN mailbox' : mailbox'[j].from = q
      <3>1. i # 1
        BY <1>1, <1>2, <1>9, <2>1
      <3>2. i - 1 \in DOMAIN mailbox' /\ (i - 1) + 1 = i
        BY <1>2, <3>1
      <3> QED BY <1>3, <2>1, <3>2
    <2> QED BY <1>3, <2>1 DEF Unread
  <1>10. ASSUME \A q \in Players : Unread(q)' => player'[q] = player[q]
         PROVE  MailSound'
    <2>1. ASSUME NEW i \in DOMAIN mailbox'
          PROVE  /\ player'[mailbox'[i].from] = player[mailbox[i + 1].from]
                 /\ mailbox'[i] = mailbox[i + 1] /\ i + 1 \in DOMAIN mailbox
      BY <1>3, <1>10, <2>1 DEF Unread
    <2>2. ASSUME NEW i \in DOMAIN mailbox', NEW j \in DOMAIN mailbox',
                 mailbox'[i].from = mailbox'[j].from
          PROVE  i = j
      <3>1. i + 1 = j + 1
        BY <1>4, <2>1, <2>2
      <3> QED BY <1>2, <3>1
    <2> QED BY <1>4, <2>1, <2>2 DEF MailSound
  <1> QED BY <1>2, <1>6, <1>7, <1>8, <1>9, <1>10

\* Sending a request.
LEMMA AskIsSound ==
  ASSUME RTypes, MailSound, NEW p \in Players, NEW tag \in {"SIGNUP", "PLAY", "QUIT"},
         NEW choice \in Choices, ~ Unread(p), Asks(p, tag, choice),
         NEW r \in Persons, player' = [player EXCEPT ![p] = r],
         r.at = Asking[tag], r.got = Waits, tag = "PLAY" => choice = r.choice /\ r.choice # NONE
  PROVE  /\ mailbox' \in Seq(Requests) /\ MailSound' /\ Unread(p)'
         /\ \A q \in Players : q # p => (Unread(q)' <=> Unread(q))
  <1> DEFINE m == [from |-> p, tag |-> tag, choice |-> choice]
  <1>1. m \in Requests /\ mailbox \in Seq(Requests) /\ mailbox' = Append(mailbox, m)
    BY DEF Requests, Asks, RTypes
  <1>2. m.from = p /\ m.tag = tag /\ m.choice = choice
    OBVIOUS
  <1> HIDE DEF m
  <1>3. /\ mailbox' \in Seq(Requests) /\ DOMAIN mailbox' = DOMAIN mailbox \cup {Len(mailbox) + 1}
        /\ Len(mailbox) + 1 \notin DOMAIN mailbox
        /\ mailbox'[Len(mailbox) + 1] = m
        /\ \A i \in DOMAIN mailbox : mailbox'[i] = mailbox[i] /\ mailbox[i].from \in Players
    <2>1. /\ mailbox' \in Seq(Requests) /\ DOMAIN mailbox' = DOMAIN mailbox \cup {Len(mailbox) + 1}
          /\ Len(mailbox) + 1 \notin DOMAIN mailbox
          /\ mailbox'[Len(mailbox) + 1] = m
          /\ \A i \in DOMAIN mailbox : mailbox'[i] = mailbox[i] /\ mailbox[i] \in Requests
      BY <1>1
    <2>2. \A x \in Requests : x.from \in Players
      BY DEF Requests
    <2> QED BY <2>1, <2>2
  <1>4. player'[p] = r /\ \A q \in Players : q # p => player'[q] = player[q]
    BY DEF RTypes
  <1>5. \A i \in DOMAIN mailbox : mailbox[i].from # p
    BY DEF Unread
  <1>6. Unread(p)' /\ \A q \in Players : q # p => (Unread(q)' <=> Unread(q))
    BY <1>2, <1>3 DEF Unread
  <1>7. MailSound'
    BY <1>2, <1>3, <1>4, <1>5 DEF MailSound
  <1> QED BY <1>3, <1>6, <1>7

\* Answering.
LEMMA Telling ==
  ASSUME RTypes, NEW A, \A p \in Players : p \in DOMAIN A => A[p] \in Answers, Tell(A)
  PROVE  /\ player' \in [Players -> Persons]
         /\ \A p \in Players :
               /\ player'[p].at = player[p].at /\ player'[p].choice = player[p].choice
               /\ p \in DOMAIN A => player'[p].got = A[p]
               /\ p \notin DOMAIN A => player'[p] = player[p]
  <1>1. \A p \in Players : player[p] \in Persons
    BY PersonTypes
  <1>2. ASSUME NEW p \in Players, p \in DOMAIN A
        PROVE  /\ player'[p] \in Persons /\ player'[p].at = player[p].at
               /\ player'[p].choice = player[p].choice /\ player'[p].got = A[p]
    <2>1. player'[p] = [player[p] EXCEPT !.got = A[p]]
      BY <1>2 DEF Tell
    <2> QED BY <1>1, <1>2, <2>1 DEF Persons
  <1>3. ASSUME NEW p \in Players, p \notin DOMAIN A
        PROVE  player'[p] = player[p]
    BY <1>3 DEF Tell
  <1>4. player' \in [Players -> Persons]
    BY <1>1, <1>2, <1>3 DEF Tell
  <1> QED BY <1>2, <1>3, <1>4

-----------------------------------------------------------------------------
(* What keeps the parts of the invariant.                                  *)

\* A step that leaves queue and games alone.
LEMMA SeatsKept ==
  ASSUME RTypes, QueueSound, SeatedSound, UNCHANGED <<queue, games>>,
         \A q \in Players : Queues(q)' <=> Queues(q),
         \A q \in Players : Seatable(q) /\ (\E g \in 1 .. NUM_GAMES, k \in {1, 2} : Sits(g, k, q))
                               => Seatable(q)' /\ Standing(q)' = Standing(q)
  PROVE  QueueSound' /\ SeatedSound'
  <1>1. QueueSound'
    BY DEF QueueSound
  <1>2. ASSUME NEW g \in 1 .. NUM_GAMES, NEW k \in {1, 2}, NEW p \in Players, Sits(g, k, p)'
        PROVE  Seatable(p)' /\ games'[g].choice[k] = Standing(p)'
    BY <1>2 DEF SeatedSound, Sits
  <1> QED BY <1>1, <1>2 DEF SeatedSound, Sits

\* Only player p moves.
LEMMA PlayerMoves ==
  ASSUME RTypes, MailSound, QueueSound, SeatedSound, AnswersSound, UNCHANGED <<queue, games>>,
         NEW p \in Players, NEW r \in Persons, player' = [player EXCEPT ![p] = r],
         \A q \in Players : q # p => (Unread(q)' <=> Unread(q)),
         ~ Queues(p), r.at = "signing up" /\ r.got = Waits => Unread(p)',
         Seatable(p) => Seatable(p)' /\ Standing(p)' = Standing(p),
         r.at # "panics", r.got = Waits, r.at = "playing" => r.choice # NONE, server' # "wild"
  PROVE  /\ player' \in [Players -> Persons] /\ QueueSound' /\ SeatedSound' /\ AnswersSound'
  <1>1. /\ player' \in [Players -> Persons] /\ player'[p] = r
        /\ \A q \in Players : q # p => player'[q] = player[q]
    BY DEF RTypes
  <1>2. \A q \in Players : Queues(q)' <=> Queues(q)
    <2>1. ~ Queues(p)'
      BY <1>1 DEF Queues, Blocked
    <2> QED BY <1>1, <2>1 DEF Queues, Blocked
  <1>3. \A q \in Players : q # p => (Seatable(q)' <=> Seatable(q)) /\ Standing(q)' = Standing(q)
    BY <1>1 DEF Seatable, Standing, Blocked
  <1>4. QueueSound' /\ SeatedSound'
    BY <1>2, <1>3, SeatsKept
  <1>5. AnswersSound'
    BY <1>1 DEF AnswersSound
  <1> QED BY <1>1, <1>4, <1>5

\* A player that is answered stays where it is, and one that is not stays as it is.
LEMMA AnswersKept ==
  ASSUME RTypes, AnswersSound, NEW S \in SUBSET Players,
         \A q \in Players :
            /\ player'[q].at = player[q].at /\ player'[q].choice = player[q].choice
            /\ q \notin S => player'[q] = player[q],
         \A q \in S : \/ player[q].at = "signing up" /\ player'[q].got = Just("ACK")
                      \/ player[q].at = "playing"
                            /\ player'[q].got.tag \in {"PLAY_RESP", "OTHER_PLAYER_QUIT"}
                      \/ player[q].at = "quitting",
         server' # "wild"
  PROVE  AnswersSound'
  <1>1. ASSUME NEW q \in Players
        PROVE  \/ player'[q] = player[q]
               \/ /\ player'[q].at = player[q].at /\ player'[q].choice = player[q].choice
                  /\ \/ player[q].at = "signing up" /\ player'[q].got = Just("ACK")
                     \/ player[q].at = "playing"
                           /\ player'[q].got.tag \in {"PLAY_RESP", "OTHER_PLAYER_QUIT"}
                     \/ player[q].at = "quitting"
    OBVIOUS
  <1> QED BY <1>1 DEF AnswersSound

\* Where a player's seat is.
LEMMA SeatIs ==
  ASSUME RTypes, SeatedSound, NEW g \in 1 .. NUM_GAMES, NEW p \in Players, Has(g, p)
  PROVE  /\ Seat(g, p) \in {1, 2} /\ 3 - Seat(g, p) \in {1, 2} /\ Sits(g, Seat(g, p), p)
         /\ Other(g, p) \in Players /\ Other(g, p) # p /\ Sits(g, 3 - Seat(g, p), Other(g, p))
         /\ Seatable(p) /\ games[g].choice[Seat(g, p)] = Standing(p)
         /\ Seatable(Other(g, p)) /\ games[g].choice[3 - Seat(g, p)] = Standing(Other(g, p))
         /\ Seat(g, Other(g, p)) = 3 - Seat(g, p)
  <1>1. PICK k \in {1, 2} : games[g].tid[k] = p
    BY DEF Has
  <1>2. Seat(g, p) \in {1, 2} /\ Sits(g, Seat(g, p), p)
    BY <1>1 DEF Seat, Sits
  <1>3. PICK s \in {1, 2} : s = Seat(g, p)
    BY <1>2
  <1>4. 3 - s \in {1, 2} /\ 3 - s # s /\ games[g].tid[s] = p
    BY <1>2, <1>3 DEF Sits
  <1>5. PICK u : u = games[g].tid[3 - s]
    OBVIOUS
  <1>6. u \in Players \cup {Nobody}
    BY <1>4, <1>5, TableTypes
  <1>7. u # Nobody
    BY <1>4, <1>5, NobodyPlays DEF SeatedSound, Sits
  <1>8. u \in Players /\ Sits(g, 3 - s, u) /\ Sits(g, s, p)
    BY <1>4, <1>5, <1>6, <1>7 DEF Sits
  <1>9. u # p
    BY <1>4, <1>8 DEF SeatedSound
  <1>10. Other(g, p) = u
    BY <1>3, <1>5 DEF Other
  <1>11. Seat(g, u) = 3 - s
    BY <1>4, <1>5, <1>9 DEF Seat
  <1>12. /\ Seatable(p) /\ games[g].choice[s] = Standing(p)
         /\ Seatable(u) /\ games[g].choice[3 - s] = Standing(u)
    BY <1>4, <1>8 DEF SeatedSound
  <1> QED BY <1>3, <1>4, <1>8, <1>9, <1>10, <1>11, <1>12

LEMMA GamesOfIs ==
  ASSUME RTypes, NEW t \in Players
  PROVE  /\ GamesOf(t) # {} => First(GamesOf(t)) \in 1 .. NUM_GAMES /\ Has(First(GamesOf(t)), t)
         /\ GamesOf(t) = {} => \A g \in 1 .. NUM_GAMES, k \in {1, 2} : ~ Sits(g, k, t)
  <1>1. PICK S : S = GamesOf(t)
    OBVIOUS
  <1>2. S \in SUBSET (1 .. NUM_GAMES) /\ \A g \in S : Has(g, t)
    BY <1>1 DEF GamesOf, RTypes
  <1>3. S # {} => First(S) \in S
    BY <1>2, FirstIs
  <1>4. S = {} => \A g \in 1 .. NUM_GAMES, k \in {1, 2} : ~ Sits(g, k, t)
    BY <1>1 DEF GamesOf, Has, Sits, RTypes
  <1> QED BY <1>1, <1>2, <1>3, <1>4

-----------------------------------------------------------------------------
(* The handlers of the server.                                             *)

\* A game that is written: who sits in it and what choices stand.
LEMMA Writes ==
  ASSUME RTypes, NEW g \in 1 .. NUM_GAMES, NEW game \in Tables, games' = [games EXCEPT ![g] = game]
  PROVE  /\ games' \in [1 .. NUM_GAMES -> Tables] /\ games'[g] = game
         /\ \A h \in 1 .. NUM_GAMES : h # g => games'[h] = games[h]
  BY DEF RTypes

\* What must hold of the game written for the seats to be sound.
LEMMA SeatsWritten ==
  ASSUME RTypes, SeatedSound, NEW g \in 1 .. NUM_GAMES, NEW game \in Tables,
         games' = [games EXCEPT ![g] = game],
         game.tid[1] # Nobody => game.tid[1] # game.tid[2],
         game.tid[1] = Nobody <=> game.tid[2] = Nobody,
         \A k \in {1, 2}, p \in Players : game.tid[k] = p =>
            /\ \A h \in 1 .. NUM_GAMES, l \in {1, 2} : h # g => ~ Sits(h, l, p)
            /\ Seatable(p)' /\ game.choice[k] = Standing(p)',
         \A h \in 1 .. NUM_GAMES, l \in {1, 2}, p \in Players : h # g /\ Sits(h, l, p) =>
            Seatable(p)' /\ Standing(p)' = Standing(p)
  PROVE  SeatedSound'
  <1>1. games'[g] = game /\ \A h \in 1 .. NUM_GAMES : h # g => games'[h] = games[h]
    BY Writes
  <1>2. ASSUME NEW h \in 1 .. NUM_GAMES, NEW l \in {1, 2}, NEW p \in Players, Sits(h, l, p)'
        PROVE  Seatable(p)' /\ games'[h].choice[l] = Standing(p)'
    <2>1. CASE h = g
      BY <1>1, <1>2, <2>1 DEF Sits
    <2>2. CASE h # g
      BY <1>1, <1>2, <2>2 DEF Sits, SeatedSound
    <2> QED BY <2>1, <2>2
  <1>3. ASSUME NEW h \in 1 .. NUM_GAMES, NEW i \in 1 .. NUM_GAMES, NEW k \in {1, 2}, NEW l \in {1, 2},
               NEW p \in Players, Sits(h, k, p)', Sits(i, l, p)'
        PROVE  h = i /\ k = l
    <2>1. p # Nobody
      BY NobodyPlays
    <2>2. CASE h = g /\ i = g
      BY <1>1, <1>3, <2>1, <2>2 DEF Sits
    <2>3. CASE h = g /\ i # g
      BY <1>1, <1>3, <2>3 DEF Sits
    <2>4. CASE h # g /\ i = g
      BY <1>1, <1>3, <2>4 DEF Sits
    <2>5. CASE h # g /\ i # g
      BY <1>1, <1>3, <2>5 DEF Sits, SeatedSound
    <2> QED BY <2>2, <2>3, <2>4, <2>5
  <1>4. \A h \in 1 .. NUM_GAMES : Sits(h, 1, Nobody)' <=> Sits(h, 2, Nobody)'
    BY <1>1 DEF Sits, SeatedSound
  <1> QED BY <1>2, <1>3, <1>4 DEF SeatedSound

LEMMA SeatedIsSeatable ==
  ASSUME SeatedSound
  PROVE  \A g \in 1 .. NUM_GAMES, k \in {1, 2}, p \in Players : Sits(g, k, p) => Seatable(p)
  BY DEF SeatedSound

\* Who signs up has no seat.
LEMMA NoSeatYet ==
  ASSUME SeatedSound, NEW p \in Players, player[p].at = "signing up", player[p].got = Waits
  PROVE  \A g \in 1 .. NUM_GAMES, k \in {1, 2} : ~ Sits(g, k, p)
  <1>1. ~ Seatable(p)
    BY DEF Seatable
  <1> QED BY <1>1, SeatedIsSeatable

\* Two players without a seat leave a game empty.
LEMMA SomeGameEmpty ==
  ASSUME RTypes, SeatedSound, NEW t \in Players, NEW u \in Players, t # u,
         \A g \in 1 .. NUM_GAMES, k \in {1, 2} : ~ Sits(g, k, t) /\ ~ Sits(g, k, u)
  PROVE  EmptyGames # {} /\ EmptyGames \subseteq 1 .. NUM_GAMES
  <1> DEFINE seats == (1 .. NUM_GAMES) \X {1, 2}
             rest  == (Players \ {t}) \ {u}
             f     == [s \in seats |-> games[s[1]].tid[s[2]]]
  <1>1. /\ IsFiniteSet(1 .. NUM_GAMES) /\ Cardinality(1 .. NUM_GAMES) = NUM_GAMES
        /\ NUM_GAMES \in Nat
    <2>1. NUM_GAMES \in Nat /\ 1 \in Int /\ NUM_GAMES \in Int
      BY RpsAssumption
    <2>2. /\ IsFiniteSet(1 .. NUM_GAMES)
          /\ Cardinality(1 .. NUM_GAMES) = IF 1 > NUM_GAMES THEN 0 ELSE NUM_GAMES - 1 + 1
      BY <2>1, FS_Interval
    <2>3. (IF 1 > NUM_GAMES THEN 0 ELSE NUM_GAMES - 1 + 1) = NUM_GAMES
      BY <2>1
    <2> QED BY <2>1, <2>2, <2>3
  <1>2. IsFiniteSet({1, 2}) /\ Cardinality({1, 2}) = 2
    <2>1. IsFiniteSet({1}) /\ Cardinality({1}) = 1
      BY FS_Singleton
    <2>2. {1} \cup {2} = {1, 2} /\ 2 \notin {1}
      OBVIOUS
    <2>3. IsFiniteSet({1} \cup {2}) /\ Cardinality({1} \cup {2}) = 1 + 1
      BY <2>1, <2>2, FS_AddElement
    <2> QED BY <2>2, <2>3
  <1>3. IsFiniteSet(seats) /\ Cardinality(seats) = NUM_GAMES * 2
    <2>1. Cardinality(seats) = Cardinality(1 .. NUM_GAMES) * Cardinality({1, 2}) /\ IsFiniteSet(seats)
      BY <1>1, <1>2, FS_Product, Zenon
    <2> HIDE DEF seats
    <2> QED BY <1>1, <1>2, <2>1
  <1>4. IsFiniteSet(Players) /\ Cardinality(Players) \in Nat /\ Cardinality(Players) <= 2 * NUM_GAMES
    BY RpsAssumption, FS_CardinalityType
  <1>5. IsFiniteSet(Players \ {t}) /\ Cardinality(Players \ {t}) = Cardinality(Players) - 1
    BY <1>4, FS_RemoveElement
  <1>6. IsFiniteSet(rest) /\ Cardinality(rest) = Cardinality(Players) - 2
    <2>1. u \in Players \ {t}
      OBVIOUS
    <2> QED BY <1>4, <1>5, <2>1, FS_RemoveElement
  <1>7. Cardinality(rest) < Cardinality(seats)
    BY <1>1, <1>3, <1>4, <1>6
  <1>8. ASSUME \A g \in 1 .. NUM_GAMES, k \in {1, 2} : games[g].tid[k] # Nobody
        PROVE  FALSE
    <2>1. \A g \in 1 .. NUM_GAMES, k \in {1, 2} : games[g].tid[k] \in rest
      BY <1>8, TableTypes DEF Sits
    <2>2. \A s \in seats : s[1] \in 1 .. NUM_GAMES /\ s[2] \in {1, 2} /\ s = <<s[1], s[2]>>
      OBVIOUS
    <2> HIDE DEF rest, seats
    <2>3. f \in [seats -> rest]
      BY <2>1, <2>2
    <2> HIDE DEF f
    <2>4. PICK x \in seats, y \in seats : x # y /\ f[x] = f[y]
      BY <1>3, <1>6, <1>7, <2>3, FS_PigeonHole
    <2>5. PICK g \in 1 .. NUM_GAMES, h \in 1 .. NUM_GAMES, k \in {1, 2}, l \in {1, 2} :
             x = <<g, k>> /\ y = <<h, l>>
      BY <2>2
    <2>6. f[x] = games[g].tid[k] /\ f[y] = games[h].tid[l] /\ f[x] \in Players
      <3>1. /\ f[x] = games[x[1]].tid[x[2]] /\ f[y] = games[y[1]].tid[y[2]]
        BY <2>4 DEF f
      <3>2. f[x] \in rest
        BY <2>3, <2>4
      <3> QED BY <2>5, <3>1, <3>2 DEF rest
    <2>7. PICK p \in Players : Sits(g, k, p) /\ Sits(h, l, p)
      BY <2>4, <2>6 DEF Sits
    <2>8. g = h /\ k = l
      BY <2>7 DEF SeatedSound
    <2> QED BY <2>4, <2>5, <2>8
  <1>9. PICK g \in 1 .. NUM_GAMES, k \in {1, 2} : games[g].tid[k] = Nobody
    BY <1>8
  <1>10. DOMAIN games = 1 .. NUM_GAMES
    BY DEF RTypes
  <1>11. g \in EmptyGames
    BY <1>9, <1>10 DEF EmptyGames, Empty
  <1> QED BY <1>10, <1>11 DEF EmptyGames

\* The other players' requests and standing, when those answered are in S.
LEMMA OthersStay ==
  ASSUME RTypes, NEW S \in SUBSET Players,
         \A q \in Players : q \notin S => player'[q] = player[q] /\ (Unread(q)' <=> Unread(q))
  PROVE  \A q \in Players : q \notin S =>
            (Queues(q)' <=> Queues(q)) /\ (Seatable(q)' <=> Seatable(q)) /\ Standing(q)' = Standing(q)
  BY DEF Queues, Seatable, Standing, Blocked

LEMMA SignupQueues ==
  ASSUME RInv, NEW t \in Players, Takes("SIGNUP", t), Queued(t)
  PROVE  RInv' /\ server' = server
  <1>1. RTypes /\ MailSound /\ QueueSound /\ SeatedSound /\ AnswersSound
    BY DEF RInv
  <1>2. /\ queue = <<>> /\ queue' = <<t>> /\ player' = player /\ games' = games /\ server' = server
        /\ setup' = setup
    BY DEF Takes, Queued
  <1>3. /\ mailbox' \in Seq(Requests) /\ player[t].at = "signing up" /\ player[t].got = Waits
        /\ ~ Unread(t)' /\ MailSound' /\ \A q \in Players : q # t => (Unread(q)' <=> Unread(q))
    BY <1>1, <1>2, Taken, TagsAre
  <1>4. RTypes'
    <2>1. <<t>> \in Seq(Players) /\ Len(<<t>>) <= 1
      OBVIOUS
    <2>2. queue' \in Seq(Players) /\ Len(queue') <= 1
      BY <1>2, <2>1
    <2> QED BY <1>1, <1>2, <1>3, <2>2, Zenon DEF RTypes
  <1>5. /\ \A q \in Players : Seatable(q)' <=> Seatable(q)
        /\ \A q \in Players : Standing(q)' = Standing(q)
    BY <1>2, <1>3 DEF Seatable, Standing, Blocked
  <1>6. SeatedSound'
    BY <1>1, <1>2, <1>5 DEF SeatedSound, Sits
  <1>7. QueueSound'
    <2>1. \A q \in Players : ~ Queues(q)
      BY <1>1, <1>2, QueueIs DEF QueueSound
    <2>2. \A q \in Players : Queues(q)' <=> q = t
      BY <1>2, <1>3, <2>1 DEF Queues, Blocked
    <2>3. \A q \in Players : <<t>> = <<q>> <=> q = t
      OBVIOUS
    <2> QED BY <1>2, <2>2, <2>3 DEF QueueSound
  <1>8. AnswersSound'
    BY <1>1, <1>2 DEF AnswersSound
  <1> QED BY <1>2, <1>3, <1>4, <1>6, <1>7, <1>8 DEF RInv

LEMMA SignupMatches ==
  ASSUME RInv, NEW t \in Players, Takes("SIGNUP", t), queue # <<>>, Matched(t, Head(queue))
  PROVE  RInv' /\ server' = server /\ UNCHANGED setup
  <1>1. RTypes /\ MailSound /\ QueueSound /\ SeatedSound /\ AnswersSound
    BY DEF RInv
  <1>2. PICK u \in Players : u = Head(queue) /\ queue = <<u>>
    BY <1>1, QueueIs
  <1>3. /\ mailbox' \in Seq(Requests) /\ player[t].at = "signing up" /\ player[t].got = Waits
        /\ Unread(t) /\ ~ Unread(t)' /\ \A q \in Players : q # t => (Unread(q)' <=> Unread(q))
    BY <1>1, Taken, TagsAre
  <1>4. player[u].at = "signing up" /\ player[u].got = Waits /\ ~ Unread(u) /\ u # t
    BY <1>1, <1>2, <1>3 DEF QueueSound, Queues, Blocked
  <1>5. \A g \in 1 .. NUM_GAMES, k \in {1, 2} : ~ Sits(g, k, t) /\ ~ Sits(g, k, u)
    BY <1>1, <1>3, <1>4, NoSeatYet
  <1>6. PICK S : S = EmptyGames
    OBVIOUS
  <1>7. S # {} /\ S \in SUBSET (1 .. NUM_GAMES)
    BY <1>1, <1>4, <1>5, <1>6, SomeGameEmpty
  <1>8. PICK g \in 1 .. NUM_GAMES : g = First(S) /\ g \in EmptyGames
    BY <1>6, <1>7, FirstIs
  <1>9. PICK game \in Tables : game = Game(t, u) /\ game.tid[1] = t /\ game.tid[2] = u
                               /\ game.choice[1] = NONE /\ game.choice[2] = NONE
    BY GameTypes
  <1>10. PICK A : A = [p \in {t, u} |-> Just("ACK")]
    OBVIOUS
  <1>11. /\ queue' = <<>> /\ games' = [games EXCEPT ![g] = game] /\ Tell(A)
         /\ server' = server /\ setup' = setup
    BY <1>2, <1>6, <1>7, <1>8, <1>9, <1>10 DEF Takes, Matched
  <1>12. DOMAIN A = {t, u} /\ A[t] = Just("ACK") /\ A[u] = Just("ACK")
    BY <1>10
  <1>13. \A p \in Players : p \in DOMAIN A => A[p] \in Answers
    BY <1>12, TagsAre
  <1>14. /\ player' \in [Players -> Persons]
         /\ \A p \in Players :
               /\ player'[p].at = player[p].at /\ player'[p].choice = player[p].choice
               /\ p \in DOMAIN A => player'[p].got = A[p]
               /\ p \notin DOMAIN A => player'[p] = player[p]
    BY <1>1, <1>11, <1>13, Telling
  <1>15. player'[t].got = Just("ACK") /\ player'[u].got = Just("ACK")
    BY <1>12, <1>14
  <1>16. MailSound'
    <2>1. \A q \in Players : Unread(q)' => player'[q] = player[q]
      BY <1>3, <1>4, <1>12, <1>14
    <2> QED BY <1>1, <2>1, Taken
  <1>17. \A q \in Players : q \notin {t, u} =>
            (Queues(q)' <=> Queues(q)) /\ (Seatable(q)' <=> Seatable(q)) /\ Standing(q)' = Standing(q)
    BY <1>1, <1>3, <1>12, <1>14, OthersStay
  <1>18. /\ Seatable(t)' /\ Standing(t)' = NONE /\ ~ Queues(t)'
         /\ Seatable(u)' /\ Standing(u)' = NONE /\ ~ Queues(u)'
    BY <1>3, <1>4, <1>14, <1>15, TagsAre DEF Seatable, Standing, Queues, Blocked
  <1>19. QueueSound'
    <2>1. \A q \in Players : q # u => ~ Queues(q)
      BY <1>1, <1>2, QueueIs DEF QueueSound
    <2>2. \A q \in Players : ~ Queues(q)'
      BY <1>17, <1>18, <2>1
    <2>3. \A q \in Players : <<>> # <<q>>
      OBVIOUS
    <2> QED BY <1>11, <2>2, <2>3 DEF QueueSound
  <1>20. games' \in [1 .. NUM_GAMES -> Tables]
    BY <1>1, <1>11, Writes
  <1>21. SeatedSound'
    <2>1. game.tid[1] # Nobody /\ game.tid[2] # Nobody /\ game.tid[1] # game.tid[2]
      BY <1>4, <1>9, NobodyPlays
    <2>2. ASSUME NEW k \in {1, 2}, NEW p \in Players, game.tid[k] = p
          PROVE  /\ \A h \in 1 .. NUM_GAMES, l \in {1, 2} : h # g => ~ Sits(h, l, p)
                 /\ Seatable(p)' /\ game.choice[k] = Standing(p)'
      BY <1>5, <1>9, <1>18, <2>2
    <2>3. ASSUME NEW h \in 1 .. NUM_GAMES, NEW l \in {1, 2}, NEW p \in Players, h # g, Sits(h, l, p)
          PROVE  Seatable(p)' /\ Standing(p)' = Standing(p)
      BY <1>1, <1>5, <1>17, <2>3 DEF SeatedSound
    <2>4. /\ game.tid[1] # Nobody => game.tid[1] # game.tid[2]
          /\ game.tid[1] = Nobody <=> game.tid[2] = Nobody
      BY <2>1
    <2>5. \A k \in {1, 2}, p \in Players : game.tid[k] = p =>
             /\ \A h \in 1 .. NUM_GAMES, l \in {1, 2} : h # g => ~ Sits(h, l, p)
             /\ Seatable(p)' /\ game.choice[k] = Standing(p)'
      BY <2>2
    <2>6. \A h \in 1 .. NUM_GAMES, l \in {1, 2}, p \in Players : h # g /\ Sits(h, l, p) =>
             Seatable(p)' /\ Standing(p)' = Standing(p)
      BY <2>3
    <2> QED BY <1>1, <1>11, <2>4, <2>5, <2>6, SeatsWritten, Zenon
  <1>22. RTypes'
    <2>1. queue' \in Seq(Players) /\ Len(queue') <= 1
      BY <1>11
    <2> QED BY <1>1, <1>3, <1>11, <1>14, <1>20, <2>1, Zenon DEF RTypes
  <1>23. AnswersSound'
    <2>1. PICK T \in SUBSET Players : T = {t, u}
      OBVIOUS
    <2>2. server' # "wild"
      BY <1>1, <1>11 DEF AnswersSound
    <2>3. \A q \in T : player[q].at = "signing up" /\ player'[q].got = Just("ACK")
      BY <1>3, <1>4, <1>15, <2>1
    <2>4. \A q \in Players : /\ player'[q].at = player[q].at /\ player'[q].choice = player[q].choice
                             /\ q \notin T => player'[q] = player[q]
      BY <1>12, <1>14, <2>1
    <2> QED BY <1>1, <2>2, <2>3, <2>4, AnswersKept
  <1> QED BY <1>11, <1>16, <1>19, <1>21, <1>22, <1>23 DEF RInv

\* A player without a game plays, or quits: it is answered at once.
LEMMA LeftAlone ==
  ASSUME RInv, NEW t \in Players, NEW tag \in {"PLAY", "QUIT"}, Takes(tag, t), GamesOf(t) = {},
         NEW a \in Answers, a = Just(IF tag = "PLAY" THEN "OTHER_PLAYER_QUIT" ELSE "ACK"),
         Tell([p \in {t} |-> a]), UNCHANGED <<games, queue, server>>
  PROVE  RInv' /\ UNCHANGED setup
  <1>1. RTypes /\ MailSound /\ QueueSound /\ SeatedSound /\ AnswersSound
    BY DEF RInv
  <1>2. /\ mailbox' \in Seq(Requests) /\ player[t].at = Asking[tag] /\ player[t].got = Waits
        /\ ~ Unread(t)' /\ \A q \in Players : q # t => (Unread(q)' <=> Unread(q))
    BY <1>1, Taken
  <1>3. a # Waits /\ Asking[tag] \in {"playing", "quitting"}
        /\ (Asking[tag] = "playing" => a.tag = "OTHER_PLAYER_QUIT")
    BY TagsAre
  <1>4. PICK A : A = [p \in {t} |-> a]
    OBVIOUS
  <1>5. DOMAIN A = {t} /\ A[t] = a /\ Tell(A) /\ \A p \in Players : p \in DOMAIN A => A[p] \in Answers
    BY <1>4
  <1>6. /\ player' \in [Players -> Persons]
        /\ \A p \in Players :
              /\ player'[p].at = player[p].at /\ player'[p].choice = player[p].choice
              /\ p \in DOMAIN A => player'[p].got = A[p]
              /\ p \notin DOMAIN A => player'[p] = player[p]
    BY <1>1, <1>5, Telling
  <1>7. player'[t].got = a /\ \A q \in Players : q # t => player'[q] = player[q]
    BY <1>5, <1>6
  <1>8. MailSound'
    <2>1. \A q \in Players : Unread(q)' => player'[q] = player[q]
      BY <1>2, <1>7
    <2> QED BY <1>1, <2>1, Taken
  <1>9. \A q \in Players : q # t =>
           (Queues(q)' <=> Queues(q)) /\ (Seatable(q)' <=> Seatable(q)) /\ Standing(q)' = Standing(q)
    BY <1>2, <1>7 DEF Queues, Seatable, Standing, Blocked
  <1>10. QueueSound' /\ SeatedSound'
    <2>1. ~ Queues(t)' /\ ~ Queues(t)
      BY <1>2, <1>3, <1>6 DEF Queues
    <2>2. \A q \in Players : Queues(q)' <=> Queues(q)
      BY <1>9, <2>1
    <2>3. \A g \in 1 .. NUM_GAMES, k \in {1, 2} : ~ Sits(g, k, t)
      BY <1>1, GamesOfIs
    <2>4. \A q \in Players : Seatable(q) /\ (\E g \in 1 .. NUM_GAMES, k \in {1, 2} : Sits(g, k, q))
             => Seatable(q)' /\ Standing(q)' = Standing(q)
      BY <1>9, <2>3
    <2> QED BY <1>1, <2>2, <2>4, SeatsKept
  <1>11. setup' = setup
    BY DEF Takes
  <1>12. RTypes'
    BY <1>1, <1>2, <1>6, <1>11, Zenon DEF RTypes
  <1>13. AnswersSound'
    <2>1. PICK T \in SUBSET Players : T = {t}
      OBVIOUS
    <2>2. server' # "wild"
      BY <1>1 DEF AnswersSound
    <2>3. \A q \in T : \/ player[q].at = "playing"
                             /\ player'[q].got.tag \in {"PLAY_RESP", "OTHER_PLAYER_QUIT"}
                       \/ player[q].at = "quitting"
      BY <1>2, <1>3, <1>7, <2>1
    <2>4. \A q \in Players : /\ player'[q].at = player[q].at /\ player'[q].choice = player[q].choice
                             /\ q \notin T => player'[q] = player[q]
      BY <1>6, <1>7, <2>1
    <2> QED BY <1>1, <2>2, <2>3, <2>4, AnswersKept
  <1> QED BY <1>8, <1>10, <1>11, <1>12, <1>13 DEF RInv

\* The first choice of a round.
LEMMA RoundOpens ==
  ASSUME RInv, NEW t \in Players, Takes("PLAY", t), NEW g \in 1 .. NUM_GAMES, Has(g, t),
         ~ IsOver(With(games[g], Seat(g, t), Head(mailbox).choice)),
         Round(g, With(games[g], Seat(g, t), Head(mailbox).choice)), UNCHANGED <<server, queue>>
  PROVE  RInv' /\ UNCHANGED setup
  <1>1. RTypes /\ MailSound /\ QueueSound /\ SeatedSound /\ AnswersSound
    BY DEF RInv
  <1>2. /\ mailbox' \in Seq(Requests) /\ player[t].at = "playing" /\ player[t].got = Waits
        /\ ~ Unread(t)' /\ \A q \in Players : q # t => (Unread(q)' <=> Unread(q))
        /\ Head(mailbox).choice \in Choices /\ Head(mailbox).choice = player[t].choice
    BY <1>1, Taken, TagsAre
  <1>3. PICK k \in {1, 2}, u \in Players :
           /\ k = Seat(g, t) /\ u # t /\ Sits(g, k, t) /\ Sits(g, 3 - k, u)
           /\ games[g].choice[3 - k] = Standing(u) /\ 3 - k \in {1, 2} /\ 3 - k # k
    BY <1>1, SeatIs
  <1>4. PICK c \in Choices : c = Head(mailbox).choice /\ c = player[t].choice
    BY <1>2
  <1>5. PICK game \in Tables :
           /\ game = With(games[g], k, c) /\ game.tid = games[g].tid
           /\ game.choice[k] = c /\ game.choice[3 - k] = games[g].choice[3 - k]
    <2>1. PICK old \in Tables : old = games[g]
      BY <1>1, TableTypes
    <2> QED BY <2>1, WithTypes
  <1>6. games' = [games EXCEPT ![g] = game] /\ player' = player /\ setup' = setup
    BY <1>3, <1>4, <1>5 DEF Round, Takes
  <1>7. MailSound'
    BY <1>1, <1>6, Taken
  <1>8. \A q \in Players : Seatable(q)' <=> Seatable(q)
    BY <1>6 DEF Seatable
  <1>9. \A q \in Players : Queues(q)' <=> Queues(q)
    BY <1>2, <1>6 DEF Queues, Blocked
  <1>10. /\ Standing(t)' = c /\ \A q \in Players : q # t => Standing(q)' = Standing(q)
    BY <1>2, <1>4, <1>6 DEF Standing, Blocked
  <1>11. QueueSound'
    BY <1>1, <1>9 DEF QueueSound
  <1>12. SeatedSound'
    <2>1. /\ game.tid[1] # Nobody => game.tid[1] # game.tid[2]
          /\ game.tid[1] = Nobody <=> game.tid[2] = Nobody
      BY <1>3, <1>5, NobodyPlays DEF Sits
    <2>2. ASSUME NEW l \in {1, 2}, NEW p \in Players, game.tid[l] = p
          PROVE  /\ \A h \in 1 .. NUM_GAMES, i \in {1, 2} : h # g => ~ Sits(h, i, p)
                 /\ Seatable(p)' /\ game.choice[l] = Standing(p)'
      <3>1. Sits(g, l, p)
        BY <1>5, <2>2 DEF Sits
      <3>2. \/ l = k /\ p = t
            \/ l = 3 - k /\ p = u
        BY <1>3, <3>1 DEF Sits
      <3>3. game.choice[l] = Standing(p)'
        BY <1>3, <1>5, <1>10, <3>2
      <3> QED BY <1>1, <1>8, <3>1, <3>3 DEF SeatedSound
    <2>3. ASSUME NEW h \in 1 .. NUM_GAMES, NEW l \in {1, 2}, NEW p \in Players, h # g, Sits(h, l, p)
          PROVE  Seatable(p)' /\ Standing(p)' = Standing(p)
      <3>1. p # t
        BY <1>1, <1>3, <2>3 DEF SeatedSound
      <3> QED BY <1>1, <1>8, <1>10, <2>3, <3>1 DEF SeatedSound
    <2>4. RTypes /\ SeatedSound /\ games' = [games EXCEPT ![g] = game]
      BY <1>1, <1>6
    <2>5. \A l \in {1, 2}, p \in Players : game.tid[l] = p =>
             /\ \A h \in 1 .. NUM_GAMES, i \in {1, 2} : h # g => ~ Sits(h, i, p)
             /\ Seatable(p)' /\ game.choice[l] = Standing(p)'
      BY <2>2
    <2>6. \A h \in 1 .. NUM_GAMES, l \in {1, 2}, p \in Players : h # g /\ Sits(h, l, p) =>
             Seatable(p)' /\ Standing(p)' = Standing(p)
      BY <2>3
    <2> QED BY <2>1, <2>4, <2>5, <2>6, SeatsWritten, Zenon
  <1>13. RTypes'
    <2>1. games' \in [1 .. NUM_GAMES -> Tables]
      BY <1>1, <1>6, Writes
    <2> QED BY <1>1, <1>2, <1>6, <2>1, Zenon DEF RTypes
  <1>14. AnswersSound'
    <2>1. UNCHANGED <<player, server>>
      BY <1>6
    <2> QED BY <1>1, <2>1, Zenon DEF AnswersSound
  <1> QED BY <1>6, <1>7, <1>11, <1>12, <1>13, <1>14 DEF RInv

\* Who sits in the game that a round is over in, and what is written there.
LEMMA RoundEndIs ==
  ASSUME RInv, NEW t \in Players, Takes("PLAY", t), NEW g \in 1 .. NUM_GAMES, Has(g, t),
         NEW game, game = With(games[g], Seat(g, t), Head(mailbox).choice), IsOver(game)
  PROVE  \E k \in {1, 2}, u \in Players :
            /\ 3 - k \in {1, 2} /\ k # 3 - k /\ u # t
            /\ Sits(g, k, t) /\ Sits(g, 3 - k, u)
            /\ game \in Tables /\ game.tid = games[g].tid
            /\ game.tid[1] \in Players /\ game.tid[2] \in Players /\ game.tid[1] # game.tid[2]
            /\ {game.tid[1], game.tid[2]} = {t, u}
            /\ game.choice[k] = player[t].choice /\ game.choice[3 - k] = player[u].choice
            /\ player[t].at = "playing" /\ player[t].got = Waits /\ Unread(t)
            /\ player[u].at = "playing" /\ Blocked(u)
  <1>1. RTypes /\ MailSound /\ SeatedSound
    BY DEF RInv
  <1>2. /\ player[t].at = "playing" /\ player[t].got = Waits /\ Unread(t)
        /\ Head(mailbox).choice \in Choices /\ Head(mailbox).choice = player[t].choice
    BY <1>1, Taken, TagsAre
  <1>3. PICK k \in {1, 2}, u \in Players :
           /\ k = Seat(g, t) /\ u # t /\ Sits(g, k, t) /\ Sits(g, 3 - k, u)
           /\ games[g].choice[3 - k] = Standing(u) /\ 3 - k \in {1, 2} /\ 3 - k # k
    BY <1>1, SeatIs
  <1>4. PICK c \in Choices : c = Head(mailbox).choice
    BY <1>2
  <1>5. /\ game \in Tables /\ game.tid = games[g].tid
        /\ game.choice[k] = c /\ game.choice[3 - k] = games[g].choice[3 - k]
    <2>1. PICK old \in Tables : old = games[g]
      BY <1>1, TableTypes
    <2>2. game = With(old, k, c)
      BY <1>3, <1>4, <2>1
    <2> QED BY <2>1, <2>2, WithTypes
  <1>6. game.tid[k] = t /\ game.tid[3 - k] = u
    BY <1>3, <1>5 DEF Sits
  <1>7. /\ game.tid[1] \in Players /\ game.tid[2] \in Players /\ game.tid[1] # game.tid[2]
        /\ {game.tid[1], game.tid[2]} = {t, u}
    BY <1>3, <1>6
  <1>8. Standing(u) # NONE
    BY <1>3, <1>5 DEF IsOver
  <1>9. player[u].at = "playing" /\ Blocked(u) /\ Standing(u) = player[u].choice
    BY <1>8 DEF Standing
  <1> QED BY <1>2, <1>3, <1>4, <1>5, <1>7, <1>9

LEMMA ResultTypes ==
  ASSUME NEW game, NEW k
  PROVE  /\ Result(game, k) \in {"DRAW", "I_WON", "I_LOST"}
         /\ [tag |-> "PLAY_RESP", result |-> Result(game, k)] \in Answers
  BY DEF Result, Answers

\* What the two players are told when a round is over.
LEMMA RoundTells ==
  ASSUME RInv, NEW g \in 1 .. NUM_GAMES, NEW game, NEW t \in Players, NEW u \in Players,
         {game.tid[1], game.tid[2]} = {t, u}, Round(g, game), IsOver(game)
  PROVE  /\ player' \in [Players -> Persons]
         /\ \A p \in Players :
               /\ player'[p].at = player[p].at /\ player'[p].choice = player[p].choice
               /\ p \notin {t, u} => player'[p] = player[p]
         /\ \A p \in {t, u} :
               player'[p].got = [tag |-> "PLAY_RESP", result |-> Result(game, Seat(g, p))]
  <1> DEFINE A == [p \in {t, u} |-> [tag |-> "PLAY_RESP", result |-> Result(game, Seat(g, p))]]
  <1>1. RTypes
    BY DEF RInv
  <1>2. Tell(A)
    BY DEF Round
  <1>3. /\ DOMAIN A = {t, u}
        /\ \A p \in {t, u} : A[p] = [tag |-> "PLAY_RESP", result |-> Result(game, Seat(g, p))]
    OBVIOUS
  <1>4. \A p \in Players : p \in DOMAIN A => A[p] \in Answers
    BY <1>3, ResultTypes
  <1> HIDE DEF A
  <1>5. PICK B : B = A
    OBVIOUS
  <1> QED BY <1>1, <1>2, <1>3, <1>4, <1>5, Telling

\* The second choice of a round.
LEMMA RoundEnds ==
  ASSUME RInv, NEW t \in Players, Takes("PLAY", t), NEW g \in 1 .. NUM_GAMES, Has(g, t),
         IsOver(With(games[g], Seat(g, t), Head(mailbox).choice)),
         Round(g, With(games[g], Seat(g, t), Head(mailbox).choice)), UNCHANGED <<server, queue>>
  PROVE  RInv' /\ UNCHANGED setup
  <1>1. RTypes /\ MailSound /\ QueueSound /\ SeatedSound /\ AnswersSound
    BY DEF RInv
  <1>2. /\ mailbox' \in Seq(Requests)
        /\ ~ Unread(t)' /\ \A q \in Players : q # t => (Unread(q)' <=> Unread(q))
    BY <1>1, Taken
  <1>3. PICK game : game = With(games[g], Seat(g, t), Head(mailbox).choice)
    OBVIOUS
  <1>4. IsOver(game) /\ Round(g, game)
    BY <1>3
  <1>5. PICK k \in {1, 2}, u \in Players :
            /\ 3 - k \in {1, 2} /\ k # 3 - k /\ u # t
            /\ Sits(g, k, t) /\ Sits(g, 3 - k, u)
            /\ game \in Tables /\ game.tid = games[g].tid
            /\ game.tid[1] \in Players /\ game.tid[2] \in Players /\ game.tid[1] # game.tid[2]
            /\ {game.tid[1], game.tid[2]} = {t, u}
            /\ game.choice[k] = player[t].choice /\ game.choice[3 - k] = player[u].choice
            /\ player[t].at = "playing" /\ player[t].got = Waits /\ Unread(t)
            /\ player[u].at = "playing" /\ Blocked(u)
    BY <1>3, <1>4, RoundEndIs
  <1>6. PICK new \in Tables :
           /\ new = Game(game.tid[1], game.tid[2])
           /\ new.tid[1] = game.tid[1] /\ new.tid[2] = game.tid[2]
           /\ new.choice[1] = NONE /\ new.choice[2] = NONE
    BY <1>5, GameTypes
  <1>7. games' = [games EXCEPT ![g] = new] /\ setup' = setup
    BY <1>4, <1>6 DEF Round, Takes
  <1>8. /\ player' \in [Players -> Persons]
        /\ \A p \in Players :
              /\ player'[p].at = player[p].at /\ player'[p].choice = player[p].choice
              /\ p \notin {t, u} => player'[p] = player[p]
        /\ \A p \in {t, u} :
              player'[p].got = [tag |-> "PLAY_RESP", result |-> Result(game, Seat(g, p))]
    BY <1>4, <1>5, RoundTells
  <1>9. \A p \in {t, u} : player'[p].got.tag = "PLAY_RESP" /\ player'[p].got # Waits
    <2>1. \A r : [tag |-> "PLAY_RESP", result |-> r].tag = "PLAY_RESP"
      OBVIOUS
    <2>2. \A p \in {t, u} : player'[p].got.tag = "PLAY_RESP"
      BY <1>8
    <2>3. Waits.tag = "none" /\ "none" # "PLAY_RESP"
      BY TagsAre
    <2> QED BY <2>2, <2>3, Zenon
  <1>10. MailSound'
    <2>1. \A q \in Players : Unread(q)' => player'[q] = player[q]
      BY <1>2, <1>5, <1>8 DEF Blocked
    <2> QED BY <1>1, <2>1, Taken
  <1>11. \A q \in Players : q \notin {t, u} =>
            (Queues(q)' <=> Queues(q)) /\ (Seatable(q)' <=> Seatable(q)) /\ Standing(q)' = Standing(q)
    <2>1. PICK S \in SUBSET Players : S = {t, u}
      OBVIOUS
    <2>2. \A q \in Players : q \notin S => player'[q] = player[q] /\ (Unread(q)' <=> Unread(q))
      BY <1>2, <1>8, <2>1
    <2> QED BY <1>1, <2>1, <2>2, OthersStay
  <1>12. \A q \in {t, u} :
            ~ Queues(q) /\ ~ Queues(q)' /\ Seatable(q)' /\ Standing(q)' = NONE
    <2>1. ASSUME NEW q \in Players, player[q].at = "playing", player'[q].at = "playing",
                 player'[q].got.tag = "PLAY_RESP", player'[q].got # Waits
          PROVE  ~ Queues(q) /\ ~ Queues(q)' /\ Seatable(q)' /\ Standing(q)' = NONE
      BY <2>1 DEF Queues, Seatable, Standing, Blocked
    <2>2. \A q \in {t, u} : /\ q \in Players /\ player[q].at = "playing" /\ player'[q].at = "playing"
                            /\ player'[q].got.tag = "PLAY_RESP" /\ player'[q].got # Waits
      BY <1>5, <1>8, <1>9
    <2> QED BY <2>1, <2>2
  <1>13. QueueSound'
    BY <1>1, <1>11, <1>12 DEF QueueSound
  <1>14. SeatedSound'
    <2>1. /\ new.tid[1] # Nobody => new.tid[1] # new.tid[2]
          /\ new.tid[1] = Nobody <=> new.tid[2] = Nobody
      BY <1>5, <1>6, NobodyPlays
    <2>2. ASSUME NEW l \in {1, 2}, NEW p \in Players, new.tid[l] = p
          PROVE  /\ \A h \in 1 .. NUM_GAMES, i \in {1, 2} : h # g => ~ Sits(h, i, p)
                 /\ Seatable(p)' /\ new.choice[l] = Standing(p)'
      <3>1. p \in {t, u} /\ Sits(g, l, p)
        BY <1>5, <1>6, <2>2 DEF Sits
      <3>2. new.choice[l] = NONE
        BY <1>6
      <3> QED BY <1>1, <1>12, <3>1, <3>2 DEF SeatedSound
    <2>3. ASSUME NEW h \in 1 .. NUM_GAMES, NEW l \in {1, 2}, NEW p \in Players, h # g, Sits(h, l, p)
          PROVE  Seatable(p)' /\ Standing(p)' = Standing(p)
      <3>1. p \notin {t, u}
        BY <1>1, <1>5, <2>3 DEF SeatedSound
      <3> QED BY <1>1, <1>11, <2>3, <3>1 DEF SeatedSound
    <2>4. RTypes /\ SeatedSound /\ games' = [games EXCEPT ![g] = new]
      BY <1>1, <1>7
    <2>5. \A l \in {1, 2}, p \in Players : new.tid[l] = p =>
             /\ \A h \in 1 .. NUM_GAMES, i \in {1, 2} : h # g => ~ Sits(h, i, p)
             /\ Seatable(p)' /\ new.choice[l] = Standing(p)'
      BY <2>2
    <2>6. \A h \in 1 .. NUM_GAMES, l \in {1, 2}, p \in Players : h # g /\ Sits(h, l, p) =>
             Seatable(p)' /\ Standing(p)' = Standing(p)
      BY <2>3
    <2> QED BY <2>1, <2>4, <2>5, <2>6, SeatsWritten, Zenon
  <1>15. RTypes'
    <2>1. games' \in [1 .. NUM_GAMES -> Tables]
      BY <1>1, <1>7, Writes
    <2> QED BY <1>1, <1>2, <1>7, <1>8, <2>1, Zenon DEF RTypes
  <1>16. AnswersSound'
    <2>1. PICK T \in SUBSET Players : T = {t, u}
      OBVIOUS
    <2>2. server' # "wild"
      BY <1>1 DEF AnswersSound
    <2>3. \A q \in T : player[q].at = "playing"
                          /\ player'[q].got.tag \in {"PLAY_RESP", "OTHER_PLAYER_QUIT"}
      BY <1>5, <1>9, <2>1
    <2>4. \A q \in Players : /\ player'[q].at = player[q].at /\ player'[q].choice = player[q].choice
                             /\ q \notin T => player'[q] = player[q]
      BY <1>8, <2>1
    <2> QED BY <1>1, <2>2, <2>3, <2>4, AnswersKept
  <1> QED BY <1>7, <1>10, <1>13, <1>14, <1>15, <1>16 DEF RInv

\* A player quits, and nobody waits for a game.
LEMMA QuitsAlone ==
  ASSUME RInv, NEW t \in Players, Takes("QUIT", t), NEW g \in 1 .. NUM_GAMES, Has(g, t),
         QuitAlone(g, t), UNCHANGED server
  PROVE  RInv' /\ UNCHANGED setup
  <1>1. RTypes /\ MailSound /\ QueueSound /\ SeatedSound /\ AnswersSound
    BY DEF RInv
  <1>2. /\ mailbox' \in Seq(Requests) /\ player[t].at = "quitting" /\ player[t].got = Waits
        /\ Unread(t) /\ ~ Unread(t)' /\ \A q \in Players : q # t => (Unread(q)' <=> Unread(q))
    BY <1>1, Taken, TagsAre
  <1>3. PICK k \in {1, 2} : Sits(g, k, t)
    BY <1>1, SeatIs
  <1>4. PICK new \in Tables : new = NoGame /\ new.tid[1] = Nobody /\ new.tid[2] = Nobody
    BY GameTypes DEF NoGame
  <1>5. PICK A : A = [p \in {t} |-> Just("ACK")]
    OBVIOUS
  <1>6. /\ DOMAIN A = {t} /\ A[t] = Just("ACK") /\ Tell(A)
        /\ \A p \in Players : p \in DOMAIN A => A[p] \in Answers
    BY <1>5, TagsAre DEF QuitAlone
  <1>7. games' = [games EXCEPT ![g] = new] /\ queue' = queue /\ setup' = setup
    BY <1>4 DEF QuitAlone, Takes
  <1>8. /\ player' \in [Players -> Persons]
        /\ \A p \in Players :
              /\ player'[p].at = player[p].at /\ player'[p].choice = player[p].choice
              /\ p \in DOMAIN A => player'[p].got = A[p]
              /\ p \notin DOMAIN A => player'[p] = player[p]
    BY <1>1, <1>6, Telling
  <1>9. \A q \in Players : q # t => player'[q] = player[q]
    BY <1>6, <1>8
  <1>10. MailSound'
    <2>1. \A q \in Players : Unread(q)' => player'[q] = player[q]
      BY <1>2, <1>9
    <2> QED BY <1>1, <2>1, Taken
  <1>11. \A q \in Players : q # t =>
            (Queues(q)' <=> Queues(q)) /\ (Seatable(q)' <=> Seatable(q)) /\ Standing(q)' = Standing(q)
    BY <1>2, <1>9 DEF Queues, Seatable, Standing, Blocked
  <1>12. QueueSound'
    <2>1. ~ Queues(t)' /\ ~ Queues(t)
      BY <1>2, <1>8 DEF Queues
    <2> QED BY <1>1, <1>7, <1>11, <2>1 DEF QueueSound
  <1>13. SeatedSound'
    <2>1. /\ new.tid[1] # Nobody => new.tid[1] # new.tid[2]
          /\ new.tid[1] = Nobody <=> new.tid[2] = Nobody
      BY <1>4
    <2>2. \A l \in {1, 2}, p \in Players : new.tid[l] # p
      BY <1>4, NobodyPlays
    <2>3. \A l \in {1, 2}, p \in Players : new.tid[l] = p =>
             /\ \A h \in 1 .. NUM_GAMES, i \in {1, 2} : h # g => ~ Sits(h, i, p)
             /\ Seatable(p)' /\ new.choice[l] = Standing(p)'
      BY <2>2
    <2>4. \A h \in 1 .. NUM_GAMES, l \in {1, 2}, p \in Players : h # g /\ Sits(h, l, p) =>
             Seatable(p)' /\ Standing(p)' = Standing(p)
      BY <1>1, <1>3, <1>11 DEF SeatedSound
    <2>5. RTypes /\ SeatedSound /\ games' = [games EXCEPT ![g] = new]
      BY <1>1, <1>7
    <2> QED BY <2>1, <2>3, <2>4, <2>5, SeatsWritten, Zenon
  <1>14. RTypes'
    <2>1. games' \in [1 .. NUM_GAMES -> Tables]
      BY <1>1, <1>7, Writes
    <2> QED BY <1>1, <1>2, <1>7, <1>8, <2>1, Zenon DEF RTypes
  <1>15. AnswersSound'
    <2>1. PICK T \in SUBSET Players : T = {t}
      OBVIOUS
    <2>2. server' # "wild"
      BY <1>1 DEF AnswersSound
    <2>3. \A q \in T : player[q].at = "quitting"
      BY <1>2, <2>1
    <2>4. \A q \in Players : /\ player'[q].at = player[q].at /\ player'[q].choice = player[q].choice
                             /\ q \notin T => player'[q] = player[q]
      BY <1>8, <1>9, <2>1
    <2> QED BY <1>1, <2>2, <2>3, <2>4, AnswersKept
  <1> QED BY <1>7, <1>10, <1>12, <1>13, <1>14, <1>15 DEF RInv

\* A player quits, and whoever waits for a game takes its place.
LEMMA QuitsReplaced ==
  ASSUME RInv, NEW t \in Players, Takes("QUIT", t), NEW g \in 1 .. NUM_GAMES, Has(g, t),
         QuitReplaced(g, t), UNCHANGED server
  PROVE  RInv' /\ UNCHANGED setup
  <1>1. RTypes /\ MailSound /\ QueueSound /\ SeatedSound /\ AnswersSound
    BY DEF RInv
  <1>2. /\ mailbox' \in Seq(Requests) /\ player[t].at = "quitting" /\ player[t].got = Waits
        /\ Unread(t) /\ ~ Unread(t)' /\ \A q \in Players : q # t => (Unread(q)' <=> Unread(q))
    BY <1>1, Taken, TagsAre
  <1>3. PICK k \in {1, 2}, s \in Players :
           /\ k = Seat(g, t) /\ s = Other(g, t) /\ s # t /\ Sits(g, k, t) /\ Sits(g, 3 - k, s)
           /\ Seat(g, s) = 3 - k /\ games[g].choice[3 - k] = Standing(s)
           /\ 3 - k \in {1, 2} /\ 3 - k # k
    BY <1>1, SeatIs
  <1>4. PICK w \in Players : w = Head(queue) /\ queue = <<w>>
    BY <1>1, QueueIs DEF QuitReplaced
  <1>5. player[w].at = "signing up" /\ player[w].got = Waits /\ ~ Unread(w)
    BY <1>1, <1>4 DEF QueueSound, Queues, Blocked
  <1>6. \A h \in 1 .. NUM_GAMES, i \in {1, 2} : ~ Sits(h, i, w)
    BY <1>1, <1>5, NoSeatYet
  <1>7. w # t /\ w # s
    BY <1>2, <1>3, <1>5, <1>6
  <1>8. PICK c \in Choices : c = games[g].choice[3 - k] /\ c = Standing(s)
    BY <1>1, <1>3, TableTypes
  <1>9. PICK new \in Tables :
           /\ new = Rematched(g, s, w) /\ new.tid[1] = s /\ new.tid[2] = w
           /\ new.choice[1] = c /\ new.choice[2] = NONE
    <2>1. PICK game \in Tables : game = Game(s, w) /\ game.tid[1] = s /\ game.tid[2] = w
                                 /\ game.choice[2] = NONE
      BY GameTypes
    <2>2. 1 \in {1, 2} /\ 3 - 1 = 2
      OBVIOUS
    <2>3. PICK one \in {1, 2} : one = 1
      OBVIOUS
    <2>4. With(game, one, c) \in Tables /\ With(game, one, c).tid = game.tid
          /\ With(game, one, c).choice[one] = c /\ With(game, one, c).choice[3 - one] = game.choice[3 - one]
      BY WithTypes
    <2>5. Rematched(g, s, w) = With(game, 1, c)
      BY <1>3, <1>8, <2>1 DEF Rematched
    <2> QED BY <2>1, <2>3, <2>4, <2>5
  <1>10. PICK A : A = [p \in {t, w} |-> Just("ACK")]
    OBVIOUS
  <1>11. /\ DOMAIN A = {t, w} /\ A[t] = Just("ACK") /\ A[w] = Just("ACK") /\ Tell(A)
         /\ \A p \in Players : p \in DOMAIN A => A[p] \in Answers
    BY <1>4, <1>10, TagsAre DEF QuitReplaced
  <1>12. games' = [games EXCEPT ![g] = new] /\ queue' = <<>> /\ setup' = setup
    BY <1>3, <1>4, <1>9 DEF QuitReplaced, Takes
  <1>13. /\ player' \in [Players -> Persons]
         /\ \A p \in Players :
               /\ player'[p].at = player[p].at /\ player'[p].choice = player[p].choice
               /\ p \in DOMAIN A => player'[p].got = A[p]
               /\ p \notin DOMAIN A => player'[p] = player[p]
    BY <1>1, <1>11, Telling
  <1>14. /\ \A q \in Players : q \notin {t, w} => player'[q] = player[q]
         /\ player'[w].got = Just("ACK") /\ player'[w].at = "signing up"
    BY <1>5, <1>11, <1>13
  <1>15. MailSound'
    <2>1. \A q \in Players : Unread(q)' => player'[q] = player[q]
      BY <1>2, <1>5, <1>7, <1>14
    <2> QED BY <1>1, <2>1, Taken
  <1>16. \A q \in Players : q \notin {t, w} =>
            (Queues(q)' <=> Queues(q)) /\ (Seatable(q)' <=> Seatable(q)) /\ Standing(q)' = Standing(q)
    <2>1. PICK S \in SUBSET Players : S = {t, w}
      OBVIOUS
    <2>2. \A q \in Players : q \notin S => player'[q] = player[q] /\ (Unread(q)' <=> Unread(q))
      BY <1>2, <1>14, <2>1
    <2> QED BY <1>1, <2>1, <2>2, OthersStay
  <1>17. Seatable(w)' /\ Standing(w)' = NONE /\ ~ Queues(w)'
    BY <1>14, TagsAre DEF Seatable, Standing, Queues, Blocked
  <1>18. QueueSound'
    <2>1. \A q \in Players : q # w => ~ Queues(q)
      BY <1>1, <1>4, QueueIs DEF QueueSound
    <2>2. ~ Queues(t)'
      BY <1>2, <1>13 DEF Queues
    <2>3. \A q \in Players : ~ Queues(q)'
      BY <1>16, <1>17, <2>1, <2>2
    <2>4. \A q \in Players : <<>> # <<q>>
      OBVIOUS
    <2> QED BY <1>12, <2>3, <2>4 DEF QueueSound
  <1>19. SeatedSound'
    <2>1. /\ new.tid[1] # Nobody => new.tid[1] # new.tid[2]
          /\ new.tid[1] = Nobody <=> new.tid[2] = Nobody
      BY <1>7, <1>9, NobodyPlays
    <2>2. ASSUME NEW l \in {1, 2}, NEW p \in Players, new.tid[l] = p
          PROVE  /\ \A h \in 1 .. NUM_GAMES, i \in {1, 2} : h # g => ~ Sits(h, i, p)
                 /\ Seatable(p)' /\ new.choice[l] = Standing(p)'
      <3>1. CASE l = 1
        <4>1. p = s /\ new.choice[l] = c
          BY <1>9, <2>2, <3>1
        <4>2. Seatable(s) /\ \A h \in 1 .. NUM_GAMES, i \in {1, 2} : h # g => ~ Sits(h, i, s)
          BY <1>1, <1>3 DEF SeatedSound
        <4>3. Seatable(s)' /\ Standing(s)' = c
          BY <1>3, <1>7, <1>8, <1>16, <4>2
        <4> QED BY <4>1, <4>2, <4>3
      <3>2. CASE l = 2
        BY <1>6, <1>9, <1>17, <2>2, <3>2
      <3> QED BY <3>1, <3>2
    <2>3. ASSUME NEW h \in 1 .. NUM_GAMES, NEW l \in {1, 2}, NEW p \in Players, h # g, Sits(h, l, p)
          PROVE  Seatable(p)' /\ Standing(p)' = Standing(p)
      <3>1. p \notin {t, w}
        BY <1>1, <1>3, <1>6, <2>3 DEF SeatedSound
      <3> QED BY <1>1, <1>16, <2>3, <3>1 DEF SeatedSound
    <2>4. RTypes /\ SeatedSound /\ games' = [games EXCEPT ![g] = new]
      BY <1>1, <1>12
    <2>5. \A l \in {1, 2}, p \in Players : new.tid[l] = p =>
             /\ \A h \in 1 .. NUM_GAMES, i \in {1, 2} : h # g => ~ Sits(h, i, p)
             /\ Seatable(p)' /\ new.choice[l] = Standing(p)'
      BY <2>2
    <2>6. \A h \in 1 .. NUM_GAMES, l \in {1, 2}, p \in Players : h # g /\ Sits(h, l, p) =>
             Seatable(p)' /\ Standing(p)' = Standing(p)
      BY <2>3
    <2> QED BY <2>1, <2>4, <2>5, <2>6, SeatsWritten, Zenon
  <1>20. RTypes'
    <2>1. games' \in [1 .. NUM_GAMES -> Tables]
      BY <1>1, <1>12, Writes
    <2>2. queue' \in Seq(Players) /\ Len(queue') <= 1
      BY <1>12
    <2> QED BY <1>1, <1>2, <1>12, <1>13, <2>1, <2>2, Zenon DEF RTypes
  <1>21. AnswersSound'
    <2>1. PICK T \in SUBSET Players : T = {t, w}
      OBVIOUS
    <2>2. server' # "wild"
      BY <1>1 DEF AnswersSound
    <2>3. \A q \in T : \/ player[q].at = "signing up" /\ player'[q].got = Just("ACK")
                       \/ player[q].at = "quitting"
      BY <1>2, <1>5, <1>14, <2>1
    <2>4. \A q \in Players : /\ player'[q].at = player[q].at /\ player'[q].choice = player[q].choice
                             /\ q \notin T => player'[q] = player[q]
      BY <1>13, <1>14, <2>1
    <2> QED BY <1>1, <2>2, <2>3, <2>4, AnswersKept
  <1> QED BY <1>12, <1>15, <1>18, <1>19, <1>20, <1>21 DEF RInv

-----------------------------------------------------------------------------
(* The players.                                                            *)

LEMMA MailTypes ==
  ASSUME RTypes
  PROVE  \A i \in DOMAIN mailbox :
            mailbox[i].from \in Players /\ mailbox[i].tag \in {"SIGNUP", "PLAY", "QUIT"}
  <1>1. mailbox \in Seq(Requests)
    BY DEF RTypes
  <1>2. \A i \in DOMAIN mailbox : mailbox[i] \in Requests
    BY <1>1
  <1> QED BY <1>2 DEF Requests

LEMMA UnreadIs ==
  ASSUME RTypes, MailSound, NEW p \in Players, Unread(p)
  PROVE  player[p].at \in {"signing up", "playing", "quitting"} /\ player[p].got = Waits
  <1>1. PICK i \in DOMAIN mailbox : mailbox[i].from = p
    BY DEF Unread
  <1>2. mailbox[i].tag \in {"SIGNUP", "PLAY", "QUIT"}
    BY <1>1, MailTypes
  <1> QED BY <1>1, <1>2, TagsAre DEF MailSound

LEMMA MailStays ==
  ASSUME RTypes, MailSound, NEW p \in Players, ~ Unread(p), UNCHANGED mailbox,
         \A q \in Players : q # p => player'[q] = player[q]
  PROVE  MailSound' /\ \A q \in Players : Unread(q)' <=> Unread(q)
  <1>1. \A i \in DOMAIN mailbox : mailbox[i].from \in Players /\ mailbox[i].from # p
    BY MailTypes DEF Unread
  <1> QED BY <1>1 DEF MailSound, Unread

LEMMA GoesIs ==
  ASSUME RTypes, NEW p \in Players, NEW place \in Places, Goes(p, place)
  PROVE  \E r \in Persons : /\ player' = [player EXCEPT ![p] = r]
                            /\ r.at = place /\ r.got = Waits /\ r.choice = player[p].choice
  <1>1. player[p] \in Persons
    BY PersonTypes
  <1>2. PICK r : r = [player[p] EXCEPT !.at = place, !.got = Waits]
    OBVIOUS
  <1>3. r \in Persons /\ r.at = place /\ r.got = Waits /\ r.choice = player[p].choice
    BY <1>1, <1>2, TagsAre DEF Persons
  <1>4. player' = [player EXCEPT ![p] = r]
    BY <1>2 DEF Goes, RTypes
  <1> QED BY <1>3, <1>4

\* A step of a player that asks nobody.
LEMMA GoesKeeps ==
  ASSUME RInv, NEW p \in Players, NEW place \in Places, Goes(p, place),
         UNCHANGED <<mailbox, queue, games>>, setup' \in Seq(Players \cup {RpsServer}),
         ~ Unread(p), ~ Queues(p), server' # "wild", place \notin {"panics", "signing up", "playing"},
         Seatable(p) => place = "plays" /\ Standing(p) = NONE
  PROVE  RInv'
  <1>1. RTypes /\ MailSound /\ QueueSound /\ SeatedSound /\ AnswersSound
    BY DEF RInv
  <1>2. PICK r \in Persons : /\ player' = [player EXCEPT ![p] = r]
                             /\ r.at = place /\ r.got = Waits /\ r.choice = player[p].choice
    BY <1>1, GoesIs
  <1>3. player'[p] = r /\ \A q \in Players : q # p => player'[q] = player[q]
    BY <1>1, <1>2, Zenon DEF RTypes
  <1>4. MailSound' /\ \A q \in Players : Unread(q)' <=> Unread(q)
    BY <1>1, <1>3, MailStays
  <1>5. Seatable(p) => Seatable(p)' /\ Standing(p)' = Standing(p)
    BY <1>2, <1>3 DEF Seatable, Standing
  <1>6. player' \in [Players -> Persons] /\ QueueSound' /\ SeatedSound' /\ AnswersSound'
    BY <1>1, <1>2, <1>4, <1>5, PlayerMoves
  <1>7. RTypes'
    BY <1>1, <1>6, Zenon DEF RTypes
  <1> QED BY <1>4, <1>6, <1>7 DEF RInv

\* A step of a player that sends a request.
LEMMA AsksKeeps ==
  ASSUME RInv, NEW p \in Players, NEW tag \in {"SIGNUP", "PLAY", "QUIT"}, NEW c \in Choices,
         Asks(p, tag, c), NEW r \in Persons, player' = [player EXCEPT ![p] = r],
         r.at = Asking[tag], r.got = Waits, tag = "PLAY" => c = r.choice /\ r.choice # NONE,
         player[p].at = IF tag = "SIGNUP" THEN "signs up" ELSE "plays"
  PROVE  RInv'
  <1>1. RTypes /\ MailSound /\ QueueSound /\ SeatedSound /\ AnswersSound
    BY DEF RInv
  <1>2. ~ Unread(p)
    BY <1>1, UnreadIs
  <1>3. /\ mailbox' \in Seq(Requests) /\ MailSound' /\ Unread(p)'
        /\ \A q \in Players : q # p => (Unread(q)' <=> Unread(q))
    BY <1>1, <1>2, AskIsSound
  <1>4. UNCHANGED <<setup, server, queue, games>>
    BY DEF Asks
  <1>5. player'[p] = r
    BY <1>1 DEF RTypes
  <1>6. ~ Queues(p)
    BY DEF Queues
  <1>7. Seatable(p) => Seatable(p)' /\ Standing(p)' = Standing(p)
    BY <1>3, <1>5, TagsAre DEF Seatable, Standing, Blocked
  <1>8. r.at # "panics" /\ (r.at = "playing" => r.choice # NONE) /\ server' # "wild"
    BY <1>1, <1>4, TagsAre DEF AnswersSound
  <1>9. player' \in [Players -> Persons] /\ QueueSound' /\ SeatedSound' /\ AnswersSound'
    BY <1>1, <1>3, <1>4, <1>6, <1>7, <1>8, PlayerMoves
  <1>10. RTypes'
    BY <1>1, <1>3, <1>4, <1>9, Zenon DEF RTypes
  <1> QED BY <1>3, <1>9, <1>10 DEF RInv

\* An answer never makes a player panic.
LEMMA AnsweredIs ==
  ASSUME RInv, NEW p \in Players, Answered(p)
  PROVE  /\ Goes(p, Then(player[p].at, player[p].got.tag))
         /\ Then(player[p].at, player[p].got.tag) \in {"plays", "gone"}
         /\ ~ Unread(p) /\ ~ Queues(p)
         /\ Seatable(p) => Then(player[p].at, player[p].got.tag) = "plays" /\ Standing(p) = NONE
         /\ UNCHANGED nvars
  <1>1. RTypes /\ MailSound /\ AnswersSound
    BY DEF RInv
  <1>2. /\ player[p].at \in {"signing up", "playing", "quitting"} /\ player[p].got # Waits
        /\ Goes(p, Then(player[p].at, player[p].got.tag))
    BY DEF Answered, At
  <1>3. ~ Unread(p)
    BY <1>1, <1>2, UnreadIs
  <1>4. \/ player[p].at = "signing up" /\ player[p].got.tag = "ACK"
        \/ player[p].at = "playing" /\ player[p].got.tag = "PLAY_RESP"
        \/ player[p].at = "playing" /\ player[p].got.tag = "OTHER_PLAYER_QUIT"
        \/ player[p].at = "quitting"
    BY <1>1, <1>2, TagsAre DEF AnswersSound
  <1>5. /\ Then(player[p].at, player[p].got.tag) \in {"plays", "gone"}
        /\ Seatable(p) => Then(player[p].at, player[p].got.tag) = "plays"
    BY <1>2, <1>4 DEF Then, Seatable
  <1>6. ~ Queues(p) /\ Standing(p) = NONE
    BY <1>2 DEF Queues, Standing, Blocked
  <1>7. player'[p].at # "panics"
    <2>1. PICK place \in Places : place = Then(player[p].at, player[p].got.tag) /\ place # "panics"
      BY <1>5 DEF Places
    <2>2. Goes(p, place)
      BY <1>2, <2>1 DEF Goes
    <2>3. PICK r \in Persons : player' = [player EXCEPT ![p] = r] /\ r.at = place
      BY <1>1, <2>2, GoesIs
    <2> QED BY <1>1, <2>1, <2>3 DEF RTypes
  <1> QED BY <1>2, <1>3, <1>5, <1>6, <1>7 DEF Answered

LEMMA PlayerRInv ==
  ASSUME RInv, NEW p \in Players, Player(p)
  PROVE  RInv'
  <1>1. RTypes /\ MailSound /\ AnswersSound /\ player[p] \in Persons
    BY PersonTypes DEF RInv
  <1>2. server # "wild"
    BY <1>1 DEF AnswersSound
  <1>3. setup \in Seq(Players \cup {RpsServer})
    BY <1>1 DEF RTypes
  <1>4. ASSUME player[p].at \in {"new", "looks", "looking", "signs up", "plays"}
        PROVE  ~ Unread(p) /\ ~ Queues(p)
    BY <1>1, <1>4, UnreadIs DEF Queues
  <1>5. CASE PlayerConfigured(p)
    <2>1. /\ player[p].at = "new" /\ Goes(p, "looks") /\ UNCHANGED <<mailbox, queue, games, server>>
          /\ setup # <<>> /\ setup' = Tail(setup)
      BY <1>5 DEF PlayerConfigured, At
    <2>2. setup' \in Seq(Players \cup {RpsServer})
      BY <1>3, <2>1
    <2> QED BY <1>2, <1>4, <2>1, <2>2, GoesKeeps DEF Seatable, Places
  <1>6. CASE Looks(p)
    BY <1>2, <1>3, <1>4, <1>6, GoesKeeps DEF Looks, At, Seatable, Places
  <1>7. CASE Finds(p)
    BY <1>2, <1>3, <1>4, <1>7, GoesKeeps DEF Finds, At, Seatable, Places
  <1>8. CASE SignsUp(p)
    <2>1. PICK place \in Places : place = "signing up" /\ Goes(p, place)
      BY <1>8 DEF SignsUp, Places, Goes
    <2>2. PICK r \in Persons : /\ player' = [player EXCEPT ![p] = r]
                               /\ r.at = place /\ r.got = Waits /\ r.choice = player[p].choice
      <3>1. RTypes /\ Goes(p, place)
        BY <1>1, <2>1
      <3> QED BY <3>1, GoesIs
    <2>3. Asks(p, "SIGNUP", NONE) /\ NONE \in Choices /\ player[p].at = "signs up"
      BY <1>8 DEF SignsUp, At, Choices
    <2> QED BY <2>1, <2>2, <2>3, TagsAre, AsksKeeps
  <1>9. CASE Quits(p)
    <2>1. PICK place \in Places : place = "quitting" /\ Goes(p, place)
      BY <1>9 DEF Quits, Places, Goes
    <2>2. PICK r \in Persons : /\ player' = [player EXCEPT ![p] = r]
                               /\ r.at = place /\ r.got = Waits /\ r.choice = player[p].choice
      <3>1. RTypes /\ Goes(p, place)
        BY <1>1, <2>1
      <3> QED BY <3>1, GoesIs
    <2>3. Asks(p, "QUIT", NONE) /\ NONE \in Choices /\ player[p].at = "plays"
      BY <1>9 DEF Quits, At, Choices
    <2> QED BY <2>1, <2>2, <2>3, TagsAre, AsksKeeps
  <1>10. CASE Plays(p)
    <2>1. PICK c \in Hands :
             /\ Asks(p, "PLAY", c)
             /\ player' = [player EXCEPT ![p] = [at |-> "playing", left |-> player[p].left - 1,
                                                 choice |-> c, got |-> Waits]]
      BY <1>1, <1>10 DEF Plays, RTypes
    <2>2. player[p].left - 1 \in Nat /\ player[p].at = "plays"
      BY <1>1, <1>10, PersonTypes DEF Plays, At
    <2>3. c \in Choices /\ c # NONE
      BY TagsAre DEF Choices
    <2>4. PICK r : r = [at |-> "playing", left |-> player[p].left - 1, choice |-> c, got |-> Waits]
      OBVIOUS
    <2>5. r \in Persons /\ r.choice = c /\ r.at = "playing" /\ r.got = Waits
      BY <2>2, <2>3, <2>4, TagsAre DEF Persons, Places
    <2>6. player' = [player EXCEPT ![p] = r]
      BY <2>1, <2>4
    <2>7. PICK tag \in {"SIGNUP", "PLAY", "QUIT"} : tag = "PLAY"
      OBVIOUS
    <2>8. Asks(p, tag, c) /\ r.at = Asking[tag]
      BY <2>1, <2>5, <2>7, TagsAre
    <2> QED BY <2>2, <2>3, <2>5, <2>6, <2>7, <2>8, AsksKeeps
  <1>11. CASE Answered(p)
    <2>1. PICK place \in Places :
             place = Then(player[p].at, player[p].got.tag) /\ place \in {"plays", "gone"}
      BY <1>11, AnsweredIs DEF Places
    <2>2. UNCHANGED <<setup, server, mailbox, queue, games>>
      BY <1>11 DEF Answered
    <2> QED BY <1>2, <1>3, <1>11, <2>1, <2>2, AnsweredIs, GoesKeeps
  <1> QED BY <1>5, <1>6, <1>7, <1>8, <1>9, <1>10, <1>11 DEF Player

-----------------------------------------------------------------------------
(* The server.                                                             *)

LEMMA TellStays ==
  ASSUME RTypes, NEW A, Tell(A)
  PROVE  \A p \in Players : player'[p].at = player[p].at /\ (p \notin DOMAIN A => player'[p] = player[p])
  <1>1. \A p \in Players : player[p] \in Persons
    BY PersonTypes
  <1>2. \A r \in Persons : \A a : [r EXCEPT !.got = a].at = r.at
    BY DEF Persons
  <1> QED BY <1>1, <1>2 DEF Tell

\* The cases of a request served.
LEMMA ServedCases ==
  ASSUME RInv, NEW t \in Players, Signup(t) \/ Play(t) \/ Quit(t)
  PROVE  /\ UNCHANGED <<setup, nvars>> /\ server = "serves"
         /\ \/ Takes("SIGNUP", t) /\ Queued(t)
            \/ Takes("SIGNUP", t) /\ queue # <<>> /\ Matched(t, Head(queue))
            \/ /\ Takes("PLAY", t) /\ GamesOf(t) = {} /\ UNCHANGED <<games, queue, server>>
               /\ Tell([p \in {t} |-> Just("OTHER_PLAYER_QUIT")])
            \/ \E g \in 1 .. NUM_GAMES :
                  /\ Takes("PLAY", t) /\ Has(g, t) /\ UNCHANGED <<queue, server>>
                  /\ Round(g, With(games[g], Seat(g, t), Head(mailbox).choice))
            \/ /\ Takes("QUIT", t) /\ GamesOf(t) = {} /\ UNCHANGED <<games, queue, server>>
               /\ Tell([p \in {t} |-> Just("ACK")])
            \/ \E g \in 1 .. NUM_GAMES :
                  /\ Takes("QUIT", t) /\ Has(g, t) /\ UNCHANGED server
                  /\ QuitAlone(g, t) \/ QuitReplaced(g, t)
  <1>1. RTypes
    BY DEF RInv
  <1>2. UNCHANGED <<setup, nvars>> /\ server = "serves"
    BY DEF Signup, Play, Quit, Takes
  <1>3. CASE Signup(t)
    BY <1>2, <1>3 DEF Signup
  <1>4. CASE Play(t)
    <2>1. CASE GamesOf(t) = {}
      BY <1>2, <1>4, <2>1 DEF Play
    <2>2. CASE GamesOf(t) # {}
      <3>1. PICK g \in 1 .. NUM_GAMES : g = First(GamesOf(t)) /\ Has(g, t)
        BY <1>1, <2>2, GamesOfIs
      <3>2. /\ Takes("PLAY", t) /\ UNCHANGED <<queue, server>>
            /\ Round(g, With(games[g], Seat(g, t), Head(mailbox).choice))
        BY <1>4, <2>2, <3>1 DEF Play
      <3> QED BY <1>2, <3>1, <3>2
    <2> QED BY <2>1, <2>2
  <1>5. CASE Quit(t)
    <2>1. CASE GamesOf(t) = {}
      BY <1>2, <1>5, <2>1 DEF Quit
    <2>2. CASE GamesOf(t) # {}
      <3>1. PICK g \in 1 .. NUM_GAMES : g = First(GamesOf(t)) /\ Has(g, t)
        BY <1>1, <2>2, GamesOfIs
      <3>2. Takes("QUIT", t) /\ UNCHANGED server /\ (QuitAlone(g, t) \/ QuitReplaced(g, t))
        BY <1>5, <2>2, <3>1 DEF Quit
      <3> QED BY <1>2, <3>1, <3>2
    <2> QED BY <2>1, <2>2
  <1> QED BY <1>3, <1>4, <1>5

LEMMA ServedRInv ==
  ASSUME RInv, NEW t \in Players, Signup(t) \/ Play(t) \/ Quit(t)
  PROVE  /\ RInv' /\ UNCHANGED <<nvars, setup, server>> /\ server = "serves"
         /\ \A p \in Players : player'[p].at = player[p].at
  <1>1. UNCHANGED <<setup, nvars>> /\ server = "serves"
    BY ServedCases
  <1>2. RTypes
    BY DEF RInv
  <1>3. CASE Takes("SIGNUP", t) /\ Queued(t)
    BY <1>1, <1>3, SignupQueues DEF Queued
  <1>4. CASE Takes("SIGNUP", t) /\ queue # <<>> /\ Matched(t, Head(queue))
    <2>1. EmptyGames = {} \/ EmptyGames # {}
      OBVIOUS
    <2>2. \A p \in Players : player'[p].at = player[p].at
      BY <1>2, <1>4, <2>1, TellStays DEF Matched
    <2> QED BY <1>1, <1>4, <2>2, SignupMatches
  <1>5. CASE /\ Takes("PLAY", t) /\ GamesOf(t) = {} /\ UNCHANGED <<games, queue, server>>
             /\ Tell([p \in {t} |-> Just("OTHER_PLAYER_QUIT")])
    <2>1. PICK a \in Answers, tag \in {"PLAY", "QUIT"} :
             tag = "PLAY" /\ a = Just("OTHER_PLAYER_QUIT")
      BY TagsAre
    <2>2. /\ Takes(tag, t) /\ Tell([p \in {t} |-> a])
          /\ a = Just(IF tag = "PLAY" THEN "OTHER_PLAYER_QUIT" ELSE "ACK")
      BY <1>5, <2>1
    <2>3. RInv'
      BY <1>5, <2>2, LeftAlone
    <2>4. \A p \in Players : player'[p].at = player[p].at
      BY <1>2, <1>5, TellStays
    <2> QED BY <1>1, <1>5, <2>3, <2>4
  <1>6. ASSUME NEW g \in 1 .. NUM_GAMES, Takes("PLAY", t), Has(g, t), UNCHANGED <<queue, server>>,
               Round(g, With(games[g], Seat(g, t), Head(mailbox).choice))
        PROVE  RInv' /\ \A p \in Players : player'[p].at = player[p].at
    <2> DEFINE game == With(games[g], Seat(g, t), Head(mailbox).choice)
    <2>1. CASE IsOver(game)
      <3>1. \A p \in Players : player'[p].at = player[p].at
        BY <1>2, <1>6, <2>1, TellStays DEF Round
      <3> QED BY <1>6, <2>1, <3>1, RoundEnds
    <2>2. CASE ~ IsOver(game)
      <3>1. \A p \in Players : player'[p].at = player[p].at
        BY <1>6, <2>2 DEF Round
      <3> QED BY <1>6, <2>2, <3>1, RoundOpens
    <2> QED BY <2>1, <2>2
  <1>7. CASE /\ Takes("QUIT", t) /\ GamesOf(t) = {} /\ UNCHANGED <<games, queue, server>>
             /\ Tell([p \in {t} |-> Just("ACK")])
    <2>1. PICK a \in Answers, tag \in {"PLAY", "QUIT"} : tag = "QUIT" /\ a = Just("ACK")
      BY TagsAre
    <2>2. /\ Takes(tag, t) /\ Tell([p \in {t} |-> a])
          /\ a = Just(IF tag = "PLAY" THEN "OTHER_PLAYER_QUIT" ELSE "ACK")
      BY <1>7, <2>1
    <2>3. RInv'
      BY <1>7, <2>2, LeftAlone
    <2>4. \A p \in Players : player'[p].at = player[p].at
      BY <1>2, <1>7, TellStays
    <2> QED BY <1>1, <1>7, <2>3, <2>4
  <1>8. ASSUME NEW g \in 1 .. NUM_GAMES, Takes("QUIT", t), Has(g, t), UNCHANGED server,
               QuitAlone(g, t) \/ QuitReplaced(g, t)
        PROVE  RInv' /\ \A p \in Players : player'[p].at = player[p].at
    <2>1. \A p \in Players : player'[p].at = player[p].at
      BY <1>2, <1>8, TellStays DEF QuitAlone, QuitReplaced
    <2> QED BY <1>8, <2>1, QuitsAlone, QuitsReplaced
  <1> QED
    <2>1. RInv' /\ server' = server /\ \A p \in Players : player'[p].at = player[p].at
      BY <1>3, <1>4, <1>5, <1>6, <1>7, <1>8, ServedCases
    <2> QED BY <1>1, <2>1

\* The other steps of the server, those of the name server and those of the other tasks
\* leave the players, their requests and the games alone.
LEMMA RestKept ==
  ASSUME RInv, UNCHANGED <<mailbox, queue, games, player>>,
         setup' \in Seq(Players \cup {RpsServer}), server' # "wild"
  PROVE  RInv'
  <1>1. RTypes' /\ AnswersSound'
    BY DEF RInv, RTypes, AnswersSound
  <1>2. \A p \in Players : /\ Unread(p)' = Unread(p) /\ Queues(p)' = Queues(p)
                           /\ Seatable(p)' = Seatable(p) /\ Standing(p)' = Standing(p)
    BY DEF Unread, Queues, Seatable, Standing, Blocked
  <1>3. MailSound' /\ QueueSound'
    BY <1>2 DEF RInv, MailSound, QueueSound
  <1>4. SeatedSound'
    BY <1>2 DEF RInv, SeatedSound, Sits
  <1> QED BY <1>1, <1>3, <1>4 DEF RInv
-----------------------------------------------------------------------------
(* The calls of the name server.                                           *)

LEMMA Sends ==
  ASSUME NInv, NEW t \in Task, NEW kind \in Kinds, NEW n \in Name, Send(t, kind, n)
  PROVE  /\ call'[t].at = "sent" /\ call'[t].kind = kind /\ call'[t].name = n
         /\ \A u \in Task : u # t => call'[u] = call[u]
         /\ UNCHANGED <<names, index, state>> /\ NNext
  <1>1. call \in [Task -> CallRecords]
    BY DEF NInv, NType
  <1>2. call' = [call EXCEPT ![t] = Sent(kind, n)] /\ UNCHANGED <<names, index, state>>
    BY DEF Send
  <1>3. call'[t] = Sent(kind, n) /\ \A u \in Task : u # t => call'[u] = call[u]
    BY <1>1, <1>2
  <1>4. NNext
    BY DEF NNext, Client
  <1> QED BY <1>2, <1>3, <1>4 DEF Sent

LEMMA Returns ==
  ASSUME NInv, NEW t \in Task, Return(t), call[t].kind # "Shutdown"
  PROVE  /\ NoCall(t)' /\ \A u \in Task : u # t => call'[u] = call[u]
         /\ UNCHANGED <<names, index, state>> /\ NNext
  <1>1. call \in [Task -> CallRecords]
    BY DEF NInv, NType
  <1>2. call' = [call EXCEPT ![t] = [at |-> "none"]] /\ UNCHANGED <<names, index, state>>
    BY DEF Return
  <1>3. call'[t] = [at |-> "none"] /\ \A u \in Task : u # t => call'[u] = call[u]
    BY <1>1, <1>2
  <1>4. NNext
    BY DEF NNext, Client
  <1> QED BY <1>2, <1>3, <1>4 DEF NoCall

LEMMA Replies ==
  ASSUME NInv, NEW t \in Task, NEW kind \in Kinds, Receive(t, kind), NEW code \in Int, Reply(t, code)
  PROVE  /\ call'[t].at = "back" /\ call'[t].kind = kind /\ call'[t].name = call[t].name
         /\ call'[t].code = code
         /\ \A u \in Task : u # t => call'[u] = call[u]
  <1>1. /\ call \in [Task -> CallRecords] /\ call[t] \in CallRecords
        /\ call[t].at = "sent" /\ call[t].kind = kind
    BY ReceiveInbox DEF NInv, NType
  <1>2. /\ call'[t] = [call[t] EXCEPT !.at = "back", !.code = code]
        /\ \A u \in Task : u # t => call'[u] = call[u]
    BY <1>1 DEF Reply, Returned
  <1> QED BY <1>1, <1>2 DEF CallRecords

LEMMA RoomyKept == ASSUME NInv, Roomy, [NNext]_nvars PROVE Roomy'
  <1>1. /\ MAX_NAMES \in Nat /\ ARENA \in Nat /\ Length \in [Name -> Nat]
        /\ names \in Seq(Entry) /\ index \in Nat /\ Unique(names)
    BY NameServerAssumption DEF NInv, NType
  <1>2. ASSUME UNCHANGED <<names, index>> PROVE Roomy'
    BY <1>2 DEF Roomy
  <1>3. ASSUME NEW t \in Task, RegisterAs(t) PROVE Roomy'
    <2>1. PICK n : n = call[t].name
      OBVIOUS
    <2>2. n \in Name
      <3>1. Receive(t, "RegisterAs")
        BY <1>3 DEF RegisterAs
      <3> QED BY <2>1, <3>1, ReceiveInbox DEF Kinds
    <2>3. \/ UNCHANGED <<names, index>>
          \/ Known(names, n) /\ RegisterKnown(t, n)
          \/ ~ TableFull /\ ~ ArenaFull(n) /\ RegisterNew(t, n)
      BY <1>3, <2>1 DEF RegisterAs, Panic
    <2>4. CASE Known(names, n) /\ RegisterKnown(t, n)
      <3>1. Len(names') = Len(names) /\ index' = index
        BY <1>1, <2>2, <2>4, RebindLookup DEF RegisterKnown
      <3> QED BY <3>1 DEF Roomy
    <2>5. CASE ~ TableFull /\ ~ ArenaFull(n) /\ RegisterNew(t, n)
      <3>1. Len(names') = Len(names) + 1 /\ ~ (Len(names) >= MAX_NAMES) /\ Len(names) \in Nat
        BY <1>1, <2>5 DEF RegisterNew, TableFull
      <3>2. index' = index + Length[n] + 1 /\ ~ (index + Length[n] >= ARENA) /\ Length[n] \in Nat
        BY <1>1, <2>2, <2>5 DEF RegisterNew, ArenaFull
      <3> QED BY <1>1, <3>1, <3>2 DEF Roomy
    <2> QED BY <1>2, <2>3, <2>4, <2>5
  <1>4. ASSUME NEW t \in Task, WhoIs(t) \/ Shutdown(t) \/ Client(t) PROVE UNCHANGED <<names, index>>
    BY <1>4 DEF WhoIs, Shutdown, Client, Send, SendFails, Return
  <1> QED BY <1>2, <1>3, <1>4 DEF NNext, Serve, nvars

-----------------------------------------------------------------------------
(* Nobody calls the name server before its turn, and every call of the     *)
(* games is answered with what it expects.                                 *)

\* Who has a call under way.
LEMMA Calling ==
  ASSUME CallSound, SetupSound, server # "absent", NEW t \in Task, ~ NoCall(t)
  PROVE  \/ /\ t = RpsServer /\ server = "registering"
            /\ call[t].kind = "RegisterAs" /\ call[t].name = RPS_SERVER
            /\ call[t].at = "back" => RpsBound
         \/ /\ t = RpsServer /\ server = "checking" /\ Asked(t) /\ RpsBound
         \/ /\ t \in Players /\ player[t].at = "looking" /\ server = "serves" /\ Asked(t) /\ RpsBound
  <1>1. t \in Players \cup {RpsServer}
    BY DEF CallSound
  <1>2. CASE t \in Players
    <2>1. player[t].at = "looking" /\ Asked(t)
      BY <1>2 DEF CallSound
    <2>2. server = "serves"
      BY <1>2, <2>1 DEF SetupSound
    <2> QED BY <1>2, <2>1, <2>2 DEF CallSound
  <1>3. CASE t = RpsServer
    <2>1. server \notin {"registers", "registered", "configured", "serves"}
      BY <1>3 DEF CallSound
    <2> QED BY <1>3, <2>1 DEF CallSound, SetupSound, SetUp
  <1> QED BY <1>1, <1>2, <1>3
LEMMA ServeCalls ==
  ASSUME NInv, SetupSound, CallSound, server # "absent", Serve, UNCHANGED rvars
  PROVE  CallSound'
  <1> USE NobodyPlays
  <1>1. UNCHANGED <<setup, server, player>>
    BY DEF rvars
  <1>2. PICK t \in Task : WhoIs(t) \/ RegisterAs(t) \/ Shutdown(t)
    BY DEF Serve
  <1>3. PICK kind \in Kinds : /\ Receive(t, kind)
                              /\ \/ kind = "WhoIs" /\ WhoIs(t)
                                 \/ kind = "RegisterAs" /\ RegisterAs(t)
                                 \/ kind = "Shutdown" /\ Shutdown(t)
    BY <1>2 DEF WhoIs, RegisterAs, Shutdown, Kinds
  <1>4. call[t].at = "sent" /\ call[t].kind = kind
    BY <1>3, ReceiveInbox
  <1>5. ~ NoCall(t)
    BY <1>4 DEF NoCall
  <1>6. \/ /\ t = RpsServer /\ server = "registering" /\ kind = "RegisterAs" /\ RegisterAs(t)
        \/ /\ t = RpsServer /\ server = "checking" /\ kind = "WhoIs" /\ WhoIs(t) /\ Asked(t) /\ RpsBound
        \/ /\ t \in Players /\ player[t].at = "looking" /\ server = "serves"
           /\ kind = "WhoIs" /\ WhoIs(t) /\ Asked(t) /\ RpsBound
    BY <1>3, <1>4, <1>5, Calling DEF Asked
  <1>7. CASE WhoIs(t) /\ kind = "WhoIs" /\ Asked(t) /\ RpsBound
    <2>1. call[t].name = RPS_SERVER /\ RpsServer \in Int
      BY <1>7, NameServerAssumption DEF Asked
    <2>2. Reply(t, RpsServer) /\ UNCHANGED <<names, index, state>>
      BY <1>7, <2>1 DEF WhoIs, RpsBound
    <2>3. /\ call'[t].at = "back" /\ call'[t].kind = "WhoIs" /\ call'[t].name = RPS_SERVER
          /\ call'[t].code = RpsServer
          /\ \A u \in Task : u # t => call'[u] = call[u]
      BY <1>3, <1>7, <2>1, <2>2, Replies
    <2>4. Asked(t)' /\ (RpsBound' <=> RpsBound) /\ ~ NoCall(t)
      BY <1>5, <2>2, <2>3 DEF Asked, RpsBound
    <2>5. \A u \in Task : u # t => (NoCall(u)' <=> NoCall(u)) /\ (Asked(u)' <=> Asked(u))
      BY <2>3 DEF NoCall, Asked
    <2>6. CASE t = RpsServer /\ server = "checking"
      BY <1>1, <1>7, <2>2, <2>4, <2>5, <2>6 DEF CallSound
    <2>7. CASE t \in Players /\ player[t].at = "looking" /\ server = "serves"
      BY <1>1, <1>7, <2>2, <2>4, <2>5, <2>7 DEF CallSound
    <2> QED BY <1>6, <1>7, <2>6, <2>7
  <1>8. CASE t = RpsServer /\ server = "registering" /\ kind = "RegisterAs" /\ RegisterAs(t)
    <2>1. /\ call[t].name = RPS_SERVER /\ \A p \in Players : player[p].at # "looking"
          /\ \A p \in Players : NoCall(p)
      BY <1>8 DEF CallSound, SetupSound
    <2>2. \/ Panic
          \/ /\ \/ Known(names, RPS_SERVER) /\ RegisterKnown(t, RPS_SERVER)
                \/ ~ Known(names, RPS_SERVER) /\ RegisterNew(t, RPS_SERVER)
             /\ Reply(t, 0) /\ UNCHANGED state
      BY <1>8, <2>1 DEF RegisterAs
    <2>3. CASE Panic
      BY <1>1, <1>8, <2>3 DEF Panic, CallSound, NoCall, Asked, RpsBound
    <2>4. CASE ~ Panic
      <3>1. RpsBound'
        BY <1>8, <2>2, <2>4, Registered DEF RpsBound
      <3>2. /\ call'[t].at = "back" /\ call'[t].kind = "RegisterAs" /\ call'[t].name = RPS_SERVER
            /\ \A u \in Task : u # t => call'[u] = call[u]
        BY <1>3, <1>8, <2>1, <2>2, <2>4, Replies
      <3>3. \A u \in Task : u # t => (NoCall(u)' <=> NoCall(u))
        BY <3>2 DEF NoCall
      <3> QED BY <1>1, <1>8, <2>1, <2>2, <2>4, <3>1, <3>2, <3>3 DEF CallSound
    <2> QED BY <2>3, <2>4
  <1> QED BY <1>6, <1>7, <1>8

\* What a step of a player does to where the players are.
LEMMA GoesAt ==
  ASSUME RTypes, NEW p \in Players, NEW place, Goes(p, place)
  PROVE  player'[p].at = place /\ \A q \in Players : q # p => player'[q] = player[q]
  <1>1. player[p] \in Persons
    BY PersonTypes
  <1>2. player'[p] = [player[p] EXCEPT !.at = place, !.got = Waits]
    BY DEF Goes, RTypes
  <1>3. player'[p].at = place
    BY <1>1, <1>2 DEF Persons
  <1> QED BY <1>3 DEF Goes, RTypes

\* A step in which only player p moves, and calls or not.
LEMMA PlayerCalls ==
  ASSUME CallSound, server = "serves", UNCHANGED <<server, state, names>>, NEW p \in Players,
         \A q \in Players : q # p => player'[q] = player[q],
         \A u \in Task : u # p => call'[u] = call[u],
         IF player'[p].at = "looking" THEN Asked(p)' ELSE NoCall(p)'
  PROVE  CallSound' /\ SetupSound'
  <1> USE NobodyPlays
  <1>1. /\ \A u \in Task : u # p => (NoCall(u)' <=> NoCall(u)) /\ (Asked(u)' <=> Asked(u))
        /\ RpsBound' <=> RpsBound
    BY DEF NoCall, Asked, RpsBound
  <1>2. \A q \in Players : q # p => IF player'[q].at = "looking" THEN Asked(q)' ELSE NoCall(q)'
    BY <1>1 DEF CallSound
  <1>3. CallSound'
    BY <1>1, <1>2 DEF CallSound
  <1> QED BY <1>3 DEF SetupSound, SetUp
LEMMA PlayerStep ==
  ASSUME Inv, NEW p \in Players, Player(p)
  PROVE  [NNext]_nvars /\ CallSound' /\ SetupSound'
  <1> USE NobodyPlays
  <1>1. NInv /\ RInv /\ RTypes /\ SetupSound /\ CallSound /\ player[p] \in Persons /\ p \in Task
    BY PersonTypes DEF Inv, RInv
  <1>2. CASE PlayerConfigured(p)
    <2>1. /\ player[p].at = "new" /\ setup # <<>> /\ Head(setup) = p /\ Goes(p, "looks")
          /\ UNCHANGED <<nvars, server>>
      BY <1>2 DEF PlayerConfigured, At
    <2>2. server = "serves"
      BY <1>1, <2>1 DEF SetupSound
    <2>3. player'[p].at = "looks" /\ \A q \in Players : q # p => player'[q] = player[q]
      BY <1>1, <2>1, GoesAt
    <2>4. NoCall(p)' /\ UNCHANGED <<call, state, names>>
      BY <1>1, <2>1, <2>2 DEF CallSound, NoCall, nvars
    <2> QED BY <1>1, <2>1, <2>2, <2>3, <2>4, PlayerCalls
  <1>3. ASSUME player[p].at \notin {"new", "gone"} PROVE server = "serves"
    BY <1>1, <1>3 DEF SetupSound
  <1>4. CASE Looks(p)
    <2>1. player[p].at = "looks" /\ Send(p, "WhoIs", RPS_SERVER) /\ Goes(p, "looking") /\ server' = server
      BY <1>4 DEF Looks, At
    <2>2. /\ call'[p].at = "sent" /\ call'[p].kind = "WhoIs" /\ call'[p].name = RPS_SERVER
          /\ \A u \in Task : u # p => call'[u] = call[u]
          /\ UNCHANGED <<names, index, state>> /\ NNext
      BY <1>1, <2>1, Sends DEF Kinds
    <2>3. player'[p].at = "looking" /\ \A q \in Players : q # p => player'[q] = player[q]
      BY <1>1, <2>1, GoesAt
    <2>4. Asked(p)'
      BY <2>2 DEF Asked
    <2> QED BY <1>1, <1>3, <2>1, <2>2, <2>3, <2>4, PlayerCalls
  <1>5. CASE Finds(p)
    <2>1. /\ player[p].at = "looking" /\ call[p].at = "back" /\ Goes(p, "signs up") /\ server' = server
          /\ IF call[p].code >= 0 THEN Return(p) ELSE Halt
      BY <1>5 DEF Finds, At
    <2>2. Asked(p) /\ server = "serves"
      BY <1>1, <1>3, <2>1 DEF CallSound
    <2>3. call[p].code \in Nat /\ call[p].kind # "Shutdown"
      BY <2>1, <2>2, NameServerAssumption DEF Asked
    <2>4. Return(p)
      <3>1. call[p].code >= 0
        BY <2>3
      <3> QED BY <2>1, <3>1
    <2>5. /\ NoCall(p)' /\ \A u \in Task : u # p => call'[u] = call[u]
          /\ UNCHANGED <<names, index, state>> /\ NNext
      BY <1>1, <2>3, <2>4, Returns
    <2>6. player'[p].at = "signs up" /\ \A q \in Players : q # p => player'[q] = player[q]
      BY <1>1, <2>1, GoesAt
    <2> QED BY <1>1, <2>1, <2>2, <2>5, <2>6, PlayerCalls
  <1>6. ASSUME player[p].at \notin {"new", "gone", "looking"}, UNCHANGED <<nvars, server>>,
               player'[p].at # "looking", \A q \in Players : q # p => player'[q] = player[q]
        PROVE  [NNext]_nvars /\ CallSound' /\ SetupSound'
    <2>1. server = "serves"
      BY <1>3, <1>6
    <2>2. NoCall(p)' /\ UNCHANGED <<call, state, names>>
      BY <1>1, <1>6, <2>1 DEF CallSound, NoCall, nvars
    <2> QED BY <1>1, <1>6, <2>1, <2>2, PlayerCalls
  <1>7. CASE SignsUp(p)
    <2>1. player[p].at = "signs up" /\ Goes(p, "signing up") /\ UNCHANGED <<nvars, server>>
      BY <1>7 DEF SignsUp, At, Asks
    <2>2. player'[p].at = "signing up" /\ \A q \in Players : q # p => player'[q] = player[q]
      BY <1>1, <2>1, GoesAt
    <2> QED BY <1>6, <2>1, <2>2
  <1>8. CASE Plays(p)
    <2>1. /\ player[p].at = "plays" /\ UNCHANGED <<nvars, server>> /\ player'[p].at = "playing"
          /\ \A q \in Players : q # p => player'[q] = player[q]
      BY <1>1, <1>8 DEF Plays, At, Asks, RTypes
    <2> QED BY <1>6, <2>1
  <1>9. CASE Quits(p)
    <2>1. player[p].at = "plays" /\ Goes(p, "quitting") /\ UNCHANGED <<nvars, server>>
      BY <1>9 DEF Quits, At, Asks
    <2>2. player'[p].at = "quitting" /\ \A q \in Players : q # p => player'[q] = player[q]
      BY <1>1, <2>1, GoesAt
    <2> QED BY <1>6, <2>1, <2>2
  <1>10. CASE Answered(p)
    <2>1. PICK place \in {"plays", "gone"} : Goes(p, place)
      BY <1>1, <1>10, AnsweredIs
    <2>2. player[p].at \in {"signing up", "playing", "quitting"} /\ UNCHANGED <<nvars, server>>
      BY <1>1, <1>10, AnsweredIs DEF Answered, At
    <2>3. player'[p].at = place /\ \A q \in Players : q # p => player'[q] = player[q]
      BY <1>1, <2>1, GoesAt
    <2> QED BY <1>6, <2>1, <2>2, <2>3
  <1> QED BY <1>2, <1>4, <1>5, <1>7, <1>8, <1>9, <1>10 DEF Player, Inv

\* A step in which only the server moves, and calls or not.
LEMMA ServerCalls ==
  ASSUME SetupSound, CallSound, server \in SetUp, server' \in SetUp,
         UNCHANGED <<setup, state, names, player>>,
         \A u \in Task : u # RpsServer => call'[u] = call[u],
         server' \notin {"registers", "registering"} => RpsBound,
         \/ server' \in {"registered", "configured"} /\ NoCall(RpsServer)'
         \/ /\ server' = "registering" /\ call'[RpsServer].at = "sent"
            /\ call'[RpsServer].kind = "RegisterAs" /\ call'[RpsServer].name = RPS_SERVER
         \/ server' = "checking" /\ Asked(RpsServer)'
  PROVE  CallSound' /\ SetupSound'
  <1> USE NobodyPlays
  <1>1. /\ \A u \in Task : u # RpsServer => (NoCall(u)' <=> NoCall(u)) /\ (Asked(u)' <=> Asked(u))
        /\ RpsBound' <=> RpsBound
    BY DEF NoCall, Asked, RpsBound
  <1>2. server # "absent" /\ server' # "absent" /\ server' # "registers"
    BY DEF SetUp
  <1>3. CallSound'
    BY <1>1, <1>2 DEF CallSound, SetUp
  <1> QED BY <1>3 DEF SetupSound, SetUp

LEMMA ServerStep ==
  ASSUME Inv, Server
  PROVE  [NNext]_nvars /\ RInv' /\ CallSound' /\ SetupSound'
  <1> USE NobodyPlays
  <1>1. NInv /\ RInv /\ RTypes /\ SetupSound /\ CallSound /\ setup \in Seq(Players \cup {RpsServer})
    BY DEF Inv, RInv, RTypes
  <1>2. CASE ServerRegisters
    <2>1. /\ server = "registers" /\ Send(RpsServer, "RegisterAs", RPS_SERVER) /\ server' = "registering"
          /\ UNCHANGED <<setup, mailbox, queue, games, player>>
      BY <1>2 DEF ServerRegisters, Calls
    <2>2. /\ call'[RpsServer].at = "sent" /\ call'[RpsServer].kind = "RegisterAs"
          /\ call'[RpsServer].name = RPS_SERVER
          /\ \A u \in Task : u # RpsServer => call'[u] = call[u]
          /\ UNCHANGED <<names, index, state>> /\ NNext
      BY <1>1, <2>1, Sends DEF Kinds
    <2>3. RInv'
      BY <1>1, <2>1, RestKept
    <2>4. server \in SetUp /\ server' \in SetUp
      BY <2>1 DEF SetUp
    <2> QED BY <1>1, <2>1, <2>2, <2>3, <2>4, ServerCalls
  <1>3. CASE ServerLooks
    <2>1. /\ server = "registering" /\ Return(RpsServer) /\ server' = "registered"
          /\ UNCHANGED <<setup, mailbox, queue, games, player>>
      BY <1>3 DEF ServerLooks
    <2>2. call[RpsServer].at = "back"
      BY <2>1 DEF Return
    <2>3. call[RpsServer].kind = "RegisterAs" /\ RpsBound
      BY <1>1, <2>1, <2>2 DEF CallSound
    <2>4. /\ NoCall(RpsServer)' /\ \A u \in Task : u # RpsServer => call'[u] = call[u]
          /\ UNCHANGED <<names, index, state>> /\ NNext
      BY <1>1, <2>1, <2>3, Returns
    <2>5. RInv'
      BY <1>1, <2>1, RestKept
    <2>6. server \in SetUp /\ server' \in SetUp
      BY <2>1 DEF SetUp
    <2> QED BY <1>1, <2>1, <2>3, <2>4, <2>5, <2>6, ServerCalls
  <1>4. CASE ServerChecks
    <2>1. /\ server = "registered" /\ Send(RpsServer, "WhoIs", RPS_SERVER) /\ server' = "checking"
          /\ UNCHANGED <<setup, mailbox, queue, games, player>>
      BY <1>4 DEF ServerChecks, Calls
    <2>2. /\ call'[RpsServer].at = "sent" /\ call'[RpsServer].kind = "WhoIs"
          /\ call'[RpsServer].name = RPS_SERVER
          /\ \A u \in Task : u # RpsServer => call'[u] = call[u]
          /\ UNCHANGED <<names, index, state>> /\ NNext
      BY <1>1, <2>1, Sends DEF Kinds
    <2>3. Asked(RpsServer)' /\ RpsBound
      BY <1>1, <2>1, <2>2 DEF Asked, CallSound
    <2>4. RInv'
      BY <1>1, <2>1, RestKept
    <2>5. server \in SetUp /\ server' \in SetUp
      BY <2>1 DEF SetUp
    <2> QED BY <1>1, <2>1, <2>2, <2>3, <2>4, <2>5, ServerCalls
  <1>5. CASE ServerFound
    <2>1. /\ server = "checking" /\ call[RpsServer].at = "back" /\ server' = "configured"
          /\ UNCHANGED <<setup, mailbox, queue, games, player>>
      BY <1>5 DEF ServerFound
    <2>2. Asked(RpsServer) /\ RpsBound
      BY <1>1, <2>1 DEF CallSound
    <2>3. Return(RpsServer) /\ call[RpsServer].kind # "Shutdown"
      BY <1>5, <2>1, <2>2 DEF Asked, ServerFound
    <2>4. /\ NoCall(RpsServer)' /\ \A u \in Task : u # RpsServer => call'[u] = call[u]
          /\ UNCHANGED <<names, index, state>> /\ NNext
      BY <1>1, <2>3, Returns
    <2>5. RInv'
      BY <1>1, <2>1, RestKept
    <2>6. server \in SetUp /\ server' \in SetUp
      BY <2>1 DEF SetUp
    <2> QED BY <1>1, <2>1, <2>2, <2>4, <2>5, <2>6, ServerCalls
  <1>6. CASE ServerConfigured
    <2>1. /\ server = "configured" /\ setup # <<>> /\ setup' = Tail(setup) /\ server' = "serves"
          /\ UNCHANGED <<nvars, mailbox, queue, games, player>>
      BY <1>6 DEF ServerConfigured
    <2>2. setup' \in Seq(Players \cup {RpsServer})
      BY <1>1, <2>1
    <2>3. RInv'
      BY <1>1, <2>1, <2>2, RestKept
    <2>4. CallSound'
      BY <1>1, <2>1 DEF CallSound, NoCall, Asked, RpsBound, nvars
    <2>5. SetupSound'
      BY <2>1 DEF SetupSound, SetUp
    <2> QED BY <2>1, <2>3, <2>4, <2>5
  <1>7. ASSUME NEW t \in Players, Signup(t) \/ Play(t) \/ Quit(t)
        PROVE  [NNext]_nvars /\ RInv' /\ CallSound' /\ SetupSound'
    <2>1. /\ RInv' /\ UNCHANGED <<nvars, setup, server>> /\ server = "serves"
          /\ \A p \in Players : player'[p].at = player[p].at
      BY <1>1, <1>7, ServedRInv
    <2>2. CallSound'
      BY <1>1, <2>1 DEF CallSound, NoCall, Asked, RpsBound, nvars
    <2>3. SetupSound'
      BY <2>1 DEF SetupSound, SetUp
    <2> QED BY <2>1, <2>2, <2>3
  <1> QED BY <1>2, <1>3, <1>4, <1>5, <1>6, <1>7 DEF Server

LEMMA StepInv == Inv /\ [GamesNext]_vars => Inv' /\ [NNext]_nvars
  <1> SUFFICES ASSUME Inv, [GamesNext]_vars
               PROVE  RInv' /\ CallSound' /\ SetupSound' /\ [NNext]_nvars
    BY RoomyKept, NStepInv DEF Inv
  <1> USE NobodyPlays
  <1>1. NInv /\ RInv /\ RTypes /\ SetupSound /\ CallSound /\ server # "wild"
    BY DEF Inv, RInv, AnswersSound
  <1>2. CASE Server
    BY <1>2, ServerStep
  <1>3. CASE \E p \in Players : Player(p)
    BY <1>1, <1>3, PlayerStep, PlayerRInv
  <1>4. ASSUME UNCHANGED rvars PROVE RInv' /\ SetupSound'
    <2>1. UNCHANGED <<setup, server, mailbox, queue, games, player>>
      BY <1>4 DEF rvars
    <2>2. RInv'
      BY <1>1, <2>1, RestKept DEF RTypes
    <2>3. SetupSound'
      BY <1>1, <2>1 DEF SetupSound
    <2> QED BY <2>2, <2>3
  <1>5. CASE NamesServed
    <2>1. Serve /\ UNCHANGED rvars /\ server' = server /\ NNext
      BY <1>5 DEF NamesServed, NNext, rvars
    <2>2. CallSound'
      BY <1>1, <2>1, ServeCalls DEF CallSound
    <2> QED BY <1>4, <2>1, <2>2
  <1>6. CASE \E t \in Task \ (Players \cup {RpsServer}) : Guest(t)
    <2>1. UNCHANGED rvars /\ server' = "absent" /\ NNext
      BY <1>6 DEF Guest, NNext, rvars
    <2> QED BY <1>4, <2>1 DEF CallSound
  <1>7. CASE UNCHANGED vars
    <2>1. UNCHANGED rvars /\ UNCHANGED nvars /\ server' = server
      BY <1>7 DEF vars, rvars
    <2>2. CallSound'
      BY <1>1, <1>7 DEF vars, nvars, rvars, CallSound, NoCall, Asked, RpsBound
    <2> QED BY <1>4, <2>1, <2>2
  <1> QED BY <1>2, <1>3, <1>5, <1>6, <1>7 DEF GamesNext, RpsNext

LEMMA InitInv == GamesInit => Inv
  <1> SUFFICES ASSUME NInit,
                      NEW seated \in Seq(Players), NEW wants \in [Players -> Nat], RInit(seated, wants)
               PROVE  Inv
    BY DEF GamesInit
  <1> USE NobodyPlays
  <1>1. NInv
    BY NInitInv
  <1>2. Roomy
    BY NameServerAssumption DEF NInit, Roomy
  <1>3. /\ setup = IF seated = <<>> THEN <<>> ELSE <<RpsServer>> \o seated
        /\ server = IF seated = <<>> THEN "absent" ELSE "registers"
        /\ mailbox = <<>> /\ queue = <<>> /\ games = [g \in 1 .. NUM_GAMES |-> NoGame]
    BY DEF RInit
  <1>4. ASSUME NEW p \in Players
        PROVE  /\ player[p] \in Persons /\ player[p].at \in {"new", "gone"} /\ player[p].got = Waits
    <2>1. PICK place \in {"new", "gone"} :
             player[p] = [at |-> place, left |-> wants[p], choice |-> NONE, got |-> Waits]
      BY DEF RInit
    <2>2. place \in Places /\ wants[p] \in Nat /\ NONE \in Choices /\ Waits \in Answers
      BY TagsAre DEF Places, Choices
    <2>3. player[p] \in Persons
      BY <2>1, <2>2 DEF Persons
    <2> QED BY <2>1, <2>3
  <1>5. setup \in Seq(Players \cup {RpsServer}) /\ (seated # <<>> => setup # <<>> /\ Head(setup) = RpsServer)
    <2>1. CASE seated = <<>>
      BY <1>3, <2>1
    <2>2. CASE seated # <<>>
      <3>1. seated \in Seq(Players \cup {RpsServer})
        OBVIOUS
      <3> QED BY <1>3, <2>2, <3>1
    <2> QED BY <2>1, <2>2
  <1>6. /\ games \in [1 .. NUM_GAMES -> Tables]
        /\ \A g \in 1 .. NUM_GAMES : games[g].tid[1] = Nobody /\ games[g].tid[2] = Nobody
    BY <1>3, GameTypes DEF NoGame
  <1>7. player \in [Players -> Persons]
    BY <1>4 DEF RInit
  <1>8. RTypes
    <2>1. mailbox \in Seq(Requests) /\ queue \in Seq(Players) /\ Len(queue) <= 1
      BY <1>3
    <2> QED BY <1>5, <1>6, <1>7, <2>1, Zenon DEF RTypes
  <1>9. SeatedSound
    <2>1. \A g \in 1 .. NUM_GAMES, k \in {1, 2}, p \in Players : ~ Sits(g, k, p)
      BY <1>6 DEF Sits
    <2> QED BY <1>6, <2>1 DEF SeatedSound, Sits
  <1>10. MailSound /\ QueueSound /\ AnswersSound
    <2>1. \A p \in Players : ~ Queues(p) /\ queue # <<p>>
      BY <1>3, <1>4 DEF Queues
    <2>2. QueueSound
      BY <2>1 DEF QueueSound
    <2>3. MailSound
      <3>1. \A i \in DOMAIN mailbox : FALSE
        BY <1>3
      <3> QED BY <3>1 DEF MailSound
    <2>4. AnswersSound
      BY <1>3, <1>4 DEF AnswersSound
    <2> QED BY <2>2, <2>3, <2>4
  <1>11. SetupSound
    BY <1>3, <1>4, <1>5 DEF SetupSound, SetUp
  <1>12. CallSound
    BY <1>3, <1>4 DEF CallSound, NInit, NoCall
  <1> QED BY <1>1, <1>2, <1>8, <1>9, <1>10, <1>11, <1>12 DEF Inv, RInv

-----------------------------------------------------------------------------
(* What the invariant says.                                                *)

LEMMA InvTypes == Inv => RpsTypeOK
  <1> SUFFICES ASSUME Inv PROVE RpsTypeOK
    OBVIOUS
  <1>1. NType /\ Roomy /\ RTypes
    BY DEF Inv, NInv, RInv
  <1>2. DOMAIN call = Task /\ state \in {"running", "exited", "halted"}
    BY <1>1 DEF NType
  <1>3. Len(queue) <= 1 /\ \A k \in DOMAIN queue : queue[k] \in Players
    BY <1>1 DEF RTypes
  <1>4. \A g \in DOMAIN games : \A k \in {1, 2} :
           games[g].tid[k] \in Players \cup {Nobody} /\ games[g].choice[k] \in Hands \cup {NONE}
    BY <1>1, TableTypes DEF Choices, RTypes
  <1>5. \A p \in Players : player[p].choice \in Hands \cup {NONE} /\ player[p].left \in Nat
    BY <1>1, PersonTypes DEF Choices
  <1> QED BY <1>1, <1>2, <1>3, <1>4, <1>5 DEF RpsTypeOK, Roomy

LEMMA AtMostOne == ASSUME NEW S, \A x, y \in S : x = y
                   PROVE  Cardinality(S) \in {0, 1} /\ (S = {} => Cardinality(S) = 0)
  <1>1. CASE S = {}
    BY <1>1, FS_EmptySet
  <1>2. CASE S # {}
    <2>1. PICK x : S = {x}
      BY <1>2
    <2> QED BY <2>1, FS_Singleton
  <1> QED BY <1>1, <1>2

LEMMA InvSeats == Inv => SeatsSound
  <1> SUFFICES ASSUME Inv PROVE SeatsSound
    OBVIOUS
  <1>1. RTypes /\ QueueSound /\ SeatedSound
    BY DEF Inv, RInv
  <1>2. DOMAIN games = 1 .. NUM_GAMES
    BY <1>1 DEF RTypes
  <1>3. ASSUME NEW p \in Players
        PROVE  Cardinality({s \in (1 .. NUM_GAMES) \X {1, 2} : games[s[1]].tid[s[2]] = p})
                  + Cardinality({k \in DOMAIN queue : queue[k] = p}) <= 1
    <2>1. PICK S : S = {s \in (1 .. NUM_GAMES) \X {1, 2} : games[s[1]].tid[s[2]] = p}
      OBVIOUS
    <2>2. PICK Q : Q = {k \in DOMAIN queue : queue[k] = p}
      OBVIOUS
    <2>3. \A s, r \in S : s = r
      <3>1. \A s, r \in S : s[1] = r[1] /\ s[2] = r[2]
        BY <1>1, <2>1 DEF SeatedSound, Sits
      <3>2. S \subseteq (1 .. NUM_GAMES) \X {1, 2}
        BY <2>1
      <3> QED BY <3>1, <3>2
    <2>4. \A k, l \in Q : k = l
      <3>1. DOMAIN queue = 1 .. Len(queue) /\ Len(queue) \in Nat /\ Len(queue) <= 1
        BY <1>1 DEF RTypes
      <3>2. \A k \in 1 .. Len(queue) : k = 1
        BY <3>1
      <3> QED BY <2>2, <3>1, <3>2
    <2>5. /\ Cardinality(S) \in {0, 1} /\ (S = {} => Cardinality(S) = 0)
          /\ Cardinality(Q) \in {0, 1} /\ (Q = {} => Cardinality(Q) = 0)
      BY <2>3, <2>4, AtMostOne
    <2>6. S = {} \/ Q = {}
      <3>1. CASE queue = <<p>>
        <4>1. player[p].at = "signing up" /\ player[p].got = Waits
          BY <1>1, <3>1 DEF QueueSound, Queues, Blocked
        <4>2. \A g \in 1 .. NUM_GAMES, k \in {1, 2} : ~ Sits(g, k, p)
          BY <1>1, <4>1, NoSeatYet
        <4> QED BY <2>1, <4>2 DEF Sits
      <3>2. CASE queue # <<p>>
        <4>1. CASE queue = <<>>
          BY <2>2, <4>1
        <4>2. CASE queue # <<>>
          <5>1. PICK h \in Players : queue = <<h>>
            BY <1>1, <4>2, QueueIs
          <5> QED BY <2>2, <3>2, <5>1
        <4> QED BY <4>1, <4>2
      <3> QED BY <3>1, <3>2
    <2> QED BY <2>1, <2>2, <2>5, <2>6
  <1>4. \A g \in DOMAIN games : (games[g].tid[1] = Nobody) <=> (games[g].tid[2] = Nobody)
    BY <1>1, <1>2 DEF SeatedSound, Sits
  <1>5. \A p \in Players : (queue = <<p>>) <=> (player[p].at = "signing up" /\ Blocked(p))
    BY <1>1 DEF QueueSound, Queues
  <1>6. \A p \in Players, g \in DOMAIN games : Has(g, p) =>
           games[g].choice[Seat(g, p)] =
              (IF player[p].at = "playing" /\ Blocked(p) THEN player[p].choice ELSE NONE)
    BY <1>1, <1>2, SeatIs DEF Standing
  <1> QED BY <1>3, <1>4, <1>5, <1>6 DEF SeatsSound

-----------------------------------------------------------------------------
(* The results of a round.                                                 *)

FitsBoth(p, q) ==
    /\ Told(q)
    /\ LET mine == player[p].choice  theirs == player[q].choice IN
       player'[p].got.result = (IF mine = theirs THEN "DRAW"
                                ELSE IF <<mine, theirs>> \in Beats THEN "I_WON" ELSE "I_LOST")
    /\ player'[p].got.result = "I_WON" <=> player'[q].got.result = "I_LOST"

\* An answer other than a result, and the steps of the players, tell nobody a result.
LEMMA TellsNoResult ==
  ASSUME RTypes, NEW S, NEW tag, tag # "PLAY_RESP", Tell([p \in S |-> Just(tag)])
  PROVE  \A p \in Players : ~ Told(p)
  <1>1. \A p \in Players : player[p] \in Persons
    BY PersonTypes
  <1>2. ASSUME NEW p \in Players, p \in S
        PROVE  player'[p].got.tag = tag
    <2>1. player'[p] = [player[p] EXCEPT !.got = Just(tag)]
      BY <1>2 DEF Tell
    <2> QED BY <1>1, <2>1 DEF Persons, Just
  <1>3. \A p \in Players : p \notin S => player'[p] = player[p]
    BY DEF Tell
  <1> QED BY <1>2, <1>3 DEF Told

LEMMA PlayersTellNothing ==
  ASSUME RInv, NEW p \in Players, Player(p)
  PROVE  \A q \in Players : ~ Told(q)
  <1>1. RTypes /\ player[p] \in Persons
    BY PersonTypes DEF RInv
  <1>2. ASSUME NEW place, Goes(p, place)
        PROVE  \A q \in Players : ~ Told(q)
    <2>1. player'[p] = [player[p] EXCEPT !.at = place, !.got = Waits]
      BY <1>1, <1>2 DEF Goes, RTypes
    <2>2. player'[p].got = Waits
      BY <1>1, <2>1 DEF Persons
    <2> QED BY <1>1, <1>2, <2>2, GoesAt DEF Told
  <1>3. CASE Plays(p)
    <2>1. player'[p].got = Waits /\ \A q \in Players : q # p => player'[q] = player[q]
      BY <1>1, <1>3 DEF Plays, RTypes
    <2> QED BY <2>1 DEF Told
  <1>4. CASE ~ Plays(p)
    <2>1. \E place : Goes(p, place)
      BY <1>4 DEF Player, PlayerConfigured, Looks, Finds, SignsUp, Quits, Answered
    <2> QED BY <1>2, <2>1
  <1> QED BY <1>3, <1>4

\* Two choices that are not the same: one beats the other.
LEMMA OneBeatsTheOther ==
  ASSUME NEW a \in Hands, NEW b \in Hands, a # b
  PROVE  <<a, b>> \in Beats <=> <<b, a>> \notin Beats
  BY DEF Hands, Beats

LEMMA RoundIsFair ==
  ASSUME RInv, NEW t \in Players, Takes("PLAY", t), NEW g \in 1 .. NUM_GAMES, Has(g, t),
         NEW game, game = With(games[g], Seat(g, t), Head(mailbox).choice), IsOver(game), Round(g, game)
  PROVE  \A p \in Players : Told(p) => \E q \in Players \ {p} : FitsBoth(p, q)
  <1>1. RTypes /\ SeatedSound /\ AnswersSound
    BY DEF RInv
  <1>2. PICK k \in {1, 2}, u \in Players :
            /\ 3 - k \in {1, 2} /\ k # 3 - k /\ u # t
            /\ Sits(g, k, t) /\ Sits(g, 3 - k, u)
            /\ game \in Tables /\ game.tid = games[g].tid
            /\ game.tid[1] \in Players /\ game.tid[2] \in Players /\ game.tid[1] # game.tid[2]
            /\ {game.tid[1], game.tid[2]} = {t, u}
            /\ game.choice[k] = player[t].choice /\ game.choice[3 - k] = player[u].choice
            /\ player[t].at = "playing" /\ player[t].got = Waits /\ Unread(t)
            /\ player[u].at = "playing" /\ Blocked(u)
    BY RoundEndIs, SMTT(30)
  <1>3. Seat(g, t) = k /\ Seat(g, u) = 3 - k /\ 3 - (3 - k) = k
    BY <1>2 DEF Seat, Sits
  <1>4. /\ \A p \in Players : p \notin {t, u} => player'[p] = player[p]
        /\ \A p \in {t, u} :
              player'[p].got = [tag |-> "PLAY_RESP", result |-> Result(game, Seat(g, p))]
    BY <1>2, RoundTells
  <1>5. /\ player'[t].got = [tag |-> "PLAY_RESP", result |-> Result(game, k)]
        /\ player'[u].got = [tag |-> "PLAY_RESP", result |-> Result(game, 3 - k)]
    BY <1>3, <1>4
  <1>6. /\ player'[t].got.tag = "PLAY_RESP" /\ player'[t].got.result = Result(game, k)
        /\ player'[u].got.tag = "PLAY_RESP" /\ player'[u].got.result = Result(game, 3 - k)
    BY <1>5
  <1>7. Told(t) /\ Told(u)
    BY <1>2, <1>6, TagsAre DEF Told, Blocked
  <1>8. PICK a \in Hands, b \in Hands : a = player[t].choice /\ b = player[u].choice
    <2>1. player[t].choice \in Hands /\ player[u].choice \in Hands
      BY <1>1, <1>2, PersonTypes DEF AnswersSound, Choices
    <2> QED BY <2>1
  <1>9. /\ Result(game, k) = IF a = b THEN "DRAW" ELSE IF <<a, b>> \in Beats THEN "I_WON" ELSE "I_LOST"
        /\ Result(game, 3 - k) = IF b = a THEN "DRAW" ELSE IF <<b, a>> \in Beats THEN "I_WON" ELSE "I_LOST"
    BY <1>2, <1>3, <1>8 DEF Result
  <1>10. FitsBoth(t, u) /\ FitsBoth(u, t)
    <2>1. CASE a = b
      BY <1>6, <1>7, <1>8, <1>9, <2>1 DEF FitsBoth
    <2>2. CASE a # b /\ <<a, b>> \in Beats
      BY <1>6, <1>7, <1>8, <1>9, <2>2, OneBeatsTheOther DEF FitsBoth
    <2>3. CASE a # b /\ <<a, b>> \notin Beats
      BY <1>6, <1>7, <1>8, <1>9, <2>3, OneBeatsTheOther DEF FitsBoth
    <2> QED BY <2>1, <2>2, <2>3
  <1>11. \A p \in Players : Told(p) => p \in {t, u}
    BY <1>4 DEF Told
  <1> QED BY <1>2, <1>10, <1>11

LEMMA FairStep ==
  ASSUME Inv, [GamesNext]_vars, NEW p \in Players, Told(p)
  PROVE  \E q \in Players \ {p} : FitsBoth(p, q)
  <1>1. RInv /\ RTypes
    BY DEF Inv, RInv
  <1>2. CASE UNCHANGED player
    BY <1>2 DEF Told
  <1>3. CASE \E q \in Players : Player(q)
    BY <1>1, <1>3, PlayersTellNothing
  <1>4. ASSUME NEW t \in Players, Signup(t) \/ Play(t) \/ Quit(t)
        PROVE  \E q \in Players \ {p} : FitsBoth(p, q)
    <2>1. ASSUME NEW S, NEW tag, tag # "PLAY_RESP", Tell([q \in S |-> Just(tag)])
          PROVE  FALSE
      BY <1>1, <2>1, TellsNoResult
    <2>2. PICK tags : tags = {"ACK", "OUT_OF_SPACE", "OTHER_PLAYER_QUIT"}
      OBVIOUS
    <2>3. \A S : \A tag \in tags : ~ Tell([q \in S |-> Just(tag)])
      BY <2>1, <2>2
    <2>4. ~ (queue # <<>> /\ Matched(t, Head(queue)))
      BY <2>2, <2>3 DEF Matched
    <2>5. \A g \in 1 .. NUM_GAMES : ~ (QuitAlone(g, t) \/ QuitReplaced(g, t))
      BY <2>2, <2>3 DEF QuitAlone, QuitReplaced
    <2>6. /\ ~ Tell([q \in {t} |-> Just("OTHER_PLAYER_QUIT")])
          /\ ~ Tell([q \in {t} |-> Just("ACK")])
      BY <2>2, <2>3
    <2>7. \/ UNCHANGED player
          \/ \E g \in 1 .. NUM_GAMES :
                /\ Takes("PLAY", t) /\ Has(g, t)
                /\ Round(g, With(games[g], Seat(g, t), Head(mailbox).choice))
      BY <1>1, <1>4, <2>4, <2>5, <2>6, ServedCases DEF Queued
    <2>8. ASSUME NEW g \in 1 .. NUM_GAMES, Takes("PLAY", t), Has(g, t),
                 Round(g, With(games[g], Seat(g, t), Head(mailbox).choice))
          PROVE  \E q \in Players \ {p} : FitsBoth(p, q)
      <3>1. CASE IsOver(With(games[g], Seat(g, t), Head(mailbox).choice))
        BY <1>1, <2>8, <3>1, RoundIsFair
      <3>2. CASE ~ IsOver(With(games[g], Seat(g, t), Head(mailbox).choice))
        BY <1>2, <2>8, <3>2 DEF Round
      <3> QED BY <3>1, <3>2
    <2> QED BY <1>2, <2>7, <2>8
  <1> QED
    <2>1. CASE Server
      BY <1>2, <1>4, <2>1 DEF Server, ServerRegisters, ServerLooks, ServerChecks, ServerFound,
         ServerConfigured, Calls
    <2>2. CASE NamesServed \/ (\E t \in Task \ (Players \cup {RpsServer}) : Guest(t)) \/ UNCHANGED vars
      BY <1>2, <2>2 DEF NamesServed, Guest, rvars, vars
    <2> QED BY <1>3, <2>1, <2>2 DEF GamesNext, RpsNext

-----------------------------------------------------------------------------
(* The theorems.                                                           *)

LEMMA GamesInvariant == GamesSpec => []Inv
  <1>1. Inv /\ [GamesNext]_vars => Inv'
    BY StepInv
  <1> QED BY InitInv, <1>1, PTL DEF GamesSpec

\* In every state the games and the name server keep their types, at most one player is queued
\* and neither the name server's table nor its arena is overrun (rps.cc:31-50, 165-170;
\* nameserver.cc:96-131).
THEOREM GamesTypes == GamesSpec => []RpsTypeOK
  BY GamesInvariant, InvTypes, PTL

\* Whoever has signed up, played and quit before, no player sits in two places or against
\* itself, the player in the queue is the one whose signup has no answer, and a choice stands
\* in a game exactly while its player waits for the result (rps.cc:182-290).
THEOREM SeatsAreSound == GamesSpec => []SeatsSound
  BY GamesInvariant, InvSeats, PTL

\* When a player is told the result of a round, so is its partner, and the two results fit what
\* they chose, though one may have chosen before the other took its seat (rps.cc:205-290).
THEOREM RoundsStayFair == GamesSpec => RoundsAreFair
  <1> DEFINE Fair == \A p \in Players : Told(p) => \E q \in Players \ {p} : FitsBoth(p, q)
  <1>1. Inv /\ [GamesNext]_vars => [Fair]_vars
    BY FairStep
  <1>2. GamesSpec => [][Fair]_vars
    BY <1>1, GamesInvariant, PTL DEF GamesSpec
  <1> QED BY <1>2 DEF RoundsAreFair, FitsBoth

\* However many players come and go, the server never runs out of games, so that it answers
\* OUT_OF_SPACE and writes through a null pointer (rps.cc:190-200), and no player gets an answer
\* it does not expect and panics (rps.cc:337-374).
THEOREM GamesSuffice ==
  GamesSpec => [](server # "wild" /\ \A p \in Players : player[p].at # "panics")
  <1>1. Inv => server # "wild" /\ \A p \in Players : player[p].at # "panics"
    BY DEF Inv, RInv, AnswersSound
  <1> QED BY <1>1, GamesInvariant, PTL

\* With the rock-paper-scissors tasks as its clients, which take each answer for the server's
\* tid, the name server still is the directory (nameserver.cc:87-157; rps.cc:146-160, 318-326).
THEOREM GamesKeepDirectory == GamesSpec => DirectoryKept
  <1>1. GamesInit => NInit
    BY DEF GamesInit
  <1>2. Inv => NInv
    BY DEF Inv
  <1> QED BY <1>1, <1>2, StepInv, NInitDir, NStepDir, GamesInvariant, PTL
        DEF GamesSpec, DirectoryKept, Map!DSpec
=============================================================================
