----------------------------- MODULE TrainProgram ---------------------------
(***************************************************************************)
(* The command task of the train program, on top of the track oracle: it   *)
(* reads a command, asks the oracle for what the command needs, one        *)
(* request after the other, and reads the next.  The route command plans   *)
(* its requests from where the train is: it lays the switches, starts the  *)
(* train, waits for it to come near the end and stops it.                  *)
(***************************************************************************)
EXTENDS TrackOracle, PathSearch

CONSTANTS
    Commands,        \* what the user may type
    MaxCommands      \* how often

CmdTask == "cmd"

\* A train or a switch is named by a byte.
Ids == 0 .. 255

\* The commands, of those modelled.  Trains are looked up among those there are where one
\* is registered or sent somewhere, and nowhere else.  Of speeds, and of the sensor of a
\* position to be normalized, nothing is checked: these are the ones there are.
Typeable ==
    [tag : {"CalibrateTrain"}, id : CalibratedTrains]
        \cup [tag : {"Route"}, id : CalibratedTrains, to : SENSORS]
        \cup [tag : {"SetTrainSpeed"}, id : Ids, speed : 0 .. 14]
        \cup [tag : {"ReverseTrain"}, id : Ids]
        \cup [tag : {"SetBranchDir"}, id : Ids, dir : Dirs]
        \cup [tag : {"Normalize"}, pos : [sensor : SENSORS, offset_mm : Int]]
        \cup [tag : {"MakeLoop"}]

ASSUME CommandsAssumption ==
    /\ MaxCommands \in Nat /\ Commands \subseteq Typeable
    /\ CmdTask \in Clients /\ IsFiniteSet(Clients)

VARIABLES
    typed,       \* how many commands have been read
    todo,        \* the requests the command being executed still makes
    route        \* the route command being executed, or NoRouteCmd

programVars == <<vars, typed, todo, route>>

NoRouteCmd == [id |-> 0, to |-> -1, turned |-> FALSE, td |-> FreeSlot, planned |-> FALSE, path |-> <<>>]

ProgramTypeOK ==
    /\ OracleTypeOK
    /\ typed \in 0 .. MaxCommands
    /\ route.to \in Sensors \cup {-1} /\ (route.planned => route.path # <<>>)

Query(id)         == [tag |-> "QueryTrain", id |-> id]
SetSpeed(id, n)   == [tag |-> "SetTrainSpeed", id |-> id, speed |-> n]
TurnRound(id)     == [tag |-> "ReverseTrain", id |-> id]
WakeAt(id, pos)   == [tag |-> "WakeAtPos", id |-> id, pos |-> pos]
Throw(x)          == [tag |-> "SetBranchDir", id |-> x.id, dir |-> x.dir]
Normalized(pos)   == [tag |-> "Normalize", pos |-> pos]
Delay             == [tag |-> "Delay"]

\* What shortest_path() finds, and how long it is.
Search(from, to) ==
    LET after[k \in 0 .. TRACK_MAX] ==
            [note \in Notes |->
                LET next == Nearest(note)
                IN  IF k = 0 \/ next = {} \/ to \in next THEN note
                    ELSE after[k - 1][Visited(note, CHOOSE i \in next : TRUE)]]
    IN  after[TRACK_MAX][Unsearched(from)]

PathOf(from, to) ==
    LET note == Search(PlaceOf[from], PlaceOf[to])
    IN  [found |-> note.prev[PlaceOf[to]] # Null,
         path  |-> IF note.prev[PlaceOf[to]] = Null THEN <<>>
                   ELSE PathTo(note, PlaceOf[from], PlaceOf[to]),
         mm    |-> note.dist[PlaceOf[to]]]

\* mm beyond a position, with the switches laid.
Further(pos, mm, dir) == Normalize(Pos(pos.sensor, pos.offset_mm + mm), dir)

IsLong(mm, stopping) == mm > slowdown_distance + stopping

Hurry(id, slow) == <<SetSpeed(id, 14), WakeAt(id, slow)>>

\* The requests of a route once its path is known.
Plan(td, p) ==
    LET stopping == StoppingDistance(td.id, 8)
        dir      == Laid(p.path, oracle.branches)
        slow     == Further(td.pos, p.mm - stopping - slowdown_distance, dir)
        stop     == Further(td.pos, p.mm - stopping, dir)
        laying   == [k \in DOMAIN Settings(p.path) |-> Throw(Settings(p.path)[k])]
        hurrying == IF IsLong(p.mm, stopping) THEN Hurry(td.id, slow) ELSE <<>>
    IN  laying \o <<Normalized(stop), Normalized(slow)>> \o hurrying
          \o <<SetSpeed(td.id, 8), WakeAt(td.id, stop), SetSpeed(td.id, 0), Delay>>

-----------------------------------------------------------------------------
Idle == todo = <<>> /\ route = NoRouteCmd /\ answer[CmdTask].done

\* What a user who knows the program does not type: the oracle would get a second
\* descriptor of the train, not know that it runs, turn it while it runs, or lay the
\* switches without a thought of the trains.
Mistaken(c) ==
    LET k == IF "id" \in DOMAIN c THEN SlotOf(oracle.trains, c.id) ELSE 0
    IN  \/ c.tag = "CalibrateTrain" /\ k # 0
        \/ c.tag = "SetTrainSpeed" /\ k = 0 /\ c.speed # 0
        \/ c.tag = "ReverseTrain" /\ (k = 0 \/ oracle.trains[k].speed # 0)
        \/ c.tag = "MakeLoop" /\ Slots # {}

\* A command is read.
Type(c) ==
    /\ up /\ Idle /\ typed < MaxCommands /\ ~ Mistaken(c)
    /\ typed' = typed + 1
    /\ IF c.tag = "Route"
       THEN todo' = <<Query(c.id)>> /\ route' = [NoRouteCmd EXCEPT !.id = c.id, !.to = c.to]
       ELSE todo' = <<c>> /\ UNCHANGED route
    /\ UNCHANGED vars

\* The last request has been answered, and not as a wait that fails is.
Goes == answer[CmdTask].done
        /\ ~ (answer[CmdTask].req.tag = "WakeAtPos" /\ ~ answer[CmdTask].success /\ route.planned)

\* The next request is made.
Request ==
    /\ up /\ Goes /\ todo # <<>> /\ Head(todo) # Delay
    /\ Post(CmdTask, Head(todo))
    /\ todo' = Tail(todo)
    /\ UNCHANGED <<typed, route>>

\* The train's descriptor has been asked for: the path is looked for from there.
PlanRoute ==
    /\ up /\ Goes /\ todo = <<>> /\ route # NoRouteCmd /\ ~ route.planned
    /\ LET td == answer[CmdTask].td
           p  == PathOf(td.pos.sensor, route.to)
       IN  CASE ~ answer[CmdTask].success -> route' = NoRouteCmd /\ UNCHANGED todo
             [] answer[CmdTask].success /\ td.pos.sensor # route.to /\ p.found ->
                    route' = [route EXCEPT !.planned = TRUE, !.td = td, !.path = p.path] /\ todo' = Plan(td, p)
             [] answer[CmdTask].success /\ td.pos.sensor # route.to /\ ~ p.found
                    /\ td.speed = 0 /\ ~ route.turned ->
                    /\ route' = [route EXCEPT !.turned = TRUE]
                    /\ todo' = <<TurnRound(route.id), Query(route.id)>>
             [] OTHER -> route' = NoRouteCmd /\ UNCHANGED todo
    /\ UNCHANGED <<vars, typed>>

\* "wake_at_pos ... failed unexpectedly!"
GiveUp ==
    /\ up /\ answer[CmdTask].done /\ ~ Goes
    /\ todo # <<>>
    /\ todo' = <<SetSpeed(route.id, 0)>>
    /\ route' = NoRouteCmd
    /\ UNCHANGED <<vars, typed>>

\* The delay after the stop goes on: the speed was set when it began.
Stopping ==
    todo = <<Delay>> /\ oracle.trains[SlotOf(oracle.trains, route.id)].changed_ago < stopping_time

Stopped ==
    /\ up /\ Goes /\ todo = <<Delay>> /\ ~ Stopping
    /\ todo' = <<>>
    /\ route' = NoRouteCmd
    /\ UNCHANGED <<vars, typed>>

ProgramInit == Init /\ typed = 0 /\ todo = <<>> /\ route = NoRouteCmd

\* What the command task does next once it has its answer takes no time: time passes
\* only while the oracle waits for the track, and any ready task runs then.
CmdStep == Request \/ PlanRoute \/ GiveUp \/ Stopped

Computing == answer[CmdTask].done /\ (route # NoRouteCmd \/ todo # <<>>) /\ ~ Stopping

OracleStep == ~ Computing /\ Serve /\ UNCHANGED <<typed, todo, route>>

ProgramNext == (\E c \in Commands : Type(c)) \/ CmdStep \/ OracleStep

ProgramSpec == ProgramInit /\ [][ProgramNext]_programVars

-----------------------------------------------------------------------------
(* Properties.                                                             *)



=============================================================================
