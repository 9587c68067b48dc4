----------------------------- MODULE TrackTrip ------------------------------
(***************************************************************************)
(* A train that moves along the track, against which the answers of        *)
(* TrackGraph are checked.  A switch is laid when the train comes to it    *)
(* and not before, so one trip stands for all positions of the switches it *)
(* has not met.                                                            *)
(***************************************************************************)
EXTENDS TrackGraph

VARIABLES
    route,     \* the places passed, each with the millimetres from the start
    laid       \* the directions of the switches met so far

tripVars == <<graph, route, laid>>

Here     == route[Len(route)]
Start    == route[1]
Passed   == {route[k].place : k \in DOMAIN route}
Hops     == Len(route) - 1
Stop(k)  == IsSensor(route[k].place)

TripInit == /\ GraphInit
        /\ \E s \in Sensors : route = <<[place |-> PlaceOf[s], mm |-> 0]>>
        /\ laid = <<>>

Known(i) == At(i).type = "branch" => At(i).num \in DOMAIN laid

Lay(d) == /\ ~ Known(Here.place)
          /\ laid' = [n \in DOMAIN laid \cup {At(Here.place).num} |->
                      IF n \in DOMAIN laid THEN laid[n] ELSE d]
          /\ UNCHANGED <<graph, route>>

Ahead == NextEdge(Here.place, laid)

Roll == /\ Known(Here.place)
        /\ Ahead # NoEdge /\ Ahead.dest \notin Passed
        /\ route' = Append(route, [place |-> Ahead.dest, mm |-> Here.mm + Ahead.dist])
        /\ UNCHANGED <<graph, laid>>

TripNext == Roll \/ \E d \in Dirs : Lay(d)

TripSpec == TripInit /\ [][TripNext]_tripVars

-----------------------------------------------------------------------------
(* Properties.                                                             *)

\* The leg by which the train came to the k-th place, a merge.
LegTaken(k) ==
    LET legs == At(At(route[k].place).reverse).edge
    IN  IF legs[1].dest = At(route[k - 1].place).reverse THEN "straight" ELSE "curved"

Trailed(n) == {k \in 2 .. Len(route) : At(route[k].place).type = "merge" /\ At(route[k].place).num = n}

\* The switches as the train met them; the others as it trailed them, or curved.
LaidSoFar == [n \in VALID_SWITCHES |->
            IF n \in DOMAIN laid THEN laid[n]
            ELSE IF Trailed(n) # {} THEN LegTaken(CHOOSE k \in Trailed(n) : TRUE)
            ELSE "curved"]

\* No switch was passed from behind against the way it lies.
FollowedSwitches ==
    LET dir == LaidSoFar
    IN  \A k \in 2 .. Len(route) :
            At(route[k].place).type = "merge" => dir[At(route[k].place).num] = LegTaken(k)

LastStop(k) == CHOOSE j \in 1 .. k : Stop(j) /\ \A i \in j + 1 .. k : ~ Stop(i)

\* next_sensor() loops until it meets a sensor (track_graph.cc:81-88,
\* `while (true)`): on neither track can switches be laid so that a train goes
\* round without meeting one, which would hang the track oracle.
NoLoopWithoutSensor ==
    Known(Here.place) /\ Ahead # NoEdge /\ Ahead.dest \in Passed =>
        \E k \in DOMAIN route : /\ Stop(k)
                                /\ \E j \in 1 .. k : route[j].place = Ahead.dest

\* The oracle knows the sensors around a train as the train meets them.  The distance
\* to a sensor is the one a train travels to it, and it is found whenever the train
\* gets there within MAX_ITERS + 1 edges (distance_between(), track_graph.cc:92-131).
\* prev_sensor() leads back where next_sensor() came from, over the same distance, if
\* the switches trailed lie for the train (track_graph.cc:72-89 and 142-152): the tables
\* are their own mirror images.
SensorsAsTravelled ==
    Stop(Len(route)) =>
        LET dir == LaidSoFar
            s   == LastStop(Len(route) - 1)
            d   == Here.mm - route[s].mm
        IN  /\ Hops <= MAX_ITERS + 1 =>
                   DistanceBetween(At(Start.place).num, At(Here.place).num, dir) = Here.mm
            /\ Hops > 0 /\ FollowedSwitches =>
                   /\ NextSensor(At(route[s].place).num, dir)
                          = [sensor |-> At(Here.place).num, distance |-> d]
                   /\ PrevSensor(At(Here.place).num, dir)
                          = [sensor |-> At(route[s].place).num, distance |-> d]

\* A position given as an offset from the start, or as one behind the sensor the
\* train is at, is turned into the last sensor the train has passed there and the
\* distance from it (track_graph.cc:154-184).
NormalizeFindsTrain ==
    LET s   == LastStop(Len(route))
        dir == LaidSoFar
    IN  /\ Normalize(Pos(At(Start.place).num, Here.mm), dir)
               = Pos(At(route[s].place).num, Here.mm - route[s].mm)
        /\ Stop(Len(route)) /\ Hops > 0 /\ FollowedSwitches =>
               Normalize(Pos(At(Here.place).num, - Here.mm), dir) = Pos(At(Start.place).num, 0)

=============================================================================
