----------------------------- MODULE TrackGraph -----------------------------
(***************************************************************************)
(* The class TrackGraph: what the train programs ask of a track whose      *)
(* switches lie some way, as operators.  TrackTrip and ShortestPath check  *)
(* the answers.                                                            *)
(***************************************************************************)
EXTENDS TrackData, FiniteSets

CONSTANT TrackIds    \* the tracks the user may name

ASSUME TrackAssumption == TrackIds \subseteq {"A", "B"} /\ TrackIds # {}

VARIABLE graph       \* the nodes, as the constructor has filled them in

MAX_ITERS == 40

Dirs           == {"straight", "curved"}
VALID_SWITCHES == 1 .. 18 \cup 153 .. 156
SENSORS        == 0 .. 79
Places         == 0 .. TRACK_MAX - 1
INT_MAX        == 2147483647

\* make_loop(): all curved but the outer ring.
Loop == [n \in VALID_SWITCHES |-> IF n \in {6, 7, 8, 9, 14, 15} THEN "straight" ELSE "curved"]

Track(id) == IF id = "A" THEN TrackA ELSE TrackB

Edges == [dest : Places, dist : Nat]
Nodes == [type : {"sensor", "branch", "merge", "enter", "exit", "none"},
          num : Nat, reverse : Places, edge : Seq(Edges)]

Leaving(t, i) == {t[i + 1].edge[k] : k \in DOMAIN t[i + 1].edge}

Bare(t) == {i \in Places : t[i + 1].type # "sensor"}

\* Those of some places from which an edge leads to one of them.
Within(t, some) == {i \in some : \E e \in Leaving(t, i) : e.dest \in some}

\* What the program takes for granted of a table: its edges lead to nodes of it, a node
\* of each type has as many as next_edge() and shortest_path() look at, every sensor and
\* every switch there is exactly once, the two edges of a switch lead to different nodes, a
\* train moves on from a sensor, and who follows six nodes comes by another.
WellLaid(t) ==
    /\ t \in [1 .. TRACK_MAX -> Nodes]
    /\ \A i \in Places :
          Len(t[i + 1].edge) = CASE t[i + 1].type \in {"none", "exit"} -> 0
                                 [] t[i + 1].type = "branch" -> 2
                                 [] OTHER -> 1
    /\ {t[i + 1].num : i \in Places \ Bare(t)} = SENSORS
    /\ \A i, j \in Places : t[i + 1].type = t[j + 1].type /\ t[i + 1].num = t[j + 1].num
                              /\ t[i + 1].type \in {"sensor", "branch"} => i = j
    /\ \A i \in Places : t[i + 1].type = "branch" => t[i + 1].num \in VALID_SWITCHES
    /\ \A i \in Places : \A e, f \in Leaving(t, i) : e.dest = f.dest => e = f
    /\ \A i \in Places \ Bare(t) : \A e \in Leaving(t, i) : e.dist > 0
    /\ Within(t, Within(t, Within(t, Within(t, Within(t, Within(t, Bare(t))))))) = {}

\* The reverse of a node is where a train that is turned round stands, and it comes back
\* along the edges it came by: what invert_sensor() and prev_sensor() rely on.
Mirrored(t) ==
    \A i \in Places : t[i + 1].type # "none" =>
        LET back == t[t[i + 1].reverse + 1]
        IN  /\ back.reverse = i
            /\ <<t[i + 1].type, back.type>> \in {<<"sensor", "sensor">>, <<"branch", "merge">>,
                   <<"merge", "branch">>, <<"enter", "exit">>, <<"exit", "enter">>}
            /\ t[i + 1].type = "branch" => back.num = t[i + 1].num
            /\ \A e \in Leaving(t, i) :
                   [dest |-> t[i + 1].reverse, dist |-> e.dist] \in Leaving(t, t[e.dest + 1].reverse)

ASSUME TablesAssumption == \A id \in TrackIds : WellLaid(Track(id)) /\ Mirrored(Track(id))

\* A sensor is its number, 16 * group + idx - 1, which node_is_sensor() looks for.
PlacesOf(t) ==
    LET sensors == {k \in DOMAIN t : t[k].type = "sensor"}
    IN  [s \in {t[k].num : k \in sensors} |-> (CHOOSE k \in sensors : t[k].num = s) - 1]

\* The nodes, and where in the array each sensor is.
Filled(t) == [node |-> t, place |-> PlacesOf(t)]

GraphInit == \E id \in TrackIds : graph = Filled(Track(id))

At(i) == graph.node[i + 1]

IsSensor(i) == At(i).type = "sensor"

PlaceOf == graph.place
Sensors == DOMAIN PlaceOf

-----------------------------------------------------------------------------
(* The queries.  dir is the direction of each valid switch.                *)

NoEdge  == Edge(-1, 0)
Nowhere == [sensor |-> -1, distance |-> -1]
NoRoute == -1

\* Mutant: a merge is left by the second edge of its reverse.
EdgeOfReverse(i, dir) ==
    CASE At(i).type \in {"none", "exit"} -> NoEdge
      [] At(i).type = "branch" -> At(i).edge[IF dir[At(i).num] = "straight" THEN 1 ELSE 2]
      [] At(i).type = "merge" -> At(At(i).reverse).edge[2]
      [] OTHER -> At(i).edge[1]

NextEdge(i, dir) ==
    CASE At(i).type \in {"none", "exit"} -> NoEdge
      [] At(i).type = "branch" -> At(i).edge[IF dir[At(i).num] = "straight" THEN 1 ELSE 2]
      [] OTHER -> At(i).edge[1]

Beyond(ahead, mm) == IF ahead = Nowhere THEN Nowhere ELSE [ahead EXCEPT !.distance = @ + mm]

NextSensor(s, dir) ==
    LET ahead[i \in Places] ==
            LET e == NextEdge(i, dir)
            IN  CASE e = NoEdge -> Nowhere
                  [] e # NoEdge /\ IsSensor(e.dest) -> [sensor |-> At(e.dest).num, distance |-> e.dist]
                  [] OTHER -> Beyond(ahead[e.dest], e.dist)
    IN  ahead[PlaceOf[s]]

\* Mutant: one edge fewer.
GivesUpEarly(k) == k >= MAX_ITERS

GivesUp(k) == k > MAX_ITERS

Longer(way, mm) == IF way = NoRoute THEN NoRoute ELSE way + mm

\* way[k][i] is what is left from the place i, where the loop of distance_between() is
\* in its k-th turn.
DistanceBetween(a, b, dir) ==
    LET from == PlaceOf[a]
        to   == PlaceOf[b]
        way[k \in 0 .. MAX_ITERS + 1] == [i \in Places |->
            LET e == NextEdge(i, dir)
            IN  CASE i = to -> 0
                  [] i # to /\ (GivesUp(k) \/ e = NoEdge \/ e.dest = from) -> NoRoute
                  [] OTHER -> Longer(way[k + 1][e.dest], e.dist)]
    IN  way[0][from]

InvertSensor(s) == At(At(PlaceOf[s]).reverse).num

PrevSensor(s, dir) ==
    LET back == NextSensor(InvertSensor(s), dir)
    IN  IF back = Nowhere THEN Nowhere
        ELSE [sensor |-> InvertSensor(back.sensor), distance |-> back.distance]

Pos(s, mm) == [sensor |-> s, offset_mm |-> mm]

\* Mutant: a train exactly at the next sensor has not reached it.
IsShortOfAtOnce(pos, next) == next.distance >= pos.offset_mm

IsShortOf(pos, next) == next.distance > pos.offset_mm

Positions == [sensor : Sensors, offset_mm : Int]

\* norm[p] is what the loop of normalize() makes of p.
Normalize(pos, dir) ==
    LET norm[p \in Positions] ==
            LET ahead  == NextSensor(p.sensor, dir)
                behind == PrevSensor(p.sensor, dir)
            IN  CASE p.offset_mm = 0 -> p
                  [] p.offset_mm > 0 /\ (ahead = Nowhere \/ IsShortOf(p, ahead)) -> p
                  [] p.offset_mm > 0 /\ ahead # Nowhere /\ ~ IsShortOf(p, ahead) ->
                         norm[Pos(ahead.sensor, p.offset_mm - ahead.distance)]
                  [] p.offset_mm < 0 /\ behind = Nowhere -> p
                  [] OTHER -> norm[Pos(behind.sensor, p.offset_mm + behind.distance)]
    IN  norm[pos]

=============================================================================
