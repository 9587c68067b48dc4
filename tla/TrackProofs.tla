----------------------------- MODULE TrackProofs -----------------------------
(***************************************************************************)
(* Proofs about searches for paths, for every track that is WellLaid, and  *)
(* about trips: what the track oracle finds out about the sensors around a *)
(* train and its position is where the train came from and how far it      *)
(* travelled, on every track that is Mirrored as well.                     *)
(***************************************************************************)
EXTENDS ShortestPath, TrackTrip, TrackGraphProofs

LEMMA GraphStays ==
  ASSUME UNCHANGED graph
  PROVE  /\ GraphOK' = GraphOK /\ \A i : At(i)' = At(i) /\ IsSensor(i)' = IsSensor(i)
         /\ PlaceOf' = PlaceOf /\ Throughs' = Throughs
  BY DEF GraphOK, At, IsSensor, PlaceOf, Throughs

LEMMA NoteStays ==
  ASSUME UNCHANGED graph, NEW n, NEW from
  PROVE  /\ NoteSound(n, from) => NoteSound(n, from)'
         /\ AllRelaxed(n) => AllRelaxed(n)'
         /\ Nearest(n)' = Nearest(n)
  <1>1. \A i : At(i)' = At(i)
    BY GraphStays
  <1>2. Throughs' = Throughs
    BY GraphStays
  <1>3. \A a, b : Leads(a, b)' = Leads(a, b)
    BY <1>1 DEF Leads
  <1>4. \A w : IsWay(w, from)' = IsWay(w, from)
    BY <1>3 DEF IsWay
  <1>5. \A w, i : IsNoted(w, n, from, i)' = IsNoted(w, n, from, i)
    BY <1>4 DEF IsNoted
  <1>6. \A i : PrevSound(n, i)' = PrevSound(n, i)
    BY <1>1 DEF PrevSound
  <1>7. NoteSound(n, from) => NoteSound(n, from)'
    BY <1>2, <1>5, <1>6 DEF NoteSound
  <1>8. AllRelaxed(n) => AllRelaxed(n)'
    BY <1>1 DEF AllRelaxed, EdgesRelaxed
  <1>9. Nearest(n)' = Nearest(n)
    BY <1>1 DEF Nearest, Open
  <1> QED BY <1>7, <1>8, <1>9

-----------------------------------------------------------------------------
(* The invariant.                                                          *)

SearchInv ==
    /\ GraphOK
    /\ NoteSound(note, start) /\ AllRelaxed(note)
    /\ end # Null => end \in SENSORS /\ PlaceOf[end] \in Nearest(note)

LEMMA SearchInitInv == SearchInit => SearchInv
  <1> SUFFICES ASSUME SearchInit PROVE SearchInv
    OBVIOUS
  <1>1. GraphOK
    BY DEF SearchInit, GraphInit, GraphOK
  <1>2. start \in Places
    BY <1>1, SensorsPlaced DEF SearchInit
  <1>3. NoteSound(note, start) /\ AllRelaxed(note)
    BY <1>1, <1>2, SearchStarts DEF SearchInit
  <1> QED BY <1>1, <1>3 DEF SearchInit, SearchInv

LEMMA FindInv ==
  ASSUME SearchInv, NEW i \in Nearest(note), Find(i)
  PROVE  SearchInv'
  <1>1. /\ UNCHANGED <<graph, start, note>> /\ IsSensor(i) /\ end' = At(i).num
        /\ GraphOK /\ NoteSound(note, start) /\ AllRelaxed(note)
    BY DEF SearchInv, Find
  <1>2. i \in Places
    BY <1>1, NearestIs
  <1>3. end' \in SENSORS /\ PlaceOf[end'] = i
    BY <1>1, <1>2, SensorsPlaced
  <1>4. /\ GraphOK' = GraphOK /\ PlaceOf' = PlaceOf
    BY <1>1, GraphStays
  <1>5. /\ NoteSound(note, start)' /\ AllRelaxed(note)' /\ Nearest(note)' = Nearest(note)
    <2>1. PICK n, from : n = note /\ from = start
      OBVIOUS
    <2>2. NoteSound(n, from)' /\ AllRelaxed(n)' /\ Nearest(n)' = Nearest(n)
      BY <2>1, <1>1, NoteStays
    <2>3. n = note' /\ from = start'
      BY <2>1, <1>1
    <2> QED BY <2>1, <2>2, <2>3
  <1> QED BY <1>1, <1>3, <1>4, <1>5 DEF SearchInv

LEMMA VisitInv ==
  ASSUME SearchInv, NEW i \in Nearest(note), Visit(i)
  PROVE  SearchInv'
  <1>1. /\ UNCHANGED <<graph, start, end>> /\ note' = Visited(note, i) /\ end = Null
        /\ GraphOK /\ NoteSound(note, start) /\ AllRelaxed(note)
    BY DEF SearchInv, Visit, Searching
  <1>2. NoteSound(note', start) /\ AllRelaxed(note')
    BY <1>1, VisitStep
  <1>3. GraphOK' = GraphOK
    BY <1>1, GraphStays
  <1>4. NoteSound(note, start)' /\ AllRelaxed(note)'
    <2>1. PICK n, from : n = note' /\ from = start
      OBVIOUS
    <2>2. NoteSound(n, from)' /\ AllRelaxed(n)'
      BY <2>1, <1>1, <1>2, NoteStays
    <2>3. from = start'
      BY <2>1, <1>1
    <2> QED BY <2>1, <2>2, <2>3
  <1> QED BY <1>1, <1>3, <1>4 DEF SearchInv

LEMMA SearchStutters ==
  ASSUME SearchInv, UNCHANGED searchVars
  PROVE  SearchInv'
  <1>1. UNCHANGED <<graph, start, note, end>>
    BY DEF searchVars
  <1>2. GraphOK' = GraphOK /\ PlaceOf' = PlaceOf
    BY <1>1, GraphStays
  <1>3. PICK n, from : n = note /\ from = start
    OBVIOUS
  <1>4. NoteSound(n, from)' /\ AllRelaxed(n)' /\ Nearest(n)' = Nearest(n)
    BY <1>1, <1>3, NoteStays DEF SearchInv
  <1>5. n = note' /\ from = start'
    BY <1>1, <1>3
  <1>6. NoteSound(note, start)' /\ AllRelaxed(note)' /\ Nearest(note)' = Nearest(note)
    BY <1>3, <1>4, <1>5
  <1> QED BY <1>1, <1>2, <1>6 DEF SearchInv

\* The search keeps its invariant (shortest_path(), track_graph.cc:226-265).
THEOREM SearchIsSound == SearchSpec => []SearchInv
  <1>1. SearchInit => SearchInv
    BY SearchInitInv
  <1>2. SearchInv /\ [SearchNext]_searchVars => SearchInv'
    BY FindInv, VisitInv, SearchStutters DEF SearchNext
  <1> QED BY <1>1, <1>2, PTL DEF SearchSpec

-----------------------------------------------------------------------------
(* What the invariant says of the path found.                              *)

\* In every state of a search the distances noted are those of the ways along prev,
\* and no edge out of a visited node leads on cheaper (track_graph.cc:226-263).
THEOREM DistancesAreOptimal == SearchSpec => []DistancesOptimal
  <1>1. SearchInv => DistancesOptimal
    BY DEF SearchInv, NoteSound, PrevSound, AllRelaxed, EdgesRelaxed, DistancesOptimal
  <1> QED BY <1>1, SearchIsSound, PTL

\* The path found leads from the start to the end along edges of the track, its length
\* is the distance computed, and no way from the start to the end is shorter, with
\* however many nodes and wherever it comes by (shortest_path(), track_graph.cc:226-302).
PathIsShortest ==
    Found =>
        /\ \E w : /\ IsWay(w, start) /\ w[Len(w)] = [place |-> PlaceOf[end], mm |-> Distance]
                  /\ Path = [k \in 1 .. Len(w) |-> w[k].place]
        /\ \A w : IsWay(w, start) =>
               \A k \in 1 .. Len(w) : w[k].place = PlaceOf[end] => Distance <= w[k].mm

THEOREM PathsAreShortest == SearchSpec => []PathIsShortest
  <1>1. SearchInv => PathIsShortest
    <2> SUFFICES ASSUME SearchInv, Found
                 PROVE  /\ \E w : /\ IsWay(w, start)
                                  /\ w[Len(w)] = [place |-> PlaceOf[end], mm |-> Distance]
                                  /\ Path = [k \in 1 .. Len(w) |-> w[k].place]
                        /\ \A w : IsWay(w, start) =>
                               \A k \in 1 .. Len(w) : w[k].place = PlaceOf[end] => Distance <= w[k].mm
      BY DEF PathIsShortest
    <2> DEFINE i == PlaceOf[end]
    <2>1. /\ GraphOK /\ NoteSound(note, start) /\ AllRelaxed(note) /\ i \in Nearest(note)
      BY DEF SearchInv, Found
    <2>2. /\ i \in Throughs /\ i \in Places /\ i \notin note.visited /\ note.dist[i] < INT_MAX
          /\ \A j \in Throughs \ note.visited : note.dist[i] <= note.dist[j]
      BY <2>1, NearestIs
    <2>3. Distance = note.dist[i] /\ Path = PathTo(note, start, i)
      BY DEF Distance, Path
    <2> HIDE DEF i
    <2>4. PICK w : IsNoted(w, note, start, i)
      BY <2>1, <2>2 DEF NoteSound
    <2>5. /\ IsWay(w, start) /\ w[Len(w)] = [place |-> i, mm |-> Distance]
          /\ Path = [k \in 1 .. Len(w) |-> w[k].place]
      <3>1. PathTo(note, start, i) = [k \in 1 .. Len(w) |-> w[k].place]
        BY <2>4, PathIsNoted
      <3>2. IsWay(w, start) /\ w[Len(w)] = [place |-> i, mm |-> note.dist[i]]
        BY <2>4 DEF IsNoted
      <3> QED BY <3>1, <3>2, <2>3
    <2>6. ASSUME NEW u, IsWay(u, start), NEW k \in 1 .. Len(u), u[k].place = i
          PROVE  Distance <= u[k].mm
      <3>1. u[k].mm \in Nat
        BY <2>6, WayEnds
      <3>2. note.dist[i] \in Nat /\ note.dist[i] <= INT_MAX
        BY <2>1, <2>2, NoteTyped DEF NoteSound
      <3>3. CASE u[k].mm < note.dist[i]
        <4>1. note.dist[u[k].place] <= u[k].mm
          BY <2>1, <2>2, <2>6, <3>2, <3>3, NoWayIsShorter
        <4> QED BY <4>1, <3>1, <3>2, <3>3, <2>6
      <3> QED BY <3>1, <3>2, <3>3, <2>3
    <2>7. \A u : IsWay(u, start) => \A k \in 1 .. Len(u) : u[k].place = i => Distance <= u[k].mm
      BY <2>6
    <2> QED BY <2>5, <2>7 DEF i
  <1> QED BY <1>1, SearchIsSound, PTL

\* A node is chosen as long as one is open.
LEMMA NearestThere ==
  ASSUME NEW n \in Notes, Nearest(n) = {}
  PROVE  Open(n) = {}
  <1> SUFFICES ASSUME Open(n) # {} PROVE FALSE
    OBVIOUS
  <1>1. Open(n) \subseteq Places /\ Places \subseteq Nat
    BY PlacesType DEF Open
  <1>2. \A i \in Open(n) : n.dist[i] \in Nat
    BY <1>1, NoteTyped
  <1> DEFINE D == {n.dist[i] : i \in Open(n)}
  <1>3. D \in SUBSET Nat /\ D # {}
    BY <1>2
  <1>4. PICK d \in D : \A x \in D : d <= x
    BY <1>3, LeastNatural
  <1> DEFINE I == {i \in Open(n) : n.dist[i] = d}
  <1>5. I \in SUBSET Nat /\ I # {}
    BY <1>1, <1>4
  <1>6. PICK i \in I : \A j \in I : i <= j
    BY <1>5, LeastNatural
  <1>7. i \in Open(n) /\ n.dist[i] = d
    BY <1>6
  <1>8. ASSUME NEW j \in Open(n)
        PROVE  n.dist[i] < n.dist[j] \/ (n.dist[i] = n.dist[j] /\ i <= j)
    <2>1. d <= n.dist[j] /\ d \in Nat /\ n.dist[j] \in Nat
      BY <1>2, <1>3, <1>4
    <2>2. CASE n.dist[j] = d
      <3>1. j \in I
        BY <2>2
      <3> QED BY <3>1, <1>6, <1>7, <2>2
    <2> QED BY <2>1, <2>2, <1>7
  <1>9. i \in Nearest(n)
    BY <1>7, <1>8 DEF Nearest
  <1> QED BY <1>9

\* A search that has nowhere left to go has been everywhere: every sensor to which a way
\* leads that an int can measure has been visited, so shortest_path() fails only for ends that
\* cannot be reached (track_graph.cc:239-241 and 267-272).
SearchIsExhaustive ==
    Searching /\ Nearest(note) = {} =>
        \A w : IsWay(w, start) =>
            \A k \in 1 .. Len(w) : w[k].mm < INT_MAX /\ IsSensor(w[k].place) => w[k].place \in note.visited

THEOREM SearchesAreExhaustive == SearchSpec => []SearchIsExhaustive
  <1>1. SearchInv => SearchIsExhaustive
    <2> SUFFICES ASSUME SearchInv, Nearest(note) = {},
                        NEW w, IsWay(w, start), NEW k \in 1 .. Len(w),
                        w[k].mm < INT_MAX, IsSensor(w[k].place)
                 PROVE  w[k].place \in note.visited
      BY DEF SearchIsExhaustive
    <2>1. GraphOK /\ NoteSound(note, start) /\ AllRelaxed(note) /\ note \in Notes
      BY DEF SearchInv, NoteSound
    <2>2. Open(note) = {}
      BY <2>1, NearestThere
    <2>3. \A j \in Places : note.dist[j] \in Nat /\ note.dist[j] <= INT_MAX
      BY <2>1, NoteTyped
    <2>4. ASSUME NEW j \in Throughs \ note.visited PROVE INT_MAX <= note.dist[j]
      <3>1. j \in Places /\ ~(note.dist[j] < INT_MAX)
        BY <2>2, <2>4 DEF Open, Throughs
      <3> QED BY <3>1, <2>3, IntMaxType
    <2>5. note.dist[w[k].place] <= w[k].mm
      BY <2>1, <2>4, IntMaxType, NoWayIsShorter
    <2>6. w[k].place \in Places /\ w[k].mm \in Nat
      BY WayEnds
    <2>7. w[k].place \in Throughs
      BY <2>6 DEF Throughs, IsSensor
    <2> SUFFICES ASSUME w[k].place \notin note.visited PROVE FALSE
      OBVIOUS
    <2>8. INT_MAX <= note.dist[w[k].place]
      BY <2>4, <2>7
    <2> QED BY <2>3, <2>5, <2>6, <2>8, IntMaxType
  <1> QED BY <1>1, SearchIsSound, PTL

-----------------------------------------------------------------------------
(* A train that follows the switches.                                      *)

\* A sensor seen from farther away.
LEMMA BeyondSensor ==
  ASSUME NEW s \in SENSORS, NEW d \in Nat, NEW m \in Nat
  PROVE  Beyond([sensor |-> s, distance |-> d], m) = [sensor |-> s, distance |-> d + m]
  <1> DEFINE x == [sensor |-> s, distance |-> d]
  <1>1. x.distance = d /\ x.distance # Nowhere.distance
    BY DEF Nowhere
  <1>2. x # Nowhere
    BY <1>1
  <1> QED BY <1>2 DEF Beyond

\* The two edges of a branch lead to different nodes.
LEMMA NodeParts ==
  ASSUME GraphOK, NEW i \in Places, NEW k \in DOMAIN At(i).edge, NEW l \in DOMAIN At(i).edge,
         At(i).edge[k].dest = At(i).edge[l].dest
  PROVE  At(i).edge[k] = At(i).edge[l]
  <1>1. PICK t : graph = Filled(t) /\ WellLaid(t)
    BY TableIs
  <1>2. graph.node = t
    BY <1>1 DEF Filled
  <1>3. At(i).edge[k] \in Leaving(t, i) /\ At(i).edge[l] \in Leaving(t, i)
    BY <1>2 DEF Leaving, At
  <1> QED BY <1>1, <1>3 DEF WellLaid

\* From one place to the next as the switches lie in dir.
Follows(a, b, dir) ==
    LET e == NextEdge(a.place, dir)
    IN  e # NoEdge /\ b.place = e.dest /\ b.mm = a.mm + e.dist

\* So from the a-th place of a way to the b-th.
Along(w, a, b, dir) == \A k \in a .. b - 1 : Follows(w[k], w[k + 1], dir)

\* The steps of a way are places and millimetres.
LEMMA StepsTyped ==
  ASSUME NEW w \in Seq(Steps), NEW k \in 1 .. Len(w)
  PROVE  w[k] \in Steps /\ w[k].place \in Places /\ w[k].mm \in Nat
  <1>1. w[k] \in Steps
    OBVIOUS
  <1> QED BY <1>1 DEF Steps

\* Millimetres travelled from m to n and on to f.
LEMMA Legs ==
  ASSUME NEW m \in Nat, NEW n \in Nat, NEW f \in Nat, m <= n, n <= f
  PROVE  /\ f - n \in Nat /\ n - m \in Nat /\ f - m \in Nat /\ f - n + (n - m) = f - m /\ m <= f
         /\ n < f => f - n > 0 /\ m < f
  OBVIOUS

\* One step of a train: where it leads, and what it makes of what is ahead.
LEMMA FollowsIs ==
  ASSUME GraphOK, NEW dir, NEW a \in Steps, NEW b \in Steps, Follows(a, b, dir)
  PROVE  /\ Leads(a, b) /\ a.mm <= b.mm
         /\ IsSensor(a.place) \/ IsSensor(b.place) => a.mm < b.mm
         /\ \A r : IsRank(r) /\ ~ IsSensor(b.place) => r[b.place] < r[a.place]
         /\ \A ahead : IsAheadOfAll(ahead, dir) =>
               ahead[a.place] = IF IsSensor(b.place)
                                THEN [sensor |-> At(b.place).num, distance |-> b.mm - a.mm]
                                ELSE Beyond(ahead[b.place], b.mm - a.mm)
  <1> DEFINE e == NextEdge(a.place, dir)
  <1>1. e # NoEdge /\ b.place = e.dest /\ b.mm = a.mm + e.dist
    BY DEF Follows
  <1>2. a.place \in Places /\ a.mm \in Nat /\ b.mm \in Nat
    BY DEF Steps
  <1>3. PICK k \in DOMAIN At(a.place).edge : e = At(a.place).edge[k]
    BY <1>1, <1>2, NextEdgeIs
  <1>4. PICK d \in Nat : d = e.dist
    BY <1>1, <1>2, NextEdgeIs
  <1>5. b.mm = a.mm + d /\ b.mm - a.mm = d
    BY <1>1, <1>2, <1>4
  <1>6. Leads(a, b)
    BY <1>1, <1>3 DEF Leads
  <1>7. IsSensor(a.place) \/ IsSensor(b.place) => d > 0
    BY <1>1, <1>2, <1>3, <1>4, IntoSensor, FromSensor
  <1>8. \A r : IsRank(r) /\ ~ IsSensor(b.place) => r[b.place] < r[a.place]
    BY <1>1, <1>2, <1>3 DEF IsRank
  <1>9. \A ahead : IsAheadOfAll(ahead, dir) =>
               ahead[a.place] = IF IsSensor(b.place)
                                THEN [sensor |-> At(b.place).num, distance |-> d]
                                ELSE Beyond(ahead[b.place], d)
    BY <1>1, <1>2, <1>4 DEF IsAheadOfAll, AheadOf
  <1>10. a.mm <= b.mm /\ (d > 0 => a.mm < b.mm)
    BY <1>2, <1>5
  <1> QED BY <1>5, <1>6, <1>7, <1>8, <1>9, <1>10

\* What is ahead of a train is what is ahead of where it will be, before it meets a sensor.
LEMMA AheadAlong ==
  ASSUME GraphOK, NEW dir, NEW ahead, IsAheadOfAll(ahead, dir),
         NEW w \in Seq(Steps), NEW a \in 1 .. Len(w), NEW b \in a .. Len(w),
         Along(w, a, b, dir), \A k \in a + 1 .. b : ~ IsSensor(w[k].place)
  PROVE  /\ w[a].mm <= w[b].mm
         /\ ahead[w[a].place] = Beyond(ahead[w[b].place], w[b].mm - w[a].mm)
  <1> DEFINE x == ahead[w[b].place]
             Good(k) == w[k].mm <= w[b].mm /\ ahead[w[k].place] = Beyond(x, w[b].mm - w[k].mm)
             T == {j \in 0 .. b - a : Good(b - j)}
  <1>1. a \in Nat /\ b \in Nat /\ a >= 1 /\ a <= b /\ b <= Len(w) /\ Len(w) \in Nat
    OBVIOUS
  <1>2. \A k \in 1 .. Len(w) : w[k] \in Steps /\ w[k].place \in Places /\ w[k].mm \in Nat
    BY StepsTyped
  <1>3. IsFind(x)
    BY <1>1, <1>2, AheadIsFind
  <1>4. Beyond(x, 0) = x
    <2>1. CASE x = Nowhere
      BY <2>1 DEF Beyond
    <2>2. CASE x # Nowhere
      <3>1. PICK s \in SENSORS, d \in Nat : x = [sensor |-> s, distance |-> d]
        BY <2>2, <1>3 DEF IsFind
      <3>2. Beyond(x, 0) = [sensor |-> s, distance |-> d + 0]
        BY <3>1, BeyondSensor
      <3> QED BY <3>1, <3>2
    <2> QED BY <2>1, <2>2
  <1> HIDE DEF x
  <1>5. b - a \in Nat /\ 0 \in T
    <2>1. b - 0 = b /\ w[b].mm - w[b].mm = 0 /\ w[b].mm <= w[b].mm
      BY <1>1, <1>2
    <2>2. Good(b - 0)
      BY <2>1, <1>4 DEF x
    <2>3. 0 \in 0 .. b - a
      BY <1>1
    <2> HIDE DEF Good
    <2> QED BY <1>1, <2>2, <2>3
  <1>6. ASSUME NEW j \in 0 .. b - a, j \in T, j < b - a PROVE j + 1 \in T
    <2>1. PICK k : k = b - (j + 1)
      OBVIOUS
    <2>2. k \in a .. b - 1 /\ k \in 1 .. Len(w) /\ k + 1 \in 1 .. Len(w) /\ k + 1 \in a + 1 .. b
          /\ k + 1 = b - j
      <3> HIDE DEF T, Good
      <3>1. j \in Nat /\ a + j < b
        BY <1>1, <1>6
      <3>2. k \in Int /\ k + 1 = b - j
        BY <1>1, <2>1, <3>1
      <3>3. a <= k /\ k + 1 <= b
        BY <1>1, <3>1, <3>2
      <3> QED BY <1>1, <3>2, <3>3
    <2>3. Good(k + 1)
      BY <1>6, <2>2
    <2>4. PICK p \in Steps, q \in Steps : p = w[k] /\ q = w[k + 1]
      BY <1>2, <2>2
    <2>5. Follows(p, q, dir) /\ ~ IsSensor(q.place)
      BY <2>2, <2>4 DEF Along
    <2>6. p.mm <= q.mm /\ ahead[p.place] = Beyond(ahead[q.place], q.mm - p.mm)
      BY <2>5, FollowsIs
    <2>7. PICK m \in Nat, n \in Nat, f \in Nat : m = p.mm /\ n = q.mm /\ f = w[b].mm
      BY <1>1, <1>2, <2>2, <2>4
    <2>8. n <= f /\ ahead[q.place] = Beyond(x, f - n)
      BY <2>3, <2>4, <2>7
    <2>9. m <= n /\ ahead[p.place] = Beyond(Beyond(x, f - n), n - m)
      BY <2>6, <2>7, <2>8
    <2>10. f - n \in Nat /\ n - m \in Nat /\ f - n + (n - m) = f - m /\ m <= f
      <3>1. m <= n /\ n <= f
        BY <2>8, <2>9
      <3> QED BY <2>7, <3>1, Legs
    <2>11. Beyond(Beyond(x, f - n), n - m) = Beyond(x, f - n + (n - m))
      BY <1>3, <2>10, BeyondIs
    <2>12. Good(k)
      BY <2>4, <2>7, <2>9, <2>10, <2>11
    <2>13. j + 1 \in 0 .. b - a
      BY <1>1, <1>6
    <2> QED BY <2>1, <2>12, <2>13
  <1>7. b - a \in T
    <2>1. \A j \in 0 .. b - a : j \in T
      <3> HIDE DEF T
      <3> QED BY <1>5, <1>6, AllUpTo
    <2>2. b - a \in 0 .. b - a
      BY <1>1
    <2> QED BY <2>1, <2>2
  <1>8. b - (b - a) = a
    BY <1>1
  <1> QED BY <1>7, <1>8 DEF x

\* next_sensor() of a sensor is the one the train comes by next.
LEMMA NextSensorAlong ==
  ASSUME GraphOK, NEW dir, NEW w \in Seq(Steps), NEW a \in 1 .. Len(w), NEW b \in a + 1 .. Len(w),
         Along(w, a, b, dir), IsSensor(w[a].place), IsSensor(w[b].place),
         \A k \in a + 1 .. b - 1 : ~ IsSensor(w[k].place)
  PROVE  /\ NextSensor(At(w[a].place).num, dir)
                = [sensor |-> At(w[b].place).num, distance |-> w[b].mm - w[a].mm]
         /\ w[a].mm < w[b].mm
  <1>1. a \in Nat /\ b \in Nat /\ a >= 1 /\ a + 1 <= b /\ b <= Len(w) /\ Len(w) \in Nat
    OBVIOUS
  <1>2. \A k \in 1 .. Len(w) : w[k] \in Steps /\ w[k].place \in Places /\ w[k].mm \in Nat
    BY StepsTyped
  <1>3. PICK ahead : /\ IsAheadOfAll(ahead, dir)
                     /\ \A s : NextSensor(s, dir) = ahead[PlaceOf[s]]
    BY SensorAheadUnfolds
  <1>4. PICK c : c = b - 1
    OBVIOUS
  <1>5. c \in a .. Len(w) /\ c \in 1 .. Len(w) /\ c + 1 = b /\ c \in a .. b - 1
    BY <1>1, <1>4
  <1>6. Along(w, a, c, dir) /\ \A k \in a + 1 .. c : ~ IsSensor(w[k].place)
    BY <1>1, <1>4 DEF Along
  <1>7. w[a].mm <= w[c].mm /\ ahead[w[a].place] = Beyond(ahead[w[c].place], w[c].mm - w[a].mm)
    BY <1>3, <1>5, <1>6, AheadAlong
  <1>8. PICK p \in Steps, q \in Steps : p = w[c] /\ q = w[b]
    BY <1>1, <1>2, <1>5
  <1>9. Follows(p, q, dir)
    BY <1>5, <1>8 DEF Along
  <1>10. p.mm < q.mm /\ ahead[p.place] = [sensor |-> At(q.place).num, distance |-> q.mm - p.mm]
    <2>1. IsSensor(q.place)
      BY <1>8
    <2>2. p.mm < q.mm
      BY <1>9, <2>1, FollowsIs
    <2>3. \A g : IsAheadOfAll(g, dir) =>
             g[p.place] = IF IsSensor(q.place) THEN [sensor |-> At(q.place).num, distance |-> q.mm - p.mm]
                          ELSE Beyond(g[q.place], q.mm - p.mm)
      BY <1>9, FollowsIs
    <2> QED BY <1>3, <2>1, <2>2, <2>3
  <1>11. At(q.place).num \in SENSORS
    BY <1>1, <1>2, <1>8, SensorsPlaced
  <1>12. PICK m \in Nat, n \in Nat, f \in Nat, s \in SENSORS :
            m = w[a].mm /\ n = p.mm /\ f = q.mm /\ s = At(q.place).num
    BY <1>1, <1>2, <1>5, <1>8, <1>11
  <1>13. m <= n /\ n < f /\ f - n \in Nat /\ f - n > 0 /\ n - m \in Nat /\ f - n + (n - m) = f - m /\ m < f
    <2>1. m <= n /\ n < f
      BY <1>7, <1>8, <1>10, <1>12
    <2>2. n <= f
      BY <2>1, <1>12
    <2> QED BY <2>1, <2>2, <1>12, Legs
  <1>14. PICK x, d : x = ahead[p.place] /\ d = f - n /\ d \in Nat /\ x = [sensor |-> s, distance |-> d]
    BY <1>10, <1>12, <1>13
  <1>15. IsFind(x)
    BY <1>13, <1>14 DEF IsFind
  <1>16. Beyond(x, n - m) = [sensor |-> s, distance |-> d + (n - m)]
    BY <1>13, <1>14, <1>12, BeyondSensor
  <1>17. ahead[w[a].place] = [sensor |-> s, distance |-> f - m]
    BY <1>7, <1>8, <1>12, <1>13, <1>14, <1>16
  <1>18. PlaceOf[At(w[a].place).num] = w[a].place
    BY <1>2, SensorsPlaced
  <1> QED BY <1>3, <1>8, <1>12, <1>13, <1>17, <1>18

\* What next_sensor() answers of the last sensor is not nearer than the train.
LEMMA NextSensorBeyond ==
  ASSUME GraphOK, NEW dir, NEW w \in Seq(Steps), NEW a \in 1 .. Len(w), NEW b \in a .. Len(w),
         Along(w, a, b, dir), IsSensor(w[a].place),
         \A k \in a + 1 .. b : ~ IsSensor(w[k].place)
  PROVE  LET next == NextSensor(At(w[a].place).num, dir)
         IN  next = Nowhere \/ next.distance > w[b].mm - w[a].mm
  <1>1. a \in Nat /\ b \in Nat /\ a >= 1 /\ a <= b /\ b <= Len(w) /\ Len(w) \in Nat
    OBVIOUS
  <1>2. \A k \in 1 .. Len(w) : w[k] \in Steps /\ w[k].place \in Places /\ w[k].mm \in Nat
    BY StepsTyped
  <1>3. PICK ahead : /\ IsAheadOfAll(ahead, dir)
                     /\ \A s : NextSensor(s, dir) = ahead[PlaceOf[s]]
    BY SensorAheadUnfolds
  <1>4. w[a].mm <= w[b].mm /\ ahead[w[a].place] = Beyond(ahead[w[b].place], w[b].mm - w[a].mm)
    BY <1>3, AheadAlong
  <1>5. PICK x, m : x = ahead[w[b].place] /\ m \in Nat /\ m = w[b].mm - w[a].mm
    BY <1>1, <1>2, <1>4
  <1>6. IsFind(x)
    BY <1>1, <1>2, <1>3, <1>5, AheadIsFind
  <1>7. NextSensor(At(w[a].place).num, dir) = Beyond(x, m)
    BY <1>2, <1>3, <1>4, <1>5, SensorsPlaced
  <1>8. Beyond(x, m) = Nowhere \/ Beyond(x, m).distance > m
    <2>1. CASE x = Nowhere
      BY <2>1 DEF Beyond
    <2>2. CASE x # Nowhere
      <3>1. PICK s \in SENSORS, d \in Nat : d > 0 /\ x = [sensor |-> s, distance |-> d]
        BY <2>2, <1>6 DEF IsFind
      <3>2. Beyond(x, m) = [sensor |-> s, distance |-> d + m]
        BY <1>5, <3>1, BeyondSensor
      <3>3. Beyond(x, m).distance = d + m
        BY <3>2
      <3>4. d + m > m
        BY <1>5, <3>1
      <3> QED BY <3>3, <3>4
    <2> QED BY <2>1, <2>2
  <1> QED BY <1>5, <1>7, <1>8

-----------------------------------------------------------------------------
(* A train that is turned round.                                           *)

\* The leg by which a train comes from one place to the next, a merge.
LegFrom(a, b) ==
    IF At(At(b.place).reverse).edge[1].dest = At(a.place).reverse THEN "straight" ELSE "curved"

\* From one place to the next, with the next switched for the way back.
Trails(a, b, dir) ==
    /\ Leads(a, b) /\ At(b.place).type # "none"
    /\ At(b.place).type = "merge" => dir[At(b.place).num] = LegFrom(a, b)

\* A step goes along an edge of the place it leaves.
LEMMA LeadsIs ==
  ASSUME GraphOK, NEW a \in Steps, NEW b \in Steps, Leads(a, b)
  PROVE  \E k \in DOMAIN At(a.place).edge :
             /\ b.place = At(a.place).edge[k].dest
             /\ b.mm - a.mm = At(a.place).edge[k].dist /\ a.mm <= b.mm /\ b.mm - a.mm \in Nat
  <1>1. a.place \in Places /\ a.mm \in Nat /\ b.mm \in Nat
    BY DEF Steps
  <1>2. PICK k \in DOMAIN At(a.place).edge :
          b.place = At(a.place).edge[k].dest /\ b.mm = a.mm + At(a.place).edge[k].dist
    BY DEF Leads
  <1>3. PICK d \in Nat : d = At(a.place).edge[k].dist
    BY <1>1, EdgesTyped
  <1>4. b.mm - a.mm = d /\ a.mm <= b.mm
    BY <1>1, <1>2, <1>3
  <1> QED BY <1>2, <1>3, <1>4

\* A train turned round goes back by the step it came by, if it passed no merge against the
\* way it lies.
LEMMA TurnsBack ==
  ASSUME GraphOK, NEW dir, NEW a \in Steps, NEW b \in Steps, Trails(a, b, dir)
  PROVE  NextEdge(At(b.place).reverse, dir) = [dest |-> At(a.place).reverse, dist |-> b.mm - a.mm]
  <1>1. PICK i \in Places, j \in Places : i = a.place /\ j = b.place
    BY DEF Steps
  <1>2. PICK r \in Places : r = At(j).reverse
    BY NodesTyped
  <1>3. PICK k \in DOMAIN At(i).edge : j = At(i).edge[k].dest /\ b.mm - a.mm = At(i).edge[k].dist
    BY <1>1, LeadsIs DEF Trails
  <1>4. PICK l \in DOMAIN At(r).edge : At(r).edge[l] = [dest |-> At(i).reverse, dist |-> b.mm - a.mm]
    BY <1>2, <1>3, EdgesMirrored
  <1>5. /\ At(j).type # "none"
        /\ At(j).type = "merge" => dir[At(j).num] = IF At(r).edge[1].dest = At(i).reverse
                                                    THEN "straight" ELSE "curved"
    BY <1>1, <1>2 DEF Trails, LegFrom
  <1>6. /\ <<At(j).type, At(r).type>> \in
               {<<"sensor", "sensor">>, <<"branch", "merge">>, <<"merge", "branch">>,
                <<"enter", "exit">>, <<"exit", "enter">>}
        /\ At(j).type \in {"branch", "merge"} => At(r).num = At(j).num
    BY <1>2, <1>5, NodesMirrored
  <1>7. /\ Len(At(r).edge) = CASE At(r).type \in {"none", "exit"} -> 0
                                [] At(r).type = "branch" -> 2
                                [] OTHER -> 1
        /\ DOMAIN At(r).edge = 1 .. Len(At(r).edge)
    BY EdgesTyped
  <1>8. NextEdge(r, dir) = At(r).edge[l]
    <2>1. CASE At(r).type = "branch"
      <3>1. At(j).type = "merge" /\ At(r).num = At(j).num
        BY <1>6, <2>1
      <3>2. NextEdge(r, dir) = At(r).edge[IF dir[At(r).num] = "straight" THEN 1 ELSE 2]
        BY <2>1 DEF NextEdge
      <3>3. 1 \in DOMAIN At(r).edge /\ l \in {1, 2}
        BY <1>7, <2>1
      <3>4. CASE At(r).edge[1].dest = At(i).reverse
        <4>1. At(r).edge[l].dest = At(r).edge[1].dest
          BY <1>4, <3>4
        <4>2. At(r).edge[l] = At(r).edge[1]
          BY <3>3, <4>1, NodeParts
        <4> QED BY <1>5, <3>1, <3>2, <3>4, <4>2
      <3>5. CASE At(r).edge[1].dest # At(i).reverse
        <4>1. At(r).edge[l].dest = At(i).reverse
          BY <1>4
        <4>2. l = 2
          BY <3>3, <3>5, <4>1
        <4>3. dir[At(r).num] = "curved"
          BY <1>5, <3>1, <3>5
        <4> QED BY <3>2, <4>2, <4>3
      <3> QED BY <3>4, <3>5
    <2>2. CASE At(r).type # "branch"
      <3>1. At(r).type \notin {"none", "exit"} /\ l = 1
        BY <1>6, <1>7, <2>2
      <3> QED BY <2>2, <3>1 DEF NextEdge
    <2> QED BY <2>1, <2>2
  <1> QED BY <1>1, <1>2, <1>4, <1>8

\* The millimetres travelled do not go down.
LEMMA Climbs ==
  ASSUME GraphOK, NEW w \in Seq(Steps), NEW a \in 1 .. Len(w), NEW b \in a .. Len(w),
         \A k \in a .. b - 1 : Leads(w[k], w[k + 1])
  PROVE  \A k \in a .. b : w[k].mm <= w[b].mm
  <1> DEFINE T == {j \in 0 .. b - a : w[b - j].mm <= w[b].mm}
  <1>1. a \in Nat /\ b \in Nat /\ a >= 1 /\ a <= b /\ b <= Len(w) /\ Len(w) \in Nat /\ b - a \in Nat
    OBVIOUS
  <1>2. \A k \in 1 .. Len(w) : w[k] \in Steps /\ w[k].place \in Places /\ w[k].mm \in Nat
    BY StepsTyped
  <1>3. 0 \in T
    <2>1. b - 0 = b /\ w[b].mm <= w[b].mm /\ 0 \in 0 .. b - a
      BY <1>1, <1>2
    <2> QED BY <2>1
  <1>4. ASSUME NEW j \in 0 .. b - a, j \in T, j < b - a PROVE j + 1 \in T
    <2>1. PICK k : k = b - (j + 1)
      OBVIOUS
    <2>2. k \in a .. b - 1 /\ k \in 1 .. Len(w) /\ k + 1 \in 1 .. Len(w) /\ k + 1 = b - j
          /\ b \in 1 .. Len(w)
      BY <1>1, <1>4, <2>1
    <2>3. PICK p \in Steps, q \in Steps : p = w[k] /\ q = w[k + 1]
      BY <1>2, <2>2
    <2>4. p.mm <= q.mm
      BY <2>2, <2>3, LeadsIs
    <2>5. q.mm <= w[b].mm
      BY <1>4, <2>2, <2>3
    <2>6. PICK x \in Nat, y \in Nat, z \in Nat : x = p.mm /\ y = q.mm /\ z = w[b].mm
      BY <1>2, <2>2, <2>3
    <2>7. x <= z
      BY <2>4, <2>5, <2>6
    <2>8. j + 1 \in 0 .. b - a
      BY <1>1, <1>4
    <2> QED BY <2>1, <2>3, <2>6, <2>7, <2>8
  <1>5. \A j \in 0 .. b - a : j \in T
    <2> HIDE DEF T
    <2> QED BY <1>1, <1>3, <1>4, AllUpTo
  <1> SUFFICES ASSUME NEW k \in a .. b PROVE w[k].mm <= w[b].mm
    OBVIOUS
  <1>6. b - k \in 0 .. b - a /\ b - (b - k) = k
    BY <1>1
  <1> QED BY <1>5, <1>6

\* The way of a train that is turned round at b and goes back to a.
Back(w, a, b) ==
    [j \in 1 .. b + 1 - a |-> [place |-> At(w[b + 1 - j].place).reverse, mm |-> w[b].mm - w[b + 1 - j].mm]]

\* So does a train that goes back a whole way.
LEMMA BackAlong ==
  ASSUME GraphOK, NEW dir, NEW w \in Seq(Steps), NEW a \in 1 .. Len(w), NEW b \in a .. Len(w),
         \A k \in a .. b - 1 : Trails(w[k], w[k + 1], dir)
  PROVE  /\ Back(w, a, b) \in Seq(Steps) /\ Len(Back(w, a, b)) = b + 1 - a
         /\ Along(Back(w, a, b), 1, b + 1 - a, dir)
  <1> DEFINE u == Back(w, a, b)
  <1>1. a \in Nat /\ b \in Nat /\ a >= 1 /\ a <= b /\ b <= Len(w) /\ Len(w) \in Nat
        /\ b + 1 - a \in Nat
    OBVIOUS
  <1>2. \A k \in 1 .. Len(w) : w[k] \in Steps /\ w[k].place \in Places /\ w[k].mm \in Nat
    BY StepsTyped
  <1>3. \A k \in a .. b : w[k].mm <= w[b].mm
    BY Climbs DEF Trails
  <1>4. ASSUME NEW j \in 1 .. b + 1 - a PROVE u[j] \in Steps
    <2>1. PICK k : k = b + 1 - j
      OBVIOUS
    <2>2. k \in a .. b /\ k \in 1 .. Len(w) /\ b \in 1 .. Len(w)
      BY <1>1, <2>1
    <2>3. PICK m \in Nat, n \in Nat, i \in Places : m = w[k].mm /\ n = w[b].mm /\ i = w[k].place
      BY <1>2, <2>2
    <2>4. n - m \in Nat
      <3>1. m <= n
        BY <1>3, <2>2, <2>3
      <3> QED BY <3>1, <2>3
    <2>5. At(i).reverse \in Places
      BY NodesTyped
    <2>6. u[j] = [place |-> At(i).reverse, mm |-> n - m]
      BY <2>1, <2>3 DEF Back
    <2> QED BY <2>4, <2>5, <2>6 DEF Steps
  <1>5. u \in Seq(Steps) /\ Len(u) = b + 1 - a
    <2>1. u \in [1 .. b + 1 - a -> Steps]
      BY <1>4 DEF Back
    <2>2. \A l \in Nat : \A v \in [1 .. l -> Steps] : v \in Seq(Steps) /\ Len(v) = l
      OBVIOUS
    <2> HIDE DEF u
    <2> QED BY <1>1, <2>1, <2>2
  <1>6. ASSUME NEW j \in 1 .. b + 1 - a - 1 PROVE Follows(u[j], u[j + 1], dir)
    <2>1. PICK k : k = b - j
      OBVIOUS
    <2>2. k \in a .. b - 1 /\ k \in 1 .. Len(w) /\ b \in 1 .. Len(w) /\ k + 1 \in 1 .. Len(w)
          /\ b + 1 - j = k + 1 /\ b + 1 - (j + 1) = k /\ j \in 1 .. b + 1 - a /\ j + 1 \in 1 .. b + 1 - a
          /\ k + 1 \in a .. b
      BY <1>1, <2>1
    <2>3. PICK p \in Steps, q \in Steps : p = w[k] /\ q = w[k + 1]
      BY <1>2, <2>2
    <2>4. NextEdge(At(q.place).reverse, dir) = [dest |-> At(p.place).reverse, dist |-> q.mm - p.mm]
      BY <2>2, <2>3, TurnsBack
    <2>5. PICK m \in Nat, n \in Nat, f \in Nat : m = p.mm /\ n = q.mm /\ f = w[b].mm
      BY <1>2, <2>2, <2>3
    <2>6. u[j] = [place |-> At(q.place).reverse, mm |-> f - n]
      BY <2>2, <2>3, <2>5 DEF Back
    <2>7. u[j + 1] = [place |-> At(p.place).reverse, mm |-> f - m]
      BY <2>2, <2>3, <2>5 DEF Back
    <2>8. f - m = f - n + (n - m)
      BY <2>5
    <2>9. At(p.place).reverse \in Places /\ -1 \notin Places
      <3>1. PICK i \in Places : i = p.place
        BY <1>2, <2>2, <2>3
      <3>2. At(i).reverse \in Places
        BY NodesTyped
      <3>3. -1 \notin Nat
        OBVIOUS
      <3> QED BY <3>1, <3>2, <3>3, PlacesType
    <2>10. NextEdge(At(q.place).reverse, dir) # NoEdge
      BY <2>4, <2>9 DEF NoEdge, Edge
    <2> HIDE DEF u
    <2>11. PICK c, d : c = u[j] /\ d = u[j + 1]
      OBVIOUS
    <2>12. c.place = At(q.place).reverse /\ c.mm = f - n /\ d.place = At(p.place).reverse /\ d.mm = f - m
      BY <2>6, <2>7, <2>11
    <2>13. NextEdge(c.place, dir) = [dest |-> d.place, dist |-> n - m]
      BY <2>4, <2>5, <2>12
    <2>14. Follows(c, d, dir)
      BY <2>8, <2>10, <2>12, <2>13 DEF Follows
    <2> QED BY <2>11, <2>14
  <1> QED BY <1>5, <1>6 DEF Along

\* prev_sensor() of a sensor is the one the train came by before.
LEMMA PrevSensorAlong ==
  ASSUME GraphOK, NEW dir, NEW w \in Seq(Steps), NEW a \in 1 .. Len(w), NEW b \in a + 1 .. Len(w),
         \A k \in a .. b - 1 : Trails(w[k], w[k + 1], dir),
         IsSensor(w[a].place), IsSensor(w[b].place), \A k \in a + 1 .. b - 1 : ~ IsSensor(w[k].place)
  PROVE  /\ PrevSensor(At(w[b].place).num, dir)
                = [sensor |-> At(w[a].place).num, distance |-> w[b].mm - w[a].mm]
         /\ w[a].mm < w[b].mm
  <1> DEFINE u == Back(w, a, b)
             l == b + 1 - a
  <1>1. a \in Nat /\ b \in Nat /\ a >= 1 /\ a + 1 <= b /\ b <= Len(w) /\ Len(w) \in Nat
        /\ b \in a .. Len(w) /\ l \in Nat /\ 2 <= l
    OBVIOUS
  <1>2. \A k \in 1 .. Len(w) : w[k] \in Steps /\ w[k].place \in Places /\ w[k].mm \in Nat
    BY StepsTyped
  <1>3. u \in Seq(Steps) /\ Len(u) = l /\ Along(u, 1, l, dir)
    BY <1>1, BackAlong
  <1>4. \A j \in 1 .. l : /\ u[j].place = At(w[b + 1 - j].place).reverse
                         /\ u[j].mm = w[b].mm - w[b + 1 - j].mm
    BY DEF Back
  <1>5. \A k \in a .. b : At(w[k].place).type # "none"
    <2> SUFFICES ASSUME NEW k \in a .. b PROVE At(w[k].place).type # "none"
      OBVIOUS
    <2>1. CASE k = a
      BY <2>1 DEF IsSensor
    <2>2. CASE k # a
      <3>1. k - 1 \in a .. b - 1 /\ k - 1 + 1 = k
        BY <1>1, <2>2
      <3>2. Trails(w[k - 1], w[k - 1 + 1], dir)
        BY <3>1
      <3> QED BY <3>1, <3>2 DEF Trails
    <2> QED BY <2>1, <2>2
  <1>6. ASSUME NEW k \in a .. b
        PROVE  /\ IsSensor(At(w[k].place).reverse) <=> IsSensor(w[k].place)
               /\ At(At(w[k].place).reverse).reverse = w[k].place
               /\ At(w[k].place).reverse \in Places
    <2>1. k \in 1 .. Len(w)
      BY <1>1
    <2>2. PICK i \in Places : i = w[k].place
      BY <1>2, <2>1
    <2>3. At(i).type # "none"
      BY <1>5, <2>2
    <2> QED BY <2>2, <2>3, NodesMirrored DEF IsSensor
  <1>7. /\ IsSensor(u[1].place) /\ IsSensor(u[l].place)
        /\ \A j \in 1 + 1 .. l - 1 : ~ IsSensor(u[j].place)
    <2>1. /\ 1 \in 1 .. l /\ b + 1 - 1 = b /\ l \in 1 .. l /\ b + 1 - l = a /\ a \in a .. b /\ b \in a .. b
      BY <1>1
    <2>2. ASSUME NEW j \in 1 + 1 .. l - 1 PROVE ~ IsSensor(u[j].place)
      <3>1. j \in 1 .. l /\ b + 1 - j \in a + 1 .. b - 1 /\ b + 1 - j \in a .. b
        BY <1>1
      <3> HIDE DEF u, l
      <3> QED BY <1>4, <1>6, <3>1
    <2> HIDE DEF u, l
    <2> QED BY <1>4, <1>6, <2>1, <2>2
  <1>8. /\ NextSensor(At(u[1].place).num, dir)
                = [sensor |-> At(u[l].place).num, distance |-> u[l].mm - u[1].mm]
        /\ u[1].mm < u[l].mm
    <2>1. 1 \in 1 .. Len(u) /\ l \in 1 + 1 .. Len(u)
      BY <1>1, <1>3
    <2> HIDE DEF u, l
    <2> QED BY <1>3, <1>7, <2>1, NextSensorAlong
  <1>9. /\ u[1].place = At(w[b].place).reverse /\ u[l].place = At(w[a].place).reverse
        /\ u[1].mm = w[b].mm - w[b].mm /\ u[l].mm = w[b].mm - w[a].mm
    <2>1. 1 \in 1 .. l /\ b + 1 - 1 = b /\ l \in 1 .. l /\ b + 1 - l = a
      BY <1>1
    <2> HIDE DEF u, l
    <2> QED BY <1>4, <2>1
  <1>10. PICK i \in Places, j \in Places, m \in Nat, n \in Nat :
           i = w[a].place /\ j = w[b].place /\ m = w[a].mm /\ n = w[b].mm
    <2>1. a \in 1 .. Len(w) /\ b \in 1 .. Len(w)
      BY <1>1
    <2>2. w[a].place \in Places /\ w[b].place \in Places /\ w[a].mm \in Nat /\ w[b].mm \in Nat
      BY <1>2, <2>1
    <2> HIDE DEF u, l
    <2> QED BY <2>2
  <1>11. /\ u[l].mm - u[1].mm = n - m /\ m < n
    <2>1. u[1].mm = 0 /\ u[l].mm = n - m
      BY <1>9, <1>10
    <2> HIDE DEF u, l
    <2> QED BY <1>8, <1>10, <2>1
  <1>12. PICK p \in Places, q \in Places : p = At(j).reverse /\ q = At(i).reverse
    BY NodesTyped
  <1>13. IsSensor(i) /\ IsSensor(j) /\ IsSensor(p) /\ IsSensor(q) /\ At(p).reverse = j /\ At(q).reverse = i
    <2>1. a \in a .. b /\ b \in a .. b
      BY <1>1
    <2> QED BY <1>6, <1>10, <1>12, <2>1
  <1>14. NextSensor(At(p).num, dir) = [sensor |-> At(q).num, distance |-> n - m]
    <2> HIDE DEF u, l
    <2> QED BY <1>8, <1>9, <1>10, <1>11, <1>12
  <1>15. InvertSensor(At(j).num) = At(p).num /\ InvertSensor(At(q).num) = At(i).num
    <2>1. PlaceOf[At(j).num] = j /\ PlaceOf[At(q).num] = q
      BY <1>13, SensorsPlaced
    <2> QED BY <1>12, <1>13, <2>1 DEF InvertSensor
  <1>16. PICK back : back = [sensor |-> At(q).num, distance |-> n - m]
    OBVIOUS
  <1>17. back.distance = n - m /\ back.sensor = At(q).num /\ back # Nowhere
    <2>1. back.distance = n - m /\ back.sensor = At(q).num
      BY <1>16
    <2>2. n - m # -1
      BY <1>11
    <2> QED BY <2>1, <2>2 DEF Nowhere
  <1>18. PrevSensor(At(j).num, dir) = [sensor |-> At(i).num, distance |-> n - m]
    BY <1>14, <1>15, <1>16, <1>17 DEF PrevSensor
  <1> QED BY <1>10, <1>11, <1>18

-----------------------------------------------------------------------------
(* The invariant of a trip.                                                *)

\* The places of the route follow one another as the switches met lie, from a sensor on,
\* none of them twice.
TripInv ==
    /\ GraphOK
    /\ route \in Seq(Steps) /\ Len(route) > 0
    /\ route[1].mm = 0 /\ Stop(1)
    /\ \A j, k \in DOMAIN route : route[j].place = route[k].place => j = k
    /\ DOMAIN laid \subseteq VALID_SWITCHES
    /\ \A k \in 1 .. Len(route) - 1 : Known(route[k].place) /\ Follows(route[k], route[k + 1], laid)

\* It holds of a train on a sensor.
LEMMA TripInitInv == TripInit => TripInv
  <1> SUFFICES ASSUME TripInit PROVE TripInv
    OBVIOUS
  <1>1. GraphOK
    BY DEF TripInit, GraphInit, GraphOK
  <1>2. PICK s \in SENSORS : route = <<[place |-> PlaceOf[s], mm |-> 0]>>
    BY <1>1, SensorsPlaced DEF TripInit
  <1>3. PICK p \in Places : p = PlaceOf[s] /\ IsSensor(p)
    BY <1>1, SensorsPlaced
  <1>4. [place |-> p, mm |-> 0] \in Steps
    BY DEF Steps
  <1>5. /\ route \in Seq(Steps) /\ Len(route) = 1 /\ DOMAIN route = 1 .. 1
        /\ route[1] = [place |-> p, mm |-> 0]
    BY <1>2, <1>3, <1>4
  <1>6. Stop(1) /\ route[1].mm = 0
    BY <1>3, <1>5 DEF Stop
  <1>7. \A j, k \in DOMAIN route : route[j].place = route[k].place => j = k
    BY <1>5
  <1>8. DOMAIN laid \subseteq VALID_SWITCHES
    BY DEF TripInit
  <1> QED BY <1>1, <1>5, <1>6, <1>7, <1>8 DEF TripInv

\* A branch has the number of a switch.
LEMMA BranchValid ==
  ASSUME GraphOK, NEW i \in Places, At(i).type = "branch"
  PROVE  At(i).num \in VALID_SWITCHES
  <1>1. PICK t : graph = Filled(t) /\ WellLaid(t)
    BY TableIs
  <1>2. graph.node = t
    BY <1>1 DEF Filled
  <1> QED BY <1>1, <1>2 DEF WellLaid, At

\* A train goes the same way however the switches lie that it has not met.
LEMMA SameWay ==
  ASSUME NEW a, NEW b, NEW dir, NEW other, At(a.place).type = "branch" => dir[At(a.place).num] = other[At(a.place).num]
  PROVE  /\ NextEdge(a.place, dir) = NextEdge(a.place, other)
         /\ Follows(a, b, dir) = Follows(a, b, other)
  BY DEF NextEdge, Follows

\* The train moves on to a place it has not come by; the switches lie as they did.
LEMMA RollInv ==
  ASSUME TripInv, Roll
  PROVE  TripInv'
  <1>1. /\ UNCHANGED <<graph, laid>> /\ Known(Here.place) /\ Ahead # NoEdge /\ Ahead.dest \notin Passed
        /\ route' = Append(route, [place |-> Ahead.dest, mm |-> Here.mm + Ahead.dist])
    BY DEF Roll
  <1>2. /\ GraphOK' = GraphOK /\ \A i : At(i)' = At(i) /\ IsSensor(i)' = IsSensor(i) /\ Known(i)' = Known(i)
    BY <1>1 DEF GraphOK, At, IsSensor, Known
  <1>3. GraphOK /\ route \in Seq(Steps) /\ Len(route) \in Nat /\ Len(route) > 0 /\ DOMAIN route = 1 .. Len(route)
    BY DEF TripInv
  <1>4. PICK l \in Nat, a \in Steps : l = Len(route) /\ a = Here /\ l > 0 /\ l \in 1 .. l
    <2>1. Len(route) \in 1 .. Len(route)
      BY <1>3
    <2>2. Here \in Steps
      BY <1>3, <2>1 DEF Here
    <2> QED BY <1>3, <2>1, <2>2
  <1>5. a.place \in Places /\ a.mm \in Nat
    BY DEF Steps
  <1>6. PICK e : e = NextEdge(a.place, laid) /\ e = Ahead /\ e # NoEdge
    BY <1>1, <1>4 DEF Ahead
  <1>7. e.dest \in Places /\ e.dist \in Nat
    BY <1>3, <1>5, <1>6, NextEdgeIs
  <1>8. PICK b : b = [place |-> e.dest, mm |-> a.mm + e.dist]
    OBVIOUS
  <1>9. b \in Steps
    BY <1>5, <1>7, <1>8 DEF Steps
  <1>10. route' = Append(route, b)
    BY <1>1, <1>4, <1>6, <1>8
  <1>11. /\ route' \in Seq(Steps) /\ Len(route') = l + 1 /\ DOMAIN route' = 1 .. l + 1
         /\ \A k \in 1 .. l : route'[k] = route[k]
         /\ route'[l + 1] = b
    BY <1>3, <1>4, <1>9, <1>10
  <1>12. Follows(a, b, laid) /\ b.place = e.dest
    BY <1>6, <1>8 DEF Follows
  <1>13. \A k \in 1 .. l + 1 - 1 :
           /\ Known(route'[k].place)
           /\ Follows(route'[k], route'[k + 1], laid)
    <2> SUFFICES ASSUME NEW k \in 1 .. l + 1 - 1
                 PROVE  Known(route'[k].place) /\ Follows(route'[k], route'[k + 1], laid)
      OBVIOUS
    <2>1. CASE k = l
      BY <1>1, <1>4, <1>11, <1>12, <2>1 DEF Here
    <2>2. CASE k # l
      <3>1. k \in 1 .. l - 1 /\ k \in 1 .. l /\ k + 1 \in 1 .. l
        BY <1>4, <2>2
      <3> QED BY <1>4, <1>11, <3>1 DEF TripInv
    <2> QED BY <2>1, <2>2
  <1>14. \A j, k \in 1 .. l + 1 : route'[j].place = route'[k].place => j = k
    <2>1. \A k \in 1 .. l : route'[k].place # b.place
      <3>1. \A k \in 1 .. l : route[k].place \in Passed
        BY <1>3, <1>4 DEF Passed
      <3> QED BY <1>1, <1>6, <1>11, <1>12, <3>1
    <2>2. \A j, k \in 1 .. l : route'[j].place = route'[k].place => j = k
      BY <1>3, <1>4, <1>11 DEF TripInv
    <2>3. \A k \in 1 .. l + 1 : k \in 1 .. l \/ k = l + 1
      BY <1>4
    <2> QED BY <1>11, <2>1, <2>2, <2>3
  <1>15. /\ route'[1].mm = 0 /\ Stop(1)'
    <2>1. 1 \in 1 .. l
      BY <1>4
    <2> QED BY <1>2, <1>11, <2>1 DEF TripInv, Stop
  <1>16. \A k \in 1 .. l + 1 - 1 : Known(route[k].place)' /\ Follows(route[k], route[k + 1], laid)'
    BY <1>1, <1>13 DEF Known, Follows, NextEdge, At
  <1> QED BY <1>1, <1>2, <1>3, <1>4, <1>11, <1>14, <1>15, <1>16 DEF TripInv

\* A switch is laid that no earlier step depended on.
LEMMA LayInv ==
  ASSUME TripInv, NEW d \in Dirs, Lay(d)
  PROVE  TripInv'
  <1> DEFINE n == At(Here.place).num
  <1>1. /\ UNCHANGED <<graph, route>> /\ laid' = [x \in DOMAIN laid \cup {n} |-> IF x \in DOMAIN laid THEN laid[x] ELSE d]
        /\ At(Here.place).type = "branch" /\ n \notin DOMAIN laid
    BY DEF Lay, Known
  <1>2. /\ GraphOK' = GraphOK /\ \A i : At(i)' = At(i) /\ IsSensor(i)' = IsSensor(i)
    BY <1>1 DEF GraphOK, At, IsSensor
  <1>3. PICK m : m = n
    OBVIOUS
  <1>4. /\ DOMAIN laid' = DOMAIN laid \cup {m} /\ m \notin DOMAIN laid
        /\ \A x \in DOMAIN laid : laid'[x] = laid[x]
    BY <1>1, <1>3
  <1>5. m \in VALID_SWITCHES
    <2>1. GraphOK /\ Here \in Steps
      <3>1. Len(route) \in 1 .. Len(route)
        BY DEF TripInv
      <3> QED BY <3>1 DEF TripInv, Here
    <2>2. Here.place \in Places
      BY <2>1 DEF Steps
    <2> QED BY <1>1, <1>3, <2>1, <2>2, BranchValid
  <1>6. \A i : Known(i) => /\ Known(i)'
                           /\ At(i).type = "branch" => laid'[At(i).num] = laid[At(i).num]
    BY <1>2, <1>4 DEF Known
  <1>7. \A k \in 1 .. Len(route) - 1 :
           Known(route[k].place)' /\ Follows(route[k], route[k + 1], laid)'
    <2> SUFFICES ASSUME NEW k \in 1 .. Len(route) - 1
                 PROVE  Known(route[k].place)' /\ Follows(route[k], route[k + 1], laid)'
      OBVIOUS
    <2>1. PICK a, b, new : a = route[k] /\ b = route[k + 1] /\ new = laid'
      OBVIOUS
    <2>2. Known(a.place) /\ Follows(a, b, laid)
      BY <2>1 DEF TripInv
    <2>3. Follows(a, b, new)
      BY <1>6, <2>1, <2>2, SameWay
    <2>4. Follows(a, b, laid)'
      BY <1>2, <2>1, <2>3 DEF Follows, NextEdge
    <2> QED BY <1>1, <1>6, <2>1, <2>2, <2>4
  <1>8. Stop(1)' = Stop(1)
    BY <1>1, <1>2 DEF Stop
  <1> QED BY <1>1, <1>2, <1>4, <1>5, <1>7, <1>8 DEF TripInv

\* Nothing else moves the train.
LEMMA TripStays ==
  ASSUME TripInv, UNCHANGED tripVars
  PROVE  TripInv'
  BY DEF tripVars, TripInv, GraphOK, Stop, IsSensor, At, Known, Follows, NextEdge

\* A trip goes through places not come by before, as the switches met lie.
LEMMA TripInvariant == TripSpec => []TripInv
  <1>1. TripInv /\ [TripNext]_tripVars => TripInv'
    BY RollInv, LayInv, TripStays DEF TripNext
  <1> QED BY <1>1, TripInitInv, PTL DEF TripSpec

\* The route is a sequence of steps.
LEMMA RouteTyped ==
  ASSUME TripInv
  PROVE  /\ GraphOK /\ route \in Seq(Steps) /\ Len(route) \in Nat /\ Len(route) >= 1
         /\ DOMAIN route = 1 .. Len(route) /\ Len(route) \in 1 .. Len(route) /\ 1 \in 1 .. Len(route)
         /\ \A k \in 1 .. Len(route) :
               route[k] \in Steps /\ route[k].place \in Places /\ route[k].mm \in Nat
  <1>1. /\ GraphOK /\ route \in Seq(Steps) /\ Len(route) \in Nat /\ Len(route) >= 1
        /\ DOMAIN route = 1 .. Len(route) /\ Len(route) \in 1 .. Len(route) /\ 1 \in 1 .. Len(route)
    BY DEF TripInv
  <1> QED BY <1>1, StepsTyped

\* Along a way that meets no sensor the rank does not go up.
LEMMA RankFalls ==
  ASSUME GraphOK, NEW dir, NEW r, IsRank(r),
         NEW w \in Seq(Steps), NEW a \in 1 .. Len(w), NEW b \in a .. Len(w),
         Along(w, a, b, dir), \A k \in a + 1 .. b : ~ IsSensor(w[k].place)
  PROVE  r[w[b].place] <= r[w[a].place]
  <1> DEFINE T == {j \in 0 .. b - a : r[w[a + j].place] <= r[w[a].place]}
  <1>1. a \in Nat /\ b \in Nat /\ a >= 1 /\ a <= b /\ b <= Len(w) /\ Len(w) \in Nat /\ b - a \in Nat
        /\ b - a \in 0 .. b - a /\ a + (b - a) = b
    OBVIOUS
  <1>2. \A k \in 1 .. Len(w) : w[k] \in Steps /\ w[k].place \in Places /\ w[k].mm \in Nat
    BY StepsTyped
  <1>3. r \in [Places -> 0 .. 6]
    BY DEF IsRank
  <1>4. 0 \in T
    <2>1. a + 0 = a /\ 0 \in 0 .. b - a
      BY <1>1
    <2>2. r[w[a].place] \in 0 .. 6
      BY <1>1, <1>2, <1>3
    <2> QED BY <2>1, <2>2
  <1>5. ASSUME NEW j \in 0 .. b - a, j \in T, j < b - a PROVE j + 1 \in T
    <2>1. PICK k : k = a + j
      OBVIOUS
    <2>2. k \in a .. b - 1 /\ k \in 1 .. Len(w) /\ k + 1 \in 1 .. Len(w) /\ k + 1 = a + (j + 1)
          /\ k + 1 \in a + 1 .. b /\ j + 1 \in 0 .. b - a
      BY <1>1, <1>5, <2>1
    <2>3. PICK p \in Steps, q \in Steps : p = w[k] /\ q = w[k + 1]
      BY <1>2, <2>2
    <2>4. Follows(p, q, dir) /\ ~ IsSensor(q.place)
      BY <2>2, <2>3 DEF Along
    <2>5. r[q.place] < r[p.place]
      BY <2>4, FollowsIs
    <2>6. PICK x \in Int, y \in Int, z \in Int : x = r[q.place] /\ y = r[p.place] /\ z = r[w[a].place]
      <3>1. \A i \in Places : r[i] \in Int
        BY <1>3
      <3>2. p.place \in Places /\ q.place \in Places /\ w[a].place \in Places
        BY <1>1, <1>2, <2>3 DEF Steps
      <3> QED BY <3>1, <3>2
    <2>7. y <= z
      BY <1>5, <2>1, <2>3, <2>6
    <2>8. x <= z
      BY <2>5, <2>6, <2>7
    <2> QED BY <2>2, <2>3, <2>6, <2>8
  <1>6. \A j \in 0 .. b - a : j \in T
    <2> HIDE DEF T
    <2> QED BY <1>1, <1>4, <1>5, AllUpTo
  <1>7. b - a \in T
    BY <1>1, <1>6
  <1> QED BY <1>1, <1>7

\* A train that comes back to a place has met a sensor since: the rank would have fallen
\* all the way round.
LEMMA MeetsSensor ==
  ASSUME TripInv
  PROVE  NoLoopWithoutSensor
  <1> SUFFICES ASSUME Known(Here.place), Ahead # NoEdge, Ahead.dest \in Passed
               PROVE  \E k \in DOMAIN route : Stop(k) /\ \E j \in 1 .. k : route[j].place = Ahead.dest
    BY DEF NoLoopWithoutSensor
  <1>1. /\ GraphOK /\ route \in Seq(Steps) /\ Len(route) \in Nat /\ Len(route) >= 1
        /\ DOMAIN route = 1 .. Len(route) /\ Len(route) \in 1 .. Len(route)
    BY RouteTyped
  <1>2. PICK j \in 1 .. Len(route) : route[j].place = Ahead.dest
    BY <1>1 DEF Passed
  <1>3. CASE \E k \in j .. Len(route) : Stop(k)
    <2>1. PICK k \in j .. Len(route) : Stop(k)
      BY <1>3
    <2>2. k \in 1 .. Len(route) /\ j \in 1 .. k
      BY <1>1
    <2> QED BY <1>1, <1>2, <2>1, <2>2
  <1>4. CASE \A k \in j .. Len(route) : ~ Stop(k)
    <2>1. PICK w, l, dir : w = route /\ l = Len(route) /\ dir = laid
      OBVIOUS
    <2>2. w \in Seq(Steps) /\ j \in 1 .. Len(w) /\ l \in j .. Len(w) /\ l = Len(w)
      BY <1>1, <2>1
    <2>3. Along(w, j, l, dir)
      <3>1. \A k \in 1 .. Len(route) - 1 : Follows(route[k], route[k + 1], laid)
        BY DEF TripInv
      <3>2. \A k \in j .. l - 1 : k \in 1 .. Len(route) - 1
        BY <1>1, <2>1
      <3> QED BY <2>1, <3>1, <3>2 DEF Along
    <2>4. \A k \in j .. l : ~ IsSensor(w[k].place)
      BY <1>4, <2>1 DEF Stop
    <2>5. \A k \in j + 1 .. l : k \in j .. l
      OBVIOUS
    <2>6. PICK r : IsRank(r)
      BY <1>1, NodesRanked
    <2>7. r[w[l].place] <= r[w[j].place]
      BY <1>1, <2>2, <2>3, <2>4, <2>5, <2>6, RankFalls
    <2>8. PICK i \in Places, e \in {Ahead} : i = w[l].place /\ e = NextEdge(i, dir) /\ e = Ahead /\ e # NoEdge
      BY <2>1, <2>2, StepsTyped DEF Here, Ahead
    <2>9. PICK k \in DOMAIN At(i).edge : e = At(i).edge[k]
      BY <1>1, <2>8, NextEdgeIs
    <2>10. e.dest = w[j].place /\ ~ IsSensor(e.dest) /\ e.dest \in Places
      <3>1. j \in j .. l
        BY <2>2
      <3> QED BY <1>2, <2>1, <2>2, <2>4, <2>8, <3>1, StepsTyped
    <2>11. r[e.dest] < r[i]
      BY <2>6, <2>9, <2>10 DEF IsRank
    <2>12. r[e.dest] \in 0 .. 6 /\ r[i] \in 0 .. 6
      BY <2>6, <2>10 DEF IsRank
    <2> QED BY <2>7, <2>8, <2>10, <2>11, <2>12
  <1> QED BY <1>3, <1>4

\* next_sensor() loops until it meets a sensor (track_graph.cc:81-88): a train cannot
\* go round without meeting one.
THEOREM SensorsAreMet == TripSpec => []NoLoopWithoutSensor
  BY TripInvariant, MeetsSensor, PTL

-----------------------------------------------------------------------------
(* The switches as the train has met them.                                 *)

\* The route follows the switches as the oracle knows them.
LEMMA LaidSoFarAlong ==
  ASSUME TripInv
  PROVE  /\ Along(route, 1, Len(route), LaidSoFar)
         /\ \A k \in 1 .. Len(route) - 1 : Leads(route[k], route[k + 1])
  <1>1. /\ GraphOK /\ Len(route) \in Nat
        /\ \A k \in 1 .. Len(route) : route[k] \in Steps /\ route[k].place \in Places
    BY RouteTyped
  <1>2. ASSUME NEW k \in 1 .. Len(route) - 1
        PROVE  Follows(route[k], route[k + 1], LaidSoFar) /\ Leads(route[k], route[k + 1])
    <2>1. k \in 1 .. Len(route) /\ k + 1 \in 1 .. Len(route)
      BY <1>1
    <2>2. PICK a \in Steps, b \in Steps, dir \in {laid}, so \in {LaidSoFar} :
            a = route[k] /\ b = route[k + 1] /\ dir = laid /\ so = LaidSoFar
      BY <1>1, <2>1
    <2>3. Known(a.place) /\ Follows(a, b, dir)
      BY <2>2 DEF TripInv
    <2>4. At(a.place).type = "branch" => so[At(a.place).num] = dir[At(a.place).num]
      <3> SUFFICES ASSUME At(a.place).type = "branch"
                   PROVE  so[At(a.place).num] = dir[At(a.place).num]
        OBVIOUS
      <3>1. PICK n : n = At(a.place).num
        OBVIOUS
      <3>2. a.place \in Places
        BY DEF Steps
      <3>3. n \in VALID_SWITCHES
        BY <1>1, <3>1, <3>2, BranchValid
      <3>4. n \in DOMAIN laid
        BY <2>3, <3>1 DEF Known
      <3>5. LaidSoFar[n] = laid[n]
        BY <3>3, <3>4 DEF LaidSoFar
      <3> QED BY <2>2, <3>1, <3>5
    <2>5. Follows(a, b, so)
      BY <2>3, <2>4, SameWay
    <2>6. Leads(a, b)
      BY <1>1, <2>3, FollowsIs
    <2> QED BY <2>2, <2>5, <2>6
  <1> QED BY <1>2 DEF Along

\* A nonempty set of positions up to b has a last one.
LEMMA NearestStop ==
  ASSUME NEW n \in Nat, NEW b \in 1 .. n, NEW P, P \subseteq 1 .. b, P # {}
  PROVE  \E s \in P : \A i \in s + 1 .. b : i \notin P
  <1> DEFINE D == {b - i : i \in P}
  <1>1. D \in SUBSET Nat /\ D # {}
    <2>1. PICK p \in P : TRUE
      OBVIOUS
    <2>2. b - p \in D
      BY <2>1
    <2>3. \A i \in P : b - i \in Nat
      OBVIOUS
    <2> QED BY <2>2, <2>3
  <1>2. PICK m \in D : \A k \in D : m <= k
    BY <1>1, LeastNatural
  <1>3. PICK s \in P : m = b - s
    BY <1>2
  <1>4. ASSUME NEW i \in s + 1 .. b, i \in P PROVE FALSE
    <2>1. b - i \in D
      BY <1>4
    <2>2. m <= b - i
      BY <1>2, <2>1
    <2> QED BY <1>3, <2>2
  <1> QED BY <1>4

\* LastStop is that sensor.
LEMMA LastStopIs ==
  ASSUME TripInv, NEW k \in 1 .. Len(route)
  PROVE  /\ LastStop(k) \in 1 .. k /\ Stop(LastStop(k))
         /\ \A i \in LastStop(k) + 1 .. k : ~ Stop(i)
  <1> DEFINE P == {i \in 1 .. k : Stop(i)}
  <1>1. 1 \in 1 .. k /\ Stop(1) /\ Len(route) \in Nat
    BY RouteTyped DEF TripInv
  <1>2. PICK s \in P : \A i \in s + 1 .. k : i \notin P
    <2>1. P \subseteq 1 .. k /\ P # {}
      BY <1>1
    <2> HIDE DEF P
    <2> QED BY <1>1, <2>1, NearestStop
  <1>3. \A i \in s + 1 .. k : ~ Stop(i)
    <2>1. \A i \in s + 1 .. k : i \in 1 .. k
      BY <1>1
    <2> QED BY <1>2, <2>1
  <1>4. \E j \in 1 .. k : Stop(j) /\ \A i \in j + 1 .. k : ~ Stop(i)
    BY <1>2, <1>3
  <1> QED BY <1>4 DEF LastStop

\* A train that passed every merge the way it lies can be turned round.
LEMMA SwitchedTrails ==
  ASSUME TripInv, FollowedSwitches, Stop(Len(route))
  PROVE  \A k \in 1 .. Len(route) - 1 : Trails(route[k], route[k + 1], LaidSoFar)
  <1>1. /\ GraphOK /\ Len(route) \in Nat
        /\ \A k \in 1 .. Len(route) : route[k] \in Steps /\ route[k].place \in Places
    BY RouteTyped
  <1> SUFFICES ASSUME NEW k \in 1 .. Len(route) - 1
               PROVE  Trails(route[k], route[k + 1], LaidSoFar)
    OBVIOUS
  <1>2. Leads(route[k], route[k + 1])
    BY LaidSoFarAlong
  <1>3. k + 1 \in 2 .. Len(route) /\ k + 1 \in 1 .. Len(route) /\ k + 1 - 1 = k
    BY <1>1
  <1>4. At(route[k + 1].place).type = "merge" =>
           LaidSoFar[At(route[k + 1].place).num] = LegFrom(route[k], route[k + 1])
    BY <1>3 DEF FollowedSwitches, LegTaken, LegFrom
  <1>5. At(route[k + 1].place).type # "none"
    <2>1. CASE k + 1 = Len(route)
      BY <2>1 DEF Stop, IsSensor
    <2>2. CASE k + 1 # Len(route)
      <3>1. k + 1 \in 1 .. Len(route) - 1
        BY <1>1, <2>2
      <3>2. PICK a \in Steps, b \in {route[k + 1 + 1]} : a = route[k + 1] /\ b = route[k + 1 + 1]
        BY <1>1, <1>3
      <3>3. Leads(a, b)
        BY <3>1, <3>2, LaidSoFarAlong
      <3>4. a.place \in Places
        BY DEF Steps
      <3>5. At(a.place).type # "none"
        BY <1>1, <3>3, <3>4, EdgesTyped DEF Leads
      <3> QED BY <3>2, <3>5
    <2> QED BY <2>1, <2>2
  <1> QED BY <1>2, <1>4, <1>5 DEF Trails

\* The distance from one sensor to another is the one a train travels.
LEMMA DistanceAlong ==
  ASSUME GraphOK, NEW dir, NEW w \in Seq(Steps), Len(w) >= 1, Len(w) - 1 <= MAX_ITERS + 1,
         Along(w, 1, Len(w), dir), w[1].mm = 0,
         \A j, k \in 1 .. Len(w) : w[j].place = w[k].place => j = k,
         IsSensor(w[1].place), IsSensor(w[Len(w)].place)
  PROVE  DistanceBetween(At(w[1].place).num, At(w[Len(w)].place).num, dir) = w[Len(w)].mm
  <1>1. PICK n \in Nat : n = Len(w)
    OBVIOUS
  <1>2. n >= 1 /\ 1 \in 1 .. n /\ n \in 1 .. n /\ n - 1 \in 0 .. n - 1
        /\ \A k \in 1 .. n : w[k] \in Steps /\ w[k].place \in Places /\ w[k].mm \in Nat
    BY <1>1, StepsTyped
  <1>3. PICK from \in Places, to \in Places, f \in Nat : from = w[1].place /\ to = w[n].place /\ f = w[n].mm
    BY <1>2
  <1>4. PlaceOf[At(from).num] = from /\ PlaceOf[At(to).num] = to
    BY <1>1, <1>3, SensorsPlaced
  <1>5. PICK way :
            /\ DistanceBetween(At(from).num, At(to).num, dir) = way[0][from]
            /\ \A k \in 0 .. MAX_ITERS + 1 : \A i \in Places :
                  way[k][i] = WayFrom(way, k, i, from, to, dir)
    BY <1>4, DistanceUnfolds
  <1>6. \A k \in 1 .. n : k - 1 \in 0 .. MAX_ITERS + 1 /\ (k < n => k - 1 <= MAX_ITERS)
    BY <1>1 DEF MAX_ITERS
  <1>7. \A k \in 1 .. n : w[k].mm <= f
    <2>1. \A k \in 1 .. n - 1 : Leads(w[k], w[k + 1])
      <3> SUFFICES ASSUME NEW k \in 1 .. n - 1 PROVE Leads(w[k], w[k + 1])
        OBVIOUS
      <3>1. k \in 1 .. n /\ k + 1 \in 1 .. n
        BY <1>2
      <3>2. PICK p \in Steps, q \in Steps : p = w[k] /\ q = w[k + 1]
        BY <1>2, <3>1
      <3>3. Follows(p, q, dir)
        BY <1>1, <3>2 DEF Along
      <3> QED BY <3>2, <3>3, FollowsIs
    <2>2. 1 \in 1 .. Len(w) /\ n \in 1 .. Len(w)
      BY <1>1, <1>2
    <2> QED BY <1>3, <2>1, <2>2, Climbs
  <1> DEFINE Good(k) == way[k - 1][w[k].place] = f - w[k].mm
             T == {j \in 0 .. n - 1 : Good(n - j)}
  <1>8. 0 \in T
    <2>1. way[n - 1][to] = WayFrom(way, n - 1, to, from, to, dir)
      BY <1>2, <1>5, <1>6
    <2>2. WayFrom(way, n - 1, to, from, to, dir) = 0
      BY DEF WayFrom
    <2>3. n - 0 = n /\ 0 \in 0 .. n - 1 /\ f - f = 0
      BY <1>2
    <2>4. Good(n)
      BY <1>3, <2>1, <2>2, <2>3
    <2> HIDE DEF Good
    <2> QED BY <2>3, <2>4
  <1>9. ASSUME NEW j \in 0 .. n - 1, j \in T, j < n - 1 PROVE j + 1 \in T
    <2>1. PICK k \in 1 .. n : k = n - (j + 1)
      BY <1>9
    <2>2. /\ k + 1 \in 1 .. n /\ k + 1 = n - j /\ k + 1 - 1 = k /\ k < n /\ k # n /\ k + 1 # 1
          /\ j + 1 \in 0 .. n - 1 /\ k - 1 + 1 = k
      BY <1>9, <2>1
    <2>3. Good(k + 1)
      BY <1>9, <2>2
    <2>4. PICK p \in Steps, q \in Steps : p = w[k] /\ q = w[k + 1]
      BY <1>2, <2>2
    <2>5. Follows(p, q, dir)
      BY <1>1, <2>2, <2>4 DEF Along
    <2>6. PICK e : e = NextEdge(p.place, dir)
      OBVIOUS
    <2>7. e # NoEdge /\ q.place = e.dest /\ q.mm = p.mm + e.dist
      BY <2>5, <2>6 DEF Follows
    <2>8. p.place # to /\ q.place # from
      BY <1>1, <1>2, <1>3, <2>2, <2>4
    <2>9. ~ GivesUp(k - 1)
      BY <1>6, <2>2 DEF GivesUp, MAX_ITERS
    <2>10. way[k - 1][p.place] = Longer(way[k][q.place], e.dist)
      <3>1. p.place \in Places
        BY DEF Steps
      <3>2. way[k - 1][p.place] = WayFrom(way, k - 1, p.place, from, to, dir)
        BY <1>5, <1>6, <3>1
      <3> QED BY <2>2, <2>6, <2>7, <2>8, <2>9, <3>2 DEF WayFrom
    <2>11. PICK m \in Nat, l \in Nat, d \in {e.dist} : m = p.mm /\ l = q.mm /\ d = e.dist
      BY <1>2, <2>2, <2>4
    <2>12. d \in Nat
      <3>1. p.place \in Places
        BY DEF Steps
      <3> QED BY <2>6, <2>7, <2>11, <3>1, NextEdgeIs
    <2>13. way[k][q.place] = f - l /\ l <= f
      BY <1>7, <2>2, <2>3, <2>4, <2>11
    <2>14. Longer(f - l, d) = f - l + d
      <3>1. f - l # -1
        BY <2>11, <2>13
      <3> QED BY <3>1 DEF Longer, NoRoute
    <2>15. f - l + d = f - m
      BY <2>7, <2>11, <2>12
    <2>16. Good(k)
      BY <2>4, <2>10, <2>11, <2>13, <2>14, <2>15
    <2> HIDE DEF Good
    <2> QED BY <2>1, <2>2, <2>16
  <1>10. \A j \in 0 .. n - 1 : j \in T
    <2>1. n - 1 \in Nat
      BY <1>2
    <2> HIDE DEF T
    <2> QED BY <2>1, <1>8, <1>9, AllUpTo
  <1>11. Good(1)
    <2>1. n - (n - 1) = 1
      OBVIOUS
    <2>2. n - 1 \in T
      BY <1>2, <1>10
    <2>3. Good(n - (n - 1))
      BY <2>2
    <2> HIDE DEF Good
    <2> QED BY <2>1, <2>3
  <1>12. 1 - 1 = 0 /\ f - 0 = f
    OBVIOUS
  <1> QED BY <1>1, <1>3, <1>5, <1>11, <1>12

\* What the oracle answers of the sensors the train has come by.
LEMMA FindsSensors ==
  ASSUME TripInv
  PROVE  SensorsAsTravelled
  <1> SUFFICES ASSUME Stop(Len(route)) PROVE SensorsAsTravelled
    BY DEF SensorsAsTravelled
  <1> DEFINE dir == LaidSoFar
             s   == LastStop(Len(route) - 1)
             d   == Here.mm - route[s].mm
  <1> SUFFICES /\ Hops <= MAX_ITERS + 1 =>
                   DistanceBetween(At(Start.place).num, At(Here.place).num, dir) = Here.mm
               /\ Hops > 0 /\ FollowedSwitches =>
                   /\ NextSensor(At(route[s].place).num, dir)
                          = [sensor |-> At(Here.place).num, distance |-> d]
                   /\ PrevSensor(At(Here.place).num, dir)
                          = [sensor |-> At(route[s].place).num, distance |-> d]
    BY DEF SensorsAsTravelled
  <1>1. /\ GraphOK /\ route \in Seq(Steps) /\ Len(route) \in Nat /\ Len(route) >= 1
        /\ DOMAIN route = 1 .. Len(route) /\ Len(route) \in 1 .. Len(route) /\ 1 \in 1 .. Len(route)
    BY RouteTyped
  <1>2. Along(route, 1, Len(route), dir)
    BY LaidSoFarAlong
  <1>3. PICK w, l, o : w = route /\ l = Len(route) /\ o = dir
    OBVIOUS
  <1>4. /\ w \in Seq(Steps) /\ l = Len(w) /\ l \in Nat /\ l >= 1 /\ l \in 1 .. l /\ 1 \in 1 .. l
        /\ Along(w, 1, l, o) /\ Start = w[1] /\ Here = w[l]
        /\ IsSensor(w[1].place) /\ IsSensor(w[l].place) /\ w[1].mm = 0
        /\ \A j, k \in 1 .. l : w[j].place = w[k].place => j = k
    BY <1>1, <1>2, <1>3 DEF TripInv, Start, Here, Stop
  <1>5. ASSUME Hops <= MAX_ITERS + 1
        PROVE  DistanceBetween(At(Start.place).num, At(Here.place).num, dir) = Here.mm
    <2>1. Len(w) - 1 <= MAX_ITERS + 1
      BY <1>3, <1>5 DEF Hops
    <2>2. DistanceBetween(At(w[1].place).num, At(w[Len(w)].place).num, o) = w[Len(w)].mm
      BY <1>1, <1>4, <2>1, DistanceAlong
    <2> QED BY <1>3, <1>4, <2>2
  <1>6. ASSUME Hops > 0, FollowedSwitches
        PROVE  /\ NextSensor(At(route[s].place).num, dir)
                          = [sensor |-> At(Here.place).num, distance |-> d]
               /\ PrevSensor(At(Here.place).num, dir)
                          = [sensor |-> At(route[s].place).num, distance |-> d]
    <2>1. Len(route) - 1 \in 1 .. Len(route)
      BY <1>1, <1>6 DEF Hops
    <2>2. s \in 1 .. Len(route) - 1 /\ Stop(s) /\ \A i \in s + 1 .. Len(route) - 1 : ~ Stop(i)
      BY <2>1, LastStopIs
    <2>3. PICK a : a = s
      OBVIOUS
    <2>4. /\ a \in 1 .. Len(w) /\ l \in a + 1 .. Len(w) /\ IsSensor(w[a].place)
          /\ \A k \in a + 1 .. l - 1 : ~ IsSensor(w[k].place)
      BY <1>3, <1>4, <2>2, <2>3 DEF Stop
    <2>5. Along(w, a, l, o)
      <3>1. \A k \in a .. l - 1 : k \in 1 .. l - 1
        BY <2>4
      <3> QED BY <1>4, <3>1 DEF Along
    <2>6. \A k \in a .. l - 1 : Trails(w[k], w[k + 1], o)
      <3>1. \A k \in a .. l - 1 : k \in 1 .. l - 1
        BY <2>4
      <3> QED BY <1>3, <1>6, <3>1, SwitchedTrails
    <2>7. NextSensor(At(w[a].place).num, o) = [sensor |-> At(w[l].place).num, distance |-> w[l].mm - w[a].mm]
      BY <1>1, <1>4, <2>4, <2>5, NextSensorAlong
    <2>8. PrevSensor(At(w[l].place).num, o) = [sensor |-> At(w[a].place).num, distance |-> w[l].mm - w[a].mm]
      <3>1. /\ GraphOK /\ w \in Seq(Steps) /\ a \in 1 .. Len(w) /\ l \in a + 1 .. Len(w)
            /\ IsSensor(w[a].place) /\ IsSensor(w[l].place)
        BY <1>1, <1>4, <2>4
      <3>2. \A k \in a + 1 .. l - 1 : ~ IsSensor(w[k].place)
        BY <2>4
      <3> QED BY <2>6, <3>1, <3>2, PrevSensorAlong
    <2> HIDE DEF s, dir
    <2> QED BY <1>3, <1>4, <2>3, <2>7, <2>8
  <1> QED BY <1>5, <1>6

\* What next_sensor(), prev_sensor() and distance_between() answer of the sensors a train
\* comes by is where it came from and how far it travelled (track_graph.cc:72-131 and
\* 142-152).
THEOREM SensorsAreFound == TripSpec => []SensorsAsTravelled
  BY TripInvariant, FindsSensors, PTL

\* A position so far along a way is the same as seen from each sensor of the way
\* that is not farther.
LEMMA NormAlong ==
  ASSUME GraphOK, NEW dir, NEW norm, IsNorm(norm, dir), NEW w \in Seq(Steps), Len(w) >= 1,
         Along(w, 1, Len(w), dir), w[1].mm = 0, IsSensor(w[1].place),
         NEW s \in 1 .. Len(w), IsSensor(w[s].place), \A i \in s + 1 .. Len(w) : ~ IsSensor(w[i].place)
  PROVE  norm[Pos(At(w[1].place).num, w[Len(w)].mm)]
            = Pos(At(w[s].place).num, w[Len(w)].mm - w[s].mm)
  <1>1. PICK n \in Nat : n = Len(w)
    OBVIOUS
  <1>2. n >= 1 /\ 1 \in 1 .. n /\ n \in 1 .. n /\ n - 1 \in Nat
        /\ \A k \in 1 .. n : w[k] \in Steps /\ w[k].place \in Places /\ w[k].mm \in Nat
    BY <1>1, StepsTyped
  <1>3. PICK f \in Nat : f = w[n].mm
    BY <1>2
  <1>4. \A k \in 1 .. n : w[k].mm <= f
    <2>1. \A k \in 1 .. n - 1 : Leads(w[k], w[k + 1])
      <3> SUFFICES ASSUME NEW k \in 1 .. n - 1 PROVE Leads(w[k], w[k + 1])
        OBVIOUS
      <3>1. k \in 1 .. n /\ k + 1 \in 1 .. n
        BY <1>2
      <3>2. PICK p \in Steps, q \in Steps : p = w[k] /\ q = w[k + 1]
        BY <1>2, <3>1
      <3>3. Follows(p, q, dir)
        BY <1>1, <3>2 DEF Along
      <3> QED BY <3>2, <3>3, FollowsIs
    <2>2. 1 \in 1 .. Len(w) /\ n \in 1 .. Len(w)
      BY <1>1, <1>2
    <2> QED BY <1>3, <2>1, <2>2, Climbs
  <1> DEFINE From(a) == norm[Pos(At(w[a].place).num, f - w[a].mm)]
             Good(k) == \A a \in 1 .. k : /\ IsSensor(w[a].place)
                                          /\ \A i \in a + 1 .. k : ~ IsSensor(w[i].place)
                                          => From(a) = From(1)
             T == {j \in 0 .. n - 1 : Good(j + 1)}
  <1>5. 0 \in T
    <2>1. Good(0 + 1)
      <3> SUFFICES ASSUME NEW a \in 1 .. 0 + 1 PROVE From(a) = From(1)
        OBVIOUS
      <3>1. a = 1
        OBVIOUS
      <3> QED BY <3>1
    <2>2. 0 \in 0 .. n - 1
      BY <1>2
    <2> HIDE DEF Good
    <2> QED BY <2>1, <2>2
  <1>6. ASSUME NEW j \in 0 .. n - 1, j \in T, j < n - 1 PROVE j + 1 \in T
    <2>1. PICK k \in 1 .. n : k = j + 1 /\ k + 1 = j + 1 + 1 /\ k + 1 \in 1 .. n /\ j + 1 \in 0 .. n - 1
                              /\ k \in 1 .. k
      BY <1>6
    <2>2. Good(k)
      BY <1>6, <2>1
    <2>3. Good(k + 1)
      <3> SUFFICES ASSUME NEW b \in 1 .. k + 1, IsSensor(w[b].place),
                          \A i \in b + 1 .. k + 1 : ~ IsSensor(w[i].place)
                   PROVE  From(b) = From(1)
        OBVIOUS
      <3> HIDE DEF From
      <3>1. CASE b # k + 1
        <4>1. b \in 1 .. k /\ \A i \in b + 1 .. k : i \in b + 1 .. k + 1
          BY <2>1, <3>1
        <4> QED BY <2>2, <4>1
      <3>2. CASE b = k + 1
        <4> DEFINE P == {i \in 1 .. k : IsSensor(w[i].place)}
        <4>1. PICK a \in P : \A i \in a + 1 .. k : i \notin P
          <5>1. P \subseteq 1 .. k /\ 1 \in P
            BY <2>1
          <5> HIDE DEF P
          <5> QED BY <2>1, <5>1, NearestStop
        <4>2. a \in 1 .. k /\ IsSensor(w[a].place) /\ \A i \in a + 1 .. k : ~ IsSensor(w[i].place)
          <5>1. \A i \in a + 1 .. k : i \in 1 .. k
            BY <4>1
          <5> QED BY <4>1, <5>1
        <4>3. From(a) = From(1)
          BY <2>2, <4>2
        <4>4. /\ a \in 1 .. Len(w) /\ b \in a + 1 .. Len(w) /\ a \in 1 .. n /\ b \in 1 .. n
              /\ \A i \in a + 1 .. b - 1 : ~ IsSensor(w[i].place)
          <5>1. b - 1 = k
            BY <2>1, <3>2
          <5> QED BY <1>1, <2>1, <3>2, <4>2, <5>1
        <4>5. Along(w, a, b, dir)
          <5>1. \A i \in a .. b - 1 : i \in 1 .. Len(w) - 1
            BY <4>4
          <5> QED BY <5>1 DEF Along
        <4>6. /\ NextSensor(At(w[a].place).num, dir)
                = [sensor |-> At(w[b].place).num, distance |-> w[b].mm - w[a].mm]
              /\ w[a].mm < w[b].mm
          BY <4>2, <4>4, <4>5, NextSensorAlong
        <4>7. PICK x \in SENSORS, y \in SENSORS, l \in Nat, m \in Nat :
                 x = At(w[a].place).num /\ y = At(w[b].place).num /\ l = w[a].mm /\ m = w[b].mm
          BY <1>2, <4>2, <4>4, SensorsPlaced
        <4>8. l < m /\ m <= f
          BY <1>4, <4>4, <4>6, <4>7
        <4>9. m - l \in Nat /\ f - l \in Int /\ f - l > 0 /\ m - l <= f - l /\ f - l - (m - l) = f - m
          BY <4>8
        <4>10. NextSensor(x, dir) = [sensor |-> y, distance |-> m - l]
          BY <4>6, <4>7
        <4>11. norm[Pos(x, f - l)] = norm[Pos(y, f - l - (m - l))]
          <5>1. PICK q \in Int, d \in Nat : q = f - l /\ d = m - l
            BY <4>9
          <5>2. q > 0 /\ d <= q /\ NextSensor(x, dir) = [sensor |-> y, distance |-> d]
            BY <4>9, <4>10, <5>1
          <5>3. norm[Pos(x, q)] = norm[Pos(y, q - d)]
            BY <5>2, NormForward
          <5> QED BY <5>1, <5>3
        <4>12. From(a) = From(b)
          BY <4>7, <4>9, <4>11 DEF From
        <4> QED BY <4>3, <4>12
      <3> QED BY <3>1, <3>2
    <2> HIDE DEF Good
    <2> QED BY <2>1, <2>3
  <1>7. \A j \in 0 .. n - 1 : j \in T
    <2> HIDE DEF T
    <2> QED BY <1>2, <1>5, <1>6, AllUpTo
  <1>8. Good(n)
    <2>1. n - 1 \in 0 .. n - 1 /\ n - 1 + 1 = n
      BY <1>2
    <2>2. Good(n - 1 + 1)
      BY <1>7, <2>1
    <2> HIDE DEF Good
    <2> QED BY <2>1, <2>2
  <1> HIDE DEF From
  <1>9. From(s) = From(1)
    BY <1>1, <1>8
  <1>10. PICK x \in SENSORS, l \in Nat : x = At(w[s].place).num /\ l = w[s].mm
    BY <1>1, <1>2, SensorsPlaced
  <1>11. l <= f /\ f - l \in Int
    BY <1>1, <1>4, <1>10
  <1>12. PICK p : p = Pos(x, f - l)
    OBVIOUS
  <1>13. p.sensor = x /\ p.offset_mm = f - l /\ p \in Positions
    BY <1>11, <1>12, SensorsPlaced DEF Pos, Positions
  <1>14. Ends(p, dir)
    <2>1. PICK next : next = NextSensor(x, dir)
      OBVIOUS
    <2>2. next = Nowhere \/ next.distance > f - l
      <3>1. Along(w, s, Len(w), dir) /\ Len(w) \in s .. Len(w)
        <4>1. \A i \in s .. Len(w) - 1 : i \in 1 .. Len(w) - 1
          BY <1>1
        <4> QED BY <1>1, <4>1 DEF Along
      <3> QED BY <1>1, <1>3, <1>10, <2>1, <3>1, NextSensorBeyond
    <2>3. f - l = 0 \/ f - l > 0
      BY <1>11
    <2> QED BY <1>13, <2>1, <2>2, <2>3 DEF Ends, IsShortOf
  <1>15. norm[p] = p
    BY <1>13, <1>14 DEF IsNorm
  <1>16. f - w[1].mm = f
    OBVIOUS
  <1> QED BY <1>1, <1>3, <1>9, <1>10, <1>12, <1>15, <1>16 DEF From

\* A position behind the end of a way, as far as the way is long, is its start.
LEMMA NormBack ==
  ASSUME GraphOK, NEW dir, NEW norm, IsNorm(norm, dir), NEW w \in Seq(Steps), Len(w) >= 1,
         \A k \in 1 .. Len(w) - 1 : Trails(w[k], w[k + 1], dir),
         w[1].mm = 0, IsSensor(w[1].place), IsSensor(w[Len(w)].place)
  PROVE  norm[Pos(At(w[Len(w)].place).num, - w[Len(w)].mm)] = Pos(At(w[1].place).num, 0)
  <1>1. PICK n \in Nat : n = Len(w)
    OBVIOUS
  <1>2. n >= 1 /\ 1 \in 1 .. n /\ n \in 1 .. n /\ n - 1 \in Nat
        /\ \A k \in 1 .. n : w[k] \in Steps /\ w[k].place \in Places /\ w[k].mm \in Nat
    BY <1>1, StepsTyped
  <1> DEFINE From(a) == norm[Pos(At(w[a].place).num, - w[a].mm)]
             T == {j \in 0 .. n - 1 : \A b \in n - j .. n : IsSensor(w[b].place) => From(b) = From(n)}
  <1>3. 0 \in T
    <2>1. \A b \in n - 0 .. n : b = n
      OBVIOUS
    <2>2. 0 \in 0 .. n - 1
      BY <1>2
    <2> HIDE DEF From
    <2> QED BY <2>1, <2>2
  <1>4. ASSUME NEW j \in 0 .. n - 1, j \in T, j < n - 1 PROVE j + 1 \in T
    <2>1. PICK a \in 1 .. n : a = n - (j + 1)
      BY <1>4
    <2>2. a + 1 = n - j /\ j + 1 \in 0 .. n - 1 /\ a + 1 \in 1 .. n /\ n \in a + 1 .. n
      BY <1>4, <2>1
    <2> SUFFICES ASSUME NEW c \in a .. n, IsSensor(w[c].place) PROVE From(c) = From(n)
      BY <2>1, <2>2
    <2> HIDE DEF From
    <2>3. \A b \in a + 1 .. n : IsSensor(w[b].place) => From(b) = From(n)
      BY <1>4, <2>2
    <2>4. CASE c # a
      <3>1. c \in a + 1 .. n
        BY <2>1, <2>4
      <3> QED BY <2>3, <3>1
    <2>5. CASE c = a
      <3> DEFINE P == {i \in a + 1 .. n : IsSensor(w[i].place)}
      <3>1. PICK b \in P : \A i \in P : b <= i
        <4>1. P \in SUBSET Nat /\ n \in P
          BY <1>1, <2>1, <2>2
        <4> HIDE DEF P
        <4> QED BY <4>1, LeastNatural
      <3>2. /\ a \in 1 .. Len(w) /\ b \in a + 1 .. Len(w) /\ IsSensor(w[a].place) /\ IsSensor(w[b].place)
            /\ a \in 1 .. n /\ b \in 1 .. n /\ b \in a + 1 .. n
        BY <1>1, <2>1, <2>5, <3>1
      <3>3. \A i \in a + 1 .. b - 1 : ~ IsSensor(w[i].place)
        <4> SUFFICES ASSUME NEW i \in a + 1 .. b - 1, IsSensor(w[i].place) PROVE FALSE
          OBVIOUS
        <4>1. i \in a + 1 .. n /\ ~(b <= i)
          BY <2>1, <3>2
        <4> QED BY <3>1, <4>1
      <3>4. \A k \in a .. b - 1 : Trails(w[k], w[k + 1], dir)
        <4>1. \A k \in a .. b - 1 : k \in 1 .. Len(w) - 1
          BY <3>2
        <4> QED BY <4>1
      <3>5. /\ PrevSensor(At(w[b].place).num, dir)
                = [sensor |-> At(w[a].place).num, distance |-> w[b].mm - w[a].mm]
            /\ w[a].mm < w[b].mm
        BY <3>2, <3>3, <3>4, PrevSensorAlong
      <3>6. PICK x \in SENSORS, y \in SENSORS, l \in Nat, m \in Nat :
               x = At(w[a].place).num /\ y = At(w[b].place).num /\ l = w[a].mm /\ m = w[b].mm
        BY <1>2, <3>2, SensorsPlaced
      <3>7. PICK q \in Int, d \in Nat : q = - m /\ d = m - l /\ q < 0 /\ q + d = - l
        <4>1. l < m
          BY <3>5, <3>6
        <4>2. m - l \in Nat /\ - m \in Int /\ - m < 0 /\ - m + (m - l) = - l
          BY <4>1
        <4> QED BY <4>2
      <3>8. PrevSensor(y, dir) = [sensor |-> x, distance |-> d]
        BY <3>5, <3>6, <3>7
      <3>9. norm[Pos(y, q)] = norm[Pos(x, q + d)]
        <4>1. q < 0
          BY <3>7
        <4> QED BY <3>8, <4>1, NormBackward
      <3>10. From(b) = From(a)
        BY <3>6, <3>7, <3>9 DEF From
      <3>11. From(b) = From(n)
        BY <2>3, <3>2
      <3> QED BY <2>5, <3>10, <3>11
    <2> QED BY <2>4, <2>5
  <1>5. From(1) = From(n)
    <2>1. \A j \in 0 .. n - 1 : j \in T
      <3> HIDE DEF T
      <3> QED BY <1>2, <1>3, <1>4, AllUpTo
    <2>2. n - 1 \in 0 .. n - 1 /\ 1 \in n - (n - 1) .. n
      BY <1>2
    <2> HIDE DEF From
    <2> QED BY <1>2, <2>1, <2>2
  <1>6. PICK x \in SENSORS : x = At(w[1].place).num
    BY <1>2, SensorsPlaced
  <1>7. PICK p : p = Pos(x, 0)
    OBVIOUS
  <1>8. p.offset_mm = 0 /\ p \in Positions
    BY <1>7, SensorsPlaced DEF Pos, Positions
  <1>9. norm[p] = p
    BY <1>8 DEF IsNorm, Ends
  <1>10. From(1) = norm[p]
    <2>1. - w[1].mm = 0
      <3>1. \A z \in Int : - z = 0 - z
        OBVIOUS
      <3>2. PICK m \in Nat : m = w[1].mm
        BY <1>2
      <3>3. m = 0
        BY <3>2
      <3>4. - m = 0 - m
        BY <3>1
      <3>5. 0 - m = 0
        BY <3>3
      <3> QED BY <3>2, <3>4, <3>5
    <2> QED BY <1>6, <1>7, <2>1
  <1> QED BY <1>1, <1>5, <1>6, <1>7, <1>9, <1>10

\* What the oracle makes of positions told from the ends of the route.
LEMMA FindsPositions ==
  ASSUME TripInv
  PROVE  NormalizeFindsTrain
  <1> DEFINE dir == LaidSoFar
             s   == LastStop(Len(route))
  <1> SUFFICES /\ Normalize(Pos(At(Start.place).num, Here.mm), dir)
                     = Pos(At(route[s].place).num, Here.mm - route[s].mm)
               /\ Stop(Len(route)) /\ Hops > 0 /\ FollowedSwitches =>
                     Normalize(Pos(At(Here.place).num, - Here.mm), dir) = Pos(At(Start.place).num, 0)
    BY DEF NormalizeFindsTrain
  <1>1. /\ GraphOK /\ route \in Seq(Steps) /\ Len(route) \in Nat /\ Len(route) >= 1
        /\ DOMAIN route = 1 .. Len(route) /\ Len(route) \in 1 .. Len(route) /\ 1 \in 1 .. Len(route)
    BY RouteTyped
  <1>2. Along(route, 1, Len(route), dir)
    BY LaidSoFarAlong
  <1>3. PICK w, l, o, a : w = route /\ l = Len(route) /\ o = dir /\ a = s
    OBVIOUS
  <1>4. /\ w \in Seq(Steps) /\ l = Len(w) /\ l >= 1 /\ Along(w, 1, l, o) /\ Start = w[1] /\ Here = w[l]
        /\ IsSensor(w[1].place) /\ w[1].mm = 0
    BY <1>1, <1>2, <1>3 DEF TripInv, Start, Here, Stop
  <1>5. PICK norm : IsNorm(norm, o) /\ \A p : Normalize(p, o) = norm[p]
    BY <1>1, NormalizeUnfolds DEF IsNorm
  <1>6. Normalize(Pos(At(Start.place).num, Here.mm), dir)
            = Pos(At(route[s].place).num, Here.mm - route[s].mm)
    <2>1. s \in 1 .. Len(route) /\ Stop(s) /\ \A i \in s + 1 .. Len(route) : ~ Stop(i)
      BY <1>1, LastStopIs
    <2>2. /\ a \in 1 .. Len(w) /\ IsSensor(w[a].place)
          /\ \A i \in a + 1 .. Len(w) : ~ IsSensor(w[i].place)
      BY <1>3, <2>1 DEF Stop
    <2>3. norm[Pos(At(w[1].place).num, w[Len(w)].mm)]
            = Pos(At(w[a].place).num, w[Len(w)].mm - w[a].mm)
      BY <1>1, <1>4, <1>5, <2>2, NormAlong
    <2> HIDE DEF dir, s
    <2> QED BY <1>3, <1>4, <1>5, <2>3
  <1>7. ASSUME Stop(Len(route)), FollowedSwitches
        PROVE  Normalize(Pos(At(Here.place).num, - Here.mm), dir) = Pos(At(Start.place).num, 0)
    <2>1. /\ \A k \in 1 .. Len(w) - 1 : Trails(w[k], w[k + 1], o)
          /\ IsSensor(w[Len(w)].place)
      BY <1>3, <1>7, SwitchedTrails DEF Stop
    <2>2. norm[Pos(At(w[Len(w)].place).num, - w[Len(w)].mm)] = Pos(At(w[1].place).num, 0)
      BY <1>1, <1>4, <1>5, <2>1, NormBack
    <2> HIDE DEF dir, s
    <2> QED BY <1>3, <1>4, <1>5, <2>2
  <1> QED BY <1>6, <1>7

\* A position given as an offset from the start, or as one behind the sensor the train is
\* at, is turned into the last sensor passed there and the distance from it
\* (normalize(), track_graph.cc:154-184).
THEOREM PositionsAreFound == TripSpec => []NormalizeFindsTrain
  BY TripInvariant, FindsPositions, PTL

=============================================================================
