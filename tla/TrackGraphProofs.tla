-------------------------- MODULE TrackGraphProofs --------------------------
(***************************************************************************)
(* What TrackGraph answers, for every track that is WellLaid and Mirrored: *)
(* the lemmas on which the proofs about searches, trips and the train      *)
(* program rest.                                                           *)
(***************************************************************************)
EXTENDS PathSearch, FiniteSetTheorems, FunctionTheorems, WellFoundedInduction, TLAPS

-----------------------------------------------------------------------------
(* Sets of naturals have a least element: what is left of induction here.  *)

LEMMA LeastNatural ==
  ASSUME NEW T \in SUBSET Nat, T # {}
  PROVE  \E m \in T : \A n \in T : m <= n
  <1> DEFINE less == OpToRel(<, Nat)
  <1>1. \A a, b \in Nat : <<a, b>> \in less <=> a < b
    BY DEF OpToRel
  <1>2. IsWellFoundedOn(less, Nat)
    BY NatLessThanWellFounded
  <1> HIDE DEF less
  <1>3. PICK m \in T : \A n \in T : ~(<<n, m>> \in less)
    BY <1>2, WFMin
  <1>4. m \in Nat /\ \A n \in T : n \in Nat
    OBVIOUS
  <1>5. \A n \in T : ~(n < m)
    BY <1>1, <1>3, <1>4
  <1> QED BY <1>4, <1>5

\* Hence every set of naturals that has 0 and with each number its successor, up to
\* a bound, has all numbers up to the bound.
LEMMA AllUpTo ==
  ASSUME NEW n \in Nat, NEW T, 0 \in T, \A k \in 0 .. n : k \in T /\ k < n => k + 1 \in T
  PROVE  \A k \in 0 .. n : k \in T
  <1> DEFINE Left == {k \in 0 .. n : k \notin T}
  <1> SUFFICES ASSUME Left # {} PROVE FALSE
    OBVIOUS
  <1>1. Left \in SUBSET Nat
    OBVIOUS
  <1>2. PICK m \in Left : \A k \in Left : m <= k
    BY <1>1, LeastNatural
  <1>3. m \in 0 .. n /\ m \notin T /\ m # 0
    OBVIOUS
  <1>4. m - 1 \in 0 .. n /\ m - 1 < n /\ m - 1 + 1 = m
    BY <1>3
  <1>5. m - 1 \in T
    <2>1. m - 1 \notin Left
      BY <1>2, <1>4
    <2> QED BY <2>1, <1>4
  <1> QED BY <1>3, <1>4, <1>5

-----------------------------------------------------------------------------
(* The table.                                                              *)

GraphOK == \E id \in TrackIds : graph = Filled(Track(id))

LEMMA TableIs ==
  ASSUME GraphOK
  PROVE  \E t : /\ graph = Filled(t) /\ WellLaid(t) /\ Mirrored(t)
  BY TablesAssumption DEF GraphOK

LEMMA PlacesType == Places \subseteq Nat /\ \A i \in Places : i + 1 \in 1 .. TRACK_MAX
  BY DEF Places, TRACK_MAX

LEMMA NodesTyped ==
  ASSUME GraphOK
  PROVE  /\ graph.node \in [1 .. TRACK_MAX -> Nodes]
         /\ \A i \in Places :
               /\ At(i) \in Nodes
               /\ At(i).type \in {"sensor", "branch", "merge", "enter", "exit", "none"}
               /\ At(i).num \in Nat /\ At(i).reverse \in Places /\ At(i).edge \in Seq(Edges)
  <1>1. PICK t : graph = Filled(t) /\ WellLaid(t)
    BY TableIs
  <1>2. graph.node = t
    BY <1>1 DEF Filled
  <1>3. t \in [1 .. TRACK_MAX -> Nodes]
    BY <1>1 DEF WellLaid
  <1>4. \A i \in Places : At(i) \in Nodes
    BY <1>2, <1>3, PlacesType DEF At
  <1> QED BY <1>2, <1>3, <1>4 DEF Nodes

LEMMA EdgesTyped ==
  ASSUME GraphOK, NEW i \in Places
  PROVE  /\ Len(At(i).edge) = CASE At(i).type \in {"none", "exit"} -> 0
                                [] At(i).type = "branch" -> 2
                                [] OTHER -> 1
         /\ DOMAIN At(i).edge = 1 .. Len(At(i).edge) /\ Len(At(i).edge) \in 0 .. 2
         /\ \A k \in DOMAIN At(i).edge :
               At(i).edge[k] \in Edges /\ At(i).edge[k].dest \in Places /\ At(i).edge[k].dist \in Nat
  <1>1. PICK t : graph = Filled(t) /\ WellLaid(t)
    BY TableIs
  <1>2. graph.node = t
    BY <1>1 DEF Filled
  <1>3. \A j \in Places :
          Len(t[j + 1].edge) = CASE t[j + 1].type \in {"none", "exit"} -> 0
                                 [] t[j + 1].type = "branch" -> 2
                                 [] OTHER -> 1
    BY <1>1 DEF WellLaid
  <1>4. Len(At(i).edge) = CASE At(i).type \in {"none", "exit"} -> 0
                            [] At(i).type = "branch" -> 2
                            [] OTHER -> 1
    BY <1>2, <1>3 DEF At
  <1>5. At(i).edge \in Seq(Edges)
    BY NodesTyped
  <1>6. \A k \in DOMAIN At(i).edge : At(i).edge[k] \in Edges
    BY <1>5
  <1>7. DOMAIN At(i).edge = 1 .. Len(At(i).edge)
    BY <1>5
  <1>8. Len(At(i).edge) \in 0 .. 2
    BY <1>4
  <1> QED BY <1>4, <1>6, <1>7, <1>8 DEF Edges

\* Every sensor is at one place.
LEMMA SensorsPlaced ==
  ASSUME GraphOK
  PROVE  /\ Sensors = SENSORS /\ PlaceOf \in [SENSORS -> Places]
         /\ \A s \in SENSORS : IsSensor(PlaceOf[s]) /\ At(PlaceOf[s]).num = s
         /\ \A i \in Places : IsSensor(i) => At(i).num \in SENSORS /\ PlaceOf[At(i).num] = i
  <1>1. PICK t : graph = Filled(t) /\ WellLaid(t)
    BY TableIs
  <1>2. graph.node = t /\ graph.place = PlacesOf(t)
    BY <1>1 DEF Filled
  <1>3. /\ t \in [1 .. TRACK_MAX -> Nodes]
        /\ {t[i + 1].num : i \in Places \ Bare(t)} = SENSORS
        /\ \A i, j \in Places : t[i + 1].type = t[j + 1].type /\ t[i + 1].num = t[j + 1].num
                                  /\ t[i + 1].type \in {"sensor", "branch"} => i = j
    BY <1>1 DEF WellLaid
  <1> DEFINE sensors == {k \in DOMAIN t : t[k].type = "sensor"}
             pick(s) == CHOOSE k \in sensors : t[k].num = s
  <1>4. DOMAIN t = 1 .. TRACK_MAX
    BY <1>3
  <1>5. sensors = {i + 1 : i \in Places \ Bare(t)}
    <2>1. \A k \in 1 .. TRACK_MAX : k - 1 \in Places /\ k - 1 + 1 = k
      BY DEF Places, TRACK_MAX
    <2>2. \A i \in Places : i \in Places \ Bare(t) <=> t[i + 1].type = "sensor"
      BY DEF Bare
    <2>3. ASSUME NEW k \in sensors PROVE k \in {i + 1 : i \in Places \ Bare(t)}
      <3>1. k - 1 \in Places /\ k - 1 + 1 = k /\ t[k].type = "sensor"
        BY <1>4, <2>1
      <3>2. k - 1 \in Places \ Bare(t)
        BY <2>2, <3>1
      <3> QED BY <3>1, <3>2
    <2>4. ASSUME NEW i \in Places \ Bare(t) PROVE i + 1 \in sensors
      BY <2>2, <1>4, PlacesType
    <2> HIDE DEF sensors
    <2> QED BY <2>3, <2>4
  <1>6. {t[k].num : k \in sensors} = SENSORS
    BY <1>3, <1>5
  <1>7. PlaceOf = [s \in SENSORS |-> pick(s) - 1]
    BY <1>2, <1>6 DEF PlaceOf, PlacesOf
  <1>8. \A s \in SENSORS : pick(s) \in sensors /\ t[pick(s)].num = s
    BY <1>6
  <1>9. \A s \in SENSORS : pick(s) - 1 \in Places /\ t[pick(s) - 1 + 1].type = "sensor"
                             /\ t[pick(s) - 1 + 1].num = s
    <2> TAKE s \in SENSORS
    <2>1. PICK k : k = pick(s)
      OBVIOUS
    <2>2. k \in 1 .. TRACK_MAX /\ t[k].type = "sensor" /\ t[k].num = s
      BY <2>1, <1>8, <1>4
    <2>3. k - 1 \in Places /\ k - 1 + 1 = k
      BY <2>2 DEF Places, TRACK_MAX
    <2> QED BY <2>1, <2>2, <2>3
  <1> HIDE DEF pick
  <1>10. PlaceOf \in [SENSORS -> Places]
    BY <1>7, <1>9
  <1>11. \A s \in SENSORS : IsSensor(PlaceOf[s]) /\ At(PlaceOf[s]).num = s
    BY <1>7, <1>9, <1>2 DEF IsSensor, At
  <1>12. \A i \in Places : IsSensor(i) => At(i).num \in SENSORS
    BY <1>2, <1>3 DEF IsSensor, At, Bare
  <1>13. \A i \in Places : IsSensor(i) => PlaceOf[At(i).num] = i
    <2> SUFFICES ASSUME NEW i \in Places, IsSensor(i)
                 PROVE  PlaceOf[At(i).num] = i
      OBVIOUS
    <2>1. PICK s \in SENSORS : s = At(i).num
      BY <1>12
    <2>2. PICK j \in Places : j = PlaceOf[s]
      BY <1>10
    <2>3. At(j).type = "sensor" /\ At(j).num = s /\ At(i).type = "sensor"
      BY <1>11, <2>2 DEF IsSensor
    <2>4. i = j
      BY <2>1, <2>3, <1>2, <1>3 DEF At
    <2> QED BY <2>1, <2>2, <2>4
  <1>14. Sensors = SENSORS
    BY <1>7 DEF Sensors
  <1> QED BY <1>10, <1>11, <1>12, <1>13, <1>14

-----------------------------------------------------------------------------
(* The search.  A way is a list of places, each with the millimetres to it;*)
(* a way noted is the one that leads back along prev.                      *)

Steps == [place : Places, mm : Nat]

Leads(a, b) == \E k \in DOMAIN At(a.place).edge :
                  /\ b.place = At(a.place).edge[k].dest
                  /\ b.mm = a.mm + At(a.place).edge[k].dist

IsWay(w, from) ==
    /\ w \in Seq(Steps) /\ Len(w) > 0
    /\ w[1] = [place |-> from, mm |-> 0]
    /\ \A k \in 1 .. Len(w) - 1 : Leads(w[k], w[k + 1])

IsNoted(w, n, from, i) ==
    /\ IsWay(w, from)
    /\ w[Len(w)] = [place |-> i, mm |-> n.dist[i]]
    /\ \A k \in 1 .. Len(w) - 1 : w[k].place \in n.visited /\ n.prev[w[k + 1].place] = w[k].place
    /\ \A k, l \in 1 .. Len(w) : w[k].place = w[l].place => k = l

Throughs == {i \in Places : At(i).type \notin {"none", "exit"}}

PrevSound(n, i) ==
    n.prev[i] # Null =>
        /\ n.prev[i] \in n.visited
        /\ \E k \in DOMAIN At(n.prev[i]).edge :
               /\ At(n.prev[i]).edge[k].dest = i
               /\ n.dist[i] = n.dist[n.prev[i]] + At(n.prev[i]).edge[k].dist

NoteSound(n, from) ==
    /\ n \in Notes /\ from \in Places /\ n.dist[from] = 0
    /\ \A i \in n.visited : i \in Throughs /\ n.dist[i] < INT_MAX
    /\ \A i \in n.visited : \A j \in Throughs \ n.visited : n.dist[i] <= n.dist[j]
    /\ \A i \in Places : PrevSound(n, i)
    /\ \A i \in Places : n.dist[i] < INT_MAX => \E w : IsNoted(w, n, from, i)

EdgesRelaxed(n, i) ==
    \A k \in DOMAIN At(i).edge : n.dist[At(i).edge[k].dest] <= n.dist[i] + At(i).edge[k].dist

LEMMA IntMaxType == INT_MAX \in Nat /\ INT_MAX > 0
  BY SMT DEF INT_MAX

\* The fields of a note.
LEMMA NoteTyped ==
  ASSUME NEW n \in Notes
  PROVE  /\ n.visited \subseteq Places
         /\ n.dist \in [Places -> 0 .. INT_MAX] /\ n.prev \in [Places -> Places \cup {Null}]
         /\ \A i \in Places : n.dist[i] \in Nat /\ n.dist[i] <= INT_MAX /\ n.prev[i] \in Places \cup {Null}
  <1>1. n.dist \in [Places -> 0 .. INT_MAX] /\ n.prev \in [Places -> Places \cup {Null}]
    BY DEF Notes
  <1>2. \A i \in Places : n.dist[i] \in 0 .. INT_MAX
    BY <1>1
  <1>3. INT_MAX \in Nat
    BY IntMaxType
  <1>4. \A i \in Places : n.dist[i] \in Nat /\ n.dist[i] <= INT_MAX
    BY <1>2, <1>3
  <1> QED BY <1>1, <1>4 DEF Notes

LEMMA RelaxedIs ==
  ASSUME NEW n \in Notes, NEW i \in Places, NEW e \in Edges, n.dist[i] + e.dist < n.dist[e.dest],
         e.dest \notin n.visited
  PROVE  LET m == Relaxed(n, i, e)
         IN  /\ m \in Notes /\ m.visited = n.visited
             /\ \A j \in Places : m.dist[j] = IF j = e.dest THEN n.dist[i] + e.dist ELSE n.dist[j]
             /\ \A j \in Places : m.prev[j] = IF j = e.dest THEN i ELSE n.prev[j]
  <1> DEFINE m == Relaxed(n, i, e)
             d == n.dist[i] + e.dist
  <1>1. e.dest \in Places /\ e.dist \in Nat
    BY DEF Edges
  <1>2. d \in 0 .. INT_MAX
    <2>1. n.dist[i] \in Nat /\ n.dist[e.dest] \in Nat /\ n.dist[e.dest] <= INT_MAX
      BY <1>1, NoteTyped
    <2> QED BY <2>1, <1>1, IntMaxType
  <1>3. ~ Refused(n, i, e)
    <2>1. n.dist[i] \in Nat /\ n.dist[e.dest] \in Nat
      BY <1>1, NoteTyped
    <2> QED BY <2>1, <1>1 DEF Refused
  <1>4. m = [n EXCEPT !.dist[e.dest] = d, !.prev[e.dest] = i]
    BY <1>3 DEF Relaxed
  <1>5. /\ m.visited = n.visited
        /\ m.dist = [n.dist EXCEPT ![e.dest] = d] /\ m.prev = [n.prev EXCEPT ![e.dest] = i]
    BY <1>4 DEF Notes
  <1>6. m.dist \in [Places -> 0 .. INT_MAX] /\ m.prev \in [Places -> Places \cup {Null}]
    <2> HIDE DEF d, m
    <2> QED BY <1>1, <1>2, <1>5, NoteTyped
  <1>7. m \in Notes
    <2>1. m = [dist |-> m.dist, visited |-> m.visited, prev |-> m.prev]
      BY <1>4 DEF Notes
    <2> HIDE DEF m
    <2> QED BY <2>1, <1>5, <1>6 DEF Notes
  <1>8. \A j \in Places : /\ m.dist[j] = IF j = e.dest THEN d ELSE n.dist[j]
                          /\ m.prev[j] = IF j = e.dest THEN i ELSE n.prev[j]
    <2> HIDE DEF d, m
    <2> QED BY <1>5, NoteTyped
  <1> QED BY <1>5, <1>7, <1>8

LEMMA WayEnds ==
  ASSUME NEW w, NEW from, IsWay(w, from)
  PROVE  /\ w \in Seq(Steps) /\ Len(w) \in Nat \ {0} /\ DOMAIN w = 1 .. Len(w)
         /\ \A k \in 1 .. Len(w) : w[k] \in Steps /\ w[k].place \in Places /\ w[k].mm \in Nat
  <1>1. w \in Seq(Steps) /\ Len(w) \in Nat \ {0} /\ DOMAIN w = 1 .. Len(w)
    BY DEF IsWay
  <1>2. \A k \in 1 .. Len(w) : w[k] \in Steps
    BY <1>1
  <1> QED BY <1>1, <1>2 DEF Steps

\* A way goes on along an edge.
LEMMA WayGoesOn ==
  ASSUME NEW w, NEW from, IsWay(w, from), NEW x \in Steps, Leads(w[Len(w)], x)
  PROVE  /\ IsWay(Append(w, x), from) /\ Len(Append(w, x)) = Len(w) + 1
         /\ \A k \in 1 .. Len(w) : Append(w, x)[k] = w[k]
         /\ Append(w, x)[Len(w) + 1] = x
  <1> DEFINE u == Append(w, x)
  <1>1. w \in Seq(Steps) /\ Len(w) \in Nat \ {0}
    BY WayEnds
  <1>2. /\ u \in Seq(Steps) /\ Len(u) = Len(w) + 1 /\ u[Len(w) + 1] = x
        /\ \A k \in 1 .. Len(w) : u[k] = w[k]
    BY <1>1
  <1>3. u[1] = [place |-> from, mm |-> 0]
    BY <1>1, <1>2 DEF IsWay
  <1>4. \A k \in 1 .. Len(u) - 1 : Leads(u[k], u[k + 1])
    <2> SUFFICES ASSUME NEW k \in 1 .. Len(w) PROVE Leads(u[k], u[k + 1])
      BY <1>1, <1>2
    <2>1. CASE k = Len(w)
      <3>1. u[k] = w[Len(w)] /\ u[k + 1] = x
        BY <1>1, <1>2, <2>1
      <3> HIDE DEF u
      <3> QED BY <3>1
    <2>2. CASE k # Len(w)
      <3>1. k \in 1 .. Len(w) - 1 /\ k + 1 \in 1 .. Len(w)
        BY <1>1, <2>2
      <3>2. u[k] = w[k] /\ u[k + 1] = w[k + 1]
        BY <1>2, <3>1
      <3>3. Leads(w[k], w[k + 1])
        BY <3>1 DEF IsWay
      <3> HIDE DEF u
      <3> QED BY <3>2, <3>3
    <2> QED BY <2>1, <2>2
  <1> HIDE DEF u
  <1>5. Len(u) > 0
    BY <1>1, <1>2
  <1>6. IsWay(u, from)
    BY <1>2, <1>3, <1>4, <1>5 DEF IsWay
  <1> QED BY <1>2, <1>6 DEF u

\* What a note says of a way to i is still said once more places are visited, as
\* long as the places visited and i itself keep what is noted of them.
LEMMA NotedStays ==
  ASSUME NEW n \in Notes, NEW m \in Notes, NEW from, NEW i \in Places, NEW w, IsNoted(w, n, from, i),
         n.visited \subseteq m.visited,
         \A j \in n.visited \cup {i} : m.dist[j] = n.dist[j] /\ m.prev[j] = n.prev[j]
  PROVE  IsNoted(w, m, from, i)
  <1>1. /\ IsWay(w, from)
        /\ w[Len(w)] = [place |-> i, mm |-> n.dist[i]]
        /\ \A k \in 1 .. Len(w) - 1 : w[k].place \in n.visited /\ n.prev[w[k + 1].place] = w[k].place
        /\ \A k, l \in 1 .. Len(w) : w[k].place = w[l].place => k = l
    BY DEF IsNoted
  <1>2. Len(w) \in Nat \ {0}
    BY <1>1, WayEnds
  <1>3. \A k \in 1 .. Len(w) - 1 : m.prev[w[k + 1].place] = n.prev[w[k + 1].place]
    <2> SUFFICES ASSUME NEW k \in 1 .. Len(w) - 1
                 PROVE  w[k + 1].place \in n.visited \cup {i}
      OBVIOUS
    <2>1. CASE k + 1 = Len(w)
      BY <1>1, <2>1
    <2>2. CASE k + 1 # Len(w)
      <3>1. k + 1 \in 1 .. Len(w) - 1
        BY <1>2, <2>2
      <3> QED BY <1>1, <3>1
    <2> QED BY <2>1, <2>2
  <1>4. m.dist[i] = n.dist[i]
    OBVIOUS
  <1>5. \A k \in 1 .. Len(w) - 1 : w[k].place \in m.visited /\ m.prev[w[k + 1].place] = w[k].place
    BY <1>1, <1>3
  <1>6. w[Len(w)] = [place |-> i, mm |-> m.dist[i]]
    BY <1>1, <1>4
  <1> QED BY <1>1, <1>5, <1>6 DEF IsNoted

\* One edge of a node visited last is looked at.
LEMMA RelaxStep ==
  ASSUME GraphOK, NEW n, NEW from, NoteSound(n, from), NEW i \in n.visited,
         \A j \in n.visited : n.dist[j] <= n.dist[i],
         NEW k \in DOMAIN At(i).edge
  PROVE  LET e == At(i).edge[k]
             m == Relaxed(n, i, e)
         IN  /\ NoteSound(m, from) /\ m.visited = n.visited
             /\ \A j \in n.visited : m.dist[j] = n.dist[j]
             /\ \A j \in Places : m.dist[j] <= n.dist[j]
             /\ m.dist[e.dest] <= m.dist[i] + e.dist
  <1> DEFINE e == At(i).edge[k]
             m == Relaxed(n, i, e)
             d == n.dist[i] + e.dist
  <1> SUFFICES /\ NoteSound(m, from) /\ m.visited = n.visited
               /\ \A j \in n.visited : m.dist[j] = n.dist[j]
               /\ \A j \in Places : m.dist[j] <= n.dist[j]
               /\ m.dist[e.dest] <= m.dist[i] + e.dist
    OBVIOUS
  <1>1. /\ n \in Notes /\ n.visited \subseteq Places /\ i \in Places
        /\ \A j \in Places : n.dist[j] \in Nat /\ n.dist[j] <= INT_MAX
    BY NoteTyped DEF NoteSound
  <1>2. e \in Edges /\ e.dest \in Places /\ e.dist \in Nat
    BY <1>1, EdgesTyped
  <1> HIDE DEF e
  <1>3. CASE Refused(n, i, e)
    <2>1. m = n
      BY <1>3 DEF Relaxed
    <2>2. n.dist[e.dest] <= d
      <3>1. CASE e.dest \in n.visited
        <4>1. n.dist[e.dest] <= n.dist[i]
          BY <3>1
        <4> QED BY <4>1, <1>1, <1>2
      <3>2. CASE n.dist[e.dest] <= d
        BY <3>2
      <3> QED BY <1>3, <3>1, <3>2 DEF Refused
    <2> HIDE DEF m
    <2> QED BY <2>1, <2>2, <1>1
  <1>4. CASE ~ Refused(n, i, e)
    <2>1. e.dest \notin n.visited /\ d < n.dist[e.dest]
      BY <1>4, <1>1, <1>2 DEF Refused
    <2>2. /\ m \in Notes /\ m.visited = n.visited
          /\ \A j \in Places : m.dist[j] = IF j = e.dest THEN d ELSE n.dist[j]
          /\ \A j \in Places : m.prev[j] = IF j = e.dest THEN i ELSE n.prev[j]
      BY <2>1, <1>1, <1>2, RelaxedIs
    <2> HIDE DEF m
    <2>3. d \in Nat /\ n.dist[i] \in Nat /\ n.dist[i] <= d
      BY <1>1, <1>2
    <2>4. \A j \in n.visited : m.dist[j] = n.dist[j] /\ m.prev[j] = n.prev[j] /\ j \in Places
      BY <1>1, <2>1, <2>2
    <2>5. \A j \in Places : m.dist[j] <= n.dist[j]
      BY <1>1, <2>1, <2>2, <2>3
    <2>6. m.dist[e.dest] = d /\ m.dist[i] = n.dist[i] /\ m.prev[e.dest] = i
      BY <1>1, <1>2, <2>2, <2>4
    <2>7. m.dist[from] = 0 /\ from \in Places
      <3>1. n.dist[from] = 0 /\ from \in Places
        BY DEF NoteSound
      <3>2. from # e.dest
        BY <3>1, <2>1, <2>3
      <3> QED BY <3>1, <3>2, <2>2
    <2>8. \A j \in m.visited : j \in Throughs /\ m.dist[j] < INT_MAX
      BY <2>2, <2>4 DEF NoteSound
    <2>9. \A j \in m.visited : \A l \in Throughs \ m.visited : m.dist[j] <= m.dist[l]
      <3> SUFFICES ASSUME NEW j \in n.visited, NEW l \in Throughs \ n.visited
                   PROVE  n.dist[j] <= m.dist[l]
        BY <2>2, <2>4
      <3>1. l \in Places /\ j \in Places
        BY <1>1 DEF Throughs
      <3>2. n.dist[j] <= n.dist[l]
        BY DEF NoteSound
      <3>3. n.dist[j] <= n.dist[i]
        OBVIOUS
      <3> QED BY <3>1, <3>2, <3>3, <2>2, <2>3, <1>1
    <2>10. \A j \in Places : PrevSound(m, j)
      <3> SUFFICES ASSUME NEW j \in Places, m.prev[j] # Null
                   PROVE  /\ m.prev[j] \in m.visited
                          /\ \E l \in DOMAIN At(m.prev[j]).edge :
                                /\ At(m.prev[j]).edge[l].dest = j
                                /\ m.dist[j] = m.dist[m.prev[j]] + At(m.prev[j]).edge[l].dist
        BY DEF PrevSound
      <3>1. CASE j = e.dest
        <4>1. m.prev[j] = i /\ m.dist[j] = m.dist[i] + e.dist
          BY <2>6, <3>1
        <4> QED BY <4>1, <2>2, <3>1 DEF e
      <3>2. CASE j # e.dest
        <4>1. m.prev[j] = n.prev[j] /\ m.dist[j] = n.dist[j]
          BY <2>2, <3>2
        <4>2. /\ n.prev[j] \in n.visited
              /\ \E l \in DOMAIN At(n.prev[j]).edge :
                    /\ At(n.prev[j]).edge[l].dest = j
                    /\ n.dist[j] = n.dist[n.prev[j]] + At(n.prev[j]).edge[l].dist
          BY <4>1 DEF NoteSound, PrevSound
        <4>3. m.dist[n.prev[j]] = n.dist[n.prev[j]]
          BY <2>4, <4>2
        <4> QED BY <4>1, <4>2, <4>3, <2>2
      <3> QED BY <3>1, <3>2
    <2>11. \A j \in Places : m.dist[j] < INT_MAX => \E w : IsNoted(w, m, from, j)
      <3> SUFFICES ASSUME NEW j \in Places, m.dist[j] < INT_MAX
                   PROVE  \E w : IsNoted(w, m, from, j)
        OBVIOUS
      <3>1. CASE j = e.dest
        <4>1. i \in Places /\ n.dist[i] < INT_MAX
          BY <1>1 DEF NoteSound
        <4>2. PICK w : IsNoted(w, n, from, i)
          BY <4>1 DEF NoteSound
        <4> DEFINE x == [place |-> j, mm |-> d]
                   u == Append(w, x)
        <4>3. /\ IsWay(w, from) /\ w[Len(w)] = [place |-> i, mm |-> n.dist[i]]
              /\ \A l \in 1 .. Len(w) - 1 : w[l].place \in n.visited /\ n.prev[w[l + 1].place] = w[l].place
              /\ \A l, o \in 1 .. Len(w) : w[l].place = w[o].place => l = o
          BY <4>2 DEF IsNoted
        <4>4. Len(w) \in Nat \ {0}
          BY <4>3, WayEnds
        <4>5. x \in Steps /\ Leads(w[Len(w)], x)
          <5>1. x \in Steps
            BY <2>3 DEF Steps
          <5>2. x.place = e.dest /\ x.mm = n.dist[i] + e.dist
            BY <3>1
          <5>3. w[Len(w)].place = i /\ w[Len(w)].mm = n.dist[i]
            BY <4>3
          <5> QED BY <5>1, <5>2, <5>3 DEF Leads, e
        <4>6. /\ IsWay(u, from) /\ Len(u) = Len(w) + 1 /\ \A l \in 1 .. Len(w) : u[l] = w[l]
              /\ u[Len(w) + 1] = x
          BY <4>3, <4>5, WayGoesOn
        <4> HIDE DEF u
        <4>7. u[Len(u)] = [place |-> j, mm |-> m.dist[j]]
          BY <4>6, <2>6, <3>1
        <4>8. \A l \in 1 .. Len(w) : w[l].place \in n.visited
          <5> SUFFICES ASSUME NEW l \in 1 .. Len(w) PROVE w[l].place \in n.visited
            OBVIOUS
          <5>1. CASE l = Len(w)
            BY <5>1, <4>3
          <5>2. CASE l # Len(w)
            <6>1. l \in 1 .. Len(w) - 1
              BY <4>4, <5>2
            <6> QED BY <6>1, <4>3
          <5> QED BY <5>1, <5>2
        <4>9. \A l \in 1 .. Len(u) - 1 : u[l].place \in m.visited /\ m.prev[u[l + 1].place] = u[l].place
          <5> SUFFICES ASSUME NEW l \in 1 .. Len(w)
                       PROVE  u[l].place \in m.visited /\ m.prev[u[l + 1].place] = u[l].place
            BY <4>4, <4>6
          <5>1. u[l].place \in m.visited
            BY <4>6, <4>8, <2>2
          <5>2. CASE l = Len(w)
            <6>1. u[l + 1].place = e.dest /\ u[l].place = i
              BY <4>3, <4>6, <5>2, <3>1
            <6> QED BY <5>1, <6>1, <2>6
          <5>3. CASE l # Len(w)
            <6>1. l \in 1 .. Len(w) - 1 /\ l + 1 \in 1 .. Len(w)
              BY <4>4, <5>3
            <6>2. n.prev[w[l + 1].place] = w[l].place /\ w[l + 1].place \in n.visited
              BY <4>3, <4>8, <6>1
            <6>3. m.prev[w[l + 1].place] = n.prev[w[l + 1].place]
              BY <6>2, <2>4
            <6> QED BY <5>1, <6>1, <6>2, <6>3, <4>6
          <5> QED BY <5>2, <5>3
        <4>10. \A l, o \in 1 .. Len(u) : u[l].place = u[o].place => l = o
          <5>1. \A l \in 1 .. Len(w) : u[l].place # j
            BY <4>6, <4>8, <2>1, <3>1
          <5>2. u[Len(w) + 1].place = j
            BY <4>6
          <5> SUFFICES ASSUME NEW l \in 1 .. Len(u), NEW o \in 1 .. Len(u), u[l].place = u[o].place
                       PROVE  l = o
            OBVIOUS
          <5>3. /\ l \in 1 .. Len(w) \/ l = Len(w) + 1
                /\ o \in 1 .. Len(w) \/ o = Len(w) + 1
            BY <4>4, <4>6
          <5> QED BY <5>1, <5>2, <5>3, <4>3, <4>6
        <4>11. IsNoted(u, m, from, j)
          BY <4>6, <4>7, <4>9, <4>10 DEF IsNoted
        <4> QED BY <4>11
      <3>2. CASE j # e.dest
        <4>1. m.dist[j] = n.dist[j] /\ m.prev[j] = n.prev[j]
          BY <2>2, <3>2
        <4>2. PICK w : IsNoted(w, n, from, j)
          BY <4>1 DEF NoteSound
        <4>3. \A l \in n.visited \cup {j} : m.dist[l] = n.dist[l] /\ m.prev[l] = n.prev[l]
          BY <4>1, <2>4
        <4>4. IsNoted(w, m, from, j)
          BY <4>2, <4>3, <2>2, <1>1, NotedStays
        <4> QED BY <4>4
      <3> QED BY <3>1, <3>2
    <2>12. NoteSound(m, from)
      BY <2>2, <2>7, <2>8, <2>9, <2>10, <2>11 DEF NoteSound
    <2>13. m.dist[e.dest] <= m.dist[i] + e.dist
      BY <2>6, <2>3
    <2> QED BY <2>2, <2>4, <2>5, <2>12, <2>13
  <1> QED BY <1>3, <1>4

\* The edges of a node are looked at one after the other.
LEMMA VisitedIs ==
  ASSUME GraphOK, NEW n, NEW i \in Places
  PROVE  \E f : /\ f[0] = [n EXCEPT !.visited = @ \cup {i}]
                /\ \A k \in 1 .. Len(At(i).edge) : f[k] = Relaxed(f[k - 1], i, At(i).edge[k])
                /\ Visited(n, i) = f[Len(At(i).edge)]
  <1> DEFINE edges == At(i).edge
             zero == [n EXCEPT !.visited = @ \cup {i}]
             one == Relaxed(zero, i, edges[1])
             two == Relaxed(one, i, edges[2])
             Body(g) == [k \in 0 .. Len(edges) |-> IF k = 0 THEN zero ELSE Relaxed(g[k - 1], i, edges[k])]
             f == CHOOSE g : g = Body(g)
             known == [k \in 0 .. Len(edges) |-> IF k = 0 THEN zero ELSE IF k = 1 THEN one ELSE two]
  <1>1. Visited(n, i) = f[Len(edges)]
    BY DEF Visited
  <1>2. Len(edges) \in 0 .. 2
    BY EdgesTyped
  <1>3. known = Body(known)
    <2>1. \A k \in 0 .. Len(edges) : known[k] = IF k = 0 THEN zero ELSE Relaxed(known[k - 1], i, edges[k])
      <3> SUFFICES ASSUME NEW k \in 0 .. Len(edges)
                   PROVE  known[k] = IF k = 0 THEN zero ELSE Relaxed(known[k - 1], i, edges[k])
        OBVIOUS
      <3>1. k \in {0, 1, 2}
        <4> HIDE DEF edges
        <4>1. PICK len \in 0 .. 2 : len = Len(edges)
          BY <1>2
        <4>2. k \in 0 .. len
          BY <4>1
        <4> QED BY <4>2
      <3>2. CASE k = 0
        BY <3>2
      <3>3. CASE k = 1
        <4>1. 0 \in 0 .. Len(edges) /\ 1 - 1 = 0
          BY <1>2
        <4>2. known[0] = zero
          BY <4>1
        <4> QED BY <3>3, <4>1, <4>2
      <3>4. CASE k = 2
        <4>1. 1 \in 0 .. Len(edges) /\ 2 - 1 = 1
          BY <1>2, <3>4
        <4>2. known[1] = one
          BY <4>1
        <4> QED BY <3>4, <4>1, <4>2
      <3> QED BY <3>1, <3>2, <3>3, <3>4
    <2> HIDE DEF zero, one, two
    <2> QED BY <2>1
  <1> HIDE DEF Body
  <1>4. f = Body(f)
    BY <1>3
  <1> USE DEF Body
  <1> HIDE DEF f, known
  <1>5. /\ f[0] = zero
        /\ \A k \in 1 .. Len(edges) : f[k] = Relaxed(f[k - 1], i, edges[k])
    <2>1. \A k \in 0 .. Len(edges) : f[k] = IF k = 0 THEN zero ELSE Relaxed(f[k - 1], i, edges[k])
      <3> HIDE DEF zero, edges
      <3> QED BY <1>4
    <2>2. 0 \in 0 .. Len(edges) /\ \A k \in 1 .. Len(edges) : k \in 0 .. Len(edges) /\ k # 0
      BY <1>2
    <2> HIDE DEF zero, edges
    <2> QED BY <2>1, <2>2
  <1> QED BY <1>1, <1>5

\* Of the node that the search visits next, all is known that it needs.
LEMMA NearestIs ==
  ASSUME GraphOK, NEW n, NEW from, NoteSound(n, from), NEW i \in Nearest(n)
  PROVE  /\ i \in Throughs /\ i \in Places /\ i \notin n.visited /\ n.dist[i] < INT_MAX
         /\ \A j \in n.visited : n.dist[j] <= n.dist[i]
         /\ \A j \in Throughs \ n.visited : n.dist[i] <= n.dist[j]
  <1>1. i \in Open(n) /\ \A j \in Open(n) : n.dist[i] < n.dist[j] \/ n.dist[i] = n.dist[j]
    BY DEF Nearest
  <1>2. i \in Throughs /\ i \in Places /\ i \notin n.visited /\ n.dist[i] < INT_MAX
    BY <1>1 DEF Open, Throughs
  <1>3. /\ n \in Notes
        /\ \A j \in Places : n.dist[j] \in Nat /\ n.dist[j] <= INT_MAX
    BY NoteTyped DEF NoteSound
  <1>4. \A j \in n.visited : n.dist[j] <= n.dist[i]
    BY <1>2 DEF NoteSound
  <1>5. ASSUME NEW j \in Throughs \ n.visited PROVE n.dist[i] <= n.dist[j]
    <2>1. j \in Places /\ j \notin n.visited /\ At(j).type \notin {"none", "exit"}
      BY DEF Throughs
    <2>2. CASE n.dist[j] < INT_MAX
      <3>1. j \in Open(n)
        BY <2>1, <2>2 DEF Open
      <3> QED BY <3>1, <1>1, <1>2, <1>3, <2>1
    <2>3. CASE ~(n.dist[j] < INT_MAX)
      <3>1. n.dist[j] \in Nat /\ n.dist[i] \in Nat
        BY <2>1, <1>2, <1>3
      <3> QED BY <3>1, <2>3, <1>2, IntMaxType
    <2> QED BY <2>2, <2>3
  <1> QED BY <1>2, <1>4, <1>5

AllRelaxed(n) == \A i \in n.visited : EdgesRelaxed(n, i)

\* A turn of the search.
LEMMA VisitStep ==
  ASSUME GraphOK, NEW n, NEW from, NoteSound(n, from), AllRelaxed(n), NEW i \in Nearest(n)
  PROVE  /\ NoteSound(Visited(n, i), from) /\ AllRelaxed(Visited(n, i))
         /\ Visited(n, i).visited = n.visited \cup {i}
  <1>1. /\ i \in Throughs /\ i \in Places /\ i \notin n.visited /\ n.dist[i] < INT_MAX
        /\ \A j \in n.visited : n.dist[j] <= n.dist[i]
        /\ \A j \in Throughs \ n.visited : n.dist[i] <= n.dist[j]
    BY NearestIs
  <1>2. /\ n \in Notes /\ n.visited \subseteq Places
        /\ \A j \in Places : n.dist[j] \in Nat
    BY NoteTyped DEF NoteSound
  <1> DEFINE edges == At(i).edge
             zero == [n EXCEPT !.visited = @ \cup {i}]
  <1>3. PICK f : /\ f[0] = zero
                 /\ \A k \in 1 .. Len(edges) : f[k] = Relaxed(f[k - 1], i, edges[k])
                 /\ Visited(n, i) = f[Len(edges)]
    BY <1>1, VisitedIs
  <1>4. Len(edges) \in Nat /\ DOMAIN edges = 1 .. Len(edges)
    BY <1>1, EdgesTyped
  <1>5. /\ zero \in Notes /\ zero.visited = n.visited \cup {i}
        /\ zero.dist = n.dist /\ zero.prev = n.prev
    BY <1>1, <1>2 DEF Notes
  <1>6. NoteSound(zero, from)
    <2> HIDE DEF zero
    <2>1. from \in Places /\ zero.dist[from] = 0
      BY <1>5 DEF NoteSound
    <2>2. \A j \in zero.visited : j \in Throughs /\ zero.dist[j] < INT_MAX
      BY <1>1, <1>5 DEF NoteSound
    <2>3. \A j \in zero.visited : \A l \in Throughs \ zero.visited : zero.dist[j] <= zero.dist[l]
      BY <1>1, <1>5 DEF NoteSound
    <2>4. \A j \in Places : PrevSound(zero, j)
      BY <1>5 DEF NoteSound, PrevSound
    <2>5. \A j \in Places : zero.dist[j] < INT_MAX => \E w : IsNoted(w, zero, from, j)
      <3> SUFFICES ASSUME NEW j \in Places, zero.dist[j] < INT_MAX
                   PROVE  \E w : IsNoted(w, zero, from, j)
        OBVIOUS
      <3>1. PICK w : IsNoted(w, n, from, j)
        BY <1>5 DEF NoteSound
      <3>2. n.visited \subseteq zero.visited
        BY <1>5
      <3>3. \A l \in n.visited \cup {j} : zero.dist[l] = n.dist[l] /\ zero.prev[l] = n.prev[l]
        BY <1>5
      <3>4. IsNoted(w, zero, from, j)
        BY <3>1, <3>2, <3>3, <1>2, <1>5, NotedStays
      <3> QED BY <3>4
    <2> QED BY <2>1, <2>2, <2>3, <2>4, <2>5, <1>5 DEF NoteSound
  <1> HIDE DEF zero
  <1> DEFINE Good(k) == /\ NoteSound(f[k], from) /\ f[k].visited = zero.visited
                        /\ \A j \in zero.visited : f[k].dist[j] = zero.dist[j]
                        /\ \A j \in Places : f[k].dist[j] <= zero.dist[j]
                        /\ \A l \in 1 .. k : f[k].dist[edges[l].dest] <= f[k].dist[i] + edges[l].dist
             T == {k \in 0 .. Len(edges) : Good(k)}
  <1>7. zero.visited \subseteq Places /\ i \in zero.visited /\ \A j \in Places : zero.dist[j] \in Nat
    BY <1>1, <1>2, <1>5
  <1>8. Good(0)
    <2>1. \A j \in Places : f[0].dist[j] <= zero.dist[j]
      BY <1>3, <1>7
    <2> QED BY <1>3, <1>6, <2>1
  <1>9. ASSUME NEW k \in 0 .. Len(edges), Good(k), k < Len(edges)
        PROVE  Good(k + 1)
    <2>1. k + 1 \in 1 .. Len(edges) /\ k + 1 - 1 = k
      BY <1>4, <1>9
    <2>2. f[k + 1] = Relaxed(f[k], i, edges[k + 1]) /\ k + 1 \in DOMAIN edges
      BY <1>3, <1>4, <2>1
    <2>3. i \in f[k].visited /\ \A j \in f[k].visited : f[k].dist[j] <= f[k].dist[i]
      <3>1. \A j \in zero.visited : zero.dist[j] <= zero.dist[i]
        BY <1>1, <1>2, <1>5
      <3> QED BY <3>1, <1>7, <1>9
    <2>4. /\ NoteSound(f[k + 1], from) /\ f[k + 1].visited = f[k].visited
          /\ \A j \in f[k].visited : f[k + 1].dist[j] = f[k].dist[j]
          /\ \A j \in Places : f[k + 1].dist[j] <= f[k].dist[j]
          /\ f[k + 1].dist[edges[k + 1].dest] <= f[k + 1].dist[i] + edges[k + 1].dist
      BY <2>2, <2>3, <1>9, RelaxStep
    <2>5. \A j \in Places : f[k].dist[j] \in Nat /\ f[k + 1].dist[j] \in Nat
      <3>1. f[k] \in Notes /\ f[k + 1] \in Notes
        BY <2>4, <1>9 DEF NoteSound
      <3> QED BY <3>1, NoteTyped
    <2>6. \A j \in Places : f[k + 1].dist[j] <= zero.dist[j]
      <3> SUFFICES ASSUME NEW j \in Places PROVE f[k + 1].dist[j] <= zero.dist[j]
        OBVIOUS
      <3>1. f[k + 1].dist[j] <= f[k].dist[j] /\ f[k].dist[j] <= zero.dist[j]
        BY <2>4, <1>9
      <3> QED BY <3>1, <2>5, <1>7
    <2>7. \A l \in 1 .. k + 1 : f[k + 1].dist[edges[l].dest] <= f[k + 1].dist[i] + edges[l].dist
      <3> SUFFICES ASSUME NEW l \in 1 .. k, l # k + 1
                   PROVE  f[k + 1].dist[edges[l].dest] <= f[k + 1].dist[i] + edges[l].dist
        BY <2>4, <1>4
      <3>1. edges[l].dest \in Places /\ edges[l].dist \in Nat
        <4>1. l \in DOMAIN edges
          BY <1>4
        <4> QED BY <4>1, <1>1, EdgesTyped
      <3>2. f[k].dist[edges[l].dest] <= f[k].dist[i] + edges[l].dist
        BY <1>9
      <3>3. f[k + 1].dist[edges[l].dest] <= f[k].dist[edges[l].dest] /\ f[k + 1].dist[i] = f[k].dist[i]
        BY <2>3, <2>4, <3>1
      <3> QED BY <3>1, <3>2, <3>3, <2>5, <1>1
    <2> QED BY <2>4, <2>6, <2>7, <1>9
  <1> HIDE DEF Good
  <1>10. Good(Len(edges))
    <2>1. 0 \in T
      BY <1>4, <1>8
    <2>2. \A k \in 0 .. Len(edges) : k \in T /\ k < Len(edges) => k + 1 \in T
      BY <1>4, <1>9
    <2>3. \A k \in 0 .. Len(edges) : k \in T
      <3> HIDE DEF T
      <3> QED BY <2>1, <2>2, <1>4, AllUpTo
    <2> QED BY <2>3, <1>4
  <1> USE DEF Good
  <1> DEFINE m == Visited(n, i)
  <1>11. /\ NoteSound(m, from) /\ m.visited = zero.visited
         /\ \A j \in zero.visited : m.dist[j] = zero.dist[j]
         /\ \A j \in Places : m.dist[j] <= zero.dist[j]
         /\ \A l \in 1 .. Len(edges) : m.dist[edges[l].dest] <= m.dist[i] + edges[l].dist
    BY <1>3, <1>10
  <1> HIDE DEF m
  <1>12. m.visited = n.visited \cup {i}
    BY <1>5, <1>11
  <1>13. ASSUME NEW j \in m.visited PROVE EdgesRelaxed(m, j)
    <2>1. CASE j = i
      BY <2>1, <1>4, <1>11 DEF EdgesRelaxed
    <2>2. CASE j # i
      <3>1. j \in n.visited /\ j \in Places
        BY <2>2, <1>12, <1>2
      <3> SUFFICES ASSUME NEW k \in DOMAIN At(j).edge
                   PROVE  m.dist[At(j).edge[k].dest] <= m.dist[j] + At(j).edge[k].dist
        BY DEF EdgesRelaxed
      <3>2. At(j).edge[k].dest \in Places /\ At(j).edge[k].dist \in Nat
        BY <3>1, EdgesTyped
      <3>3. n.dist[At(j).edge[k].dest] <= n.dist[j] + At(j).edge[k].dist
        BY <3>1 DEF AllRelaxed, EdgesRelaxed
      <3>4. m.dist[At(j).edge[k].dest] <= n.dist[At(j).edge[k].dest] /\ m.dist[j] = n.dist[j]
        BY <3>1, <3>2, <1>5, <1>11
      <3>5. m.dist[At(j).edge[k].dest] \in Nat
        <4>1. m \in Notes
          BY <1>11 DEF NoteSound
        <4> QED BY <4>1, <3>2, NoteTyped
      <3> QED BY <3>1, <3>2, <3>3, <3>4, <3>5, <1>2
    <2> QED BY <2>1, <2>2
  <1> QED BY <1>11, <1>12, <1>13 DEF m, AllRelaxed

LEMMA SearchStarts ==
  ASSUME GraphOK, NEW from \in Places
  PROVE  NoteSound(Unsearched(from), from) /\ AllRelaxed(Unsearched(from))
  <1> DEFINE n == Unsearched(from)
  <1>1. n \in Notes /\ n.visited = {}
    BY IntMaxType DEF Unsearched, Notes
  <1>2. \A i \in Places : n.dist[i] = (IF i = from THEN 0 ELSE INT_MAX) /\ n.prev[i] = Null
    BY DEF Unsearched
  <1> HIDE DEF n
  <1>3. \A i \in Places : PrevSound(n, i)
    BY <1>2 DEF PrevSound
  <1>4. ASSUME NEW i \in Places, n.dist[i] < INT_MAX PROVE \E w : IsNoted(w, n, from, i)
    <2>1. i = from /\ n.dist[i] = 0
      BY <1>2, <1>4, IntMaxType
    <2> DEFINE x == [place |-> from, mm |-> 0]
               w == <<x>>
    <2>2. x \in Steps
      BY DEF Steps
    <2>3. w \in Seq(Steps) /\ Len(w) = 1 /\ w[1] = x /\ w[Len(w)] = x
      BY <2>2
    <2> HIDE DEF w
    <2>4. IsWay(w, from)
      BY <2>3 DEF IsWay
    <2>5. IsNoted(w, n, from, i)
      BY <2>1, <2>3, <2>4 DEF IsNoted
    <2> QED BY <2>5
  <1>5. n.dist[from] = 0
    BY <1>2
  <1>6. NoteSound(n, from)
    BY <1>1, <1>3, <1>4, <1>5 DEF NoteSound
  <1> QED BY <1>1, <1>6 DEF AllRelaxed, n

\* No way is shorter than what is noted, as far as the search has come.
LEMMA NoWayIsShorter ==
  ASSUME GraphOK, NEW n, NEW from, NoteSound(n, from), AllRelaxed(n),
         NEW d \in Nat, d <= INT_MAX, \A j \in Throughs \ n.visited : d <= n.dist[j],
         NEW w, IsWay(w, from), NEW q \in 1 .. Len(w), w[q].mm < d
  PROVE  n.dist[w[q].place] <= w[q].mm
  <1>1. /\ Len(w) \in Nat \ {0}
        /\ \A k \in 1 .. Len(w) : w[k].place \in Places /\ w[k].mm \in Nat
    BY WayEnds
  <1>2. /\ \A k \in 1 .. Len(w) - 1 : Leads(w[k], w[k + 1])
        /\ w[1].place = from /\ w[1].mm = 0
    BY DEF IsWay
  <1>3. n \in Notes /\ \A j \in Places : n.dist[j] \in Nat
    BY NoteTyped DEF NoteSound
  <1> DEFINE Fine(k) == w[k + 1].mm < d => n.dist[w[k + 1].place] <= w[k + 1].mm
             T == {k \in 0 .. Len(w) - 1 : Fine(k)}
  <1>4. Fine(0)
    BY <1>2 DEF NoteSound
  <1>5. ASSUME NEW k \in 0 .. Len(w) - 1, Fine(k), k < Len(w) - 1
        PROVE  Fine(k + 1)
    <2> DEFINE a == w[k + 1]
               b == w[k + 1 + 1]
    <2> SUFFICES ASSUME b.mm < d PROVE n.dist[b.place] <= b.mm
      OBVIOUS
    <2>1. k + 1 \in 1 .. Len(w) - 1 /\ k + 1 \in 1 .. Len(w) /\ k + 1 + 1 \in 1 .. Len(w)
      BY <1>1, <1>5
    <2>2. a.place \in Places /\ a.mm \in Nat /\ b.place \in Places /\ b.mm \in Nat
      BY <1>1, <2>1
    <2>3. Leads(a, b)
      BY <1>2, <2>1
    <2>4. a.mm < d => n.dist[a.place] <= a.mm
      BY <1>5
    <2> HIDE DEF a, b
    <2>5. PICK l \in DOMAIN At(a.place).edge :
                 /\ b.place = At(a.place).edge[l].dest
                 /\ b.mm = a.mm + At(a.place).edge[l].dist
      BY <2>3 DEF Leads
    <2> DEFINE e == At(a.place).edge[l]
    <2>6. e.dest \in Places /\ e.dist \in Nat
      BY <2>2, EdgesTyped
    <2>7. a.place \in Throughs
      <3>1. At(a.place).type \in {"none", "exit"} => Len(At(a.place).edge) = 0
        BY <2>2, EdgesTyped
      <3>2. DOMAIN At(a.place).edge = 1 .. Len(At(a.place).edge)
        BY <2>2, EdgesTyped
      <3> QED BY <3>1, <3>2, <2>2, <2>5 DEF Throughs
    <2>8. n.dist[a.place] <= a.mm /\ a.mm < d
      BY <2>2, <2>4, <2>5, <2>6
    <2>9. a.place \in n.visited
      <3> SUFFICES ASSUME a.place \notin n.visited PROVE FALSE
        OBVIOUS
      <3>1. d <= n.dist[a.place]
        BY <2>7
      <3> QED BY <3>1, <2>2, <2>8, <1>3
    <2>10. n.dist[e.dest] <= n.dist[a.place] + e.dist
      BY <2>9 DEF AllRelaxed, EdgesRelaxed
    <2> QED BY <2>2, <2>5, <2>6, <2>8, <2>10, <1>3
  <1>6. \A k \in 0 .. Len(w) - 1 : k \in T
    <2>1. 0 \in T /\ Len(w) - 1 \in Nat
      BY <1>1, <1>4
    <2>2. \A k \in 0 .. Len(w) - 1 : k \in T /\ k < Len(w) - 1 => k + 1 \in T
      BY <1>1, <1>5
    <2> HIDE DEF T
    <2> QED BY <2>1, <2>2, AllUpTo
  <1>7. q - 1 \in 0 .. Len(w) - 1 /\ q - 1 + 1 = q
    BY <1>1
  <1>8. Fine(q - 1)
    BY <1>6, <1>7
  <1> QED BY <1>7, <1>8

\* A way noted comes by no place twice, so it is no longer than the track.
LEMMA NotedIsShort ==
  ASSUME NEW n, NEW from, NEW i, NEW w, IsNoted(w, n, from, i)
  PROVE  Len(w) <= TRACK_MAX
  <1>1. IsWay(w, from) /\ \A k, l \in 1 .. Len(w) : w[k].place = w[l].place => k = l
    BY DEF IsNoted
  <1>2. Len(w) \in Nat /\ \A k \in 1 .. Len(w) : w[k].place \in Places
    BY <1>1, WayEnds
  <1> DEFINE f == [k \in 1 .. Len(w) |-> w[k].place]
  <1>3. f \in Injection(1 .. Len(w), Places)
    BY <1>1, <1>2 DEF Injection, IsInjective
  <1>4. IsFiniteSet(Places) /\ Cardinality(Places) = TRACK_MAX
    <2>1. \A k \in Nat : IsFiniteSet(0 .. k) /\ Cardinality(0 .. k) = k + 1
      BY FS_Interval
    <2>2. TRACK_MAX - 1 \in Nat /\ TRACK_MAX - 1 + 1 = TRACK_MAX
      BY DEF TRACK_MAX
    <2> QED BY <2>1, <2>2 DEF Places
  <1>5. Cardinality(1 .. Len(w)) = Len(w)
    <2>1. \A k \in Nat : Cardinality(1 .. k) = k
      BY FS_Interval
    <2> QED BY <2>1, <1>2
  <1>6. Cardinality(1 .. Len(w)) <= Cardinality(Places)
    BY <1>3, <1>4, FS_Injection
  <1> QED BY <1>4, <1>5, <1>6

\* PathTo() by its layers.
Layer(n, from, k, g) ==
    [j \in Places |-> IF k = 0 \/ j = from THEN <<j>> ELSE Append(g[n.prev[j]], j)]

LEMMA LayerAt ==
  ASSUME NEW n, NEW from, NEW k, NEW g, NEW j \in Places
  PROVE  Layer(n, from, k, g)[j] = IF k = 0 \/ j = from THEN <<j>> ELSE Append(g[n.prev[j]], j)
  BY Zenon DEF Layer

LEMMA PathUnfolds ==
  ASSUME NEW n, NEW from
  PROVE  \E f : /\ \A i : PathTo(n, from, i) = f[TRACK_MAX][i]
                /\ \A k \in 0 .. TRACK_MAX : f[k] = Layer(n, from, k, f[k - 1])
  <1> DEFINE Body(f) == [k \in 0 .. TRACK_MAX |->
                 [j \in Places |-> IF k = 0 \/ j = from THEN <<j>> ELSE Append(f[k - 1][n.prev[j]], j)]]
             path == CHOOSE f : f = Body(f)
             UpTo(b, f) == \A k \in 0 .. b : f[k] = Layer(n, from, k, f[k - 1])
             T == {b \in 0 .. TRACK_MAX : \E f : UpTo(b, f)}
  <1>1. \A i : PathTo(n, from, i) = path[TRACK_MAX][i]
    BY DEF PathTo
  <1>2. TRACK_MAX \in Nat
    BY DEF TRACK_MAX
  <1>3. \A g, h : Layer(n, from, 0, g) = Layer(n, from, 0, h)
    BY DEF Layer
  <1>4. 0 \in T
    <2> DEFINE f == [k \in {0} |-> Layer(n, from, 0, k)]
    <2>1. f[0] = Layer(n, from, 0, f[0 - 1])
      BY <1>3
    <2> HIDE DEF f
    <2>2. UpTo(0, f)
      BY <2>1
    <2> QED BY <2>2, <1>2
  <1>5. ASSUME NEW b \in 0 .. TRACK_MAX, b \in T, b < TRACK_MAX
        PROVE  b + 1 \in T
    <2>1. PICK f : UpTo(b, f)
      BY <1>5
    <2> DEFINE f2 == [k \in 0 .. b + 1 |-> IF k = b + 1 THEN Layer(n, from, b + 1, f[b]) ELSE f[k]]
    <2>2. \A k \in 0 .. b : f2[k] = f[k]
      OBVIOUS
    <2>3. f2[b + 1] = Layer(n, from, b + 1, f[b]) /\ f2[b] = f[b] /\ b + 1 - 1 = b
      OBVIOUS
    <2> HIDE DEF f2
    <2>4. \A k \in 0 .. b : f2[k] = Layer(n, from, k, f2[k - 1])
      <3> SUFFICES ASSUME NEW k \in 0 .. b PROVE f2[k] = Layer(n, from, k, f2[k - 1])
        OBVIOUS
      <3>1. f2[k] = Layer(n, from, k, f[k - 1])
        BY <2>1, <2>2
      <3>2. CASE k = 0
        BY <3>1, <3>2, <1>3
      <3>3. CASE k # 0
        <4>1. k - 1 \in 0 .. b
          BY <3>3
        <4> QED BY <3>1, <4>1, <2>2
      <3> QED BY <3>2, <3>3
    <2>5. UpTo(b + 1, f2)
      <3> SUFFICES ASSUME NEW k \in 0 .. b + 1 PROVE f2[k] = Layer(n, from, k, f2[k - 1])
        OBVIOUS
      <3>1. k \in 0 .. b \/ k = b + 1
        OBVIOUS
      <3> QED BY <3>1, <2>3, <2>4
    <2> QED BY <2>5, <1>2, <1>5
  <1>6. TRACK_MAX \in T
    <2>1. \A k \in 0 .. TRACK_MAX : k \in T
      <3> HIDE DEF T
      <3> QED BY <1>2, <1>4, <1>5, AllUpTo
    <2> QED BY <2>1, <1>2
  <1>7. PICK f : UpTo(TRACK_MAX, f)
    BY <1>6
  <1> DEFINE f2 == [k \in 0 .. TRACK_MAX |-> f[k]]
  <1>8. \A k \in 0 .. TRACK_MAX : f2[k] = Layer(n, from, k, f2[k - 1])
    <2> SUFFICES ASSUME NEW k \in 0 .. TRACK_MAX PROVE f2[k] = Layer(n, from, k, f2[k - 1])
      OBVIOUS
    <2>1. f2[k] = Layer(n, from, k, f[k - 1])
      BY <1>7
    <2>2. CASE k = 0
      BY <2>1, <2>2, <1>3
    <2>3. CASE k # 0
      <3>1. k - 1 \in 0 .. TRACK_MAX
        BY <2>3, <1>2
      <3>2. f2[k - 1] = f[k - 1]
        BY <3>1
      <3> QED BY <2>1, <3>2
    <2> QED BY <2>2, <2>3
  <1>9. \A g : Body(g) = [k \in 0 .. TRACK_MAX |-> Layer(n, from, k, g[k - 1])]
    BY DEF Layer
  <1>10. f2 = Body(f2)
    <2>1. f2 = [k \in 0 .. TRACK_MAX |-> f2[k]]
      OBVIOUS
    <2> HIDE DEF f2, Body
    <2> QED BY <2>1, <1>8, <1>9
  <1> HIDE DEF Body, f2
  <1>11. path = Body(path)
    BY <1>10
  <1> HIDE DEF path
  <1>12. \A k \in 0 .. TRACK_MAX : path[k] = Layer(n, from, k, path[k - 1])
    BY <1>9, <1>11
  <1> QED BY <1>1, <1>12

\* The path read off prev is the way noted.
LEMMA PathIsNoted ==
  ASSUME NEW n, NEW from, NEW i, NEW w, IsNoted(w, n, from, i)
  PROVE  /\ PathTo(n, from, i) = [k \in 1 .. Len(w) |-> w[k].place]
         /\ PathTo(n, from, i) \in Seq(Places) /\ Len(PathTo(n, from, i)) = Len(w)
  <1>1. /\ IsWay(w, from) /\ w[1].place = from
        /\ w[Len(w)].place = i
        /\ \A k \in 1 .. Len(w) - 1 : n.prev[w[k + 1].place] = w[k].place
        /\ \A k, l \in 1 .. Len(w) : w[k].place = w[l].place => k = l
    BY DEF IsNoted, IsWay
  <1>2. Len(w) \in Nat \ {0} /\ \A k \in 1 .. Len(w) : w[k].place \in Places
    BY <1>1, WayEnds
  <1>3. PICK f : /\ \A j : PathTo(n, from, j) = f[TRACK_MAX][j]
                 /\ \A k \in 0 .. TRACK_MAX : f[k] = Layer(n, from, k, f[k - 1])
    BY PathUnfolds
  <1> DEFINE upto(l) == [k \in 1 .. l |-> w[k].place]
             Fine(k) == \A l \in 1 .. Len(w) : l <= k + 1 => f[k][w[l].place] = upto(l)
             T == {k \in 0 .. TRACK_MAX : Fine(k)}
  <1>4. TRACK_MAX \in Nat /\ Len(w) <= TRACK_MAX
    BY NotedIsShort DEF TRACK_MAX
  <1>5. upto(1) = <<from>>
    BY <1>1
  <1>6. \A k \in 0 .. TRACK_MAX : \A j \in Places :
          f[k][j] = IF k = 0 \/ j = from THEN <<j>> ELSE Append(f[k - 1][n.prev[j]], j)
    <2> TAKE k \in 0 .. TRACK_MAX
    <2> TAKE j \in Places
    <2>1. f[k] = Layer(n, from, k, f[k - 1])
      BY <1>3
    <2> QED BY <2>1, LayerAt
  <1>7. \A k \in 0 .. TRACK_MAX : f[k][from] = upto(1)
    BY <1>1, <1>2, <1>5, <1>6
  <1>8. \A l \in 1 .. Len(w) : l > 1 => upto(l) = Append(upto(l - 1), w[l].place)
    <2> SUFFICES ASSUME NEW l \in 1 .. Len(w), l > 1
                 PROVE  upto(l) = Append(upto(l - 1), w[l].place)
      OBVIOUS
    <2>1. l \in Nat /\ l - 1 \in Nat
      BY <1>2
    <2> DEFINE u == upto(l - 1)
    <2>2. u \in Seq(Places) /\ Len(u) = l - 1
      BY <1>2, <2>1
    <2>3. \A k \in 1 .. l - 1 : u[k] = w[k].place
      OBVIOUS
    <2> HIDE DEF u
    <2>4. /\ Len(Append(u, w[l].place)) = l /\ DOMAIN Append(u, w[l].place) = 1 .. l
          /\ \A k \in 1 .. l - 1 : Append(u, w[l].place)[k] = u[k]
          /\ Append(u, w[l].place)[l] = w[l].place
      BY <2>1, <2>2
    <2>5. \A k \in 1 .. l : Append(u, w[l].place)[k] = w[k].place
      BY <2>1, <2>3, <2>4
    <2>6. Append(u, w[l].place) = [k \in 1 .. l |-> Append(u, w[l].place)[k]]
      <3>1. Append(u, w[l].place) \in Seq(Places)
        BY <2>2, <1>2
      <3> QED BY <3>1, <2>4
    <2> QED BY <2>5, <2>6 DEF u
  <1>9. Fine(0)
    <2> SUFFICES ASSUME NEW l \in 1 .. Len(w), l <= 0 + 1 PROVE f[0][w[l].place] = upto(l)
      OBVIOUS
    <2>1. l = 1 /\ 0 \in 0 .. TRACK_MAX
      BY <1>2, <1>4
    <2> HIDE DEF upto
    <2> QED BY <2>1, <1>1, <1>7
  <1>10. ASSUME NEW k \in 0 .. TRACK_MAX, Fine(k), k < TRACK_MAX
         PROVE  Fine(k + 1)
    <2> SUFFICES ASSUME NEW l \in 1 .. Len(w), l <= k + 1 + 1
                 PROVE  f[k + 1][w[l].place] = upto(l)
      OBVIOUS
    <2>1. CASE l = 1
      <3>1. k + 1 \in 0 .. TRACK_MAX
        BY <1>4, <1>10
      <3> HIDE DEF upto
      <3> QED BY <2>1, <3>1, <1>1, <1>7
    <2>2. CASE l # 1
      <3>1. l - 1 \in 1 .. Len(w) - 1 /\ l - 1 \in 1 .. Len(w) /\ l - 1 + 1 = l /\ l - 1 <= k + 1
        BY <1>2, <2>2
      <3>2. w[l].place # from /\ w[l].place \in Places
        BY <1>1, <1>2, <2>2
      <3>3. n.prev[w[l].place] = w[l - 1].place
        BY <1>1, <3>1
      <3>4. k + 1 \in 0 .. TRACK_MAX /\ k + 1 # 0 /\ k + 1 - 1 = k
        BY <1>4, <1>10
      <3> HIDE DEF upto
      <3>5. f[k + 1][w[l].place] = Append(f[k][w[l - 1].place], w[l].place)
        <4>1. PICK j \in Places : j = w[l].place
          BY <3>2
        <4>2. PICK next \in 0 .. TRACK_MAX : next = k + 1 /\ next # 0 /\ next - 1 = k
          BY <3>4
        <4>3. f[next][j] = IF next = 0 \/ j = from THEN <<j>> ELSE Append(f[next - 1][n.prev[j]], j)
          BY <1>6
        <4>4. f[next][j] = Append(f[next - 1][n.prev[j]], j)
          BY <4>1, <4>2, <4>3, <3>2
        <4> QED BY <4>1, <4>2, <4>4, <3>3
      <3>6. f[k][w[l - 1].place] = upto(l - 1)
        BY <1>10, <3>1
      <3>7. l > 1
        BY <1>2, <2>2
      <3>8. upto(l) = Append(upto(l - 1), w[l].place)
        BY <1>8, <3>7
      <3> QED BY <3>5, <3>6, <3>8
    <2> QED BY <2>1, <2>2
  <1> HIDE DEF Fine
  <1>11. TRACK_MAX \in T
    <2>1. 0 \in T /\ \A k \in 0 .. TRACK_MAX : k \in T /\ k < TRACK_MAX => k + 1 \in T
      BY <1>4, <1>9, <1>10
    <2>2. \A k \in 0 .. TRACK_MAX : k \in T
      <3> HIDE DEF T
      <3> QED BY <2>1, <1>4, AllUpTo
    <2> QED BY <2>2, <1>4
  <1>12. Fine(TRACK_MAX)
    BY <1>11
  <1>13. f[TRACK_MAX][w[Len(w)].place] = upto(Len(w))
    BY <1>12, <1>2, <1>4 DEF Fine
  <1>14. PathTo(n, from, i) = upto(Len(w))
    BY <1>1, <1>3, <1>13
  <1> QED BY <1>14, <1>2

-----------------------------------------------------------------------------
(* Where the edges lead.                                                   *)

\* The edge a train leaves a node by is one of the node's.
LEMMA NextEdgeIs ==
  ASSUME GraphOK, NEW i \in Places, NEW dir
  PROVE  /\ NextEdge(i, dir) = NoEdge <=> At(i).type \in {"none", "exit"}
         /\ NextEdge(i, dir) # NoEdge =>
               /\ \E k \in DOMAIN At(i).edge : NextEdge(i, dir) = At(i).edge[k]
               /\ NextEdge(i, dir) \in Edges
               /\ NextEdge(i, dir).dest \in Places /\ NextEdge(i, dir).dist \in Nat
  <1>1. /\ Len(At(i).edge) = CASE At(i).type \in {"none", "exit"} -> 0
                               [] At(i).type = "branch" -> 2
                               [] OTHER -> 1
        /\ DOMAIN At(i).edge = 1 .. Len(At(i).edge)
        /\ \A k \in DOMAIN At(i).edge :
              At(i).edge[k] \in Edges /\ At(i).edge[k].dest \in Places /\ At(i).edge[k].dist \in Nat
    BY EdgesTyped
  <1>2. NoEdge.dest \notin Places
    BY PlacesType DEF NoEdge, Edge
  <1>3. CASE At(i).type \in {"none", "exit"}
    BY <1>3 DEF NextEdge
  <1>4. CASE At(i).type \notin {"none", "exit"}
    <2>1. \E k \in DOMAIN At(i).edge : NextEdge(i, dir) = At(i).edge[k]
      <3>1. CASE At(i).type = "branch"
        BY <1>1, <3>1 DEF NextEdge
      <3>2. CASE At(i).type # "branch"
        <4>1. NextEdge(i, dir) = At(i).edge[1]
          BY <1>4, <3>2 DEF NextEdge
        <4>2. 1 \in DOMAIN At(i).edge
          BY <1>1, <1>4, <3>2
        <4> QED BY <4>1, <4>2
      <3> QED BY <3>1, <3>2
    <2> QED BY <1>1, <1>2, <1>4, <2>1
  <1> QED BY <1>3, <1>4

\* Along edges between nodes that are no sensors the rank goes down.
IsRank(r) ==
    /\ r \in [Places -> 0 .. 6]
    /\ \A i \in Places : \A k \in DOMAIN At(i).edge :
          ~ IsSensor(At(i).edge[k].dest) => r[At(i).edge[k].dest] < r[i]

\* No cycle of nodes that are no sensors: six of them never follow one another.
LEMMA NodesRanked ==
  ASSUME GraphOK
  PROVE  \E r : IsRank(r)
  <1>1. PICK t : graph = Filled(t) /\ WellLaid(t)
    BY TableIs
  <1>2. graph.node = t
    BY <1>1 DEF Filled
  <1> DEFINE W(some) == Within(t, some)
             B0 == Bare(t)
             B1 == W(B0)
             B2 == W(B1)
             B3 == W(B2)
             B4 == W(B3)
             B5 == W(B4)
  <1>3. W(B5) = {}
    BY <1>1 DEF WellLaid
  <1>4. \A i \in Places : i \in B0 <=> ~ IsSensor(i)
    BY <1>2 DEF Bare, IsSensor, At
  <1>5. \A some : \A i : i \in W(some) <=>
           i \in some /\ \E k \in DOMAIN At(i).edge : At(i).edge[k].dest \in some
    BY <1>2 DEF Within, Leaving, At
  <1> HIDE DEF W
  <1> DEFINE r == [i \in Places |-> IF i \notin B0 THEN 6 ELSE IF i \notin B1 THEN 0
                     ELSE IF i \notin B2 THEN 1 ELSE IF i \notin B3 THEN 2
                     ELSE IF i \notin B4 THEN 3 ELSE IF i \notin B5 THEN 4 ELSE 5]
  <1>6. r \in [Places -> 0 .. 6]
    OBVIOUS
  <1>7. ASSUME NEW i \in Places, NEW k \in DOMAIN At(i).edge, ~ IsSensor(At(i).edge[k].dest)
        PROVE  r[At(i).edge[k].dest] < r[i]
    <2>1. PICK j \in Places : j = At(i).edge[k].dest
      BY EdgesTyped
    <2>2. j \in B0
      BY <1>4, <1>7, <2>1
    <2>3. /\ B1 \subseteq B0 /\ B2 \subseteq B1 /\ B3 \subseteq B2 /\ B4 \subseteq B3 /\ B5 \subseteq B4
      BY <1>5
    <2>4. /\ i \in B0 /\ j \in B0 => i \in B1
          /\ i \in B1 /\ j \in B1 => i \in B2
          /\ i \in B2 /\ j \in B2 => i \in B3
          /\ i \in B3 /\ j \in B3 => i \in B4
          /\ i \in B4 /\ j \in B4 => i \in B5
          /\ ~(i \in B5 /\ j \in B5)
      BY <1>3, <1>5, <2>1
    <2> HIDE DEF B0, B1, B2, B3, B4, B5
    <2>5. r[j] < r[i]
      BY <2>2, <2>3, <2>4
    <2> QED BY <2>1, <2>5
  <1> HIDE DEF r
  <1> QED BY <1>6, <1>7 DEF IsRank

-----------------------------------------------------------------------------
(* next_sensor(): what its loop finds from each node.                      *)

\* One turn of the loop, g being what it finds from the nodes ahead.
AheadOf(g, i, dir) ==
    LET e == NextEdge(i, dir)
    IN  CASE e = NoEdge -> Nowhere
          [] e # NoEdge /\ IsSensor(e.dest) -> [sensor |-> At(e.dest).num, distance |-> e.dist]
          [] OTHER -> Beyond(g[e.dest], e.dist)

\* g is what the loop finds from every node.
IsAheadOfAll(g, dir) == \A i \in Places : g[i] = AheadOf(g, i, dir)

\* What is ahead of a node is told by the nodes ahead of it that are no sensors.
LEMMA AheadFromBare ==
  ASSUME GraphOK, NEW r, IsRank(r), NEW g, NEW h, NEW i \in Places, NEW dir,
         \A j \in Places : ~ IsSensor(j) /\ r[j] < r[i] => g[j] = h[j]
  PROVE  AheadOf(g, i, dir) = AheadOf(h, i, dir)
  <1> DEFINE e == NextEdge(i, dir)
  <1> SUFFICES ASSUME e # NoEdge, ~ IsSensor(e.dest)
               PROVE  g[e.dest] = h[e.dest]
    BY DEF AheadOf
  <1>1. PICK k \in DOMAIN At(i).edge : e = At(i).edge[k]
    BY NextEdgeIs
  <1>2. e.dest \in Places
    BY NextEdgeIs
  <1>3. r[e.dest] < r[i]
    BY <1>1 DEF IsRank
  <1> QED BY <1>2, <1>3

\* The model's function of what is ahead satisfies the equation of one turn of the loop.
LEMMA SensorAheadUnfolds ==
  ASSUME GraphOK, NEW dir
  PROVE  \E ahead : /\ IsAheadOfAll(ahead, dir)
                    /\ \A s : NextSensor(s, dir) = ahead[PlaceOf[s]]
  <1> DEFINE Body(f) == [i \in Places |->
                LET e == NextEdge(i, dir)
                IN  CASE e = NoEdge -> Nowhere
                      [] e # NoEdge /\ IsSensor(e.dest) -> [sensor |-> At(e.dest).num, distance |-> e.dist]
                      [] OTHER -> Beyond(f[e.dest], e.dist)]
             ahead == CHOOSE f : f = Body(f)
  <1>1. \A s : NextSensor(s, dir) = ahead[PlaceOf[s]]
    BY DEF NextSensor
  <1>2. \A f : Body(f) = [i \in Places |-> AheadOf(f, i, dir)]
    BY DEF AheadOf
  <1>3. PICK r : IsRank(r)
    BY NodesRanked
  <1> HIDE DEF Body
  <1> DEFINE Upto(b, f) == \A i \in Places : ~ IsSensor(i) /\ r[i] < b => f[i] = AheadOf(f, i, dir)
             T == {b \in 0 .. 7 : \E f : Upto(b, f)}
  <1>4. r \in [Places -> 0 .. 6]
    BY <1>3 DEF IsRank
  <1>5. 0 \in T
    <2>1. Upto(0, r)
      BY <1>4
    <2> QED BY <2>1
  <1>6. ASSUME NEW b \in 0 .. 7, b \in T, b < 7 PROVE b + 1 \in T
    <2>1. PICK f : Upto(b, f)
      BY <1>6
    <2>2. ASSUME NEW i \in Places, ~ IsSensor(i), r[i] < b + 1
          PROVE  Body(f)[i] = AheadOf(Body(f), i, dir)
      <3>1. \A j \in Places : ~ IsSensor(j) /\ r[j] < r[i] => f[j] = Body(f)[j]
        <4> SUFFICES ASSUME NEW j \in Places, ~ IsSensor(j), r[j] < r[i] PROVE f[j] = Body(f)[j]
          OBVIOUS
        <4>1. r[j] < b
          BY <1>4, <2>2
        <4> QED BY <4>1, <2>1, <1>2
      <3>2. Body(f)[i] = AheadOf(f, i, dir)
        BY <1>2
      <3>3. AheadOf(f, i, dir) = AheadOf(Body(f), i, dir)
        BY <1>3, <3>1, AheadFromBare
      <3> QED BY <3>2, <3>3
    <2>3. Upto(b + 1, Body(f))
      BY <2>2
    <2> QED BY <2>3, <1>6
  <1>7. 7 \in T
    <2>1. \A b \in 0 .. 7 : b \in T
      <3> HIDE DEF T
      <3> QED BY <1>5, <1>6, AllUpTo
    <2> QED BY <2>1
  <1>8. PICK f : Upto(7, f)
    BY <1>7
  <1>9. Body(f) = Body(Body(f))
    <2>1. \A i \in Places : AheadOf(f, i, dir) = AheadOf(Body(f), i, dir)
      <3> TAKE i \in Places
      <3>1. \A j \in Places : ~ IsSensor(j) /\ r[j] < r[i] => f[j] = Body(f)[j]
        BY <1>2, <1>4, <1>8
      <3> QED BY <1>3, <3>1, AheadFromBare
    <2> QED BY <1>2, <2>1
  <1>10. ahead = Body(ahead)
    BY <1>9
  <1> HIDE DEF ahead
  <1>11. IsAheadOfAll(ahead, dir)
    BY <1>2, <1>10 DEF IsAheadOfAll
  <1> QED BY <1>1, <1>11

\* Turned round, a train goes back by the edges it came by.
LEMMA EdgesMirrored ==
  ASSUME GraphOK, NEW i \in Places, NEW k \in DOMAIN At(i).edge
  PROVE  LET e == At(i).edge[k]
             j == At(e.dest).reverse
         IN  \E l \in DOMAIN At(j).edge :
                 At(j).edge[l] = [dest |-> At(i).reverse, dist |-> e.dist]
  <1>1. PICK t : graph = Filled(t) /\ WellLaid(t) /\ Mirrored(t)
    BY TableIs
  <1>2. graph.node = t
    BY <1>1 DEF Filled
  <1>3. At(i).type # "none" /\ At(i).edge[k].dest \in Places
    BY EdgesTyped
  <1>4. At(i).edge[k] \in Leaving(t, i)
    BY <1>2 DEF Leaving, At
  <1>5. \A e \in Leaving(t, i) :
          [dest |-> t[i + 1].reverse, dist |-> e.dist] \in Leaving(t, t[e.dest + 1].reverse)
    BY <1>1, <1>2, <1>3 DEF Mirrored, At
  <1>6. [dest |-> At(i).reverse, dist |-> At(i).edge[k].dist]
           \in Leaving(t, At(At(i).edge[k].dest).reverse)
    BY <1>2, <1>4, <1>5 DEF At
  <1> QED BY <1>2, <1>6 DEF Leaving, At

\* A node and its reverse: a branch is a merge the other way, a sensor is a sensor.
LEMMA NodesMirrored ==
  ASSUME GraphOK, NEW i \in Places, At(i).type # "none"
  PROVE  /\ At(i).reverse \in Places /\ At(At(i).reverse).reverse = i
         /\ <<At(i).type, At(At(i).reverse).type>> \in
               {<<"sensor", "sensor">>, <<"branch", "merge">>, <<"merge", "branch">>,
                <<"enter", "exit">>, <<"exit", "enter">>}
         /\ At(i).type \in {"branch", "merge"} => At(At(i).reverse).num = At(i).num
  <1>1. PICK t : graph = Filled(t) /\ WellLaid(t) /\ Mirrored(t)
    BY TableIs
  <1>2. graph.node = t
    BY <1>1 DEF Filled
  <1>3. PICK j \in Places : j = At(i).reverse
    BY NodesTyped
  <1>4. \A a \in Places : At(a).type # "none" =>
            /\ At(At(a).reverse).reverse = a
            /\ <<At(a).type, At(At(a).reverse).type>> \in
               {<<"sensor", "sensor">>, <<"branch", "merge">>, <<"merge", "branch">>,
                <<"enter", "exit">>, <<"exit", "enter">>}
            /\ At(a).type = "branch" => At(At(a).reverse).num = At(a).num
    BY <1>1, <1>2 DEF Mirrored, At
  <1>5. At(j).type # "none" /\ (At(i).type = "merge" => At(j).type = "branch")
    BY <1>3, <1>4
  <1> QED BY <1>3, <1>4, <1>5

\* An edge into a sensor has a length.
LEMMA IntoSensor ==
  ASSUME GraphOK, NEW i \in Places, NEW k \in DOMAIN At(i).edge, IsSensor(At(i).edge[k].dest)
  PROVE  At(i).edge[k].dist > 0
  <1>1. PICK t : graph = Filled(t) /\ WellLaid(t)
    BY TableIs
  <1>2. graph.node = t
    BY <1>1 DEF Filled
  <1>3. PICK d \in Places : d = At(i).edge[k].dest
    BY EdgesTyped
  <1>4. At(d).type = "sensor"
    BY <1>3 DEF IsSensor
  <1>5. PICK j \in Places : j = At(d).reverse
    BY NodesTyped
  <1>6. At(j).type = "sensor"
    BY <1>4, <1>5, NodesMirrored
  <1>7. PICK l \in DOMAIN At(j).edge :
          At(j).edge[l] = [dest |-> At(i).reverse, dist |-> At(i).edge[k].dist]
    BY <1>3, <1>5, EdgesMirrored
  <1>8. At(j).edge[l].dist > 0
    <2>1. j \in Places \ Bare(t) /\ At(j).edge[l] \in Leaving(t, j)
      BY <1>2, <1>6 DEF Bare, Leaving, At
    <2> QED BY <2>1, <1>1 DEF WellLaid
  <1> QED BY <1>7, <1>8

\* So has one out of a sensor.
LEMMA FromSensor ==
  ASSUME GraphOK, NEW i \in Places, IsSensor(i), NEW k \in DOMAIN At(i).edge
  PROVE  At(i).edge[k].dist > 0
  <1>1. PICK t : graph = Filled(t) /\ WellLaid(t)
    BY TableIs
  <1>2. graph.node = t
    BY <1>1 DEF Filled
  <1>3. i \in Places \ Bare(t) /\ At(i).edge[k] \in Leaving(t, i)
    BY <1>2 DEF Bare, Leaving, At, IsSensor
  <1> QED BY <1>1, <1>3 DEF WellLaid

\* What next_sensor() answers.
IsFind(x) == x = Nowhere \/ \E s \in SENSORS, d \in Nat : d > 0 /\ x = [sensor |-> s, distance |-> d]

\* Distances add up.
LEMMA BeyondIs ==
  ASSUME NEW x, IsFind(x), NEW m \in Nat
  PROVE  /\ IsFind(Beyond(x, m))
         /\ Beyond(x, m) = Nowhere <=> x = Nowhere
         /\ \A s, d : x = [sensor |-> s, distance |-> d] /\ d \in Nat
                => Beyond(x, m) = [sensor |-> s, distance |-> d + m]
         /\ \A n \in Nat : Beyond(Beyond(x, m), n) = Beyond(x, m + n)
  <1>1. CASE x = Nowhere
    <2>1. Nowhere.distance = -1
      BY DEF Nowhere
    <2> QED BY <1>1, <2>1 DEF Beyond, IsFind
  <1>2. ASSUME NEW s, NEW d \in Nat, x = [sensor |-> s, distance |-> d], NEW n \in Nat
        PROVE  /\ x # Nowhere /\ Beyond(x, n) = [sensor |-> s, distance |-> d + n]
               /\ Beyond(x, n) # Nowhere
    <2>1. x.distance = d /\ x.sensor = s
      BY <1>2
    <2>2. Nowhere.distance = -1
      BY DEF Nowhere
    <2>3. x # Nowhere
      BY <2>1, <2>2
    <2>4. Beyond(x, n) = [x EXCEPT !.distance = @ + n]
      BY <2>3 DEF Beyond
    <2>5. Beyond(x, n) = [sensor |-> s, distance |-> d + n]
      BY <2>4, <1>2
    <2>6. Beyond(x, n).distance = d + n
      BY <2>5
    <2> QED BY <2>2, <2>3, <2>5, <2>6
  <1>3. CASE x # Nowhere
    <2>1. PICK s \in SENSORS, d \in Nat : d > 0 /\ x = [sensor |-> s, distance |-> d]
      BY <1>3 DEF IsFind
    <2>2. Beyond(x, m) = [sensor |-> s, distance |-> d + m] /\ Beyond(x, m) # Nowhere
      BY <2>1, <1>2
    <2>3. d + m \in Nat /\ d + m > 0
      BY <2>1
    <2>4. IsFind(Beyond(x, m))
      BY <2>2, <2>3 DEF IsFind
    <2>5. ASSUME NEW n \in Nat PROVE Beyond(Beyond(x, m), n) = Beyond(x, m + n)
      <3>1. /\ \E y, z : y = d + m /\ z = Beyond(x, m) /\ y \in Nat /\ z = [sensor |-> s, distance |-> y]
        BY <2>2, <2>3
      <3>2. PICK y, z : y = d + m /\ z = Beyond(x, m) /\ y \in Nat /\ z = [sensor |-> s, distance |-> y]
        BY <3>1
      <3>3. Beyond(z, n) = [sensor |-> s, distance |-> y + n]
        <4>1. z.distance = y /\ z.sensor = s /\ Nowhere.distance = -1
          BY <3>2 DEF Nowhere
        <4>2. Beyond(z, n) = [z EXCEPT !.distance = @ + n]
          BY <3>2, <4>1 DEF Beyond
        <4> QED BY <4>2, <3>2
      <3>4. Beyond(x, m + n) = [sensor |-> s, distance |-> d + (m + n)]
        <4>1. m + n \in Nat
          OBVIOUS
        <4> QED BY <4>1, <2>1, <1>2
      <3>5. y + n = d + (m + n)
        BY <3>2
      <3> QED BY <3>2, <3>3, <3>4, <3>5
    <2> QED BY <1>2, <1>3, <2>1, <2>2, <2>4, <2>5
  <1> QED BY <1>1, <1>3

\* What is ahead of a place is nothing, or a sensor at some distance.
LEMMA AheadIsFind ==
  ASSUME GraphOK, NEW dir, NEW ahead, IsAheadOfAll(ahead, dir)
  PROVE  \A i \in Places : IsFind(ahead[i])
  <1>1. PICK r : IsRank(r)
    BY NodesRanked
  <1>2. r \in [Places -> 0 .. 6]
    BY <1>1 DEF IsRank
  <1> DEFINE T == {b \in 0 .. 7 : \A i \in Places : r[i] < b => IsFind(ahead[i])}
  <1>3. 0 \in T
    BY <1>2
  <1>4. ASSUME NEW b \in 0 .. 7, b \in T, b < 7 PROVE b + 1 \in T
    <2> SUFFICES ASSUME NEW i \in Places, r[i] < b + 1 PROVE IsFind(ahead[i])
      BY <1>4
    <2> DEFINE e == NextEdge(i, dir)
    <2>1. ahead[i] = AheadOf(ahead, i, dir)
      BY DEF IsAheadOfAll
    <2>2. CASE e = NoEdge
      BY <2>1, <2>2 DEF AheadOf, IsFind
    <2>3. CASE e # NoEdge
      <3>1. PICK k \in DOMAIN At(i).edge : e = At(i).edge[k]
        BY <2>3, NextEdgeIs
      <3>2. PICK j \in Places, m \in Nat : j = e.dest /\ m = e.dist
        BY <2>3, NextEdgeIs
      <3>3. CASE IsSensor(j)
        <4>1. m > 0
          BY <3>1, <3>2, <3>3, IntoSensor
        <4>2. At(j).num \in SENSORS
          BY <3>3, SensorsPlaced
        <4>3. ahead[i] = [sensor |-> At(j).num, distance |-> m]
          BY <2>1, <2>3, <3>2, <3>3 DEF AheadOf
        <4> QED BY <4>1, <4>2, <4>3 DEF IsFind
      <3>4. CASE ~ IsSensor(j)
        <4>1. r[j] < r[i]
          BY <1>1, <3>1, <3>2, <3>4 DEF IsRank
        <4>2. IsFind(ahead[j])
          BY <1>2, <1>4, <4>1
        <4>3. ahead[i] = Beyond(ahead[j], m)
          BY <2>1, <2>3, <3>2, <3>4 DEF AheadOf
        <4> QED BY <4>2, <4>3, BeyondIs
      <3> QED BY <3>3, <3>4
    <2> QED BY <2>2, <2>3
  <1>5. \A b \in 0 .. 7 : b \in T
    <2> HIDE DEF T
    <2> QED BY <1>3, <1>4, AllUpTo
  <1>6. 7 \in T
    BY <1>5
  <1> QED BY <1>2, <1>6

-----------------------------------------------------------------------------
(* distance_between(): what its loop finds turn by turn.                   *)

\* The k-th turn of the loop, at the place i, f being what the turns after it find.
WayFrom(f, k, i, from, to, dir) ==
    LET e == NextEdge(i, dir)
    IN  CASE i = to -> 0
          [] i # to /\ (GivesUp(k) \/ e = NoEdge \/ e.dest = from) -> NoRoute
          [] OTHER -> Longer(f[k + 1][e.dest], e.dist)

\* A turn of the loop is told by the turn after it.
LEMMA TurnBefore ==
  ASSUME GraphOK, NEW f, NEW g, NEW from, NEW to, NEW dir, NEW k \in 0 .. MAX_ITERS + 1,
         NEW i \in Places,
         k < MAX_ITERS + 1 => \A j \in Places : f[k + 1][j] = g[k + 1][j]
  PROVE  WayFrom(f, k, i, from, to, dir) = WayFrom(g, k, i, from, to, dir)
  <1> DEFINE e == NextEdge(i, dir)
  <1>1. CASE i = to \/ GivesUp(k) \/ e = NoEdge
    BY <1>1 DEF WayFrom
  <1>2. CASE ~(i = to \/ GivesUp(k) \/ e = NoEdge)
    <2>1. k < MAX_ITERS + 1
      BY <1>2 DEF GivesUp, MAX_ITERS
    <2>2. e.dest \in Places
      BY <1>2, NextEdgeIs
    <2> QED BY <2>1, <2>2 DEF WayFrom
  <1> QED BY <1>1, <1>2

\* The model's recursive function satisfies the equation of one turn of the loop.
LEMMA DistanceUnfolds ==
  ASSUME GraphOK, NEW a, NEW b, NEW dir
  PROVE  \E way :
            /\ DistanceBetween(a, b, dir) = way[0][PlaceOf[a]]
            /\ \A k \in 0 .. MAX_ITERS + 1 : \A i \in Places :
                  way[k][i] = WayFrom(way, k, i, PlaceOf[a], PlaceOf[b], dir)
  <1> DEFINE from == PlaceOf[a]
             to == PlaceOf[b]
             Turns == 0 .. MAX_ITERS + 1
             Body(f) == [k \in Turns |-> [i \in Places |->
                LET e == NextEdge(i, dir)
                IN  CASE i = to -> 0
                      [] i # to /\ (GivesUp(k) \/ e = NoEdge \/ e.dest = from) -> NoRoute
                      [] OTHER -> Longer(f[k + 1][e.dest], e.dist)]]
             way == CHOOSE f : f = Body(f)
  <1>1. DistanceBetween(a, b, dir) = way[0][from]
    BY DEF DistanceBetween
  <1>2. \A f : \A k \in Turns : \A i \in Places : Body(f)[k][i] = WayFrom(f, k, i, from, to, dir)
    BY DEF WayFrom
  <1>3. \A f, g : (\A k \in Turns : \A i \in Places : WayFrom(f, k, i, from, to, dir) = WayFrom(g, k, i, from, to, dir))
            => Body(f) = Body(g)
    <2> SUFFICES ASSUME NEW f, NEW g,
                        \A k \in Turns : \A i \in Places :
                           WayFrom(f, k, i, from, to, dir) = WayFrom(g, k, i, from, to, dir)
                 PROVE  Body(f) = Body(g)
      OBVIOUS
    <2>1. Body(f) = [k \in Turns |-> [i \in Places |-> WayFrom(f, k, i, from, to, dir)]]
      BY DEF WayFrom
    <2>2. Body(g) = [k \in Turns |-> [i \in Places |-> WayFrom(g, k, i, from, to, dir)]]
      BY DEF WayFrom
    <2> HIDE DEF Body
    <2> QED BY <2>1, <2>2
  <1> HIDE DEF Body
  <1> DEFINE Down(f, n) == \A k \in Turns : n <= k =>
                              \A i \in Places : f[k][i] = WayFrom(f, k, i, from, to, dir)
             T == {j \in Turns : \E f : Down(f, MAX_ITERS + 1 - j)}
  <1>4. MAX_ITERS + 1 \in Nat /\ \A k \in Turns : k \in Nat /\ k <= MAX_ITERS + 1
    BY DEF MAX_ITERS
  <1>5. ASSUME NEW f, NEW n \in Nat, Down(f, n + 1)
        PROVE  Down(Body(f), n)
    <2> SUFFICES ASSUME NEW k \in Turns, n <= k, NEW i \in Places
                 PROVE  Body(f)[k][i] = WayFrom(Body(f), k, i, from, to, dir)
      OBVIOUS
    <2>1. ASSUME k < MAX_ITERS + 1, NEW j \in Places PROVE f[k + 1][j] = Body(f)[k + 1][j]
      <3>1. k + 1 \in Turns /\ n + 1 <= k + 1
        BY <1>4, <2>1
      <3>2. f[k + 1][j] = WayFrom(f, k + 1, j, from, to, dir)
        BY <1>5, <3>1
      <3> QED BY <1>2, <3>1, <3>2
    <2>2. WayFrom(f, k, i, from, to, dir) = WayFrom(Body(f), k, i, from, to, dir)
      <3>1. PICK g : g = Body(f)
        OBVIOUS
      <3>2. k < MAX_ITERS + 1 => \A j \in Places : f[k + 1][j] = g[k + 1][j]
        BY <2>1, <3>1
      <3>3. WayFrom(f, k, i, from, to, dir) = WayFrom(g, k, i, from, to, dir)
        BY <3>2, TurnBefore
      <3> QED BY <3>1, <3>3
    <2> QED BY <1>2, <2>2
  <1>6. 0 \in T
    <2>1. Down(0, MAX_ITERS + 1 + 1)
      BY <1>4
    <2>2. Down(Body(0), MAX_ITERS + 1)
      <3> HIDE DEF Down
      <3> QED BY <1>4, <1>5, <2>1
    <2>3. MAX_ITERS + 1 - 0 = MAX_ITERS + 1 /\ 0 \in Turns
      BY <1>4
    <2> HIDE DEF Down
    <2> QED BY <2>2, <2>3
  <1>7. ASSUME NEW j \in Turns, j \in T, j < MAX_ITERS + 1 PROVE j + 1 \in T
    <2>1. PICK f : Down(f, MAX_ITERS + 1 - j)
      BY <1>7
    <2>2. PICK n \in Nat : n = MAX_ITERS + 1 - (j + 1) /\ n + 1 = MAX_ITERS + 1 - j /\ j + 1 \in Turns
      BY <1>7 DEF MAX_ITERS
    <2> HIDE DEF Down
    <2>3. Down(Body(f), n)
      BY <1>5, <2>1, <2>2
    <2> QED BY <2>2, <2>3
  <1>8. MAX_ITERS + 1 \in T
    <2>1. \A j \in Turns : j \in T
      <3> HIDE DEF T
      <3> QED BY <1>4, <1>6, <1>7, AllUpTo
    <2> QED BY <1>4, <2>1
  <1>9. PICK f : \A k \in Turns : \A i \in Places : f[k][i] = WayFrom(f, k, i, from, to, dir)
    <2>1. PICK f : Down(f, MAX_ITERS + 1 - (MAX_ITERS + 1))
      BY <1>8
    <2>2. MAX_ITERS + 1 - (MAX_ITERS + 1) = 0
      BY DEF MAX_ITERS
    <2>3. Down(f, 0)
      <3> HIDE DEF Down
      <3> QED BY <2>1, <2>2
    <2> QED BY <1>4, <2>3
  <1>10. \A k \in Turns : \A i \in Places :
           WayFrom(f, k, i, from, to, dir) = WayFrom(Body(f), k, i, from, to, dir)
    <2>1. PICK g : g = Body(f)
      OBVIOUS
    <2>2. \A k \in Turns : \A i \in Places : f[k][i] = g[k][i]
      BY <1>2, <1>9, <2>1
    <2> SUFFICES ASSUME NEW k \in Turns, NEW i \in Places
                 PROVE  WayFrom(f, k, i, from, to, dir) = WayFrom(g, k, i, from, to, dir)
      BY <2>1
    <2>3. k < MAX_ITERS + 1 => \A j \in Places : f[k + 1][j] = g[k + 1][j]
      <3>1. k < MAX_ITERS + 1 => k + 1 \in Turns
        BY <1>4
      <3> QED BY <2>2, <3>1
    <2> QED BY <2>3, TurnBefore
  <1>11. Body(f) = Body(Body(f))
    BY <1>3, <1>10
  <1>12. way = Body(way)
    <2> HIDE DEF way
    <2>1. \E g : g = Body(g)
      BY <1>11
    <2> QED BY <2>1 DEF way
  <1>13. \A k \in Turns : \A i \in Places : way[k][i] = WayFrom(way, k, i, from, to, dir)
    <2> HIDE DEF way
    <2> QED BY <1>2, <1>12
  <1> HIDE DEF way
  <1> QED BY <1>1, <1>13

-----------------------------------------------------------------------------
(* normalize(): one turn of its loop.                                      *)

\* There is nothing left to do.
Ends(p, dir) ==
    \/ p.offset_mm = 0
    \/ p.offset_mm > 0 /\ (NextSensor(p.sensor, dir) = Nowhere \/ IsShortOf(p, NextSensor(p.sensor, dir)))
    \/ p.offset_mm < 0 /\ PrevSensor(p.sensor, dir) = Nowhere

\* The same place as seen from the next sensor, or the one before.
Onward(p, dir) ==
    LET ahead  == NextSensor(p.sensor, dir)
        behind == PrevSensor(p.sensor, dir)
    IN  IF p.offset_mm > 0 THEN Pos(ahead.sensor, p.offset_mm - ahead.distance)
        ELSE Pos(behind.sensor, p.offset_mm + behind.distance)

\* The sensors next to a sensor, ahead and behind.
LEMMA NextSensorIsFind ==
  ASSUME GraphOK, NEW dir, NEW s \in SENSORS
  PROVE  /\ IsFind(NextSensor(s, dir)) /\ InvertSensor(s) \in SENSORS
         /\ IsFind(PrevSensor(s, dir))
  <1>1. PICK ahead : IsAheadOfAll(ahead, dir) /\ \A x : NextSensor(x, dir) = ahead[PlaceOf[x]]
    BY SensorAheadUnfolds
  <1>2. \A x \in SENSORS : IsFind(NextSensor(x, dir))
    <2> SUFFICES ASSUME NEW x \in SENSORS PROVE IsFind(NextSensor(x, dir))
      OBVIOUS
    <2>1. PICK i \in Places : i = PlaceOf[x]
      BY SensorsPlaced
    <2> QED BY <1>1, <2>1, AheadIsFind
  <1>3. \A x \in SENSORS : InvertSensor(x) \in SENSORS
    <2> SUFFICES ASSUME NEW x \in SENSORS PROVE InvertSensor(x) \in SENSORS
      OBVIOUS
    <2>1. PICK i \in Places : i = PlaceOf[x] /\ IsSensor(i)
      BY SensorsPlaced
    <2>2. PICK j \in Places : j = At(i).reverse /\ IsSensor(j)
      BY <2>1, NodesMirrored DEF IsSensor
    <2> QED BY <2>1, <2>2, SensorsPlaced DEF InvertSensor
  <1>4. IsFind(PrevSensor(s, dir))
    <2>1. PICK back : back = NextSensor(InvertSensor(s), dir) /\ IsFind(back)
      BY <1>2, <1>3
    <2>2. CASE back = Nowhere
      BY <2>1, <2>2 DEF PrevSensor, IsFind
    <2>3. CASE back # Nowhere
      <3>1. PICK x \in SENSORS, m \in Nat : m > 0 /\ back = [sensor |-> x, distance |-> m]
        BY <2>1, <2>3 DEF IsFind
      <3>2. back.sensor = x /\ back.distance = m
        BY <3>1
      <3>3. PrevSensor(s, dir) = [sensor |-> InvertSensor(x), distance |-> m]
        BY <2>1, <2>3, <3>2 DEF PrevSensor
      <3> QED BY <1>3, <3>1, <3>3 DEF IsFind
    <2> QED BY <2>2, <2>3
  <1> QED BY <1>2, <1>3, <1>4

\* A turn of the loop takes a position to a position.
LEMMA OnwardTyped ==
  ASSUME GraphOK, NEW dir, NEW p \in Positions, ~ Ends(p, dir)
  PROVE  Onward(p, dir) \in Positions
  <1>1. p.sensor \in SENSORS /\ p.offset_mm \in Int /\ Sensors = SENSORS
    BY SensorsPlaced DEF Positions
  <1>2. PICK m \in Int, s \in SENSORS : m = p.offset_mm /\ s = p.sensor
    BY <1>1
  <1>3. CASE m > 0
    <2>1. NextSensor(s, dir) # Nowhere /\ IsFind(NextSensor(s, dir))
      BY <1>2, <1>3, NextSensorIsFind DEF Ends
    <2>2. PICK x \in SENSORS, n \in Nat : NextSensor(s, dir) = [sensor |-> x, distance |-> n]
      BY <2>1 DEF IsFind
    <2>3. Onward(p, dir) = [sensor |-> x, offset_mm |-> m - n]
      BY <1>2, <1>3, <2>2 DEF Onward, Pos
    <2>4. m - n \in Int
      OBVIOUS
    <2> QED BY <1>1, <2>3, <2>4 DEF Positions
  <1>4. CASE ~(m > 0)
    <2>1. m < 0
      BY <1>2, <1>4 DEF Ends
    <2>2. PrevSensor(s, dir) # Nowhere /\ IsFind(PrevSensor(s, dir))
      BY <1>2, <2>1, NextSensorIsFind DEF Ends
    <2>3. PICK x \in SENSORS, n \in Nat : PrevSensor(s, dir) = [sensor |-> x, distance |-> n]
      BY <2>2 DEF IsFind
    <2>4. Onward(p, dir) = [sensor |-> x, offset_mm |-> m + n]
      BY <1>2, <1>4, <2>3 DEF Onward, Pos
    <2>5. m + n \in Int
      OBVIOUS
    <2> QED BY <1>1, <2>4, <2>5 DEF Positions
  <1> QED BY <1>3, <1>4

\* A loop that stops, or goes on with the next, defines what is found in the end.
IsLoop(f, all, ends, next) ==
    /\ f = [p \in all |-> f[p]]
    /\ \A p \in all : f[p] = IF p \in ends THEN p ELSE f[next[p]]

\* There is such a function: runs that stop, and one that does not.
LEMMA LoopUnfolds ==
  ASSUME NEW all, NEW ends, NEW next, \A p \in all : p \notin ends => next[p] \in all
  PROVE  \E f : IsLoop(f, all, ends, next)
  <1> DEFINE Closed(some) == \A p \in some : p \in all /\ p \notin ends => next[p] \in some
             Reach(p) == {q \in ends : \A some \in SUBSET all : Closed(some) /\ p \in some => q \in some}
             f == [p \in all |-> CHOOSE q : q \in Reach(p)]
  <1>1. ASSUME NEW p \in all, p \in ends PROVE f[p] = p
    <2>1. Closed({p})
      BY <1>1
    <2>2. Reach(p) = {p}
      <3>1. \A q \in Reach(p) : q \in {p}
        <4> HIDE DEF Closed
        <4> QED BY <2>1
      <3>2. p \in Reach(p)
        BY <1>1
      <3> HIDE DEF Reach
      <3> QED BY <3>1, <3>2
    <2> HIDE DEF Reach
    <2> QED BY <2>2
  <1>2. ASSUME NEW p \in all, p \notin ends PROVE f[p] = f[next[p]]
    <2>1. next[p] \in all
      BY <1>2
    <2>2. ASSUME NEW q \in Reach(next[p]) PROVE q \in Reach(p)
      <3> SUFFICES ASSUME NEW some \in SUBSET all, Closed(some), p \in some PROVE q \in some
        BY <2>2
      <3>1. next[p] \in some
        BY <1>2
      <3> HIDE DEF Closed
      <3> QED BY <3>1
    <2>3. ASSUME NEW q \in Reach(p) PROVE q \in Reach(next[p])
      <3> SUFFICES ASSUME NEW some \in SUBSET all, Closed(some), next[p] \in some PROVE q \in some
        BY <2>3
      <3>1. some \cup {p} \in SUBSET all /\ Closed(some \cup {p})
        BY <1>2
      <3>2. q \in some \cup {p} /\ q # p
        <4> HIDE DEF Closed
        <4> QED BY <1>2, <3>1
      <3> QED BY <3>2
    <2>4. Reach(p) = Reach(next[p])
      <3> HIDE DEF Reach
      <3> QED BY <2>2, <2>3
    <2> HIDE DEF Reach
    <2> QED BY <2>1, <2>4
  <1>3. f = [p \in all |-> f[p]]
    OBVIOUS
  <1> HIDE DEF f
  <1> QED BY <1>1, <1>2, <1>3 DEF IsLoop

\* The model's recursive function satisfies the equation of one turn of the loop.
LEMMA NormalizeUnfolds ==
  ASSUME GraphOK, NEW dir
  PROVE  \E norm : /\ \A p : Normalize(p, dir) = norm[p]
                   /\ \A p \in Positions : norm[p] = IF Ends(p, dir) THEN p ELSE norm[Onward(p, dir)]
  <1> DEFINE Body(f) == [p \in Positions |->
                LET ahead  == NextSensor(p.sensor, dir)
                    behind == PrevSensor(p.sensor, dir)
                IN  CASE p.offset_mm = 0 -> p
                      [] p.offset_mm > 0 /\ (ahead = Nowhere \/ IsShortOf(p, ahead)) -> p
                      [] p.offset_mm > 0 /\ ahead # Nowhere /\ ~ IsShortOf(p, ahead) ->
                             f[Pos(ahead.sensor, p.offset_mm - ahead.distance)]
                      [] p.offset_mm < 0 /\ behind = Nowhere -> p
                      [] OTHER -> f[Pos(behind.sensor, p.offset_mm + behind.distance)]]
             norm == CHOOSE f : f = Body(f)
             E == {p \in Positions : Ends(p, dir)}
             next == [p \in Positions |-> Onward(p, dir)]
  <1>1. \A p : Normalize(p, dir) = norm[p]
    BY DEF Normalize
  <1>2. ASSUME NEW f, NEW p \in Positions
        PROVE  Body(f)[p] = IF Ends(p, dir) THEN p ELSE f[Onward(p, dir)]
    <2>1. PICK m \in Int : m = p.offset_mm
      BY DEF Positions
    <2>2. CASE m = 0
      <3>1. ~(m > 0) /\ ~(m < 0)
        BY <2>2
      <3>2. Body(f)[p] = p
        BY <2>1, <2>2, <3>1 DEF IsShortOf
      <3> HIDE DEF Body
      <3> QED BY <2>1, <2>2, <3>2 DEF Ends
    <2>3. CASE m > 0
      <3>1. m # 0 /\ ~(m < 0)
        BY <2>3
      <3>2. CASE NextSensor(p.sensor, dir) = Nowhere \/ IsShortOf(p, NextSensor(p.sensor, dir))
        <4>1. Body(f)[p] = p
          BY <2>1, <2>3, <3>1, <3>2 DEF IsShortOf
        <4> HIDE DEF Body
        <4> QED BY <2>1, <2>3, <3>2, <4>1 DEF Ends
      <3>3. CASE ~(NextSensor(p.sensor, dir) = Nowhere \/ IsShortOf(p, NextSensor(p.sensor, dir)))
        <4>1. Body(f)[p] = f[Pos(NextSensor(p.sensor, dir).sensor,
                                 p.offset_mm - NextSensor(p.sensor, dir).distance)]
          BY <2>1, <2>3, <3>1, <3>3 DEF IsShortOf
        <4>2. ~ Ends(p, dir)
          BY <2>1, <2>3, <3>1, <3>3 DEF Ends, IsShortOf
        <4>3. Onward(p, dir) = Pos(NextSensor(p.sensor, dir).sensor,
                                   p.offset_mm - NextSensor(p.sensor, dir).distance)
          BY <2>1, <2>3, <3>1 DEF Onward
        <4> HIDE DEF Body
        <4> QED BY <4>1, <4>2, <4>3
      <3> QED BY <3>2, <3>3
    <2>4. CASE m < 0
      <3>1. m # 0 /\ ~(m > 0)
        BY <2>4
      <3>2. CASE PrevSensor(p.sensor, dir) = Nowhere
        BY <2>1, <2>4, <3>1, <3>2 DEF Ends
      <3>3. CASE PrevSensor(p.sensor, dir) # Nowhere
        <4>1. Body(f)[p] = f[Pos(PrevSensor(p.sensor, dir).sensor,
                                 p.offset_mm + PrevSensor(p.sensor, dir).distance)]
          BY <2>1, <2>4, <3>1, <3>3 DEF IsShortOf
        <4>2. ~ Ends(p, dir)
          BY <2>1, <2>4, <3>1, <3>3 DEF Ends
        <4>3. Onward(p, dir) = Pos(PrevSensor(p.sensor, dir).sensor,
                                   p.offset_mm + PrevSensor(p.sensor, dir).distance)
          BY <2>1, <2>4, <3>1 DEF Onward
        <4> HIDE DEF Body
        <4> QED BY <4>1, <4>2, <4>3
      <3> QED BY <3>2, <3>3
    <2> QED BY <2>1, <2>2, <2>3, <2>4
  <1>3. \A f : Body(f) = [p \in Positions |-> Body(f)[p]]
    OBVIOUS
  <1> HIDE DEF Body
  <1>4. \A p \in Positions : p \notin E => next[p] \in Positions
    BY OnwardTyped
  <1>5. PICK f : /\ f = [p \in Positions |-> f[p]]
                 /\ \A p \in Positions : f[p] = IF p \in E THEN p ELSE f[next[p]]
    <2>1. PICK all, ends, on : all = Positions /\ ends = E /\ on = next
      OBVIOUS
    <2> HIDE DEF E, next
    <2>2. \A p \in all : p \notin ends => on[p] \in all
      BY <1>4, <2>1
    <2>3. PICK f : IsLoop(f, all, ends, on)
      BY <2>2, LoopUnfolds
    <2> QED BY <2>1, <2>3 DEF IsLoop
  <1>6. f = Body(f)
    <2>1. \A p \in Positions : f[p] = Body(f)[p]
      BY <1>2, <1>5
    <2> HIDE DEF E, next
    <2> QED BY <1>3, <1>5, <2>1
  <1>7. norm = Body(norm)
    <2> HIDE DEF norm
    <2>1. \E g : g = Body(g)
      BY <1>6
    <2> QED BY <2>1 DEF norm
  <1> HIDE DEF norm
  <1> QED BY <1>1, <1>2, <1>7

\* norm is what the loop makes of every position.
IsNorm(norm, dir) ==
    \A p \in Positions : norm[p] = IF Ends(p, dir) THEN p ELSE norm[Onward(p, dir)]

\* One turn of the loop takes a position from one sensor of a way to the next.
LEMMA NormForward ==
  ASSUME GraphOK, NEW dir, NEW norm, IsNorm(norm, dir), NEW s \in SENSORS, NEW x \in SENSORS,
         NEW d \in Nat, NEW m \in Int, m > 0, d <= m,
         NextSensor(s, dir) = [sensor |-> x, distance |-> d]
  PROVE  norm[Pos(s, m)] = norm[Pos(x, m - d)]
  <1>1. PICK p : p = Pos(s, m)
    OBVIOUS
  <1>2. p.sensor = s /\ p.offset_mm = m
    BY <1>1 DEF Pos
  <1>3. p \in Positions
    BY <1>1, SensorsPlaced DEF Pos, Positions
  <1>4. PICK next : next = NextSensor(s, dir)
    OBVIOUS
  <1>5. next.sensor = x /\ next.distance = d /\ next # Nowhere
    <2>1. next.sensor = x /\ next.distance = d
      BY <1>4
    <2>2. Nowhere.distance = -1
      BY DEF Nowhere
    <2> QED BY <2>1, <2>2
  <1>6. ~ IsShortOf(p, next)
    BY <1>2, <1>5 DEF IsShortOf
  <1>7. m # 0 /\ ~(m < 0)
    OBVIOUS
  <1>8. ~ Ends(p, dir)
    BY <1>2, <1>4, <1>5, <1>6, <1>7 DEF Ends
  <1>9. Onward(p, dir) = Pos(x, m - d)
    BY <1>2, <1>4, <1>5 DEF Onward
  <1>10. norm[p] = norm[Onward(p, dir)]
    BY <1>3, <1>8 DEF IsNorm
  <1> QED BY <1>1, <1>9, <1>10

\* One turn of the loop takes a position from one sensor of a way to the one before.
LEMMA NormBackward ==
  ASSUME GraphOK, NEW dir, NEW norm, IsNorm(norm, dir), NEW s \in SENSORS, NEW x \in SENSORS,
         NEW d \in Nat, NEW m \in Int, m < 0,
         PrevSensor(s, dir) = [sensor |-> x, distance |-> d]
  PROVE  norm[Pos(s, m)] = norm[Pos(x, m + d)]
  <1>1. PICK p : p = Pos(s, m)
    OBVIOUS
  <1>2. p.sensor = s /\ p.offset_mm = m
    BY <1>1 DEF Pos
  <1>3. p \in Positions
    BY <1>1, SensorsPlaced DEF Pos, Positions
  <1>4. PICK back : back = PrevSensor(s, dir)
    OBVIOUS
  <1>5. back.sensor = x /\ back.distance = d /\ back # Nowhere
    <2>1. back.sensor = x /\ back.distance = d
      BY <1>4
    <2>2. Nowhere.distance = -1
      BY DEF Nowhere
    <2> QED BY <2>1, <2>2
  <1>6. m # 0 /\ ~(m > 0)
    OBVIOUS
  <1>7. ~ Ends(p, dir)
    BY <1>2, <1>4, <1>5, <1>6 DEF Ends
  <1>8. Onward(p, dir) = Pos(x, m + d)
    BY <1>2, <1>4, <1>5, <1>6 DEF Onward
  <1>9. norm[p] = norm[Onward(p, dir)]
    BY <1>3, <1>7 DEF IsNorm
  <1> QED BY <1>1, <1>8, <1>9

=============================================================================
