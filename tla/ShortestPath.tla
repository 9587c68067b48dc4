---------------------------- MODULE ShortestPath ----------------------------
(***************************************************************************)
(* TrackGraph::shortest_path() turn by turn, and where the route command   *)
(* makes the train slow down and stop.  One action is one turn of the      *)
(* search loop.  Which sensor is the end is decided when the search comes  *)
(* to it: until then the loop does the same for every end.                 *)
(***************************************************************************)
EXTENDS PathSearch, Calibration

VARIABLES
    start,
    note,      \* dist, visited and prev
    end        \* the sensor found, or -1

searchVars == <<graph, start, note, end>>

SearchInit == /\ GraphInit
        /\ start \in {PlaceOf[s] : s \in Sensors}
        /\ note = Unsearched(start)
        /\ end = Null

Searching == end = Null

\* The node is the end of the path.
Find(i) == /\ Searching
           /\ IsSensor(i) /\ i # start
           /\ end' = At(i).num
           /\ UNCHANGED <<graph, start, note>>

\* The node is not the end of the path: its edges are relaxed.
Visit(i) == /\ Searching
            /\ note' = Visited(note, i)
            /\ UNCHANGED <<graph, start, end>>

SearchNext == \E i \in Nearest(note) : Find(i) \/ Visit(i)

SearchSpec == SearchInit /\ [][SearchNext]_searchVars

-----------------------------------------------------------------------------
(* The path found, and the route made of it.                               *)

Found == end # Null

Path     == PathTo(note, start, PlaceOf[end])
Distance == note.dist[PlaceOf[end]]

\* Where the train is to slow down or stop, so many millimetres before the end.
WakePos(path, before) ==
    Normalize(Pos(At(start).num, Distance - before), Laid(path, Loop))

-----------------------------------------------------------------------------
(* Properties.                                                             *)

\* The search finds a shortest way: no edge out of a visited node leads on
\* cheaper than the distance noted, and each noted distance is that of the way
\* back along prev (track_graph.cc:226-263, std::min and the test on visited).
DistancesOptimal ==
    \A i \in Places :
        /\ i \in note.visited => \A k \in DOMAIN At(i).edge :
               note.dist[At(i).edge[k].dest] <= note.dist[i] + At(i).edge[k].dist
        /\ note.prev[i] # Null => /\ note.prev[i] \in note.visited
                             /\ \E k \in DOMAIN At(note.prev[i]).edge :
                                    /\ At(note.prev[i]).edge[k].dest = i
                                    /\ note.dist[i] = note.dist[note.prev[i]] + At(note.prev[i]).edge[k].dist

\* Once the switches on the path are laid, a train that follows them comes to the
\* end after the distance computed (t1.cc:155-213), if it needs no more than
\* MAX_ITERS + 1 edges.  The path of no route is longer than its array ("64 is overkill,
\* but it's fine", t1.cc:112), and it meets no node at which shortest_path() or the
\* route command panics (track_graph.cc:280-283, t1.cc:160-212).
RouteLeadsThere ==
    Found => LET path == Path
             IN  /\ Len(path) <= MAX_PATH_LEN
                 /\ \A k \in DOMAIN path : At(path[k]).type \in {"sensor", "branch", "merge"}
                 /\ Len(path) <= MAX_ITERS + 2 =>
                     DistanceBetween(At(start).num, end, Laid(path, Loop)) = Distance


=============================================================================
