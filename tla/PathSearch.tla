----------------------------- MODULE PathSearch -----------------------------
(***************************************************************************)
(* What TrackGraph::shortest_path() computes, as operators on what it has  *)
(* noted of the nodes, and the switch settings that the route command      *)
(* makes of the path.  ShortestPath runs the search turn by turn,          *)
(* TrainRoute runs the route command.                                      *)
(***************************************************************************)
EXTENDS TrackGraph, SequencesExt

MAX_PATH_LEN      == 64
Null              == -1
slowdown_distance == 2000

Notes == [dist : [Places -> 0 .. INT_MAX], visited : SUBSET Places, prev : [Places -> Places \cup {Null}]]

Unsearched(start) == [dist    |-> [i \in Places |-> IF i = start THEN 0 ELSE INT_MAX],
                      visited |-> {},
                      prev    |-> [i \in Places |-> Null]]

\* The nodes seen and not visited from which the track goes on.
Open(note) == {i \in Places \ note.visited :
                  note.dist[i] < INT_MAX /\ At(i).type \notin {"none", "exit"}}

\* Mutant: the first of them.
FirstOpen(note) == LET open == Open(note) IN {i \in open : \A j \in open : i <= j}

\* The first of those nearest to the start.
Nearest(note) ==
    LET open == Open(note)
    IN  {i \in open : \A j \in open : note.dist[i] < note.dist[j]
                                      \/ (note.dist[i] = note.dist[j] /\ i <= j)}

Refused(note, i, e) ==
    \/ e.dest \in note.visited
    \/ note.dist[e.dest] <= note.dist[i] + e.dist

\* What is noted of the nodes once the edge e of the node i has been looked at.
Relaxed(note, i, e) ==
    IF Refused(note, i, e) THEN note
    ELSE [note EXCEPT !.dist[e.dest] = note.dist[i] + e.dist, !.prev[e.dest] = i]

Visited(note, i) ==
    LET edges == At(i).edge
        upto[k \in 0 .. Len(edges)] ==
            IF k = 0 THEN [note EXCEPT !.visited = @ \cup {i}] ELSE Relaxed(upto[k - 1], i, edges[k])
    IN  upto[Len(edges)]

\* The path to i, along prev: path[k][j] is what the last k nodes before j and j are of it.
PathTo(note, start, i) ==
    LET path[k \in 0 .. TRACK_MAX] ==
            [j \in Places |-> IF k = 0 \/ j = start THEN <<j>> ELSE Append(path[k - 1][note.prev[j]], j)]
    IN  path[TRACK_MAX][i]

\* Mutant: the direction of the leg not taken.
OtherDir(i, next) == IF At(i).edge[1].dest = next THEN "curved" ELSE "straight"

DirTowards(i, next) == IF At(i).edge[1].dest = next THEN "straight" ELSE "curved"

\* The settings the route command makes, as it goes along the path.
Settings(path) ==
    LET upto[k \in 0 .. Len(path)] ==
            IF k = 0 THEN <<>>
            ELSE IF k = Len(path) \/ At(path[k]).type # "branch" THEN upto[k - 1]
            ELSE Append(upto[k - 1], [id |-> At(path[k]).num, dir |-> DirTowards(path[k], path[k + 1])])
    IN  upto[Len(path)]

Laid(path, dir) == FoldLeft(LAMBDA d, x : [d EXCEPT ![x.id] = x.dir], dir, Settings(path))

=============================================================================
