------------------------------ MODULE MCTrack -------------------------------
(* Either a trip along a track, or a search for paths on it, from a sensor.  *)
EXTENDS TrackTrip, ShortestPath

VARIABLE exam

TrackInit == TripInit /\ SearchInit /\ start = Here.place /\ exam \in {"trip", "search"}

TrackNext ==
    \/ exam = "trip" /\ TripNext /\ UNCHANGED <<exam, start, note, end>>
    \/ exam = "search" /\ SearchNext /\ UNCHANGED <<exam, route, laid>>

TrackSpec == TrackInit /\ [][TrackNext]_<<exam, graph, route, laid, start, note, end>>

=============================================================================
