--------------------------- MODULE MCRequestRace ---------------------------
(* Instance of RequestRace for TLC. *)
EXTENDS RequestRace

\* One initial heap, whose unused cells all point at the ban's.
MCInit ==
    /\ RaceInit
    /\ \A x \in Cell \ live : next[x] = head /\ prev[x] = head /\ data[x] = Ban

MCSpec == MCInit /\ [][RaceNext]_raceVars
=============================================================================
