-------------------------- MODULE MCTrackerServer --------------------------
(* Instance of TrackerServer for TLC: every set of actors is symmetric.     *)
EXTENDS TrackerServer, TLC

Symmetry == Permutations(Conns) \cup Permutations(Ticks)
            \cup Permutations(Ports) \cup Permutations(Calls)
=============================================================================
