--------------------------- MODULE TrackerDisplay ---------------------------
(***************************************************************************)
(* What a streamer is promised about one run of a tracker, as the doc      *)
(* comments of TrackerPayload put it: Empty until the game has been seen,  *)
(* then labels, and Detached, never Empty again, whenever it is lost.      *)
(* Stopping the tracker blanks it, and at most one payload that was        *)
(* already under way follows.                                              *)
(***************************************************************************)
CONSTANTS Labels, Empty, Detached

VARIABLES
    display,    (* what the consumers of the tracker show                  *)
    phase       (* "on", "stopping" (a last payload may come) or "off"     *)

Init == display = Empty /\ phase = "on"

ShowLabel == phase = "on" /\ display' \in Labels /\ UNCHANGED phase

LoseGame ==
    /\ phase = "on" /\ display \in Labels
    /\ display' = Detached
    /\ UNCHANGED phase

Stop ==
    /\ phase = "on" /\ phase' \in {"stopping", "off"}
    /\ display' = Empty

LastPayload ==
    /\ phase = "stopping" /\ phase' = "off"
    /\ display' \in Labels \cup {display, Empty, Detached}

Next == ShowLabel \/ LoseGame \/ Stop \/ LastPayload

Spec == Init /\ [][Next]_<<display, phase>>
=============================================================================
