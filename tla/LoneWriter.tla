----------------------------- MODULE LoneWriter -----------------------------
(***************************************************************************)
(* The writers of FileMirror, and which of them has had the file for       *)
(* itself since it took up what it is writing or wrote, or failed to       *)
(* write, last.  Nothing here changes what FileMirror does.                *)
(***************************************************************************)
EXTENDS FileMirror

VARIABLE solo   (* observation only                                        *)

soloVars == <<vars, solo>>

(* A writer looks at the payload, or goes to write its blank.              *)
TakesUp(w) == pc[w] \in {"start", "loop"} /\ pc'[w] = "open"

SoloInit == Init /\ solo = {}

SoloNext ==
    /\ Next
    /\ solo' = {w \in Writers : /\ w \in solo \/ TakesUp(w)
                                /\ Alive(w)'
                                /\ \A v \in Writers \ {w} : ~Alive(v)'}

SoloSpec == SoloInit /\ [][SoloNext]_soloVars
-----------------------------------------------------------------------------
(* A writer that has had the file for itself since it took up the current  *)
(* payload has the file show it, or failed to write it: what               *)
(* LoneWriterCatchesUp says is reached stays so, and only another writer   *)
(* of the same temporary file can spoil it (file_task.rs spawn,            *)
(* write_atomic).                                                          *)
SoloIsShown ==
    \A w \in solo : pc[w] = "loop" /\ ~pending[w] /\ ~missed => file = payload
=============================================================================
