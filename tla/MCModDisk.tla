----------------------------- MODULE MCModDisk -----------------------------
(* Instance of ModDisk for TLC: a version of two files, and one that has    *)
(* only the first of them.                                                  *)
EXTENDS ModDisk

CONSTANTS v1, v2, main, art

MCFiles == [v \in {v1, v2} |-> IF v = v1 THEN {main, art} ELSE {main}]
=============================================================================
