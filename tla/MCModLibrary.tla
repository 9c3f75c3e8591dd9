---------------------------- MODULE MCModLibrary ----------------------------
(* Instance of ModLibrary for TLC.                                          *)
EXTENDS ModLibrary
=============================================================================
