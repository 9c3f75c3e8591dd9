---------------------------- MODULE MCFileMirror ----------------------------
(* Instance of FileMirror for TLC.                                          *)
EXTENDS FileMirror
=============================================================================
