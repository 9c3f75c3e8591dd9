---------------------------- MODULE MCFyiSocket ----------------------------
\* Two sockets, the second started when the first may still be ending.
EXTENDS FyiSocket
=============================================================================
