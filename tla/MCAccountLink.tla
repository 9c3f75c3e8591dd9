--------------------------- MODULE MCAccountLink ---------------------------
EXTENDS AccountLink
=============================================================================
