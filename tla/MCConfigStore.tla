--------------------------- MODULE MCConfigStore ---------------------------
EXTENDS ConfigStore, TLC

\* set_config of one field and of the other, get_config; set_favorite, and
\* the pruning of a deleted pack
Keeping == [k \in Keys |-> Keep]
Change(doc, patch, always) ==
  [doc |-> doc, patch |-> patch @@ Keeping, always |-> always]

RunOps ==
  { Change("config", "a" :> 1, TRUE), Change("config", "b" :> 1, TRUE),
    Change("config", <<>>, FALSE),
    Change("mods", "a" :> 1, TRUE), Change("mods", "a" :> NoValue, FALSE) }

Symmetry == Permutations(Procs)
=============================================================================
