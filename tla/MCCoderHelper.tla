--------------------------- MODULE MCCoderHelper ----------------------------
(* CoderHelper with the symmetry sets that TLC's safety runs use.          *)
EXTENDS CoderHelper, TLC

Symmetry ==
    Permutations(Workspaces) \cup Permutations(Capabilities) \cup Permutations(Threads)
=============================================================================
