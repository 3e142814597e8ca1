------------------------- MODULE MCCoderWorkspaces --------------------------
(* CoderWorkspaces with the symmetry sets that TLC's safety runs use.      *)
EXTENDS CoderWorkspaces, TLC

Symmetry ==
    Permutations(Workspaces) \cup Permutations(Capabilities) \cup Permutations(Threads)
=============================================================================
