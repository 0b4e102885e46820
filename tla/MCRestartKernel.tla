-------------------------- MODULE MCRestartKernel --------------------------
(* Small instances of RestartKernel: two ids, a saved notebook or two and  *)
(* an unsaved one.                                                         *)
EXTENDS RestartKernel, TLC

CONSTANT unsaved

Symmetry ==
    Permutations(Calls) \cup Permutations(SessionIds)
        \cup Permutations(Paths \ {unsaved})
=============================================================================
