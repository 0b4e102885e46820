------------------------------ MODULE MCSurvey ------------------------------
(* Two servers with two session ids and one saved notebook, and registries *)
(* that name both, one of them twice, or none.                             *)
EXTENDS Survey, TLC

CONSTANTS u1, u2, unsaved

MCRegistries == {<<>>, <<u1, u2>>, <<u1, u1>>}

Symmetry == Permutations(SessionIds) \cup Permutations(Paths \ {unsaved})
=============================================================================
