----------------------------- MODULE MCBinding -----------------------------
(* Small instances of Binding: two MCP sessions, a saved notebook and an   *)
(* unsaved one.                                                            *)
EXTENDS Binding, TLC

CONSTANT unsaved

Symmetry ==
    Permutations(Contexts) \cup Permutations(Calls) \cup Permutations(SessionIds)
        \cup Permutations(Urls) \cup Permutations(Paths \ {unsaved})
=============================================================================
