------------------------------ MODULE MCCoWork ------------------------------
(* Small instances of CoWork: a saved notebook nA, and another one nB.     *)
EXTENDS CoWork, TLC

CONSTANTS nA, nB, pathA, pathB, name1, cell1

MCPathOf == [n \in {nA, nB} |-> IF n = nA THEN pathA ELSE pathB]
MCNoNames == [n \in {} |-> cell1]
MCOneName == [n \in {name1} |-> cell1]

(* Call slots, session ids and hashes are interchangeable, and so are the  *)
(* notebooks when each takes its path along.                               *)
SwapNotebooks == (nA :> nB) @@ (nB :> nA) @@ (pathA :> pathB) @@ (pathB :> pathA)

Symmetry ==
    Permutations(Calls) \cup Permutations(SessionIds) \cup Permutations(Hashes)
        \cup {SwapNotebooks}
=============================================================================
