---------------------------- MODULE MCEditRetry -----------------------------
(* One notebook of the agent's, one of somebody else's, one cell.          *)
EXTENDS EditRetry

CONSTANTS nA, nB, pathA, pathB, cell1

MCPathOf == [n \in {nA, nB} |-> IF n = nA THEN pathA ELSE pathB]
MCNoNames == [n \in {} |-> cell1]
=============================================================================
