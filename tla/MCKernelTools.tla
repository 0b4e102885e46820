--------------------------- MODULE MCKernelTools ---------------------------
(* The widget's cell and one that depends on it.                           *)
EXTENDS KernelTools, TLC

CONSTANTS home, user

MCCells == {home, user}
MCDownstream == home :> {user} @@ user :> {}
=============================================================================
