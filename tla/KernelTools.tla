---------------------------- MODULE KernelTools ----------------------------
(***************************************************************************)
(* run_cell and set_ui_value on one kernel, with a human in the browser.   *)
(* run_cell takes three requests, and any of the others' steps may come in *)
(* between; it has one call under way at a time, as a client awaits it.    *)
(***************************************************************************)
EXTENDS RunCell, SetUiValue

vars == <<kernelVars, runVars, uiVars>>

TypeOK ==
    /\ KernelTypeOK
    /\ RunTypeOK
    /\ UiTypeOK

Init ==
    /\ KernelInit
    /\ RunInit
    /\ UiInit

Others ==
    /\ RunTouched
    /\ UNCHANGED runs

(* An answer is a copy of what was seen and is read by nothing here, so it *)
(* is handed over before anything else happens.                            *)
Waiting == ui = NoSet /\ run.pc # "done"

Next ==
    \/ Waiting /\ RunStep /\ UNCHANGED uiVars
    \/ Waiting /\ UiServes /\ Others
    \/ Waiting /\ Human /\ Others /\ UNCHANGED uiVars
    \/ RunReturn /\ UNCHANGED uiVars
    \/ UiReturn /\ UNCHANGED runVars

Spec == Init /\ [][Next]_vars
=============================================================================
