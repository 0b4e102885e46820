------------------------------- MODULE Kernel -------------------------------
(***************************************************************************)
(* The notebook kernel as run_cell and set_ui_value know it from their     *)
(* scratchpads and from what they say of it: cells with a run status, a    *)
(* dependency graph that holds only cells that were run, and one widget,   *)
(* which the cell Home defines.  The kernel is marimo's and not part of    *)
(* this repository; where the sources leave open what it does, it may do   *)
(* either.  A request to it is served without another one in between.      *)
(***************************************************************************)
EXTENDS Naturals, Sequences

CONSTANTS
    Cells,
    Home,           \* the cell that defines the widget
    Downstream,     \* for each cell, those that depend on it in the end
    None,
    MaxHuman        \* bound on what a human does in the browser

Statuses == {"never", "idle", "stale", "exception", "cancelled", "interrupted"}

Types == {"slider", "dropdown", "button", "run_button"}

Buttons == {"button", "run_button"}

(* Values of widgets, options and clicks; Bad is no option, out of range.  *)
Values == 0..2
Bad == 2

(* What may be submitted to a widget: a scalar, or a list of no, one or    *)
(* more items.                                                             *)
Scalar(v) == [list |-> FALSE, items |-> <<v>>]

Submissions ==
    {Scalar(v) : v \in Values}
        \cup {[list |-> TRUE, items |-> i] :
                i \in {<<>>, <<0, 1>>} \cup {<<v>> : v \in Values}}

ASSUME KernelAssumption ==
    /\ Home \in Cells
    /\ Downstream \in [Cells -> SUBSET Cells]
    /\ \A c \in Cells : c \notin Downstream[c]
    /\ \A c \in Cells : \A d \in Downstream[c] : Downstream[d] \subseteq Downstream[c]
    /\ None \notin Cells
    /\ None \notin Values
    /\ None \notin BOOLEAN
    /\ MaxHuman \in Nat

VARIABLES
    doc,        \* cells of the document
    registered, \* cells in the dependency graph
    status,
    raises,     \* cells whose source raises when it is run
    lazy,       \* are dependents marked stale, or run at once?
    type,       \* of the widget
    element,    \* the widget, while it exists
    human

kernelVars == <<doc, registered, status, raises, lazy, type, element, human>>

(* The counter is the frontend value, of interest for buttons only.        *)
Element == [value: Values \cup {None}, counter: Submissions]

KernelTypeOK ==
    /\ registered \subseteq doc
    /\ doc \subseteq Cells
    /\ status \in [Cells -> Statuses]
    /\ raises \subseteq Cells
    /\ lazy \in BOOLEAN
    /\ type \in Types
    /\ element \in Element \cup {None}
    /\ human \in Nat

(* A button's value is what its handler returned last, a run_button's is   *)
(* true only while its dependents run.                                     *)
Fresh == [value |-> IF type = "button" THEN None ELSE 0, counter |-> Scalar(0)]

(* A session that nothing was run in yet.                                  *)
KernelInit ==
    /\ doc = Cells
    /\ registered = {}
    /\ status = [c \in Cells |-> "never"]
    /\ raises \in SUBSET Cells
    /\ lazy \in BOOLEAN
    /\ type \in Types
    /\ element = None
    /\ human = 0
-----------------------------------------------------------------------------
Below(cells) == UNION {Downstream[c] : c \in cells}

(* What is run when these are queued: never-run ancestors with them, and   *)
(* unless the kernel is lazy the registered descendants of all these.      *)
Scheduled(queued) ==
    LET started == queued \cup {a \in doc : /\ status[a] = "never"
                                            /\ Downstream[a] \cap queued # {}}
    IN  started \cup (IF lazy THEN {} ELSE Below(started) \cap registered)

Raising(batch) == {c \in batch \cap raises : c \notin Below(batch \cap raises)}
Cancelled(batch) == batch \cap Below(batch \cap raises)

(* The cells it was interrupted before or in, with those that depend on    *)
(* them.                                                                   *)
Cuts(batch) == {cut \in SUBSET batch : Below(cut) \cap batch \subseteq cut}

Completed(batch, cut) == batch \ (cut \cup Cancelled(batch) \cup Raising(batch))

RunAll(batch, cut) ==
    /\ registered' = registered \cup batch
    /\ status' = [c \in Cells |->
                    CASE c \in cut -> "interrupted"
                      [] c \in Raising(batch) \ cut -> "exception"
                      [] c \in Cancelled(batch) \ cut -> "cancelled"
                      [] c \in Completed(batch, cut) -> "idle"
                      [] OTHER -> IF c \in Below(batch) \cap registered
                                  THEN "stale" ELSE status[c]]
    /\ element' = IF Home \in Completed(batch, cut) THEN Fresh
                  ELSE IF Home \in batch THEN None ELSE element

-----------------------------------------------------------------------------
(* A human edits a cell, runs one, or deletes one.                         *)
HumanStep ==
    /\ human < MaxHuman
    /\ human' = human + 1
    /\ UNCHANGED <<lazy, type>>

HumanEdits(c) ==
    /\ c \in doc
    /\ raises' \in {raises \cup {c}, raises \ {c}}
    /\ status' = [status EXCEPT ![c] = IF @ = "never" THEN @ ELSE "stale"]
    /\ UNCHANGED <<doc, registered, element>>
    /\ HumanStep

HumanRuns(c) ==
    /\ c \in doc
    /\ RunAll(Scheduled({c}), {})
    /\ UNCHANGED <<doc, raises>>
    /\ HumanStep

HumanDeletes(c) ==
    /\ c \in doc
    /\ doc' = doc \ {c}
    /\ registered' = registered \ {c}
    /\ status' = [status EXCEPT ![c] = "never"]
    /\ element' = IF c = Home THEN None ELSE element
    /\ UNCHANGED raises
    /\ HumanStep

Human == \E c \in Cells : HumanEdits(c) \/ HumanRuns(c) \/ HumanDeletes(c)
=============================================================================
