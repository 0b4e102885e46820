----------------------------- MODULE SetUiValue -----------------------------
(***************************************************************************)
(* set_ui_value of tools/ui.py and its scratchpad (templates/ui.py).  The  *)
(* kernel swallows every failure of an update and only writes it to        *)
(* stderr, so the tool works out what happened from markers in that text   *)
(* and from reading the widget before and after.  One request does it all. *)
(***************************************************************************)
EXTENDS Kernel

CONSTANT MaxSets        \* bound on calls of set_ui_value

VARIABLES
    ui,         \* the call that has just been served
    sets

uiVars == <<ui, sets>>

(* What the update really did, which the tool does not see.                *)
Update == [rejected: BOOLEAN,       \* the conversion refused the value
           clicked: BOOLEAN,        \* a click was processed
           click_raised: BOOLEAN,
           change_raised: BOOLEAN,
           printed: BOOLEAN,        \* a handler printed the click marker
           replaced: BOOLEAN]       \* the widget is another one now, or gone

Untouched == [rejected |-> FALSE, clicked |-> FALSE, click_raised |-> FALSE,
              change_raised |-> FALSE, printed |-> FALSE, replaced |-> FALSE]

(* What is found in stderr: the markers, and the call site if the          *)
(* traceback still has its frames.                                         *)
Trace == [click: BOOLEAN, generic: BOOLEAN,
          frame: {"on_change", "convert", "lost"}]

(* What the scratchpad read.                                               *)
Data == [verified: BOOLEAN, before: Element, after: Element]

UiReasons == {"unknown_variable", "not_a_ui_element", "value_shape_mismatch",
              "execution_failed", "on_click_failed", "on_change_failed",
              "ui_update_failed", "value_not_applied"}

ASSUME SetAssumption ==
    /\ MaxSets \in Nat
    /\ None \notin UiReasons

(* applied and invoked (handler_invoked) are None where the payload has    *)
(* null or no such field; a failed execution has no reason of its own.     *)
UiAnswer == [status: {"ok", "error"},
             reason: UiReasons \cup {None},
             applied: BOOLEAN \cup {None},
             no_change: BOOLEAN,
             invoked: BOOLEAN \cup {None}]

UiCall == [value: Submissions \cup {None},
           answer: UiAnswer \cup {None},
           update: Update,              \* ghost
           trace: Trace,                \* ghost
           before: Element \cup {None}] \* ghost: the widget, before

Quiet == [click |-> FALSE, generic |-> FALSE, frame |-> "lost"]

NoSet == [value |-> None, answer |-> None, update |-> Untouched,
          trace |-> Quiet, before |-> None]

UiTypeOK ==
    /\ ui \in UiCall
    /\ sets \in Nat

UiInit ==
    /\ ui = NoSet
    /\ sets = 0
-----------------------------------------------------------------------------
(* The scratchpad's guards.  An element whose declaration cannot be read   *)
(* has no shape to check.                                                  *)
FaultyArity(s) ==           \* any number of keys, as for a multiselect
    FALSE

Arity(s) == type = "dropdown" /\ s.list /\ Len(s.items) # 1

ShapeRefused(s, declared) ==
    \/ declared /\ s.list # (type = "dropdown")
    \/ Arity(s)

UiRefused(reason) ==
    [status |-> "error", reason |-> reason, applied |-> None,
     no_change |-> FALSE, invoked |-> None]

UiServed(value, answer, update, trace) ==
    /\ sets < MaxSets
    /\ sets' = sets + 1
    /\ ui' = [value |-> value, answer |-> answer, update |-> update,
              trace |-> trace, before |-> element]

UiRefuses(value, declared) ==
    /\ \/ /\ element = None
          /\ \E reason \in {"unknown_variable", "not_a_ui_element"} :
               UiServed(value, UiRefused(reason), Untouched, Quiet)
       \/ /\ element # None
          /\ ShapeRefused(value, declared)
          /\ UiServed(value, UiRefused("value_shape_mismatch"), Untouched, Quiet)
    /\ UNCHANGED kernelVars
-----------------------------------------------------------------------------
(* marimo's update of a widget: the frontend value is assigned, the value  *)
(* is converted, a handler may raise or print.  A dropdown takes an empty  *)
(* or a longer list for no selection; a button may take a list for a click *)
(* or not at all.                                                          *)
Rejections(s) ==
    CASE type = "slider"   -> {s.list \/ s.items[1] = Bad}
      [] type = "dropdown" -> {~s.list \/ s.items = <<Bad>>}
      [] type \in Buttons  -> IF s.list THEN BOOLEAN ELSE {FALSE}

Updates(s) ==
    {u \in Update :
        /\ u.rejected \in Rejections(s)
        /\ u.clicked = (~u.rejected /\ type \in Buttons /\ s # Scalar(0))
        /\ u.click_raised => u.clicked /\ type = "button"
        /\ u.change_raised \/ u.printed => ~u.rejected}

Traces(u) ==
    {t \in Trace :
        /\ t.click = (u.click_raised \/ u.printed)
        /\ t.generic = (u.rejected \/ u.change_raised)
        /\ t.frame = "on_change" => u.change_raised
        /\ t.frame = "convert" => u.rejected}

(* A button's handler that raises returns nothing.                         *)
NewValues(s, u) ==
    IF u.rejected THEN {element.value}
    ELSE CASE type = "run_button" -> {0}
           [] type = "button"     -> IF ~u.clicked \/ u.click_raised THEN {None}
                                     ELSE {None, 1}
           [] type = "slider"     -> {s.items[1]}
           [] type = "dropdown"   -> IF Len(s.items) = 1 THEN {s.items[1]}
                                     ELSE {None}

Counter(s) == IF type \in Buttons THEN s ELSE element.counter

Updated(s, u) == {[value |-> v, counter |-> Counter(s)] : v \in NewValues(s, u)}

(* The dependents run or go stale; a widget whose own cell runs in the     *)
(* wake of that is made anew, or is gone.                                  *)
Wake(s, u) ==
    LET batch == IF lazy THEN {} ELSE Downstream[Home] \cap registered IN
    /\ status' = [c \in Cells |->
                    CASE c \in Raising(batch)   -> "exception"
                      [] c \in Cancelled(batch) -> "cancelled"
                      [] c \in batch \ (Raising(batch) \cup Cancelled(batch)) -> "idle"
                      [] OTHER -> IF lazy /\ c \in Downstream[Home] \cap registered
                                  THEN "stale" ELSE status[c]]
    /\ IF u.replaced THEN element' \in {Fresh, None}
       ELSE element' \in Updated(s, u)
    /\ UNCHANGED <<doc, registered, raises, lazy, type, human>>
-----------------------------------------------------------------------------
(* _kernel_rejection, _rejection_site and _attributable_on_click.          *)
FaultyRejected(t) ==        \* not a button's own failures
    t.generic

Rejected(t) == t.click \/ t.generic

Attributable(s) == type = "button" /\ s # Scalar(0)

FaultySite(s, t) ==         \* the read-back alone tells
    "unknown"

Site(s, t) ==
    IF t.click THEN IF Attributable(s) THEN "on_click" ELSE "unattributed"
    ELSE IF t.frame = "lost" THEN "unknown" ELSE t.frame

(* before against after, for what the read-back saw.                       *)
FaultyApplied(d) ==         \* the counter moves too
    d.verified /\ d.before # d.after

Applied(d) == d.verified /\ d.before.value # d.after.value

(* _rejection_payload.                                                     *)
SiteReason(site, d) ==
    CASE site = "on_click"     -> "on_click_failed"
      [] site = "unattributed" -> "ui_update_failed"
      [] site = "on_change"    -> "on_change_failed"
      [] site \in {"convert", "unknown"} ->
            IF Applied(d) THEN "on_change_failed" ELSE "value_not_applied"

RejectionPayload(site, d) ==
    [status |-> "error", reason |-> SiteReason(site, d),
     applied |-> IF d.verified \/ site \in {"convert", "unknown"}
                 THEN Applied(d) ELSE None,
     no_change |-> /\ site = "on_change"
                   /\ type \notin Buttons
                   /\ d.verified /\ ~Applied(d),
     invoked |-> IF site = "on_click" THEN TRUE ELSE None]

(* _button_interaction_payload: zero is no click, and only a counter that  *)
(* moved to what was submitted proves one.                                 *)
FaultyInvoked(s, d) ==      \* the sentinel may already be there
    IF d.verified /\ d.after.counter = s THEN TRUE ELSE None

Invoked(s, d) ==
    IF s = Scalar(0) THEN FALSE
    ELSE IF d.verified /\ d.after.counter = s
                       /\ d.before.counter # d.after.counter THEN TRUE
    ELSE None

SuccessPayload(s, d) ==
    [status |-> "ok", reason |-> None, applied |-> Applied(d),
     no_change |-> type \notin Buttons /\ d.verified /\ ~Applied(d),
     invoked |-> IF type \in Buttons THEN Invoked(s, d) ELSE None]

Verdict(s, t, d) ==
    IF Rejected(t) THEN RejectionPayload(Site(s, t), d) ELSE SuccessPayload(s, d)

(* The scratchpad reads the widget, updates it and reads it again, if it   *)
(* can.                                                                    *)
UiSets(value, declared) ==
    /\ element # None
    /\ ~ShapeRefused(value, declared)
    /\ \E u \in Updates(value), t \in Trace, verified \in BOOLEAN :
         /\ t \in Traces(u)
         /\ Wake(value, u)
         /\ verified => element' # None
         /\ \/ UiServed(value,
                        Verdict(value, t,
                                [verified |-> verified, before |-> element,
                                 after |-> IF verified THEN element' ELSE element]),
                        u, t)
            \/ UiServed(value, UiRefused("execution_failed"), u, t)

UiReturn ==
    /\ ui # NoSet
    /\ ui' = NoSet
    /\ UNCHANGED <<kernelVars, sets>>

(* To a widget other than a dropdown one list is like another.             *)
Offered == {s \in Submissions : type # "dropdown" /\ s.list => s.items = <<1>>}

UiServes ==
    \E value \in Offered, declared \in BOOLEAN :
        UiRefuses(value, declared) \/ UiSets(value, declared)
-----------------------------------------------------------------------------
Answered == ui.answer # None

(* "A value marimo rejected is reported as an error, never as success":    *)
(* status ok is never given to an update whose conversion was refused, or  *)
(* whose on_click or on_change handler raised, although marimo swallows    *)
(* all three and its flush succeeds.                                       *)
NoFalseOk ==
    Answered /\ ui.answer.status = "ok" =>
        ~(ui.update.rejected \/ ui.update.click_raised \/ ui.update.change_raised)

(* handler_invoked is true only of a click that was processed and false    *)
(* only of a value that is none, and on_click_failed is said only of a     *)
(* button that was clicked: whatever a handler printed, whether or not the *)
(* widget could be read back or was another one by then.                   *)
HandlerTruth ==
    Answered =>
        /\ ui.answer.invoked = TRUE => ui.update.clicked
        /\ ui.answer.invoked = FALSE => ~ui.update.clicked
        /\ ui.answer.reason = "on_click_failed" =>
              /\ type = "button"
              /\ ui.update.click_raised \/ ui.update.printed

(* The reason names the failure's site.  A refused conversion, and where   *)
(* the traceback has kept its frames nothing else, is value_not_applied;   *)
(* on_change_failed is said only where on_change raised.  This is lost     *)
(* when the widget was made anew meanwhile, as the read-back then compares *)
(* two widgets.                                                            *)
SiteRight ==
    Answered /\ ui.answer.status = "error" /\ ~ui.update.replaced =>
        /\ ui.update.rejected =>
              ui.answer.reason \in {"value_not_applied", "execution_failed"}
        /\ ui.answer.reason = "value_not_applied" =>
              ui.update.rejected \/ ui.trace.frame = "lost"
        /\ ui.answer.reason = "on_change_failed" => ui.update.change_raised

(* "The element already held this value, so nothing changed" is never said *)
(* of a button, and of any other widget only if it held what was submitted *)
(* before the call; applied is true only if its value moved.               *)
NoChangeIsTrue ==
    Answered /\ ~ui.update.replaced =>
        /\ ui.answer.no_change =>
              /\ type \notin Buttons
              /\ <<ui.before.value>> = ui.value.items
        /\ ui.answer.applied = TRUE =>
              /\ type # "run_button"
              /\ type # "button" => <<ui.before.value>> # ui.value.items

(* A dropdown always has one of its options selected: no call leaves it    *)
(* with none, though marimo takes an empty list for that and says nothing. *)
KeepsOption ==
    type = "dropdown" /\ element # None => element.value \in Values \ {Bad}
=============================================================================
