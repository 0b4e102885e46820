-------------------------- MODULE KernelToolsProofs --------------------------
(***************************************************************************)
(* What run_cell and set_ui_value report, for any number of cells, calls   *)
(* and steps of the human, and any dependencies between the cells.         *)
(***************************************************************************)
EXTENDS KernelTools, TLAPS

(* A widget's own value is what its type allows: a dropdown has one of its *)
(* options, a run_button is back at false.                                 *)
ElementSane ==
    /\ KeepsOption
    /\ type = "run_button" /\ element # None => element.value = 0

(* What the three requests of run_cell know of each other.  Nothing is run *)
(* before the batch; what the batch left behind is still there, except for *)
(* the cells that somebody else touched.                                   *)
RunInv ==
    /\ run.pc \in {"idle", "plan"} => run.requested = {}
    /\ run.pc \in {"idle", "plan", "run"} =>
          run.completed = {} /\ run.broken = {}
    /\ run.pc = "run" /\ run.mode = "all" => doc \subseteq run.requested
    /\ run.pc = "report" /\ ~run.error =>
          /\ run.requested \subseteq run.completed \cup run.broken
          /\ run.mode = "all" => doc \subseteq registered
    /\ run.pc = "report" =>
          \A c \in run.requested \ run.touched :
             /\ c \in run.broken => c \in doc /\ status[c] \in FailedStates
             /\ c \in run.completed => c \in doc /\ status[c] = "idle"

UiInv == NoFalseOk /\ HandlerTruth /\ SiteRight /\ NoChangeIsTrue

USE KernelAssumption, RunAssumption, SetAssumption
-----------------------------------------------------------------------------
(* What is run together is in the document, and covers what was queued.    *)
LEMMA ScheduledCells ==
    ASSUME KernelTypeOK, NEW queued \in SUBSET doc
    PROVE  Scheduled(queued) \subseteq doc /\ queued \subseteq Scheduled(queued)
BY DEF KernelTypeOK, Scheduled

LEMMA FreshIsElement == KernelTypeOK => Fresh \in Element
BY DEF KernelTypeOK, Fresh, Element, Values, Submissions, Scalar

(* A batch leaves every cell of it idle, or with the status of a failure.  *)
LEMMA RunAllEffect ==
    ASSUME KernelTypeOK, NEW batch \in SUBSET doc, NEW cut \in SUBSET batch,
           RunAll(batch, cut)
    PROVE  /\ registered' \subseteq doc
           /\ batch \subseteq registered'
           /\ registered \subseteq registered'
           /\ status' \in [Cells -> Statuses]
           /\ element' \in {element, None, Fresh}
           /\ \A c \in Raising(batch) \cup Cancelled(batch) \cup cut :
                 status'[c] \in FailedStates
           /\ \A c \in Completed(batch, cut) : status'[c] = "idle"
<1>1. batch \subseteq Cells /\ registered \subseteq doc /\ doc \subseteq Cells
  BY DEF KernelTypeOK
<1>2. /\ Raising(batch) \subseteq batch
      /\ Cancelled(batch) \subseteq batch
      /\ Raising(batch) \cap Cancelled(batch) = {}
      /\ Completed(batch, cut) \subseteq batch
  BY DEF Raising, Cancelled, Completed
<1>3. Completed(batch, cut)
        \cap (cut \cup Cancelled(batch) \cup Raising(batch)) = {}
  BY DEF Completed
<1>4. status' = [c \in Cells |->
                    CASE c \in cut -> "interrupted"
                      [] c \in Raising(batch) \ cut -> "exception"
                      [] c \in Cancelled(batch) \ cut -> "cancelled"
                      [] c \in Completed(batch, cut) -> "idle"
                      [] OTHER -> IF c \in Below(batch) \cap registered
                                  THEN "stale" ELSE status[c]]
  BY DEF RunAll
<1>5. status' \in [Cells -> Statuses]
  BY <1>4, Zenon DEF KernelTypeOK, Statuses
<1>6. \A c \in Raising(batch) \cup Cancelled(batch) \cup cut :
         status'[c] \in FailedStates
  <2> TAKE c \in Raising(batch) \cup Cancelled(batch) \cup cut
  <2>1. c \in Cells
    BY <1>1, <1>2
  <2>2. CASE c \in cut
    BY <2>1, <2>2, <1>3, <1>4 DEF FailedStates
  <2>3. CASE c \notin cut /\ c \in Raising(batch)
    BY <2>1, <2>3, <1>2, <1>3, <1>4 DEF FailedStates
  <2>4. CASE c \notin cut /\ c \in Cancelled(batch)
    BY <2>1, <2>4, <1>2, <1>3, <1>4 DEF FailedStates
  <2>5. QED
    BY <2>2, <2>3, <2>4
<1>7. \A c \in Completed(batch, cut) : status'[c] = "idle"
  <2> TAKE c \in Completed(batch, cut)
  <2>1. c \in Cells /\ c \notin cut /\ c \notin Raising(batch)
          /\ c \notin Cancelled(batch)
    BY <1>1, <1>2, <1>3
  <2>2. QED
    BY <2>1, <1>4
<1>8. element' \in {element, None, Fresh}
  BY DEF RunAll
<1>9. QED
  BY <1>1, <1>5, <1>6, <1>7, <1>8 DEF RunAll

-----------------------------------------------------------------------------
(* What a value, an update and a trace of it let the tool say.             *)
LEMMA Shapes ==
    ASSUME NEW s \in Submissions
    PROVE  /\ ~s.list => \E v \in Values : s.items = <<v>> /\ s.items[1] = v
           /\ Len(s.items) = 1 =>
                 \E v \in Values : s.items = <<v>> /\ s.items[1] = v
BY DEF Submissions, Scalar, Values

LEMMA WidgetValues ==
    ASSUME KernelTypeOK, ElementSane, element # None,
           NEW s \in Submissions, NEW declared \in BOOLEAN,
           ~ShapeRefused(s, declared), NEW u \in Updates(s),
           NEW e \in Updated(s, u)
    PROVE  /\ e \in Element
           /\ u.rejected => e.value = element.value
           /\ type = "dropdown" => e.value \in Values \ {Bad}
           /\ type = "run_button" => e.value = 0
           /\ type \in {"slider", "dropdown"} /\ ~u.rejected =>
                 s.items = <<e.value>>
<1>1. PICK v \in NewValues(s, u) : e = [value |-> v, counter |-> Counter(s)]
  BY DEF Updated
<1>2. Counter(s) \in Submissions
  BY DEF Counter, KernelTypeOK, Element
<1>3. element.value \in Values \cup {None}
  BY DEF KernelTypeOK, Element
<1>4. /\ u.rejected \in Rejections(s)
      /\ u.rejected \in BOOLEAN
  BY DEF Updates, Update
<1>5. CASE u.rejected
  <2>1. v = element.value
    BY <1>5 DEF NewValues
  <2>2. QED
    BY <1>1, <1>2, <1>3, <1>5, <2>1 DEF Element, ElementSane, KeepsOption
<1>6. CASE ~u.rejected /\ type = "slider"
  <2>1. Rejections(s) = {s.list \/ s.items[1] = Bad}
    BY <1>6 DEF Rejections, Buttons
  <2>2. ~s.list
    BY <1>4, <1>6, <2>1, Zenon
  <2>3. v = s.items[1]
    BY <1>6 DEF NewValues
  <2>4. QED
    BY <1>1, <1>2, <1>6, <2>2, <2>3, Shapes DEF Element
<1>7. CASE ~u.rejected /\ type = "dropdown"
  <2> Rejections(s) = {~s.list \/ s.items = <<Bad>>}
    BY <1>7 DEF Rejections, Buttons
  <2> s.list /\ s.items # <<Bad>>
    BY <1>4, <1>7, Zenon
  <2>1. s.list /\ s.items # <<Bad>> /\ Len(s.items) = 1
    BY <1>7 DEF ShapeRefused, Arity
  <2>2. v = s.items[1]
    BY <1>7, <2>1 DEF NewValues
  <2>3. PICK w \in Values : s.items = <<w>> /\ s.items[1] = w
    BY <2>1, Shapes
  <2>4. v \in Values \ {Bad} /\ s.items = <<v>>
    BY <2>1, <2>2, <2>3
  <2>5. QED
    BY <1>1, <1>2, <1>7, <2>4 DEF Element
<1>8. CASE ~u.rejected /\ type \in Buttons
  <2>1. v \in {None, 0, 1} /\ (type = "run_button" => v = 0)
    BY <1>8 DEF NewValues, Buttons
  <2>2. QED
    BY <1>1, <1>2, <1>8, <2>1 DEF Element, Values, Buttons
<1>9. QED
  BY <1>5, <1>6, <1>7, <1>8 DEF KernelTypeOK, Types, Buttons

(* The scratchpad's second reading, when it was of the same widget.        *)
LEMMA Verdicts ==
    ASSUME KernelTypeOK, ElementSane, element # None,
           NEW s \in Submissions, NEW declared \in BOOLEAN,
           ~ShapeRefused(s, declared), NEW u \in Updates(s),
           NEW t \in Traces(u), NEW d \in Data, d.before = element,
           ~u.replaced /\ d.verified => d.after \in Updated(s, u)
    PROVE  /\ Verdict(s, t, d) \in UiAnswer
           /\ Verdict(s, t, d).status = "ok" =>
                 ~(u.rejected \/ u.click_raised \/ u.change_raised)
           /\ Verdict(s, t, d).invoked = TRUE => u.clicked
           /\ Verdict(s, t, d).invoked = FALSE => ~u.clicked
           /\ Verdict(s, t, d).reason = "on_click_failed" =>
                 type = "button" /\ (u.click_raised \/ u.printed)
           /\ Verdict(s, t, d).status = "error" /\ ~u.replaced =>
                 /\ u.rejected => Verdict(s, t, d).reason = "value_not_applied"
                 /\ Verdict(s, t, d).reason = "value_not_applied" =>
                       u.rejected \/ t.frame = "lost"
                 /\ Verdict(s, t, d).reason = "on_change_failed" =>
                       u.change_raised
           /\ ~u.replaced =>
                 /\ Verdict(s, t, d).no_change =>
                       type \notin Buttons /\ <<element.value>> = s.items
                 /\ Verdict(s, t, d).applied = TRUE =>
                       /\ type # "run_button"
                       /\ type # "button" => <<element.value>> # s.items
<1> DEFINE v == Verdict(s, t, d)
           site == Site(s, t)
<1> HIDE DEF v, site
<1>1. /\ u \in Update
      /\ u.clicked = (~u.rejected /\ type \in Buttons /\ s # Scalar(0))
      /\ u.click_raised => u.clicked /\ type = "button"
      /\ u.change_raised \/ u.printed => ~u.rejected
  BY DEF Updates
<1>2. /\ t \in Trace
      /\ t.click = (u.click_raised \/ u.printed)
      /\ t.generic = (u.rejected \/ u.change_raised)
      /\ t.frame = "on_change" => u.change_raised
      /\ t.frame = "convert" => u.rejected
  BY DEF Traces
<1>3. /\ Applied(d) \in BOOLEAN
      /\ ~u.replaced /\ Applied(d) =>
            /\ ~u.rejected
            /\ type # "run_button"
            /\ type \in {"slider", "dropdown"} => <<element.value>> # s.items
  <2>1. ASSUME ~u.replaced, Applied(d)
        PROVE  /\ ~u.rejected
               /\ type # "run_button"
               /\ type \in {"slider", "dropdown"} => <<element.value>> # s.items
    <3>1. d.verified /\ d.after \in Updated(s, u) /\ element.value # d.after.value
      BY <2>1 DEF Applied
    <3> DEFINE e == d.after
    <3>2. /\ u.rejected => e.value = element.value
          /\ type = "run_button" => e.value = 0
          /\ type \in {"slider", "dropdown"} /\ ~u.rejected =>
                s.items = <<e.value>>
      BY <3>1, WidgetValues
    <3>3. ~u.rejected
      BY <3>1, <3>2
    <3>4. type # "run_button"
      BY <3>1, <3>2 DEF ElementSane
    <3>5. QED
      BY <3>1, <3>2, <3>3, <3>4
  <2>2. QED
    BY <2>1 DEF Applied, Data
<1>4. ~u.replaced /\ d.verified /\ ~Applied(d) /\ ~u.rejected
        /\ type \notin Buttons => <<element.value>> = s.items
  <2> SUFFICES ASSUME ~u.replaced, d.verified, ~Applied(d), ~u.rejected,
                      type \notin Buttons
               PROVE  <<element.value>> = s.items
    OBVIOUS
  <2>1. d.after \in Updated(s, u) /\ element.value = d.after.value
    BY DEF Applied
  <2>2. type \in {"slider", "dropdown"}
    BY DEF KernelTypeOK, Types, Buttons
  <2>3. QED
    BY <2>1, <2>2, WidgetValues
<1>5. CASE ~Rejected(t)
  <2>1. v = [status |-> "ok", reason |-> None, applied |-> Applied(d),
             no_change |-> type \notin Buttons /\ d.verified /\ ~Applied(d),
             invoked |-> IF type \in Buttons THEN Invoked(s, d) ELSE None]
    BY <1>5 DEF v, Verdict, SuccessPayload
  <2>2. ~u.rejected /\ ~u.click_raised /\ ~u.change_raised
    BY <1>1, <1>2, <1>5 DEF Rejected, Trace, Update
  <2>3. Invoked(s, d) \in {TRUE, FALSE, None}
    BY DEF Invoked
  <2>4. v.invoked = TRUE => type \in Buttons /\ s # Scalar(0)
    BY <2>1, KernelAssumption, Zenon DEF Invoked
  <2>5. v.invoked = FALSE => s = Scalar(0)
    BY <2>1, KernelAssumption, Zenon DEF Invoked
  <2>6. v \in UiAnswer
    BY <2>1, <2>3, <1>3 DEF UiAnswer, Data
  <2>7. v.status = "ok" /\ v.reason # "on_click_failed"
    BY <2>1 DEF UiReasons
  <2>8. v.invoked = TRUE => u.clicked
    BY <1>1, <2>2, <2>4
  <2>9. v.invoked = FALSE => ~u.clicked
    BY <1>1, <2>5
  <2>10. ~u.replaced /\ v.no_change =>
            type \notin Buttons /\ <<element.value>> = s.items
    BY <1>4, <2>1, <2>2
  <2>11. ~u.replaced /\ v.applied = TRUE =>
            /\ type # "run_button"
            /\ type # "button" => <<element.value>> # s.items
    BY <1>3, <2>1 DEF KernelTypeOK, Types
  <2>12. QED
    BY <2>2, <2>6, <2>7, <2>8, <2>9, <2>10, <2>11 DEF v
<1>6. CASE Rejected(t)
  <2>1. /\ v.status = "error"
        /\ v.reason = SiteReason(site, d)
        /\ v.invoked = (IF site = "on_click" THEN TRUE ELSE None)
        /\ v.no_change = (/\ site = "on_change"
                          /\ type \notin Buttons
                          /\ d.verified /\ ~Applied(d))
        /\ v.applied \in {Applied(d), None}
        /\ v \in [status: {"error"}, reason: {SiteReason(site, d)},
                  applied: BOOLEAN \cup {None}, no_change: BOOLEAN,
                  invoked: {TRUE, None}]
    BY <1>3, <1>6, Zenon DEF v, Verdict, site, RejectionPayload
  <2>2. CASE t.click
    <3>1. /\ ~u.rejected
          /\ u.click_raised \/ u.printed
          /\ site = IF Attributable(s) THEN "on_click" ELSE "unattributed"
      BY <1>1, <1>2, <2>2, Zenon DEF site, Site
    <3>2. site = "on_click" => type = "button" /\ u.clicked
      BY <1>1, <3>1 DEF Attributable, Buttons
    <3>3. SiteReason(site, d) =
            IF site = "on_click" THEN "on_click_failed" ELSE "ui_update_failed"
      BY <3>1 DEF SiteReason
    <3>4. v.reason \in {"on_click_failed", "ui_update_failed"}
            /\ v.reason \in UiReasons /\ ~v.no_change
      BY <2>1, <3>1, <3>3 DEF UiReasons
    <3>5. v.invoked = TRUE => site = "on_click"
      BY <2>1, KernelAssumption, Zenon
    <3>6. v.invoked # FALSE
      BY <2>1, KernelAssumption, Zenon
    <3>7. v \in UiAnswer
      BY <2>1, <3>4 DEF UiAnswer
    <3>8. v.reason = "on_click_failed" => site = "on_click"
      BY <2>1, <3>3
    <3>9. ~u.replaced /\ v.applied = TRUE =>
            /\ type # "run_button"
            /\ type # "button" => <<element.value>> # s.items
      <4>1. v.applied = TRUE => Applied(d)
        BY <2>1, KernelAssumption, Zenon
      <4>2. QED
        BY <1>3, <4>1 DEF KernelTypeOK, Types
    <3>10. QED
      BY <1>1, <2>1, <3>1, <3>2, <3>4, <3>5, <3>6, <3>7, <3>8, <3>9 DEF v
  <2>3. CASE ~t.click
    <3>1. t.generic /\ (u.rejected \/ u.change_raised) /\ ~u.click_raised
      BY <1>2, <1>6, <2>3, Zenon DEF Rejected
    <3>2. site = IF t.frame = "lost" THEN "unknown" ELSE t.frame
      BY <2>3 DEF site, Site
    <3>3. site \in {"on_change", "convert", "unknown"}
      BY <1>2, <3>2 DEF Trace
    <3>4. v.reason = IF site = "on_change" \/ Applied(d)
                     THEN "on_change_failed" ELSE "value_not_applied"
      BY <2>1, <3>3 DEF SiteReason
    <3>5. v.invoked # TRUE /\ v.invoked # FALSE
      <4>1. site # "on_click"
        BY <3>3
      <4>2. QED
        BY <2>1, <4>1, KernelAssumption, Zenon
    <3>6. v \in UiAnswer
      BY <2>1, <3>4 DEF UiAnswer, UiReasons
    <3>7. u.rejected => site # "on_change" /\ ~u.change_raised
      BY <1>1, <1>2, <3>2
    <3>8. site = "on_change" => u.change_raised
      BY <1>2, <3>2
    <3>9. site = "convert" => u.rejected
      BY <1>2, <3>2
    <3>10. ASSUME ~u.replaced
           PROVE  /\ u.rejected => v.reason = "value_not_applied"
                  /\ v.reason = "value_not_applied" =>
                        u.rejected \/ t.frame = "lost"
                  /\ v.reason = "on_change_failed" => u.change_raised
      <4>1. Applied(d) => ~u.rejected
        BY <1>3, <3>10
      <4>2. v.reason = "value_not_applied" => site \in {"convert", "unknown"}
        BY <3>3, <3>4
      <4>3. site = "unknown" => t.frame = "lost"
        BY <1>2, <3>2 DEF Trace
      <4>4. QED
        BY <3>1, <3>4, <3>7, <3>8, <3>9, <4>1, <4>2, <4>3
    <3>11. ~u.replaced /\ v.no_change =>
             type \notin Buttons /\ <<element.value>> = s.items
      BY <1>1, <1>4, <2>1, <3>8
    <3>12. ~u.replaced /\ v.applied = TRUE =>
            /\ type # "run_button"
            /\ type # "button" => <<element.value>> # s.items
      <4>1. v.applied = TRUE => Applied(d)
        BY <2>1, KernelAssumption, Zenon
      <4>2. QED
        BY <1>3, <4>1 DEF KernelTypeOK, Types
    <3>13. v.reason # "on_click_failed"
      BY <3>4
    <3>14. QED
      BY <2>1, <3>5, <3>6, <3>10, <3>11, <3>12, <3>13 DEF v
  <2>4. QED
    BY <2>2, <2>3
<1>7. QED
  BY <1>5, <1>6
-----------------------------------------------------------------------------
(* What each kind of step does to the kernel.                              *)
KernelMoves ==
    /\ KernelTypeOK'
    /\ ElementSane'
    /\ type' = type
    /\ doc' \subseteq doc
    /\ registered \cap doc' \subseteq registered'

LEMMA KernelStands ==
    ASSUME KernelTypeOK, ElementSane, UNCHANGED kernelVars
    PROVE  KernelMoves
BY DEF KernelMoves, KernelTypeOK, ElementSane, KeepsOption, kernelVars

LEMMA BatchMoves ==
    ASSUME KernelTypeOK, ElementSane, NEW batch \in SUBSET doc,
           NEW cut \in SUBSET batch, RunAll(batch, cut),
           UNCHANGED <<doc, lazy, type>>, raises' \in SUBSET Cells, human' \in Nat
    PROVE  KernelMoves
<1>1. /\ registered' \subseteq doc
      /\ registered \subseteq registered'
      /\ status' \in [Cells -> Statuses]
      /\ element' \in {element, None, Fresh}
  BY RunAllEffect
<1>2. Fresh \in Element
  BY FreshIsElement
<1>3. KernelTypeOK'
  BY <1>1, <1>2 DEF KernelTypeOK
<1>4. type \in {"dropdown", "run_button"} => Fresh.value = 0
  BY DEF Fresh
<1>5. ElementSane'
  BY <1>1, <1>4 DEF ElementSane, KeepsOption, Values, Bad
<1>6. QED
  BY <1>1, <1>3, <1>5 DEF KernelMoves

LEMMA HumanMoves ==
    ASSUME KernelTypeOK, ElementSane, Human
    PROVE  KernelMoves
<1>1. PICK c \in Cells : HumanEdits(c) \/ HumanRuns(c) \/ HumanDeletes(c)
  BY DEF Human
<1>2. CASE HumanEdits(c)
  <2>1. status' \in [Cells -> Statuses]
    BY <1>2 DEF HumanEdits, KernelTypeOK, Statuses
  <2>2. QED
    BY <1>2, <2>1 DEF HumanEdits, HumanStep, KernelMoves, KernelTypeOK,
                      ElementSane, KeepsOption
<1>3. CASE HumanRuns(c)
  <2>1. Scheduled({c}) \in SUBSET doc
    BY <1>3, ScheduledCells DEF HumanRuns
  <2>2. RunAll(Scheduled({c}), {}) /\ UNCHANGED <<doc, raises, lazy, type>>
          /\ human' \in Nat /\ raises' \in SUBSET Cells
    BY <1>3 DEF HumanRuns, HumanStep, KernelTypeOK
  <2>3. QED
    BY <2>1, <2>2, BatchMoves
<1>4. CASE HumanDeletes(c)
  <2>1. status' \in [Cells -> Statuses]
    BY <1>4 DEF HumanDeletes, KernelTypeOK, Statuses
  <2>2. element' \in {element, None}
    BY <1>4 DEF HumanDeletes
  <2>3. QED
    BY <1>4, <2>1, <2>2 DEF HumanDeletes, HumanStep, KernelMoves, KernelTypeOK,
                            ElementSane, KeepsOption
<1>5. QED
  BY <1>1, <1>2, <1>3, <1>4

LEMMA WakeMoves ==
    ASSUME KernelTypeOK, ElementSane, element # None,
           NEW s \in Submissions, NEW declared \in BOOLEAN,
           ~ShapeRefused(s, declared), NEW u \in Updates(s), Wake(s, u)
    PROVE  KernelMoves
<1>1. element' \in Updated(s, u) \cup {Fresh, None}
  BY DEF Wake
<1>2. Fresh \in Element
  BY FreshIsElement
<1>3. type \in {"dropdown", "run_button"} => Fresh.value = 0
  BY DEF Fresh
<1>4. element' # None =>
        /\ element' \in Element
        /\ type = "dropdown" => element'.value \in Values \ {Bad}
        /\ type = "run_button" => element'.value = 0
  <2>1. CASE element' \in Updated(s, u)
    BY <2>1, WidgetValues
  <2>2. CASE element' \in {Fresh, None}
    BY <2>2, <1>2, <1>3 DEF Values, Bad
  <2>3. QED
    BY <1>1, <2>1, <2>2
<1>5. status' \in [Cells -> Statuses]
  <2> DEFINE batch == IF lazy THEN {} ELSE Downstream[Home] \cap registered
  <2>1. status' = [c \in Cells |->
                    CASE c \in Raising(batch)   -> "exception"
                      [] c \in Cancelled(batch) -> "cancelled"
                      [] c \in batch \ (Raising(batch) \cup Cancelled(batch)) -> "idle"
                      [] OTHER -> IF lazy /\ c \in Downstream[Home] \cap registered
                                  THEN "stale" ELSE status[c]]
    BY DEF Wake
  <2> HIDE DEF batch
  <2>2. QED
    BY <2>1, Zenon DEF KernelTypeOK, Statuses
<1>6. UNCHANGED <<doc, registered, raises, lazy, type, human>>
  BY DEF Wake
<1>7. KernelTypeOK'
  BY <1>4, <1>5, <1>6 DEF KernelTypeOK
<1>8. QED
  BY <1>4, <1>6, <1>7 DEF KernelMoves, ElementSane, KeepsOption
-----------------------------------------------------------------------------
(* The steps of run_cell, and what the steps of others leave of its call.  *)
RunSafe == RunTypeOK /\ RunInv /\ OkMeansRan /\ OutcomeRight

LEMMA OthersKeepRun ==
    ASSUME RunSafe, KernelTypeOK, KernelMoves, RunTouched,
           run.pc # "done", runs' = runs
    PROVE  RunSafe'
<1> DEFINE touched == IF run.pc # "report" THEN run.touched
                      ELSE run.touched \cup {c \in run.requested :
                             status'[c] # status[c] \/ c \notin doc'}
<1>1. run' = [run EXCEPT !.touched = touched] /\ run \in RunCall
  BY DEF RunTouched, RunSafe, RunTypeOK
<1>2. touched \in SUBSET Cells
  BY <1>1 DEF RunCall
<1> HIDE DEF touched
<1>3. /\ run' \in RunCall
      /\ \A f \in {"pc", "mode", "requested", "error", "completed", "broken"} :
            run'[f] = run[f]
      /\ run'.touched = touched
  BY <1>1, <1>2 DEF RunCall
<1>4. RunTypeOK'
  BY <1>3 DEF RunTypeOK, RunSafe
<1>5. ~Reported'
  BY <1>3 DEF Reported, RunAt
<1>6. RunInv'
  <2>1. run.pc = "report" =>
          \A c \in run.requested \ touched :
             c \notin run.touched /\ status'[c] = status[c] /\ (c \in doc => c \in doc')
    BY DEF touched
  <2>2. run.pc = "report" =>
          \A c \in run.requested \ touched :
             /\ c \in run.broken => c \in doc' /\ status'[c] \in FailedStates
             /\ c \in run.completed => c \in doc' /\ status'[c] = "idle"
    BY <2>1 DEF RunSafe, RunInv
  <2>3. doc' \subseteq doc /\ registered \cap doc' \subseteq registered'
    BY DEF KernelMoves
  <2>4. QED
    BY <1>3, <2>2, <2>3 DEF RunSafe, RunInv
<1>7. QED
  BY <1>4, <1>5, <1>6 DEF RunSafe, OkMeansRan, OutcomeRight

LEMMA RunStands ==
    ASSUME RunSafe, UNCHANGED <<run, runs, doc, registered, status>>
    PROVE  RunSafe'
BY DEF RunSafe, RunTypeOK, RunInv, OkMeansRan, OutcomeRight, Reported, RunAt

(* A call that was refused, or that gave up, says nothing of any cell.     *)
LEMMA Refusals ==
    ASSUME NEW call \in RunCall, NEW reason \in Reasons, run' = RunRefused(call, reason),
           runs' \in Nat
    PROVE  RunSafe'
<1>1. run' = [call EXCEPT !.pc = "done",
                          !.answer = [status |-> "error", reason |-> reason,
                                      succeeded |-> {}, failed |-> {},
                                      not_run |-> {}]]
  BY DEF RunRefused, RunOver
<1> DEFINE answer == [status |-> "error", reason |-> reason, succeeded |-> {},
                      failed |-> {}, not_run |-> {}]
<1>2. answer \in RunAnswer /\ answer.reason = reason
  BY DEF RunAnswer
<1> HIDE DEF answer
<1>3. run' = [call EXCEPT !.pc = "done", !.answer = answer]
  BY <1>1 DEF answer
<1>4. run' \in RunCall /\ run'.pc = "done" /\ run'.answer.reason = reason
  BY <1>2, <1>3 DEF RunCall
<1>5. ~Reported'
  BY <1>4, RunAssumption DEF Reported
<1>6. QED
  BY <1>4, <1>5 DEF RunSafe, RunTypeOK, RunInv, OkMeansRan, OutcomeRight

LEMMA RunMoves ==
    ASSUME RunSafe, KernelTypeOK, ElementSane, RunStep
    PROVE  KernelMoves /\ RunSafe'
<1> USE DEF RunAt, RunGoto
<1>1. run \in RunCall /\ runs \in Nat
  BY DEF RunSafe, RunTypeOK
<1>2. ASSUME NEW mode \in Modes, NEW target \in Cells \cup {None},
             RunBegin(mode, target)
      PROVE  KernelMoves /\ RunSafe'
  <2> DEFINE call == [NoRun EXCEPT !.pc = "plan", !.mode = mode, !.target = target]
  <2>1. /\ call \in RunCall
        /\ call.pc = "plan" /\ call.requested = {} /\ call.completed = {}
        /\ call.broken = {}
    BY DEF NoRun, RunCall
  <2>2. runs' \in Nat /\ UNCHANGED kernelVars
    BY <1>1, <1>2 DEF RunBegin
  <2> HIDE DEF call
  <2>3. \/ \E reason \in Reasons : run' = RunRefused(call, reason)
        \/ run' = call
    BY <1>2 DEF RunBegin, call, Reasons
  <2>4. CASE run' = call
    <3>1. ~Reported'
      BY <2>1, <2>4 DEF Reported
    <3>2. RunInv'
      BY <2>1, <2>4 DEF RunInv
    <3>3. QED
      BY <2>1, <2>2, <2>4, <3>1, <3>2, KernelStands
         DEF RunSafe, RunTypeOK, OkMeansRan, OutcomeRight
  <2>5. QED
    BY <2>1, <2>2, <2>3, <2>4, Refusals, KernelStands
<1>3. CASE RunEscapes
  <2>1. "escaped" \in Reasons
    BY DEF Reasons
  <2>2. QED
    BY <1>1, <1>3, <2>1, Refusals, KernelStands DEF RunEscapes
<1>4. CASE Plan
  <2>1. RunAt("plan") /\ UNCHANGED <<kernelVars, runs>>
    BY <1>4 DEF Plan
  <2>2. \/ \E reason \in Reasons : run' = RunRefused(run, reason)
        \/ LET requested == Planned(run.mode, run.target) IN
             /\ run.mode = "all" \/ run.target \in doc
             /\ run' = IF requested = {} THEN RunOver(run, NothingToRun)
                       ELSE [run EXCEPT !.pc = "run", !.requested = requested]
    BY <1>4 DEF Plan, Reasons
  <2> DEFINE requested == Planned(run.mode, run.target)
  <2>3. CASE /\ run.mode = "all" \/ run.target \in doc
             /\ run' = IF requested = {} THEN RunOver(run, NothingToRun)
                       ELSE [run EXCEPT !.pc = "run", !.requested = requested]
    <3>1. requested \in SUBSET Cells
      BY <2>3, KernelAssumption DEF Planned, KernelTypeOK
    <3>2. run.mode = "all" => requested = doc
      BY DEF Planned
    <3> HIDE DEF requested
    <3>3. run.completed = {} /\ run.broken = {} /\ run.requested = {}
      BY <2>1 DEF RunSafe, RunInv
    <3>4. CASE requested = {}
      <4>1. /\ run' \in RunCall /\ run'.pc = "done" /\ run'.requested = {}
            /\ run'.mode = run.mode
        BY <1>1, <2>3, <3>3, <3>4 DEF RunOver, NothingToRun, RunCall, RunAnswer
      <4>2. doc' = doc /\ registered' = registered
        BY <2>1 DEF kernelVars
      <4>3. RunInv' /\ RunTypeOK'
        BY <1>1, <2>1, <4>1 DEF RunInv, RunTypeOK
      <4>4. OkMeansRan' /\ OutcomeRight'
        BY <3>2, <3>4, <4>1, <4>2 DEF OkMeansRan, OutcomeRight
      <4>5. QED
        BY <2>1, <4>3, <4>4, KernelStands DEF RunSafe
    <3>5. CASE requested # {}
      <4>1. /\ run' \in RunCall /\ run'.pc = "run" /\ run'.requested = requested
            /\ run'.completed = {} /\ run'.broken = {} /\ run'.mode = run.mode
        BY <1>1, <2>3, <3>1, <3>3, <3>5 DEF RunCall
      <4>2. doc' = doc
        BY <2>1 DEF kernelVars
      <4>3. RunInv' /\ RunTypeOK'
        BY <1>1, <2>1, <3>2, <4>1, <4>2 DEF RunInv, RunTypeOK
      <4>4. ~Reported'
        BY <4>1 DEF Reported
      <4>5. QED
        BY <2>1, <4>3, <4>4, KernelStands DEF RunSafe, OkMeansRan, OutcomeRight
    <3>6. QED
      BY <3>4, <3>5
  <2>4. QED
    BY <1>1, <2>1, <2>2, <2>3, Refusals, KernelStands
<1>5. CASE RunFails
  <2>1. /\ run' \in RunCall /\ run'.pc = "report" /\ run'.error = TRUE
        /\ run'.completed = {} /\ run'.broken = {}
    BY <1>1, <1>5 DEF RunFails, RunCall, RunSafe, RunInv
  <2>2. UNCHANGED <<kernelVars, runs>>
    BY <1>5 DEF RunFails
  <2>3. QED
    BY <1>1, <2>1, <2>2, KernelStands
       DEF RunSafe, RunTypeOK, RunInv, OkMeansRan, OutcomeRight, Reported
<1>6. CASE RunBatch
  <2> DEFINE batch == Scheduled(run.requested)
  <2>1. batch \in SUBSET doc /\ run.requested \subseteq batch
          /\ run.requested \subseteq doc
    BY <1>6, ScheduledCells DEF RunBatch, Queued
  <2> HIDE DEF batch
  <2> DEFINE broken(cut) == Raising(batch) \cup Cancelled(batch) \cup cut
             ended(cut) == [run EXCEPT !.completed = Completed(batch, cut),
                                       !.broken = broken(cut)]
  <2>2. PICK cut \in Cuts(batch) :
          /\ RunAll(batch, cut)
          /\ \/ \E error \in BOOLEAN :
                  /\ (Raising(batch) \cup cut) \cap run.requested # {} => error
                  /\ run' = [ended(cut) EXCEPT !.pc = "report", !.error = error]
             \/ run' = RunRefused(ended(cut), "escaped")
    BY <1>6 DEF RunBatch, batch
  <2>3. UNCHANGED <<doc, raises, lazy, type, human, runs>> /\ RunAt("run")
    BY <1>6, <2>2 DEF RunBatch, RunGoto
  <2>4. cut \in SUBSET batch
    BY DEF Cuts
  <2>5. KernelMoves
    BY <2>1, <2>2, <2>3, <2>4, BatchMoves DEF KernelTypeOK
  <2>6. /\ batch \subseteq registered'
        /\ \A c \in broken(cut) : status'[c] \in FailedStates
        /\ \A c \in Completed(batch, cut) : status'[c] = "idle"
    BY <2>1, <2>2, <2>4, RunAllEffect
  <2>7. /\ Completed(batch, cut) \cup broken(cut) = batch
        /\ batch \subseteq Cells
    BY <2>1, <2>4 DEF Completed, Raising, Cancelled, KernelTypeOK
  <2>8. ended(cut) \in RunCall
    BY <1>1, <2>7 DEF RunCall
  <2>9. CASE run' = RunRefused(ended(cut), "escaped")
    <3>1. "escaped" \in Reasons
      BY DEF Reasons
    <3>2. QED
      BY <1>1, <2>3, <2>5, <2>8, <2>9, <3>1, Refusals
  <2>10. ASSUME NEW error \in BOOLEAN,
                run' = [ended(cut) EXCEPT !.pc = "report", !.error = error]
         PROVE  RunSafe'
    <3>1. /\ run' \in RunCall /\ run'.pc = "report" /\ run'.mode = run.mode
          /\ run'.requested = run.requested
          /\ run'.completed = Completed(batch, cut)
          /\ run'.broken = broken(cut)
      BY <1>1, <2>8, <2>10 DEF RunCall
    <3>2. run.mode = "all" => doc \subseteq run.requested
      BY <2>3 DEF RunSafe, RunInv
    <3> HIDE DEF broken
    <3>3. RunInv'
      BY <2>1, <2>3, <2>6, <2>7, <3>1, <3>2 DEF RunInv
    <3>4. QED
      BY <1>1, <2>3, <3>1, <3>3
         DEF RunSafe, RunTypeOK, OkMeansRan, OutcomeRight, Reported
  <2>11. QED
    BY <2>2, <2>5, <2>9, <2>10
<1>7. CASE Report
  <2>1. RunAt("report") /\ UNCHANGED <<kernelVars, runs>>
    BY <1>7 DEF Report
  <2>2. CASE run' = RunRefused(run, "reporting_failed")
    <3>1. "reporting_failed" \in Reasons
      BY DEF Reasons
    <3>2. QED
      BY <1>1, <2>1, <2>2, <3>1, Refusals, KernelStands
  <2>3. ASSUME NEW readable \in SUBSET run.requested,
               LET channel   == [c \in Cells |-> Errors(c, readable)]
                   idle      == {c \in run.requested \cap doc : status[c] = "idle"}
                   failed    == {c \in run.requested \cap doc :
                                   \/ status[c] \in FailedStates
                                   \/ c \in idle /\ channel[c] = "some"}
                   succeeded == SucceededOf(idle, channel)
                   not_run   == run.requested \ (failed \cup succeeded)
               IN  run' = RunOver(run, [status |-> Overall(failed, not_run, run.error),
                                        reason |-> None, succeeded |-> succeeded,
                                        failed |-> failed, not_run |-> not_run])
        PROVE  RunSafe'
    <3> DEFINE channel   == [c \in Cells |-> Errors(c, readable)]
               idle      == {c \in run.requested \cap doc : status[c] = "idle"}
               failed    == {c \in run.requested \cap doc :
                                   \/ status[c] \in FailedStates
                                   \/ c \in idle /\ channel[c] = "some"}
               succeeded == SucceededOf(idle, channel)
               not_run   == run.requested \ (failed \cup succeeded)
               answer    == [status |-> Overall(failed, not_run, run.error),
                             reason |-> None, succeeded |-> succeeded,
                             failed |-> failed, not_run |-> not_run]
    <3>1. run' = RunOver(run, answer)
      BY <2>3
    <3>2. run.requested \in SUBSET Cells
      BY <1>1 DEF RunCall
    <3>3. \A c \in run.requested : c \in failed <=>
              c \in doc /\ status[c] \in FailedStates
      BY <3>2 DEF Errors, FailedStates
    <3>4. succeeded \subseteq idle
      BY DEF SucceededOf
    <3>5. failed \in SUBSET Cells /\ succeeded \in SUBSET Cells
            /\ not_run \in SUBSET Cells
      BY <3>2, <3>4
    <3>6. answer.status = "ok" =>
            ~run.error /\ run.requested \subseteq succeeded /\ failed = {}
      <4> HIDE DEF failed, succeeded
      <4>1. run.error \in BOOLEAN
        BY <1>1 DEF RunCall
      <4>2. QED
        BY <4>1 DEF Overall
    <3>7. answer \in RunAnswer /\ answer.failed = failed
      <4> HIDE DEF failed, succeeded, not_run
      <4>1. QED
        BY <3>5 DEF RunAnswer, Overall
    <3> HIDE DEF answer, failed, succeeded
    <3>8. /\ run' \in RunCall /\ run'.pc = "done" /\ run'.answer = answer
          /\ \A f \in {"mode", "requested", "completed", "broken", "touched"} :
                run'[f] = run[f]
      BY <1>1, <3>1, <3>7 DEF RunOver, RunCall
    <3>9. doc' = doc /\ registered' = registered /\ status' = status
      BY <2>1 DEF kernelVars
    <3>10. OutcomeRight'
      <4>1. \A c \in run.requested \ run.touched :
              /\ c \in run.broken => c \in doc /\ status[c] \in FailedStates
              /\ c \in run.completed => c \in doc /\ status[c] = "idle"
        BY <2>1 DEF RunSafe, RunInv
      <4>2. "idle" \notin FailedStates
        BY DEF FailedStates
      <4>3. QED
        BY <3>3, <3>7, <3>8, <4>1, <4>2 DEF OutcomeRight
    <3>11. OkMeansRan'
      <4>1. ASSUME answer.status = "ok"
            PROVE  /\ run.requested \subseteq run.completed \cup run.touched
                   /\ run.mode = "all" => doc \subseteq registered
        <5>1. /\ run.requested \subseteq run.completed \cup run.broken
              /\ run.mode = "all" => doc \subseteq registered
          BY <2>1, <3>6, <4>1 DEF RunSafe, RunInv
        <5>2. \A c \in run.requested \ run.touched : c \notin run.broken
          BY <2>1, <3>3, <3>6, <4>1 DEF RunSafe, RunInv
        <5>3. QED
          BY <5>1, <5>2
      <4>2. QED
        BY <3>8, <3>9, <4>1 DEF OkMeansRan
    <3>12. QED
      BY <1>1, <2>1, <3>8, <3>10, <3>11 DEF RunSafe, RunTypeOK, RunInv
  <2>4. QED
    BY <1>7, <2>1, <2>2, <2>3, KernelStands DEF Report
<1>8. QED
  BY <1>2, <1>3, <1>4, <1>5, <1>6, <1>7 DEF RunStep
-----------------------------------------------------------------------------
(* set_ui_value in one request.                                            *)
UiSafe == UiTypeOK /\ UiInv

LEMMA UiStands ==
    ASSUME UiSafe, ui' \in {ui, NoSet}, sets' = sets, type' = type
    PROVE  UiSafe'
<1>1. CASE ui' = ui
  BY <1>1 DEF UiSafe, UiTypeOK, UiInv, NoFalseOk, HandlerTruth, SiteRight,
              NoChangeIsTrue, Answered
<1>2. CASE ui' = NoSet
  <2>1. NoSet \in UiCall /\ NoSet.answer = None
    BY DEF NoSet, UiCall, Update, Trace, Untouched, Quiet
  <2>2. ~Answered'
    BY <1>2, <2>1 DEF Answered
  <2>3. QED
    BY <1>2, <2>1, <2>2 DEF UiSafe, UiTypeOK, UiInv, NoFalseOk, HandlerTruth,
                            SiteRight, NoChangeIsTrue
<1>3. QED
  BY <1>1, <1>2

LEMMA UiRefusals ==
    ASSUME NEW reason \in UiReasons
    PROVE  /\ UiRefused(reason) \in UiAnswer
           /\ UiRefused(reason).status = "error"
           /\ UiRefused(reason).reason = reason
           /\ UiRefused(reason).applied = None
           /\ UiRefused(reason).invoked = None
           /\ UiRefused(reason).no_change = FALSE
BY DEF UiRefused, UiAnswer

(* A call that was served, and what its answer must be for UiInv.          *)
LEMMA Serves ==
    ASSUME KernelTypeOK, UiSafe, NEW s \in Submissions, NEW answer \in UiAnswer,
           NEW u \in Update, NEW t \in Trace, UiServed(s, answer, u, t),
           type' = type,
           answer.status = "ok" =>
              ~(u.rejected \/ u.click_raised \/ u.change_raised),
           answer.invoked = TRUE => u.clicked,
           answer.invoked = FALSE => ~u.clicked,
           answer.reason = "on_click_failed" =>
              type = "button" /\ (u.click_raised \/ u.printed),
           answer.status = "error" /\ ~u.replaced =>
              /\ u.rejected =>
                    answer.reason \in {"value_not_applied", "execution_failed"}
              /\ answer.reason = "value_not_applied" =>
                    u.rejected \/ t.frame = "lost"
              /\ answer.reason = "on_change_failed" => u.change_raised,
           ~u.replaced =>
              /\ answer.no_change =>
                    type \notin Buttons /\ <<element.value>> = s.items
              /\ answer.applied = TRUE =>
                    /\ type # "run_button"
                    /\ type # "button" => <<element.value>> # s.items
    PROVE  UiSafe'
<1>1. /\ ui' = [value |-> s, answer |-> answer, update |-> u, trace |-> t,
                before |-> element]
      /\ sets' \in Nat
  BY DEF UiServed, UiSafe, UiTypeOK
<1>2. ui' \in UiCall /\ ui'.value = s /\ ui'.answer = answer /\ ui'.update = u
        /\ ui'.trace = t /\ ui'.before = element
  BY <1>1 DEF UiCall, KernelTypeOK
<1>3. NoFalseOk'
  BY <1>2 DEF NoFalseOk
<1>4. HandlerTruth'
  BY <1>2 DEF HandlerTruth
<1>5. SiteRight'
  BY <1>2 DEF SiteRight
<1>6. NoChangeIsTrue'
  BY <1>2 DEF NoChangeIsTrue
<1>7. QED
  BY <1>1, <1>2, <1>3, <1>4, <1>5, <1>6 DEF UiSafe, UiTypeOK, UiInv

LEMMA UiMoves ==
    ASSUME KernelTypeOK, ElementSane, UiSafe, UiServes
    PROVE  KernelMoves /\ UiSafe'
<1>1. PICK s \in Submissions, declared \in BOOLEAN :
        UiRefuses(s, declared) \/ UiSets(s, declared)
  BY DEF UiServes, Offered
<1>2. Untouched \in Update /\ Quiet \in Trace
        /\ \A f \in DOMAIN Untouched : Untouched[f] = FALSE
  BY DEF Untouched, Update, Quiet, Trace
<1>3. CASE UiRefuses(s, declared)
  <2>1. UNCHANGED kernelVars
    BY <1>3 DEF UiRefuses
  <2>2. PICK reason \in {"unknown_variable", "not_a_ui_element",
                         "value_shape_mismatch"} :
          UiServed(s, UiRefused(reason), Untouched, Quiet)
    BY <1>3 DEF UiRefuses
  <2>3. reason \in UiReasons
    BY DEF UiReasons
  <2> DEFINE answer == UiRefused(reason)
  <2>4. /\ answer \in UiAnswer /\ answer.status = "error"
        /\ answer.reason = reason /\ answer.applied = None
        /\ answer.invoked = None /\ answer.no_change = FALSE
    BY <2>3, UiRefusals
  <2>5. answer.applied # TRUE /\ answer.invoked # TRUE /\ answer.invoked # FALSE
    BY <2>4, KernelAssumption, Zenon
  <2>6. Untouched.rejected = FALSE
    BY DEF Untouched
  <2>7. type' = type
    BY <2>1 DEF kernelVars
  <2> HIDE DEF answer
  <2>8. UiServed(s, answer, Untouched, Quiet)
    BY <2>2 DEF answer
  <2>9. UiSafe'
    BY <1>2, <2>4, <2>5, <2>6, <2>7, <2>8, Serves
  <2>10. QED
    BY <2>1, <2>9, KernelStands
<1>4. CASE UiSets(s, declared)
  <2>1. element # None /\ ~ShapeRefused(s, declared)
    BY <1>4 DEF UiSets
  <2> DEFINE read(verified) ==
               [verified |-> verified, before |-> element,
                after |-> IF verified THEN element' ELSE element]
  <2>2. PICK u \in Updates(s), t \in Trace, verified \in BOOLEAN :
          /\ t \in Traces(u)
          /\ Wake(s, u)
          /\ verified => element' # None
          /\ \/ UiServed(s, Verdict(s, t, read(verified)), u, t)
             \/ UiServed(s, UiRefused("execution_failed"), u, t)
    BY <1>4 DEF UiSets
  <2>3. KernelMoves
    BY <2>1, <2>2, WakeMoves
  <2> DEFINE d == read(verified)
  <2>4. d \in Data /\ d.before = element
          /\ (~u.replaced /\ d.verified => d.after \in Updated(s, u))
    BY <2>1, <2>2, <2>3 DEF Data, KernelMoves, KernelTypeOK, Wake
  <2>5. type' = type
    BY <2>3 DEF KernelMoves
  <2>6. u \in Update
    BY DEF Updates
  <2>7. CASE UiServed(s, Verdict(s, t, read(verified)), u, t)
    <3> HIDE DEF d
    <3> DEFINE answer == Verdict(s, t, d)
    <3>1. UiServed(s, answer, u, t)
      BY <2>7 DEF d
    <3>2. /\ answer \in UiAnswer
          /\ answer.status = "ok" =>
               ~(u.rejected \/ u.click_raised \/ u.change_raised)
          /\ answer.invoked = TRUE => u.clicked
          /\ answer.invoked = FALSE => ~u.clicked
          /\ answer.reason = "on_click_failed" =>
                type = "button" /\ (u.click_raised \/ u.printed)
          /\ answer.status = "error" /\ ~u.replaced =>
                /\ u.rejected => answer.reason = "value_not_applied"
                /\ answer.reason = "value_not_applied" =>
                      u.rejected \/ t.frame = "lost"
                /\ answer.reason = "on_change_failed" => u.change_raised
          /\ ~u.replaced =>
                /\ answer.no_change =>
                      type \notin Buttons /\ <<element.value>> = s.items
                /\ answer.applied = TRUE =>
                      /\ type # "run_button"
                      /\ type # "button" => <<element.value>> # s.items
      BY <2>1, <2>2, <2>4, Verdicts
    <3> HIDE DEF answer
    <3>3. UiSafe'
      BY <2>5, <2>6, <3>1, <3>2, Serves
    <3>4. QED
      BY <2>3, <3>3
  <2>8. CASE UiServed(s, UiRefused("execution_failed"), u, t)
    <3> DEFINE answer == UiRefused("execution_failed")
    <3>1. /\ answer \in UiAnswer /\ answer.status = "error"
          /\ answer.reason = "execution_failed" /\ answer.applied = None
          /\ answer.invoked = None /\ answer.no_change = FALSE
      BY UiRefusals DEF UiReasons
    <3>2. answer.applied # TRUE /\ answer.invoked # TRUE /\ answer.invoked # FALSE
      BY <3>1, KernelAssumption, Zenon
    <3> HIDE DEF answer
    <3>3. UiServed(s, answer, u, t)
      BY <2>8 DEF answer
    <3>4. UiSafe'
      BY <2>5, <2>6, <3>1, <3>2, <3>3, Serves
    <3>5. QED
      BY <2>3, <3>4
  <2>9. QED
    BY <2>2, <2>7, <2>8
<1>5. QED
  BY <1>1, <1>3, <1>4
-----------------------------------------------------------------------------
IInv == KernelTypeOK /\ ElementSane /\ RunSafe /\ UiSafe

LEMMA Starts == Init => IInv
<1> SUFFICES ASSUME Init PROVE IInv
  OBVIOUS
<1>1. KernelTypeOK /\ ElementSane
  BY DEF Init, KernelInit, KernelTypeOK, ElementSane, KeepsOption, Statuses
<1>2. NoRun \in RunCall
  BY DEF NoRun, RunCall, Modes
<1>3. RunSafe
  BY <1>2 DEF Init, RunInit, RunSafe, RunTypeOK, RunInv, OkMeansRan,
              OutcomeRight, Reported, RunAt, NoRun
<1>4. NoSet \in UiCall /\ NoSet.answer = None
  BY DEF NoSet, UiCall, Update, Trace, Untouched, Quiet
<1>5. ~Answered
  BY <1>4 DEF Init, UiInit, Answered
<1>6. UiSafe
  BY <1>4, <1>5 DEF Init, UiInit, UiSafe, UiTypeOK, UiInv, NoFalseOk,
                    HandlerTruth, SiteRight, NoChangeIsTrue
<1>7. QED
  BY <1>1, <1>3, <1>6 DEF IInv

LEMMA Steps == IInv /\ [Next]_vars => IInv'
<1> SUFFICES ASSUME IInv, [Next]_vars PROVE IInv'
  OBVIOUS
<1> USE DEF IInv
<1>1. CASE Waiting /\ RunStep /\ UNCHANGED uiVars
  BY <1>1, RunMoves, UiStands DEF uiVars, KernelMoves
<1>2. CASE Waiting /\ UiServes /\ Others
  BY <1>2, UiMoves, OthersKeepRun DEF Waiting, Others, KernelMoves
<1>3. CASE Waiting /\ Human /\ Others /\ UNCHANGED uiVars
  <2>1. KernelMoves
    BY <1>3, HumanMoves
  <2>2. RunSafe'
    BY <1>3, <2>1, OthersKeepRun DEF Waiting, Others
  <2>3. UiSafe'
    BY <1>3, <2>1, UiStands DEF uiVars, KernelMoves
  <2>4. QED
    BY <2>1, <2>2, <2>3 DEF KernelMoves
<1>4. CASE RunReturn /\ UNCHANGED uiVars
  <2>1. NoRun \in RunCall
    BY DEF NoRun, RunCall, Modes
  <2>2. RunSafe'
    BY <1>4, <2>1 DEF RunReturn, RunGoto, RunSafe, RunTypeOK, RunInv, OkMeansRan,
                      OutcomeRight, Reported, RunAt, NoRun
  <2>3. KernelMoves
    BY <1>4, KernelStands DEF RunReturn
  <2>4. UiSafe'
    BY <1>4, <2>3, UiStands DEF uiVars, KernelMoves
  <2>5. QED
    BY <2>2, <2>3, <2>4 DEF KernelMoves
<1>5. CASE UiReturn /\ UNCHANGED runVars
  <2>1. KernelMoves
    BY <1>5, KernelStands DEF UiReturn
  <2>2. UiSafe'
    BY <1>5, <2>1, UiStands DEF UiReturn, KernelMoves
  <2>3. RunSafe'
    BY <1>5, RunStands DEF UiReturn, runVars, kernelVars
  <2>4. QED
    BY <2>1, <2>2, <2>3 DEF KernelMoves
<1>6. CASE UNCHANGED vars
  <2>1. KernelMoves
    BY <1>6, KernelStands DEF vars
  <2>2. UiSafe'
    BY <1>6, <2>1, UiStands DEF vars, uiVars, KernelMoves
  <2>3. RunSafe'
    BY <1>6, RunStands DEF vars, runVars, kernelVars
  <2>4. QED
    BY <2>1, <2>2, <2>3 DEF KernelMoves
<1>7. QED
  BY <1>1, <1>2, <1>3, <1>4, <1>5, <1>6 DEF Next

THEOREM Invariance == Spec => []IInv
BY Starts, Steps, PTL DEF Spec
-----------------------------------------------------------------------------
(* Types, for any kernel: among them that nothing is in the dependency     *)
(* graph that is not in the document.                                      *)
THEOREM TypeCorrect == Spec => []TypeOK
<1>1. IInv => TypeOK
  BY DEF IInv, TypeOK, RunSafe, UiSafe
<1>2. QED
  BY <1>1, Invariance, PTL

(* run_cell says ok only of cells that this call ran to their end, or that *)
(* somebody touched since: with any dependencies, any interruption, and    *)
(* humans and set_ui_value at work between its requests.                   *)
THEOREM OkIsEarned == Spec => []OkMeansRan
<1>1. IInv => OkMeansRan
  BY DEF IInv, RunSafe
<1>2. QED
  BY <1>1, Invariance, PTL

(* A cell that broke in the batch is reported failed, one that ran is not. *)
THEOREM OutcomesAreRight == Spec => []OutcomeRight
<1>1. IInv => OutcomeRight
  BY DEF IInv, RunSafe
<1>2. QED
  BY <1>1, Invariance, PTL

(* set_ui_value never says ok of an update that marimo refused, or whose   *)
(* handler raised.                                                         *)
THEOREM OkIsNoSwallowedFailure == Spec => []NoFalseOk
<1>1. IInv => NoFalseOk
  BY DEF IInv, UiSafe, UiInv
<1>2. QED
  BY <1>1, Invariance, PTL

(* What it says of a button's handler is true.                             *)
THEOREM HandlersAreReported == Spec => []HandlerTruth
<1>1. IInv => HandlerTruth
  BY DEF IInv, UiSafe, UiInv
<1>2. QED
  BY <1>1, Invariance, PTL

(* The reason it gives for a failure is that of the failure's site, unless *)
(* the widget was made anew meanwhile.                                     *)
THEOREM SitesAreRight == Spec => []SiteRight
<1>1. IInv => SiteRight
  BY DEF IInv, UiSafe, UiInv
<1>2. QED
  BY <1>1, Invariance, PTL

(* no_change and applied are true, unless the widget was made anew.        *)
THEOREM ReadBackIsTrue == Spec => []NoChangeIsTrue
<1>1. IInv => NoChangeIsTrue
  BY DEF IInv, UiSafe, UiInv
<1>2. QED
  BY <1>1, Invariance, PTL

(* No call leaves a dropdown without a selection.                          *)
THEOREM DropdownsKeepAnOption == Spec => []KeepsOption
<1>1. IInv => KeepsOption
  BY DEF IInv, ElementSane
<1>2. QED
  BY <1>1, Invariance, PTL
=============================================================================
