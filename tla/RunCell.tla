------------------------------ MODULE RunCell ------------------------------
(***************************************************************************)
(* run_cell of tools/mutation.py and its three scratchpads: one plans what *)
(* to queue, one queues it, and one reads back what became of it.  Between *)
(* them the cells are edited, run or deleted by others, and a request may  *)
(* fail, be interrupted, or end without an answer.                         *)
(***************************************************************************)
EXTENDS Kernel

CONSTANT MaxRuns        \* bound on calls of run_cell

VARIABLES
    run,        \* the call under way
    runs

runVars == <<run, runs>>

Modes == {"cell", "descendants", "all"}

Reasons == {"cell_id_not_allowed", "cell_id_required", "planning_failed",
            "unknown_cell_ids", "graph_unpopulated", "reporting_failed",
            "escaped"}

ASSUME RunAssumption ==
    /\ MaxRuns \in Nat
    /\ None \notin Reasons

(* What the report says of a cell's errors: null is "unreadable".          *)
Channels == {"empty", "some", "unreadable"}

RunAnswer == [status: {"ok", "partial", "error"},
              reason: Reasons \cup {None},
              succeeded: SUBSET Cells,
              failed: SUBSET Cells,
              not_run: SUBSET Cells]

RunCall == [pc: {"idle", "plan", "run", "report", "done"},
            mode: Modes,
            target: Cells \cup {None},
            requested: SUBSET Cells,
            error: BOOLEAN,             \* execution_error
            answer: RunAnswer \cup {None},
            completed: SUBSET Cells,    \* ghost: run to the end by this call
            broken: SUBSET Cells,       \* ghost: raised, cancelled, cut off
            touched: SUBSET Cells]      \* ghost: of another status since

NoRun == [pc |-> "idle", mode |-> "cell", target |-> None, requested |-> {},
          error |-> FALSE, answer |-> None, completed |-> {}, broken |-> {},
          touched |-> {}]

RunTypeOK ==
    /\ run \in RunCall
    /\ runs \in Nat

RunInit ==
    /\ run = NoRun
    /\ runs = 0
-----------------------------------------------------------------------------
RunAt(phase) == run.pc = phase

RunGoto(call) ==
    /\ run' = call
    /\ UNCHANGED runs

RunOver(call, answer) == [call EXCEPT !.pc = "done", !.answer = answer]

RunRefused(call, reason) ==
    RunOver(call, [status |-> "error", reason |-> reason, succeeded |-> {},
                   failed |-> {}, not_run |-> {}])

(* An answer that does not arrive raises in the client: the call ends      *)
(* without a payload.                                                      *)
RunEscapes ==
    /\ run.pc \in {"plan", "run", "report"}
    /\ RunGoto(RunRefused(run, "escaped"))
    /\ UNCHANGED kernelVars

(* The arguments come before the target, which CoWork and Survey resolve.  *)
RunBegin(mode, target) ==
    LET call == [NoRun EXCEPT !.pc = "plan", !.mode = mode, !.target = target] IN
    /\ RunAt("idle")
    /\ runs < MaxRuns
    /\ runs' = runs + 1
    /\ run' = IF mode = "all" /\ target # None
              THEN RunRefused(call, "cell_id_not_allowed")
              ELSE IF mode # "all" /\ target = None
              THEN RunRefused(call, "cell_id_required")
              ELSE call
    /\ UNCHANGED kernelVars

(* 1. PLAN.  The dependents are those the graph knows.                     *)
Planned(mode, target) ==
    IF mode = "all" THEN doc
    ELSE IF mode = "descendants" THEN {target} \cup (Downstream[target] \cap registered)
    ELSE {target}

NothingToRun == [status |-> "ok", reason |-> None, succeeded |-> {},
                 failed |-> {}, not_run |-> {}]

Plan ==
    LET known == run.mode = "all" \/ run.target \in doc
        drawn == run.mode # "descendants" \/ run.target \in registered
    IN
    /\ RunAt("plan")
    /\ \/ RunGoto(RunRefused(run, "planning_failed"))
       \/ /\ ~known
          /\ RunGoto(RunRefused(run, "unknown_cell_ids"))
       \/ /\ known /\ ~drawn
          /\ RunGoto(RunRefused(run, "graph_unpopulated"))
       \/ /\ known /\ drawn
          /\ LET requested == Planned(run.mode, run.target) IN
             RunGoto(IF requested = {} THEN RunOver(run, NothingToRun)
                     ELSE [run EXCEPT !.pc = "run", !.requested = requested])
    /\ UNCHANGED kernelVars
-----------------------------------------------------------------------------
(* 2. RUN.  An unknown id raises when it is queued, and the batch is gone. *)
FaultyQueued ==         \* the ids that are known are queued
    run.requested \cap doc # {}

Queued == run.requested \subseteq doc

RunFails ==
    /\ RunAt("run")
    /\ RunGoto([run EXCEPT !.pc = "report", !.error = TRUE])
    /\ UNCHANGED kernelVars

(* The scratchpad fails if a target raises or is cut off; what becomes of  *)
(* the other cells of the batch it may or may not report.  A client that   *)
(* stops waiting has its cells interrupted, or not.                        *)
RunBatch ==
    LET batch == Scheduled(run.requested) IN
    /\ RunAt("run")
    /\ Queued
    /\ \E cut \in Cuts(batch) :
         LET broken == (Raising(batch) \cup Cancelled(batch) \cup cut)
             ended  == [run EXCEPT !.completed = Completed(batch, cut),
                                   !.broken = broken]
         IN
         /\ RunAll(batch, cut)
         /\ \/ \E error \in {e \in BOOLEAN :
                    /\ (Raising(batch) \cup cut) \cap run.requested # {} => e
                    /\ e => broken # {}} :
                 RunGoto([ended EXCEPT !.pc = "report", !.error = error])
            \/ RunGoto(RunRefused(ended, "escaped"))
    /\ UNCHANGED <<doc, raises, lazy, type, human>>
-----------------------------------------------------------------------------
(* 3. REPORT.                                                              *)
FaultyFailedStates ==           \* a cell that never ran has not failed
    {"exception", "interrupted"}

FailedStates == {"exception", "cancelled", "interrupted"}

SucceededOf(idle, channel) == {c \in idle : channel[c] = "empty"}

FaultyOverall(failed, not_run, error) ==    \* the rows say it all
    IF failed = {} /\ not_run = {} THEN "ok" ELSE "partial"

Overall(failed, not_run, error) ==
    IF failed = {} /\ not_run = {} /\ ~error THEN "ok" ELSE "partial"

Errors(c, readable) ==
    IF c \notin readable THEN "unreadable"
    ELSE IF status[c] \in FailedStates THEN "some" ELSE "empty"

Report ==
    /\ RunAt("report")
    /\ \/ RunGoto(RunRefused(run, "reporting_failed"))
       \/ \E readable \in SUBSET run.requested :
            LET channel   == [c \in Cells |-> Errors(c, readable)]
                idle      == {c \in run.requested \cap doc : status[c] = "idle"}
                failed    == {c \in run.requested \cap doc :
                                \/ status[c] \in FailedStates
                                \/ c \in idle /\ channel[c] = "some"}
                succeeded == SucceededOf(idle, channel)
                not_run   == run.requested \ (failed \cup succeeded)
            IN  RunGoto(RunOver(run, [status |-> Overall(failed, not_run, run.error),
                                      reason |-> None, succeeded |-> succeeded,
                                      failed |-> failed, not_run |-> not_run]))
    /\ UNCHANGED kernelVars

RunReturn ==
    /\ RunAt("done")
    /\ RunGoto(NoRun)
    /\ UNCHANGED kernelVars

RunStep ==
    \/ \E mode \in Modes, target \in Cells \cup {None} : RunBegin(mode, target)
    \/ RunEscapes \/ Plan \/ RunFails \/ RunBatch \/ Report

(* Ghost: what a step of somebody else does to the cells of a batch.       *)
RunTouched ==
    run' = [run EXCEPT !.touched =
              IF run.pc # "report" THEN @
              ELSE @ \cup {c \in run.requested :
                             status'[c] # status[c] \/ c \notin doc'}]
-----------------------------------------------------------------------------
Reported == RunAt("done") /\ run.answer.reason = None

(* "status is ok only when" every requested cell was run to its end by     *)
(* this very call and none of them raised, except where somebody else has  *)
(* run it since: a batch that was thrown away when it was queued, or broke *)
(* off, is never ok because its cells were idle before.  And after         *)
(* mode="all" the whole document is in the graph, so that what its advice  *)
(* leads to, mode="descendants", is whole.                                 *)
OkMeansRan ==
    Reported /\ run.answer.status = "ok" =>
        /\ run.requested \subseteq run.completed \cup run.touched
        /\ run.mode = "all" => doc \subseteq registered

(* A cell that raised, was cancelled or cut off in the batch, and is as it *)
(* was left, is reported failed, and one that ran to its end is reported   *)
(* as succeeded or else as unverified, never as failed: whatever order the *)
(* kernel ran the batch in and whatever else it ran with it.               *)
OutcomeRight ==
    Reported =>
        \A c \in run.requested \ run.touched :
            /\ c \in run.broken => c \in run.answer.failed
            /\ c \in run.completed => c \notin run.answer.failed
=============================================================================
