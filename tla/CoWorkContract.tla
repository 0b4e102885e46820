--------------------------- MODULE CoWorkContract ---------------------------
(***************************************************************************)
(* What the cell tools promise the agent, and nothing of how it is done:   *)
(* no session ids, censuses, repairs, baselines or snapshots.  There are   *)
(* notebooks with their cells, what the agent knows of each notebook, and  *)
(* calls.  A call works in one notebook, the one it is anchored to if it   *)
(* is; what it shows is true of that notebook; a checked edit is let       *)
(* through only over a source the agent was shown in full, or wrote, in    *)
(* that very notebook; and a write touches the one cell it was asked for,  *)
(* there.  What it does not promise: that nobody writes between its look   *)
(* at the cell and its write.                                              *)
(***************************************************************************)
CONSTANTS
    Calls, Notebooks, Paths, PathOf, Unsaved,
    Cells, Names, Keys, CellNamed, Hashes, States, None

VARIABLES
    doc,        \* the cells of each notebook
    knows,      \* what the agent was shown or wrote, in which notebook, how
    jobs        \* the calls that work in a notebook

vars == <<doc, knows, jobs>>

Cell == [code_hash: Hashes, state: States]

Answer == [Keys -> Hashes \cup {None}]

NoAnswer == [key \in Keys |-> None]

NoJob == [stage |-> "none", op |-> None, anchor |-> Unsaved, path |-> None,
          key |-> None, source |-> None, fresh |-> FALSE, answer |-> NoAnswer]

Init ==
    /\ doc \in [Notebooks -> [Cells -> Cell \cup {None}]]
    /\ knows = {}
    /\ jobs = [k \in Calls |-> NoJob]
-----------------------------------------------------------------------------
In(k, stage) == jobs[k].stage = stage

Becomes(k, job) == jobs' = [jobs EXCEPT ![k] = job]

Moved(job, stage, answer) == [job EXCEPT !.stage = stage, !.answer = answer]

Denotes(key) == IF key \in Names THEN CellNamed[key] ELSE key

(* What an answer shows is the source of a cell of the notebook.           *)
TrueOf(answer, n) ==
    \A key \in Keys :
        LET cell == doc[n][Denotes(key)] IN
        answer[key] # None => cell # None /\ answer[key] = cell.code_hash

Fact(path, key, hash, way) ==
    [path |-> path, key |-> key, hash |-> hash, way |-> way]

Facts(job, way) ==
    {Fact(job.path, key, job.answer[key], way) :
        key \in {key \in Keys : job.answer[key] # None}}

(* A call has found its notebook.  A create without a reference has        *)
(* nothing to look for there.                                              *)
Asked(job) ==
    /\ job \in [stage: {"asked", "cleared"},
               op: {"map", "data", "create", "edit", "delete"},
               anchor: Paths, path: Paths, key: Keys \cup {None},
               source: Hashes \cup {None}, fresh: BOOLEAN, answer: {NoAnswer}]
    /\ job.anchor \in {Unsaved, job.path}
    /\ (job.stage = "cleared") <=> (job.op = "create" /\ job.key = None)

Ask(k) ==
    /\ In(k, "none")
    /\ Asked(jobs'[k])
    /\ Becomes(k, jobs'[k])
    /\ UNCHANGED <<doc, knows>>

Look(k) ==
    /\ In(k, "asked")
    /\ \E n \in Notebooks, answer \in Answer :
         /\ PathOf[n] = jobs[k].path
         /\ TrueOf(answer, n)
         /\ Becomes(k, Moved(jobs[k], "seen", answer))
    /\ UNCHANGED <<doc, knows>>

(* get_cell_data shows sources in full, get_cell_map previews.             *)
Tell(k) ==
    /\ In(k, "seen")
    /\ \/ jobs[k].op = "data" /\ knows' = knows \cup Facts(jobs[k], "source")
       \/ jobs[k].op = "map" /\ knows' = knows \cup Facts(jobs[k], "preview")
    /\ Becomes(k, NoJob)
    /\ UNCHANGED doc

(* The target is there, and a checked edit's is known in full.             *)
Clear(k) ==
    LET job == jobs[k] IN
    /\ In(k, "seen")
    /\ job.op \in {"create", "edit", "delete"}
    /\ job.answer[Denotes(job.key)] # None
    /\ job.fresh =>
         \E way \in {"source", "refresh"} :
             Fact(job.path, job.key, job.answer[job.key], way) \in knows
    /\ Becomes(k, Moved(job, "cleared", NoAnswer))
    /\ UNCHANGED <<doc, knows>>
-----------------------------------------------------------------------------
(* A write whose answer is lost has happened all the same.                 *)
Wrote(k, job) ==
    \/ Becomes(k, Moved(job, "written", NoAnswer))
    \/ Becomes(k, NoJob)

Put(n, c, cell) == doc' = [doc EXCEPT ![n][c] = cell]

PutSource(n, c, hash) ==
    \E state \in States : Put(n, c, [code_hash |-> hash, state |-> state])

On(job, c) == [job EXCEPT !.key = c]

Authored(job, c) == {Fact(job.path, c, job.source, "source")}

Edit(k) ==
    LET job == jobs[k] IN
    /\ In(k, "cleared")
    /\ job.op = "edit"
    /\ \E n \in Notebooks :
         /\ PathOf[n] = job.path
         /\ doc[n][job.key] # None
         /\ PutSource(n, job.key, job.source)
    /\ knows' = knows \cup Authored(job, job.key)
    /\ Wrote(k, job)

Create(k) ==
    LET job == jobs[k] IN
    /\ In(k, "cleared")
    /\ job.op = "create"
    /\ \E n \in Notebooks, c \in Cells :
         /\ PathOf[n] = job.path
         /\ job.key # None => doc[n][Denotes(job.key)] # None
         /\ doc[n][c] = None
         /\ PutSource(n, c, job.source)
         /\ knows' = knows \cup Authored(job, c)
         /\ Wrote(k, On(job, c))

Delete(k) ==
    LET job == jobs[k] IN
    /\ In(k, "cleared")
    /\ job.op = "delete"
    /\ \E n \in Notebooks :
         /\ PathOf[n] = job.path
         /\ doc[n][Denotes(job.key)] # None
         /\ Put(n, Denotes(job.key), None)
    /\ Wrote(k, job)
    /\ UNCHANGED knows

(* After a write the cell is read once more, that cell alone, and what it  *)
(* then holds counts as shown.                                             *)
LookAgain(k) ==
    /\ In(k, "written")
    /\ \E n \in Notebooks, answer \in Answer :
         /\ PathOf[n] = jobs[k].path
         /\ TrueOf(answer, n)
         /\ \A key \in Keys \ {jobs[k].key} : answer[key] = None
         /\ Becomes(k, Moved(jobs[k], "reread", answer))
    /\ UNCHANGED <<doc, knows>>

Note(k) ==
    /\ In(k, "reread")
    /\ knows' = IF jobs[k].op = "delete" THEN knows
                ELSE knows \cup Facts(jobs[k], "refresh")
    /\ Becomes(k, NoJob)
    /\ UNCHANGED doc

(* Calls may end at any time, with a refusal or an error, one by one or    *)
(* all at once.                                                            *)
End(k) ==
    /\ Becomes(k, NoJob)
    /\ UNCHANGED <<doc, knows>>

EndAll ==
    /\ jobs' = [k \in Calls |-> NoJob]
    /\ UNCHANGED <<doc, knows>>

(* Humans edit, create, run and delete cells at any time.                  *)
Human(n, c) ==
    /\ UNCHANGED <<jobs, knows>>
    /\ \E cell \in Cell \cup {None} : Put(n, c, cell)

Next ==
    \/ \E k \in Calls :
         \/ End(k) \/ Ask(k) \/ Look(k) \/ Tell(k) \/ Clear(k)
         \/ Edit(k) \/ Create(k) \/ Delete(k) \/ LookAgain(k) \/ Note(k)
    \/ EndAll
    \/ \E n \in Notebooks, c \in Cells : Human(n, c)

Spec == Init /\ [][Next]_vars
=============================================================================
