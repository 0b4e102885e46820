----------------------------- MODULE EditRetry ------------------------------
(***************************************************************************)
(* The loop the refusals of edit_cell prescribe, around the calls of       *)
(* CoWork: an agent wants a source in a cell; on needs_read or conflict it *)
(* reads the cell with get_cell_data and retries, on notebook_mismatch it  *)
(* looks its notebook up and binds it again, on an error it retries.       *)
(* Humans and the server interfere a bounded number of times, and requests *)
(* get lost a bounded number of times.                                     *)
(***************************************************************************)
EXTENDS CoWork

CONSTANTS
    Agent,          \* the agent's one call slot
    Target,         \* the cell it edits
    Goal,           \* the source it wants there
    BoundPath,      \* its notebook's path
    MaxFaults       \* bound on lost requests and lost answers

ASSUME EditRetryAssumption ==
    /\ Agent \in Calls /\ Target \in Cells /\ Goal \in Hashes
    /\ BoundPath \in Paths \ {Unsaved}
    /\ MaxFaults \in Nat

VARIABLES
    todo,           \* what the agent does next
    boundId,        \* the session id it has bound
    faults          \* requests or answers lost so far

retryVars == <<vars, todo, boundId, faults>>

RetryTypeOK ==
    /\ todo \in {"edit", "read", "bind", "done"}
    /\ boundId \in SessionIds
    /\ faults \in 0..MaxFaults

RetryInit ==
    /\ Init
    /\ todo = "edit"
    /\ boundId \in SessionIds
    /\ faults = 0

BeginEdit ==
    /\ todo = "edit"
    /\ Begin(Agent, "edit", boundId, BoundPath, Target, Goal, TRUE)
    /\ UNCHANGED <<begun, todo, boundId, faults>>

BeginRead ==
    /\ todo = "read"
    /\ Begin(Agent, "data", boundId, BoundPath, Target, None, FALSE)
    /\ UNCHANGED <<begun, todo, boundId, faults>>

(* The listing and the bind: an unanchored call on an id that now serves   *)
(* the agent's notebook.                                                   *)
BeginBind ==
    /\ todo = "bind"
    /\ \E t \in SessionIds :
         /\ PathAt(t) = BoundPath
         /\ Begin(Agent, "inspect", t, Unsaved, None, None, FALSE)
         /\ boundId' = t
    /\ todo' = "edit"
    /\ UNCHANGED <<begun, faults>>

RetryResolve ==
    /\ Resolve(Agent)
    /\ todo' = IF calls[Agent].bound \notin {Unsaved, calls[Agent].p}
               THEN "bind" ELSE todo
    /\ UNCHANGED <<boundId, faults>>

(* Faulty variants of Advice, as in ChangeTracking.                        *)
FaultyAdvice(call) ==           \* retries the edit at once
    todo

MisreadAdvice(call) ==          \* takes the status for the next thing to do
    IF NeedsRead(call) \/ Conflict(call) THEN "conflict" ELSE todo

(* The answer to the guard's refusal, and to the read it asks for.         *)
Advice(call) == IF NeedsRead(call) \/ Conflict(call) THEN "read" ELSE todo

RetryGuard ==
    /\ Guard(Agent)
    /\ todo' = IF UnknownCell(calls[Agent]) THEN todo ELSE Advice(calls[Agent])
    /\ UNCHANGED <<boundId, faults>>

RetryRead ==
    /\ DeliverData(Agent)
    /\ todo' = "edit"
    /\ UNCHANGED <<boundId, faults>>

RetryWrite ==
    /\ WriteEdit(Agent)
    /\ \/ calls'[Agent].pc = "refresh" /\ todo' = "done" /\ UNCHANGED faults
       \/ /\ calls'[Agent] = Idle
          /\ faults < MaxFaults
          /\ faults' = faults + 1
          /\ UNCHANGED todo
    /\ UNCHANGED boundId

RetryOther ==
    /\ \/ Recensus(Agent) \/ Repair(Agent)
       \/ Exec(Agent) \/ RefreshRead(Agent) \/ Record(Agent)
    /\ UNCHANGED <<todo, boundId, faults>>

(* The server answers with an error what it cannot do ...                  *)
Impossible(k) ==
    LET call == calls[k] IN
    \/ call.pc \in {"exec", "write", "refresh"} /\ live[call.s] = None
    \/ At(k, "write") /\ live[call.s] # None /\ doc[live[call.s]][call.key] = None

ServerRefuses ==
    /\ Impossible(Agent)
    /\ Fail(Agent)
    /\ UNCHANGED <<todo, boundId, faults>>

(* ... and any request may get lost.                                       *)
RequestLost ==
    /\ faults < MaxFaults
    /\ faults' = faults + 1
    /\ Fail(Agent)
    /\ UNCHANGED <<todo, boundId>>

AgentStep == BeginEdit \/ BeginRead \/ BeginBind \/ RetryResolve \/ RetryGuard \/ RetryRead
             \/ RetryWrite \/ RetryOther \/ ServerRefuses

Interference ==
    /\ \/ \E n \in Notebooks, c \in Cells : HumanChange(n, c)
       \/ \E s \in SessionIds, n \in Notebooks : Open(s, n)
       \/ \E s \in SessionIds : Close(s)
       \/ \E s, t \in SessionIds : Rekey(s, t)
    /\ UNCHANGED <<todo, boundId, faults>>

RetryNext == AgentStep \/ RequestLost \/ Interference

(* The client awaits every request with a timeout, so an agent's step is   *)
(* always taken in the end; nobody else's is.                              *)
RetrySpec ==
    /\ RetryInit
    /\ [][RetryNext]_retryVars
    /\ WF_retryVars(AgentStep)

Editable ==
    \E s \in SessionIds :
        /\ PathAt(s) = BoundPath
        /\ doc[live[s]][Target] # None

(* The refusals of edit_cell are no dead end: once the agent's notebook    *)
(* stays open with the cell in it, following their advice gets the edit    *)
(* written, however often humans changed the cell or the server re-keyed   *)
(* the session before.                                                     *)
EditLands == (<>[]Editable) => <>(todo = "done")

(* The loop stops only with its source in the cell, and only over a source *)
(* that the guard compared with one the agent knows of its own notebook:   *)
(* no retry wears the guard down.                                          *)
DoneIsWritten ==
    [][todo # "done" /\ todo' = "done" =>
         LET call == calls[Agent]
             n    == live[call.s]
         IN  /\ n # None
             /\ doc'[n][Target].code_hash = Goal
             /\ Knows(BoundPath, Target, call.fps[Target].code_hash, Sourced)]_retryVars
-----------------------------------------------------------------------------
(* Why the edit lands: while the notebook stays editable, every step, by   *)
(* whomever, lowers Measure.                                               *)

Home(s) == PathAt(s) = BoundPath

(* A call on the bound id reaches the notebook, perhaps by a repair.       *)
IdOK == PathAt(boundId) \in {None, BoundPath}

(* The cell holds this source.                                             *)
Holds(s, hash) ==
    LET cell == doc[live[s]][Target] IN cell # None /\ cell.code_hash = hash

(* The guard would let an edit pass on what is recorded for the session.   *)
Fresh(s) ==
    LET seen == tracker[s].baseline[Target] IN
    /\ tracker[s].owner = BoundPath
    /\ seen # None
    /\ Holds(s, seen.code_hash)

FreshHome == \E s \in SessionIds : Home(s) /\ Fresh(s)

(* An edit under way that will get past the guard.                         *)
WillPass(call) ==
    \/ call.pc = "resolve" /\ call.p = None /\ FreshHome /\ ~Home(call.sid)
    \/ call.pc = "resolve" /\ call.p # None /\ Fresh(call.s)
    \/ call.pc = "repair" /\ call.s # call.sid /\ Fresh(call.s)
    \/ call.pc = "exec" /\ Fresh(call.s)
    \/ call.pc = "deliver" /\ ~(UnknownCell(call) \/ NeedsRead(call) \/ Conflict(call))
    \/ call.pc = "write"

(* A read under way that will leave the session's entry fresh.             *)
WillTell(call) ==
    /\ call.pc \in {"exec", "deliver"} => tracker[call.s].owner = BoundPath
    /\ call.pc = "deliver" =>
         /\ call.fps[Target] # None
         /\ Holds(call.s, call.fps[Target].code_hash)

(* A call takes at most seven steps to its end, and one to begin.          *)
StepsLeft == [idle |-> 0, record |-> 1, refresh |-> 2, write |-> 3,
              deliver |-> 4, exec |-> 5, repair |-> 6, resolve |-> 7]

(* The steps ahead of an agent between two calls: a mismatch leads to a    *)
(* bind, that to an edit, which is refused unless the entry is fresh, that *)
(* to a read, and that to an edit that passes.                             *)
Worst == 40

Ahead(next, ok, fresh) ==
    IF next = "done" THEN 0
    ELSE IF next = "bind" THEN 32
    ELSE IF ~ok THEN Worst
    ELSE IF next = "read" THEN 16
    ELSE IF fresh THEN 8 ELSE 24

(* ... and of one whose call has to end first.  A call that a move of the  *)
(* server's or a human's edit has overtaken may end in any way.            *)
Mismatched(call) ==
    call.pc = "resolve" /\ call.p # None /\ call.bound \notin {Unsaved, call.p}

Overtaken(call) ==
    \/ ~Home(call.s) /\ ~(call.pc = "resolve" /\ call.p = None)
    \/ call.op = "edit" /\ call.pc = "deliver" /\ UnknownCell(call)
    \/ call.op = "data" /\ ~WillTell(call)

Outlook(call) ==
    IF call.pc = "idle" THEN Ahead(todo, IdOK, FreshHome)
    ELSE IF call.pc \in {"refresh", "record"} THEN IF todo = "done" THEN 0 ELSE Worst
    ELSE IF Mismatched(call) THEN Ahead("bind", IdOK, FALSE)
    ELSE IF Overtaken(call) THEN Worst
    ELSE IF call.op = "inspect" THEN Ahead(todo, IdOK, FALSE)
    ELSE IF call.op = "data" THEN Ahead("edit", IdOK, TRUE)
    ELSE IF WillPass(call) THEN 0 ELSE Ahead("read", IdOK, FALSE)

Rank == StepsLeft[calls[Agent].pc] + Outlook(calls[Agent])

(* What humans, the server and the network may still interfere with.       *)
Budget == (MaxHuman - human) + (MaxMoves - moves) + (MaxFaults - faults)

Measure == 48 * Budget + Rank

EveryStepCounts == [][Editable => Measure' < Measure]_retryVars
=============================================================================
