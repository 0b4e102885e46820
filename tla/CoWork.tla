------------------------------- MODULE CoWork -------------------------------
(***************************************************************************)
(* Co-work on live notebooks: tool calls of an agent (tools/cells.py,      *)
(* tools/mutation.py) running concurrently with each other, with humans    *)
(* editing the same notebooks, and with a marimo server that re-keys its   *)
(* sessions and hands session ids to other notebooks.                      *)
(*                                                                         *)
(* A tool call is split at its awaits: every request is one step at the    *)
(* server (it reads or writes the server's state) and every answer one     *)
(* step at the client (it reads or writes the tracker).  Anything may      *)
(* happen in between.  What the binding layer hands a call, its session id *)
(* and its path anchor, is any pair it could hand it.                      *)
(***************************************************************************)
EXTENDS ChangeTracking, Naturals

CONSTANTS
    Calls,          \* slots for tool calls that may be in flight together
    SessionIds,
    Notebooks,
    PathOf,         \* the path the census reports for each notebook
    Unsaved,        \* the path of a notebook without a file, ""; no anchor
    Cells,
    Names,
    CellNamed,      \* the cell a name denotes
    Tools,          \* the tools the agent uses
    ReuseInFlight,  \* may the server hand an id to another notebook while a
                    \* call is in flight on that id?
    MaxCalls,       \* bound on tool calls
    MaxHuman,       \* bound on human edits
    MaxMoves        \* bound on changes to the server's session table and
                    \* restarts of the MCP server process

AllTools == {"inspect", "map", "data", "create", "edit", "delete"}

ASSUME CoWorkAssumption ==
    /\ Keys = Cells \cup Names
    /\ Cells \cap Names = {}
    /\ CellNamed \in [Names -> Cells]
    /\ PathOf \in [Notebooks -> Paths]
    /\ Unsaved \in Paths
    /\ None \notin Keys \cup Notebooks \cup SessionIds \cup Hashes
    /\ Tools \subseteq AllTools
    /\ ReuseInFlight \in BOOLEAN
    /\ MaxCalls \in Nat
    /\ MaxHuman \in Nat
    /\ MaxMoves \in Nat

VARIABLES
    live,       \* the server's census: the notebook each session id serves
    doc,        \* the cells of each notebook
    tracker,    \* the client's ChangeTracker, by session id
    calls,      \* the tool calls in flight
    begun,      \* tool calls so far
    human,      \* human edits so far
    moves,      \* session-table changes and restarts so far
    known       \* ghost: what the agent has been told or has written, where

vars == <<live, doc, tracker, calls, begun, human, moves, known>>

Cell == [code_hash: Hashes, state: States]
Source == [Cells -> Cell \cup {None}]

Phases == {"idle", "resolve", "repair", "exec", "deliver", "write",
           "refresh", "record"}

(* sid and bound are the call's target and path anchor; s and p the id and *)
(* path its resolution works with (p = None: the census has no such id).   *)
Call == [pc: Phases,
         op: AllTools \cup {None},
         sid: SessionIds \cup {None},
         bound: Paths,
         s: SessionIds \cup {None},
         p: Paths \cup {None},
         key: Keys \cup {None},         \* None: the call names no cell
         fresh: BOOLEAN,                \* check_fresh
         source: Hashes \cup {None},    \* the source to write
         fps: Store]                    \* the answer being delivered

Idle == [pc |-> "idle", op |-> None, sid |-> None, bound |-> Unsaved,
         s |-> None, p |-> None, key |-> None, fresh |-> FALSE,
         source |-> None, fps |-> NoFingerprints]

(* How the agent came to know a source hash, and of which notebook.        *)
Ways == {"source", "refresh", "preview"}
Knowledge == [path: Paths, key: Keys, hash: Hashes, way: Ways]

TypeOK ==
    /\ live \in [SessionIds -> Notebooks \cup {None}]
    /\ doc \in [Notebooks -> Source]
    /\ tracker \in [SessionIds -> Entry]
    /\ calls \in [Calls -> Call]
    /\ begun \in Nat
    /\ human \in Nat
    /\ moves \in Nat
    /\ known \subseteq Knowledge
-----------------------------------------------------------------------------
(* What a scratchpad execution in a session sees.                          *)

PathAt(s) == IF live[s] = None THEN None ELSE PathOf[live[s]]

(* The map template: every live cell, filed under its id.                  *)
MapOf(cells) == [key \in Keys |-> IF key \in Cells THEN cells[key] ELSE None]

(* The live-hashes template: the same without runtime states.              *)
HashesOf(cells) ==
    [key \in Keys |-> IF key \in Cells /\ cells[key] # None
                      THEN [cells[key] EXCEPT !.state = None]
                      ELSE None]

Denotes(key) == IF key \in Names THEN CellNamed[key] ELSE key

(* The cell-data template files a row under the reference it was asked     *)
(* for, an id or a name; with no reference, every live cell under its id.  *)
DataOf(cells, ref) ==
    IF ref = None THEN MapOf(cells)
    ELSE [key \in Keys |-> IF key = ref THEN cells[Denotes(ref)] ELSE None]

(* _target_known: the id or the name of a live cell.                       *)
TargetKnown(fps, key) == fps[Denotes(key)] # None

Only(fps, key) == [NoFingerprints EXCEPT ![key] = fps[key]]

Learned(path, fps, way) ==
    {[path |-> path, key |-> key, hash |-> fps[key].code_hash, way |-> way] :
        key \in KeysOf(fps)}
-----------------------------------------------------------------------------
Init ==
    /\ live \in [SessionIds -> Notebooks \cup {None}]
    /\ \A s, t \in SessionIds : s # t /\ live[s] # None => live[s] # live[t]
    /\ doc \in [Notebooks -> Source]
    /\ tracker = [s \in SessionIds |-> Unrecorded]
    /\ calls = [k \in Calls |-> Idle]
    /\ begun = 0
    /\ human = 0
    /\ moves = 0
    /\ known = {}

At(k, phase) == calls[k].pc = phase

Goto(k, call) == calls' = [calls EXCEPT ![k] = call]

Return(k) == Goto(k, Idle)

(* A call arrives and its census request reaches the server.  An edit      *)
(* names a cell and a source, a delete a cell, a create a source and       *)
(* perhaps an anchor, a read perhaps a cell.                               *)
Begin(k, op, sid, bound, key, source, fresh) ==
    /\ At(k, "idle")
    /\ (op \in {"edit", "delete"}) => (key # None)
    /\ (op \in {"inspect", "map"}) => (key = None)
    /\ (op \in {"edit", "create"}) <=> (source # None)
    /\ fresh => (op = "edit")
    /\ Goto(k, [pc |-> "resolve", op |-> op, sid |-> sid, bound |-> bound,
                s |-> sid, p |-> PathAt(sid), key |-> key, fresh |-> fresh,
                source |-> source, fps |-> NoFingerprints])
    /\ UNCHANGED <<live, doc, tracker, human, moves, known>>

(* Resolution is over: an inspection has nothing left that matters here, a *)
(* create without an anchor goes straight to its write.                    *)
Resolved(call) ==
    IF call.op = "inspect" THEN Idle
    ELSE [call EXCEPT !.pc = IF call.op = "create" /\ call.key = None
                             THEN "write" ELSE "exec"]

FaultyResolve(k) ==             \* no notebook_mismatch
    LET call == calls[k] IN
    /\ At(k, "resolve")
    /\ call.p # None
    /\ tracker' = [tracker EXCEPT ![call.s] = Adopt(@, call.p)]
    /\ Goto(k, Resolved(call))
    /\ UNCHANGED <<live, doc, begun, human, moves, known>>

(* resolve_target on a census that lists the id: refuse a bound id that    *)
(* serves another notebook, otherwise attribute the id to its notebook.    *)
Resolve(k) ==
    LET call == calls[k] IN
    /\ At(k, "resolve")
    /\ call.p # None
    /\ IF call.bound \notin {Unsaved, call.p}
       THEN Return(k) /\ UNCHANGED tracker
       ELSE /\ tracker' = [tracker EXCEPT ![call.s] = Adopt(@, call.p)]
            /\ Goto(k, Resolved(call))
    /\ UNCHANGED <<live, doc, begun, human, moves, known>>

(* resolve_target on a census without the id: it is read again, and an     *)
(* anchored call looks there for its notebook under another id.            *)
Rotated(k) == {t \in SessionIds : calls[k].bound # Unsaved
                                  /\ PathAt(t) = calls[k].bound}

Recensus(k) ==
    /\ At(k, "resolve")
    /\ calls[k].p = None
    /\ \/ /\ Rotated(k) = {}
          /\ Return(k)
       \/ \E t \in Rotated(k) :
            Goto(k, [calls[k] EXCEPT !.pc = "repair", !.s = t,
                                     !.p = calls[k].bound])
    /\ UNCHANGED <<live, doc, tracker, begun, human, moves, known>>

(* The id-only rotation: forget the old id, attribute the new one.         *)
Repair(k) ==
    LET call == calls[k] IN
    /\ At(k, "repair")
    /\ tracker' = [[tracker EXCEPT ![call.sid] = Unrecorded]
                      EXCEPT ![call.s] = Adopt(@, call.p)]
    /\ Goto(k, Resolved(call))
    /\ UNCHANGED <<live, doc, begun, human, moves, known>>

(* The kernel runs the call's first scratchpad: the read of a read tool,   *)
(* the validation read of a mutation.                                      *)
Exec(k) ==
    LET call  == calls[k]
        cells == doc[live[call.s]]
    IN
    /\ At(k, "exec")
    /\ live[call.s] # None
    /\ Goto(k, [call EXCEPT !.pc = "deliver",
                  !.fps = CASE call.op = "map"  -> MapOf(cells)
                            [] call.op = "data" -> DataOf(cells, call.key)
                            [] OTHER            -> HashesOf(cells)])
    /\ UNCHANGED <<live, doc, tracker, begun, human, moves, known>>

(* get_cell_map's answer: compare with the snapshot, then replace it.      *)
DeliverMap(k) ==
    LET call == calls[k] IN
    /\ At(k, "deliver")
    /\ call.op = "map"
    /\ tracker' = [tracker EXCEPT ![call.s] = Commit(@, call.fps)]
    /\ known' = known \cup Learned(call.p, call.fps, "preview")
    /\ Return(k)
    /\ UNCHANGED <<live, doc, begun, human, moves>>

(* get_cell_data's answer: a full-source read of the cells it returns.     *)
DeliverData(k) ==
    LET call == calls[k] IN
    /\ At(k, "deliver")
    /\ call.op = "data"
    /\ tracker' = [tracker EXCEPT ![call.s] = RecordCells(@, call.fps)]
    /\ known' = known \cup Learned(call.p, call.fps, "source")
    /\ Return(k)
    /\ UNCHANGED <<live, doc, begun, human, moves>>

(* edit_cell's staleness guard, and its three refusals.                    *)
UnknownCell(call) == call.fps[call.key] = None

FaultyNeedsRead(call) ==        \* what was never read did not change
    FALSE

NeedsRead(call) ==
    call.fresh /\ tracker[call.s].baseline[call.key] = None

FaultyConflict(call) ==         \* any baseline will do
    FALSE

Conflict(call) ==
    /\ call.fresh
    /\ tracker[call.s].baseline[call.key] # None
    /\ call.fps[call.key].code_hash
          # tracker[call.s].baseline[call.key].code_hash

Guard(k) ==
    LET call == calls[k] IN
    /\ At(k, "deliver")
    /\ call.op = "edit"
    /\ IF UnknownCell(call) \/ NeedsRead(call) \/ Conflict(call)
       THEN Return(k)
       ELSE Goto(k, [call EXCEPT !.pc = "write",
                                 !.fps = Only(call.fps, call.key)])
    /\ UNCHANGED <<live, doc, tracker, begun, human, moves, known>>

(* delete_cell and an anchored create_cell refuse an unknown reference.    *)
Validate(k) ==
    LET call == calls[k] IN
    /\ At(k, "deliver")
    /\ call.op \in {"create", "delete"}
    /\ IF TargetKnown(call.fps, call.key)
       THEN Goto(k, [call EXCEPT !.pc = "write", !.fps = NoFingerprints])
       ELSE Return(k)
    /\ UNCHANGED <<live, doc, tracker, begun, human, moves, known>>
-----------------------------------------------------------------------------
(* The kernel runs the write scratchpad.  A write whose answer is lost or  *)
(* cannot be parsed has happened although the tool reports an error.       *)

PutCell(n, c, cell) == doc' = [doc EXCEPT ![n][c] = cell]

Written(k, call) ==
    \/ Goto(k, [call EXCEPT !.pc = "refresh", !.fps = NoFingerprints])
    \/ Return(k)

Authored(call, c) ==
    {[path |-> call.p, key |-> c, hash |-> call.source, way |-> "source"]}

WriteEdit(k) ==
    LET call == calls[k]
        n    == live[call.s]
    IN
    /\ At(k, "write")
    /\ call.op = "edit"
    /\ n # None
    /\ doc[n][call.key] # None
    /\ \E state \in States :
         PutCell(n, call.key, [code_hash |-> call.source, state |-> state])
    /\ Written(k, call)
    /\ known' = known \cup Authored(call, call.key)
    /\ UNCHANGED <<live, tracker, begun, human, moves>>

(* marimo picks the new cell's id; the call goes on with it.               *)
WriteCreate(k) ==
    LET call == calls[k]
        n    == live[call.s]
    IN
    /\ At(k, "write")
    /\ call.op = "create"
    /\ n # None
    /\ call.key # None => doc[n][Denotes(call.key)] # None
    /\ \E c \in Cells, state \in States :
         /\ doc[n][c] = None
         /\ PutCell(n, c, [code_hash |-> call.source, state |-> state])
         /\ Written(k, [call EXCEPT !.key = c])
         /\ known' = known \cup Authored(call, c)
    /\ UNCHANGED <<live, tracker, begun, human, moves>>

WriteDelete(k) ==
    LET call == calls[k]
        n    == live[call.s]
    IN
    /\ At(k, "write")
    /\ call.op = "delete"
    /\ n # None
    /\ doc[n][Denotes(call.key)] # None
    /\ PutCell(n, Denotes(call.key), None)
    /\ Written(k, call)
    /\ UNCHANGED <<live, tracker, begun, human, moves, known>>

Touched(fps, key) == Only(fps, key)

(* _refresh_snapshot: the live hashes are read once more ...               *)
RefreshRead(k) ==
    LET call == calls[k] IN
    /\ At(k, "refresh")
    /\ live[call.s] # None
    /\ Goto(k, [call EXCEPT !.pc = "record",
                  !.fps = Touched(HashesOf(doc[live[call.s]]), call.key)])
    /\ UNCHANGED <<live, doc, tracker, begun, human, moves, known>>

(* ... and only the touched cell's fingerprint is recorded, or forgotten.  *)
FaultyTouch(entry, call) ==     \* a deleted cell is filed under its dead hash
    IF call.op = "delete"
    THEN [entry EXCEPT !.baseline[call.key] = [code_hash |-> call.source,
                                               state |-> None]]
    ELSE RecordCells(entry, call.fps)

Touch(entry, call) ==
    IF call.op = "delete" THEN ForgetCells(entry, {call.key})
    ELSE IF call.fps[call.key] # None THEN RecordCells(entry, call.fps)
    ELSE entry

Record(k) ==
    LET call == calls[k] IN
    /\ At(k, "record")
    /\ tracker' = [tracker EXCEPT ![call.s] = Touch(@, call)]
    /\ known' = IF call.op = "delete" THEN known
                ELSE known \cup {fact \in Learned(call.p, call.fps, "refresh") :
                                    fact.key = call.key}
    /\ Return(k)
    /\ UNCHANGED <<live, doc, begun, human, moves>>

(* Any request may fail, be refused by the server, or time out: the tool   *)
(* returns an error (after a write: a warning) and leaves the tracker as   *)
(* it is.  Resolution decides on what it read, so it fails only there.     *)
Fail(k) ==
    /\ calls[k].pc \notin {"idle", "repair"}
    /\ Return(k)
    /\ UNCHANGED <<live, doc, tracker, begun, human, moves, known>>
-----------------------------------------------------------------------------
(* Humans edit, create, run and delete cells at any time.                  *)
HumanChange(n, c) ==
    /\ human < MaxHuman
    /\ \E cell \in Cell \cup {None} : cell # doc[n][c] /\ PutCell(n, c, cell)
    /\ human' = human + 1
    /\ UNCHANGED <<live, tracker, calls, begun, moves, known>>

(* The server opens a session for a notebook under an id of its choosing,  *)
(* one it used before included, closes one, and re-keys one.               *)
Free(n) == \A s \in SessionIds : live[s] # n

MayServe(s, n) ==
    ReuseInFlight \/ \A k \in Calls : calls[k].s = s => calls[k].p \in {None, PathOf[n]}

Open(s, n) ==
    /\ moves < MaxMoves
    /\ live[s] = None
    /\ Free(n)
    /\ MayServe(s, n)
    /\ live' = [live EXCEPT ![s] = n]
    /\ moves' = moves + 1
    /\ UNCHANGED <<doc, tracker, calls, begun, human, known>>

Close(s) ==
    /\ moves < MaxMoves
    /\ live[s] # None
    /\ live' = [live EXCEPT ![s] = None]
    /\ moves' = moves + 1
    /\ UNCHANGED <<doc, tracker, calls, begun, human, known>>

Rekey(s, t) ==
    /\ moves < MaxMoves
    /\ live[s] # None
    /\ live[t] = None
    /\ MayServe(t, live[s])
    /\ live' = [live EXCEPT ![s] = None, ![t] = live[s]]
    /\ moves' = moves + 1
    /\ UNCHANGED <<doc, tracker, calls, begun, human, known>>

(* The MCP server process dies with the calls it was serving; the next one *)
(* starts with an empty tracker.  What it had sent may have been executed. *)
Restart ==
    /\ moves < MaxMoves
    /\ tracker' = [s \in SessionIds |-> Unrecorded]
    /\ calls' = [k \in Calls |-> Idle]
    /\ moves' = moves + 1
    /\ UNCHANGED <<live, doc, begun, human, known>>
-----------------------------------------------------------------------------
Step(k) ==
    \/ Resolve(k) \/ Recensus(k) \/ Repair(k)
    \/ Exec(k) \/ DeliverMap(k) \/ DeliverData(k) \/ Guard(k) \/ Validate(k)
    \/ WriteEdit(k) \/ WriteCreate(k) \/ WriteDelete(k)
    \/ RefreshRead(k) \/ Record(k)

Next ==
    \/ \E k \in Calls, op \in Tools, sid \in SessionIds, bound \in Paths,
          key \in Keys \cup {None}, source \in Hashes \cup {None},
          fresh \in BOOLEAN :
          /\ begun < MaxCalls
          /\ begun' = begun + 1
          /\ Begin(k, op, sid, bound, key, source, fresh)
    \/ \E k \in Calls : Step(k) \/ Fail(k)
    \/ \E n \in Notebooks, c \in Cells : HumanChange(n, c)
    \/ \E s \in SessionIds, n \in Notebooks : Open(s, n)
    \/ \E s \in SessionIds : Close(s)
    \/ \E s, t \in SessionIds : Rekey(s, t)
    \/ Restart

Spec == Init /\ [][Next]_vars
-----------------------------------------------------------------------------
KnownIn(facts, path, key, hash, ways) ==
    \E way \in ways :
        [path |-> path, key |-> key, hash |-> hash, way |-> way] \in facts

Knows(path, key, hash, ways) == KnownIn(known, path, key, hash, ways)

Sourced == {"source", "refresh"}

(* A checked edit_cell only gets past its guard onto a source the agent    *)
(* has seen in full, or written, in THIS notebook: not one it saw in a     *)
(* preview, not one of another notebook that had the same session id, not  *)
(* one another cell's write refreshed by the way.                          *)
GuardTrust ==
    \A k \in Calls :
        At(k, "write") /\ calls[k].fresh =>
            Knows(calls[k].p, calls[k].key,
                  calls[k].fps[calls[k].key].code_hash, Sourced)

(* Read baselines recorded for an owner were read in that owner's          *)
(* notebook: no call still carrying an answer of the notebook the id named *)
(* before files it under the new owner.                                    *)
BaselineOwned ==
    \A s \in SessionIds, key \in Keys :
        tracker[s].owner # None /\ tracker[s].baseline[key] # None =>
            Knows(tracker[s].owner, key,
                  tracker[s].baseline[key].code_hash, Sourced)

(* get_cell_map keeps no change from the agent: a cell whose source the    *)
(* agent was never shown for this notebook is reported as new or edited,   *)
(* unless this is the first map (which is a baseline and reports nothing). *)
MapMissesNothing ==
    \A k \in Calls :
        At(k, "deliver") /\ calls[k].op = "map" =>
            LET call   == calls[k]
                change == Diff(tracker[call.s], call.fps)
            IN  tracker[call.s].observed =>
                  \A key \in KeysOf(call.fps) :
                      \/ key \in change.new_cells \cup change.edited_cells
                      \/ Knows(call.p, key, call.fps[key].code_hash, Ways)

(* The kernel runs a scratchpad of the call: a read, a write, a refresh.   *)
RequestMade(k) ==
    /\ calls[k].pc \in {"exec", "write", "refresh"}
    /\ calls'[k] # calls[k]
    /\ calls'[k].pc # "idle" \/ doc' # doc

(* The id a call works with serves another notebook than the call found.   *)
Astray(k) == calls[k].p # None /\ PathAt(calls[k].s) \notin {None, calls[k].p}

(* The server gives it to that notebook, while the call only waits.        *)
HandedOver(k) == moves' = moves + 1 /\ calls'[k] = calls[k]

(* What a call reads, writes and reads again is the notebook its census    *)
(* found, at its path anchor if it has one, with one exception: an id that *)
(* the server gives to another notebook after that census takes the call's *)
(* requests there, because the check is "not atomic prevention" and "the   *)
(* census read and the execute POST remain separate requests" (session.py, *)
(* the module's own docstring).  Nothing else leads a call astray: no      *)
(* stale binding, re-use of an id before the call, repair or restart.      *)
RequestsLand ==
    [][\A k \in Calls :
         /\ Astray(k)' => Astray(k) \/ HandedOver(k)
         /\ RequestMade(k) => /\ calls[k].bound \in {Unsaved, calls[k].p}
                              /\ PathAt(calls[k].s) = calls[k].p \/ Astray(k)]_vars
-----------------------------------------------------------------------------
(* Why they hold when no id changes hands under a call (~ReuseInFlight).   *)

(* The phases in which a call works with the tracker entry of its s.       *)
Working == {"exec", "deliver", "write", "refresh", "record"}

(* An id some call resolved to a notebook serves that one, or none.        *)
NotReused ==
    \A k \in Calls :
        calls[k].p # None => PathAt(calls[k].s) \in {None, calls[k].p}

(* Calls that resolved the same id resolved it to the same notebook.       *)
Agreement ==
    \A j, k \in Calls :
        /\ calls[j].s = calls[k].s
        /\ calls[j].p # None
        /\ calls[k].p # None
        => calls[j].p = calls[k].p

(* Nobody re-attributes an entry a call is working with; another call's    *)
(* repair may clear it.                                                    *)
OwnerKept ==
    \A k \in Calls :
        calls[k].pc \in Working =>
            tracker[calls[k].s].owner \in {None, calls[k].p}

(* All that an entry records of the notebook at a path is among the facts. *)
EntryKnown(facts, entry, path) ==
    \A key \in Keys :
        /\ entry.baseline[key] # None =>
             KnownIn(facts, path, key, entry.baseline[key].code_hash, Sourced)
        /\ entry.snapshot[key] # None =>
             KnownIn(facts, path, key, entry.snapshot[key].code_hash, Ways)

(* Entries are known for their owner, and, with no owner (after a repair), *)
(* for every call that still works with them.                              *)
OwnersKnow ==
    \A s \in SessionIds :
        tracker[s].owner # None =>
            EntryKnown(known, tracker[s], tracker[s].owner)

WorkersKnow ==
    \A k \in Calls :
        calls[k].pc \in Working =>
            EntryKnown(known, tracker[calls[k].s], calls[k].p)

(* A refresh carries the one cell the write touched.                       *)
RefreshTouchesOne ==
    \A k \in Calls :
        At(k, "record") =>
            \A key \in Keys \ {calls[k].key} : calls[k].fps[key] = None

(* The inductive invariant: what calls know of their sessions, what the    *)
(* tracker records for them, and what the answers in flight are trusted    *)
(* with.                                                                   *)
Bindings == NotReused /\ Agreement
Entries == OwnerKept /\ OwnersKnow /\ WorkersKnow
Answers == RefreshTouchesOne /\ GuardTrust

TrustInv == Bindings /\ Entries /\ Answers
-----------------------------------------------------------------------------
(* CoWorkContract, which knows no session ids and no tracker: the same     *)
(* notebooks, what the agent knows, and the calls that have resolved.      *)
HashIn(cell) == IF cell = None THEN None ELSE cell.code_hash

HashesIn(fps) == [key \in Keys |-> HashIn(fps[key])]

Stage(pc) ==
    CASE pc = "exec"    -> "asked"
      [] pc = "deliver" -> "seen"
      [] pc = "write"   -> "cleared"
      [] pc = "refresh" -> "written"
      [] pc = "record"  -> "reread"

NoJob == [stage |-> "none", op |-> None, anchor |-> Unsaved, path |-> None,
          key |-> None, source |-> None, fresh |-> FALSE,
          answer |-> NoFingerprints]

Job(call) ==
    IF call.pc \notin Working THEN NoJob
    ELSE [stage |-> Stage(call.pc), op |-> call.op, anchor |-> call.bound,
          path |-> call.p, key |-> call.key, source |-> call.source,
          fresh |-> call.fresh,
          answer |-> IF call.pc \in {"deliver", "record"} THEN HashesIn(call.fps)
                     ELSE NoFingerprints]

Jobs == [k \in Calls |-> Job(calls[k])]

Contract ==
    INSTANCE CoWorkContract WITH
        knows <- known, jobs <- Jobs

(* The cell tools keep their contract: with ids that are re-keyed and      *)
(* re-used, entries that are shared, cleared and re-attributed, and        *)
(* answers that come late, each call works in one notebook, shows what is  *)
(* there, and edits over nothing but what the agent knows of it.           *)
KeepsContract == Contract!Spec
-----------------------------------------------------------------------------
(* What the sources say beyond what the code does; each is refuted by a    *)
(* run of its own.                                                         *)

(* "impossible silent stomps": a checked edit overwrites only a source the *)
(* agent knows (the module comment of tools/mutation.py).                  *)
NoSilentStomp ==
    [][\A k \in Calls :
         WriteEdit(k) /\ calls[k].fresh =>
           Knows(calls[k].p, calls[k].key,
                 doc[live[calls[k].s]][calls[k].key].code_hash, Sourced)]_vars

(* After a successful delete the cell's fingerprint is gone, so that a     *)
(* re-used id needs a read (the comment at the end of delete_cell).        *)
DeletedIsForgotten ==
    [][\A k \in Calls :
         Record(k) /\ calls[k].op = "delete" =>
           tracker'[calls[k].s].baseline[Denotes(calls[k].key)] = None]_vars
=============================================================================
