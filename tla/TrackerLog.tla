----------------------------- MODULE TrackerLog -----------------------------
(***************************************************************************)
(* One session id's entry of the ChangeTracker, driven by any sequence of  *)
(* the tracker's methods, beside the log of the calls made.  The log is    *)
(* the reference: what an entry ought to hold is defined from it alone,    *)
(* without the update rules of ChangeTracking.                             *)
(***************************************************************************)
EXTENDS ChangeTracking, Integers, Sequences, FiniteSetsExt

CONSTANTS
    Observations,   \* the fingerprint maps a read may return
    MaxLog          \* bound on the method calls made

ASSUME LogAssumption ==
    /\ Observations \subseteq Store
    /\ MaxLog \in Nat

VARIABLES entry, log

vars == <<entry, log>>

Method == [op: {"adopt"}, path: Paths]
          \cup [op: {"record", "commit"}, fps: Observations]
          \cup [op: {"forget"}, keys: SUBSET Keys \ {{}}]
          \cup [op: {"clear"}]

TypeOK == entry \in Entry /\ log \in Seq(Method)

Init == entry = Unrecorded /\ log = <<>>

Do(method, result) ==
    /\ Len(log) < MaxLog
    /\ log' = Append(log, method)
    /\ entry' = result

AdoptNotebook(path) == Do([op |-> "adopt", path |-> path], Adopt(entry, path))

Record(fps) == Do([op |-> "record", fps |-> fps], RecordCells(entry, fps))

CommitMap(fps) == Do([op |-> "commit", fps |-> fps], Commit(entry, fps))

Forget(keys) == Do([op |-> "forget", keys |-> keys], ForgetCells(entry, keys))

Clear == Do([op |-> "clear"], Unrecorded)

Next ==
    \/ \E path \in Paths : AdoptNotebook(path)
    \/ \E fps \in Observations : Record(fps) \/ CommitMap(fps)
    \/ \E keys \in SUBSET Keys \ {{}} : Forget(keys)
    \/ Clear

Spec == Init /\ [][Next]_vars
-----------------------------------------------------------------------------
(* The reference, from the log.  Times are positions in it.                *)

Times(ops) == {i \in DOMAIN log : log[i].op \in ops}

Latest(times) == IF times = {} THEN 0 ELSE Max(times)

(* Who owns the entry after the first i calls.                             *)
OwnerAfter(i) ==
    LET last == Latest({j \in Times({"adopt", "clear"}) : j <= i})
    IN  IF last = 0 \/ log[last].op = "clear" THEN None ELSE log[last].path

(* The last time the entry changed hands: cleared, or adopted for another  *)
(* notebook than the one it was recorded for.                              *)
Handover ==
    Latest(Times({"clear"})
           \cup {i \in Times({"adopt"}) : log[i].path # OwnerAfter(i - 1)})

Since(i, ops) == {j \in Times(ops) : j > i}

Reads(key) == {i \in Since(Handover, {"record"}) : log[i].fps[key] # None}

Forgets(key) == {i \in Since(Handover, {"forget"}) : key \in log[i].keys}

ReferenceBaseline(key) ==
    LET last == Latest(Reads(key))
    IN  IF last = 0 \/ \E i \in Forgets(key) : i > last THEN None
        ELSE log[last].fps[key]

ReferenceSnapshot(key) ==
    LET last == Latest(Reads(key) \cup Since(Handover, {"commit"}))
    IN  IF last = 0 \/ \E i \in Forgets(key) : i > last THEN None
        ELSE log[last].fps[key]

(* After any sequence of calls, a key's read baseline is its last          *)
(* full-source read for the current notebook unless it was deleted since,  *)
(* and its snapshot the last observation of either kind; a map preview     *)
(* never counts as a read, one cell's read never erases another's, and     *)
(* nothing recorded for one notebook outlives the move to another.         *)
EntryIsItsHistory ==
    /\ entry.owner = OwnerAfter(Len(log))
    /\ entry.observed = (Since(Handover, {"record", "commit"}) # {})
    /\ \A key \in Keys : /\ entry.baseline[key] = ReferenceBaseline(key)
                         /\ entry.snapshot[key] = ReferenceSnapshot(key)

(* get_cell_map stays quiet about an observation exactly when every cell   *)
(* is the one last observed, with the runtime state last observed where    *)
(* one was (a mutation's refresh records none), and says one thing at most *)
(* about each cell.                                                        *)
SameCell(old, new) ==
    \/ old = None /\ new = None
    \/ /\ old # None /\ new # None
       /\ old.code_hash = new.code_hash
       /\ old.state \in {None, new.state}

DiffExact ==
    \A fps \in Observations :
        LET change == Diff(entry, fps)
            lists  == <<change.new_cells, change.edited_cells,
                        change.removed_cells, change.state_changed>>
        IN  /\ \A key \in Keys :
                 SameCell(entry.snapshot[key], fps[key])
                   <=> \A i \in DOMAIN lists : key \notin lists[i]
            /\ \A i, j \in DOMAIN lists : i # j => lists[i] \cap lists[j] = {}
=============================================================================
