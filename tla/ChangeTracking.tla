--------------------------- MODULE ChangeTracking ---------------------------
(***************************************************************************)
(* The data type behind tools/change_tracking.py: what the process-wide    *)
(* ChangeTracker keeps for ONE session id, and what each of its methods    *)
(* makes of it.  Every method runs under the tracker's lock and touches    *)
(* the entry of one session id only, so each is a pure operator on that    *)
(* entry; the modules that own a tracker apply it to tracker[sid].         *)
(*                                                                         *)
(* An entry holds the two dimensions the source keeps apart: the read      *)
(* baseline (what the edit guard trusts) and the change-detection          *)
(* snapshot (what get_cell_map last observed), and the notebook path both  *)
(* were recorded for.                                                      *)
(***************************************************************************)
CONSTANTS
    Keys,       \* what a fingerprint may be filed under
    Hashes,     \* source hashes
    States,     \* runtime states of a cell
    Paths,      \* notebook paths; an unsaved notebook's "" is one of them
    None        \* Python's None: no fingerprint, no owner, no known state

Fingerprint == [code_hash: Hashes, state: States \cup {None}]

(* A dict of fingerprints, total over the keys it may have.                *)
Store == [Keys -> Fingerprint \cup {None}]

ASSUME TrackerAssumption ==
    /\ None \notin Fingerprint
    /\ None \notin Paths
    /\ None \notin States

Entry == [owner: Paths \cup {None},
          baseline: Store,
          observed: BOOLEAN,     \* a snapshot dict exists, perhaps an empty one
          snapshot: Store]

NoFingerprints == [key \in Keys |-> None]

(* clear_session: nothing is recorded for the id any more.                 *)
Unrecorded == [owner |-> None, baseline |-> NoFingerprints,
               observed |-> FALSE, snapshot |-> NoFingerprints]

(* Faulty variants of definitions, named Faulty..., sit before what they   *)
(* vary; no specification uses them.  A model with one in place of the     *)
(* original must break a property, which shows what the property is for.   *)

FaultyMerge(store, fps) ==      \* stores hashes instead of fingerprints
    [key \in Keys |-> IF fps[key] # None THEN fps[key].code_hash ELSE store[key]]

(* dict.update: the given fingerprints replace, the others stay.           *)
Merge(store, fps) ==
    [key \in Keys |-> IF fps[key] # None THEN fps[key] ELSE store[key]]

Without(store, keys) ==
    [key \in Keys |-> IF key \in keys THEN None ELSE store[key]]

FaultyAdopt(entry, path) ==     \* re-labels an entry, fingerprints and all
    [entry EXCEPT !.owner = path]

(* adopt_notebook: fingerprints survive only under the owner that          *)
(* recorded them; with any other owner, or none, both stores are dropped.  *)
Adopt(entry, path) ==
    IF entry.owner = path THEN entry ELSE [Unrecorded EXCEPT !.owner = path]

(* record_cells: a full-source read, merged into both stores.              *)
RecordCells(entry, fps) ==
    [entry EXCEPT !.baseline = Merge(entry.baseline, fps),
                  !.observed = TRUE,
                  !.snapshot = Merge(entry.snapshot, fps)]

FaultyCommit(entry, fps) ==     \* a preview counts as a read
    [entry EXCEPT !.observed = TRUE, !.snapshot = fps, !.baseline = fps]

(* commit: a map observation replaces the snapshot and leaves the          *)
(* baseline alone.                                                         *)
Commit(entry, fps) ==
    [entry EXCEPT !.observed = TRUE, !.snapshot = fps]

ForgetCells(entry, keys) ==
    [entry EXCEPT !.baseline = Without(entry.baseline, keys),
                  !.snapshot = Without(entry.snapshot, keys)]

(* diff: the current observation against the stored snapshot.  A           *)
(* fingerprint whose state is unknown never reports a state change.        *)
KeysOf(fps) == {key \in Keys : fps[key] # None}

FaultyDiff(entry, fps) ==       \* ignores sources, and that a state may be unknown
    LET old == KeysOf(entry.snapshot)
        now == KeysOf(fps)
    IN  [new_cells     |-> now \ old,
         removed_cells |-> old \ now,
         edited_cells  |-> {},
         state_changed |-> {key \in now \cap old :
                              fps[key].state # entry.snapshot[key].state}]

Diff(entry, fps) ==
    LET old  == KeysOf(entry.snapshot)
        now  == KeysOf(fps)
        moved(key) == fps[key].code_hash # entry.snapshot[key].code_hash
    IN  [new_cells     |-> now \ old,
         removed_cells |-> old \ now,
         edited_cells  |-> {key \in now \cap old : moved(key)},
         state_changed |-> {key \in now \cap old :
                              /\ ~moved(key)
                              /\ entry.snapshot[key].state # None
                              /\ fps[key].state # entry.snapshot[key].state}]
=============================================================================
