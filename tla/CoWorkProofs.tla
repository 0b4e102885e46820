---------------------------- MODULE CoWorkProofs ----------------------------
(***************************************************************************)
(* Theorems about CoWork, for any number of calls, sessions, notebooks,    *)
(* cells and sources.  First the tracker's operators, then types, then the *)
(* inductive invariant behind the trust of the edit guard.                 *)
(***************************************************************************)
EXTENDS CoWork, TLAPS

(* Every tracker operation yields a well-formed entry.                     *)
LEMMA NoFingerprintsType == NoFingerprints \in Store
  BY DEF NoFingerprints, Store

LEMMA UnrecordedType == Unrecorded \in Entry
  BY NoFingerprintsType DEF Unrecorded, Entry

LEMMA MergeType ==
  ASSUME NEW store \in Store, NEW fps \in Store
  PROVE  Merge(store, fps) \in Store
  BY DEF Merge, Store

LEMMA WithoutType ==
  ASSUME NEW store \in Store, NEW keys
  PROVE  Without(store, keys) \in Store
  BY DEF Without, Store

LEMMA AdoptType ==
  ASSUME NEW entry \in Entry, NEW path \in Paths
  PROVE  Adopt(entry, path) \in Entry
  BY UnrecordedType DEF Adopt, Entry

LEMMA RecordCellsType ==
  ASSUME NEW entry \in Entry, NEW fps \in Store
  PROVE  RecordCells(entry, fps) \in Entry
  <1>1. Merge(entry.baseline, fps) \in Store /\ Merge(entry.snapshot, fps) \in Store
    BY MergeType DEF Entry
  <1>2. QED
    BY <1>1 DEF RecordCells, Entry

LEMMA CommitType ==
  ASSUME NEW entry \in Entry, NEW fps \in Store
  PROVE  Commit(entry, fps) \in Entry
  BY DEF Commit, Entry

LEMMA ForgetCellsType ==
  ASSUME NEW entry \in Entry, NEW keys
  PROVE  ForgetCells(entry, keys) \in Entry
  <1>1. /\ Without(entry.baseline, keys) \in Store
        /\ Without(entry.snapshot, keys) \in Store
    BY WithoutType DEF Entry
  <1>2. QED
    BY <1>1 DEF ForgetCells, Entry

(* What the scratchpads return are stores of fingerprints.                 *)
LEMMA CellIsFingerprint == Cell \subseteq Fingerprint
  BY DEF Cell, Fingerprint

LEMMA MapOfType ==
  ASSUME NEW cells \in Source
  PROVE  MapOf(cells) \in Store
  BY CellIsFingerprint DEF MapOf, Source, Store

LEMMA HashesOfType ==
  ASSUME NEW cells \in Source
  PROVE  HashesOf(cells) \in Store
  <1>1. ASSUME NEW cell \in Cell
        PROVE  [cell EXCEPT !.state = None] \in Fingerprint
    BY DEF Cell, Fingerprint
  <1>2. QED
    BY <1>1 DEF HashesOf, Source, Store

LEMMA DataOfType ==
  ASSUME NEW cells \in Source, NEW ref \in Keys \cup {None}
  PROVE  DataOf(cells, ref) \in Store
  <1>1. CASE ref = None
    BY <1>1, MapOfType DEF DataOf
  <1>2. CASE ref # None
    <2>1. Denotes(ref) \in Cells
      BY <1>2, CoWorkAssumption DEF Denotes
    <2>2. cells[Denotes(ref)] \in Fingerprint \cup {None}
      BY <2>1, CellIsFingerprint DEF Source
    <2>3. QED
      BY <1>2, <2>2 DEF DataOf, Store
  <1>3. QED
    BY <1>1, <1>2

LEMMA OnlyType ==
  ASSUME NEW fps \in Store, NEW key \in Keys
  PROVE  Only(fps, key) \in Store
  BY NoFingerprintsType DEF Only, Store

LEMMA LearnedType ==
  ASSUME NEW path \in Paths, NEW fps \in Store, NEW way \in Ways
  PROVE  Learned(path, fps, way) \subseteq Knowledge
  <1>1. ASSUME NEW key \in KeysOf(fps)
        PROVE  key \in Keys /\ fps[key].code_hash \in Hashes
    BY DEF KeysOf, Store, Fingerprint
  <1>2. QED
    BY <1>1 DEF Learned, Knowledge

-----------------------------------------------------------------------------
(* What a call carries in each of its phases.                              *)
CallOK(call) ==
    /\ call.pc = "idle" => call.p = None /\ ~call.fresh
    /\ call.pc # "idle" =>
         call.op \in AllTools /\ call.sid \in SessionIds /\ call.s \in SessionIds
    /\ call.pc \in Working \cup {"repair"} => call.p \in Paths
    /\ call.pc # "idle" =>
         /\ call.op \in {"edit", "create"} => call.source \in Hashes
         /\ call.op \in {"edit", "delete"} => call.key \in Keys
    /\ call.pc \in {"exec", "deliver"} /\ call.op = "create" => call.key \in Keys
    /\ call.pc \in {"write", "refresh", "record"} =>
         call.op \in {"create", "edit", "delete"}
    /\ call.pc \in {"refresh", "record"} => call.key \in Keys
    /\ call.fresh => call.op = "edit"
    /\ call.pc \in Working \cup {"repair"} /\ call.bound # Unsaved =>
         call.p = call.bound
    /\ call.pc = "deliver" /\ call.op = "edit" =>
         \A key \in Names : call.fps[key] = None
    /\ call.pc = "write" /\ call.op = "edit" => call.key \in Cells

TypeInv == TypeOK /\ \A k \in Calls : CallOK(calls[k])

LEMMA IdleType == Idle \in Call /\ CallOK(Idle)
  BY NoFingerprintsType, CoWorkAssumption
  DEF Idle, Call, CallOK, Phases, AllTools, Working

(* Only one call moves at a time.                                          *)
LEMMA GotoType ==
  ASSUME TypeInv, NEW k \in Calls, NEW call \in Call, CallOK(call), Goto(k, call)
  PROVE  calls' \in [Calls -> Call] /\ \A j \in Calls : CallOK(calls'[j])
  BY DEF TypeInv, TypeOK, Goto

LEMMA ReturnType ==
  ASSUME TypeInv, NEW k \in Calls, Return(k)
  PROVE  calls' \in [Calls -> Call] /\ \A j \in Calls : CallOK(calls'[j])
  BY IdleType, GotoType DEF Return

LEMMA ResolvedType ==
  ASSUME NEW call \in Call, CallOK(call), call.pc \in {"resolve", "repair"},
         call.p \in Paths, call.bound \in {Unsaved, call.p}
  PROVE  Resolved(call) \in Call /\ CallOK(Resolved(call))
  <1>1. CASE call.op = "inspect"
    BY <1>1, IdleType DEF Resolved
  <1>2. CASE call.op # "inspect"
    <2> DEFINE next == IF call.op = "create" /\ call.key = None
                       THEN "write" ELSE "exec"
               res  == [call EXCEPT !.pc = next]
    <2>1. Resolved(call) = res
      BY <1>2 DEF Resolved
    <2>2. res \in Call
      BY DEF Call, Phases
    <2>3. CallOK(res)
      BY DEF CallOK, Call, Working, AllTools
    <2>4. QED
      BY <2>1, <2>2, <2>3
  <1>3. QED
    BY <1>1, <1>2

LEMMA PathAtType ==
  ASSUME TypeInv, NEW s \in SessionIds
  PROVE  PathAt(s) \in Paths \cup {None}
  BY CoWorkAssumption DEF PathAt, TypeInv, TypeOK

-----------------------------------------------------------------------------
(* One lemma per group of actions: types are preserved.                    *)

LEMMA BeginTypes ==
  ASSUME TypeInv, NEW k \in Calls, NEW op \in AllTools, NEW sid \in SessionIds,
         NEW bound \in Paths, NEW key \in Keys \cup {None},
         NEW source \in Hashes \cup {None}, NEW fresh \in BOOLEAN,
         Begin(k, op, sid, bound, key, source, fresh)
  PROVE  calls' \in [Calls -> Call] /\ \A j \in Calls : CallOK(calls'[j])
  <1> DEFINE call ==
        [pc |-> "resolve", op |-> op, sid |-> sid, bound |-> bound,
         s |-> sid, p |-> PathAt(sid), key |-> key, fresh |-> fresh,
         source |-> source, fps |-> NoFingerprints]
  <1>1. call \in Call
    BY PathAtType, NoFingerprintsType DEF Call, Phases
  <1>2. CallOK(call)
    BY CoWorkAssumption DEF Begin, CallOK, Working
  <1>3. Goto(k, call)
    BY DEF Begin
  <1> HIDE DEF call
  <1>4. QED
    BY <1>1, <1>2, <1>3, GotoType

LEMMA ResolveTypes ==
  ASSUME TypeInv, NEW k \in Calls, Resolve(k) \/ Repair(k)
  PROVE  /\ calls' \in [Calls -> Call] /\ \A j \in Calls : CallOK(calls'[j])
         /\ tracker' \in [SessionIds -> Entry]
  <1> DEFINE call == calls[k]
  <1>1. call \in Call /\ CallOK(call)
    BY DEF TypeInv, TypeOK
  <1>2. call.pc \in {"resolve", "repair"} /\ call.s \in SessionIds
    BY <1>1 DEF Resolve, Repair, At, CallOK
  <1>3. ASSUME Resolved(call) \in Call, CallOK(Resolved(call)),
               Goto(k, Resolved(call))
        PROVE  calls' \in [Calls -> Call] /\ \A j \in Calls : CallOK(calls'[j])
    BY <1>3, GotoType
  <1>4. CASE Resolve(k)
    <2>1. call.p \in Paths
      BY <1>1, <1>4 DEF Resolve, Call
    <2>2. CASE call.bound \notin {Unsaved, call.p}
      BY <1>4, <2>2, ReturnType DEF Resolve, TypeInv, TypeOK
    <2>3. CASE call.bound \in {Unsaved, call.p}
      <3>1. Goto(k, Resolved(call))
            /\ tracker' = [tracker EXCEPT ![call.s] = Adopt(@, call.p)]
        BY <1>4, <2>3 DEF Resolve
      <3>2. Resolved(call) \in Call /\ CallOK(Resolved(call))
        BY <1>1, <1>2, <2>1, <2>3, ResolvedType
      <3>3. Adopt(tracker[call.s], call.p) \in Entry
        BY <1>2, <2>1, AdoptType DEF TypeInv, TypeOK
      <3>4. QED
        BY <1>3, <3>1, <3>2, <3>3 DEF TypeInv, TypeOK
    <2>4. QED
      BY <2>2, <2>3
  <1>5. CASE Repair(k)
    <2>1. call.p \in Paths /\ call.sid \in SessionIds
          /\ call.bound \in {Unsaved, call.p}
      BY <1>1, <1>5 DEF Repair, At, CallOK
    <2>2. Resolved(call) \in Call /\ CallOK(Resolved(call))
      BY <1>1, <1>2, <2>1, ResolvedType
    <2> DEFINE cleared == [tracker EXCEPT ![call.sid] = Unrecorded]
    <2>3. cleared \in [SessionIds -> Entry]
      BY UnrecordedType DEF TypeInv, TypeOK
    <2>4. Adopt(cleared[call.s], call.p) \in Entry
      BY <1>2, <2>1, <2>3, AdoptType
    <2>5. tracker' = [cleared EXCEPT ![call.s] = Adopt(@, call.p)]
      BY <1>5 DEF Repair
    <2> HIDE DEF cleared
    <2>6. tracker' \in [SessionIds -> Entry]
      BY <2>3, <2>4, <2>5
    <2>7. QED
      BY <1>3, <1>5, <2>2, <2>6 DEF Repair
  <1>6. QED
    BY <1>4, <1>5

LEMMA RecensusTypes ==
  ASSUME TypeInv, NEW k \in Calls, Recensus(k)
  PROVE  calls' \in [Calls -> Call] /\ \A j \in Calls : CallOK(calls'[j])
  <1> DEFINE call == calls[k]
  <1>1. call \in Call /\ CallOK(call) /\ call.pc = "resolve"
    BY DEF TypeInv, TypeOK, Recensus, At
  <1>2. CASE Return(k)
    BY <1>2, ReturnType
  <1>3. ASSUME NEW t \in Rotated(k),
               Goto(k, [call EXCEPT !.pc = "repair", !.s = t, !.p = call.bound])
        PROVE  calls' \in [Calls -> Call] /\ \A j \in Calls : CallOK(calls'[j])
    <2> DEFINE next == [call EXCEPT !.pc = "repair", !.s = t, !.p = call.bound]
    <2>1. t \in SessionIds
      BY DEF Rotated
    <2>2. next \in Call
      BY <1>1, <2>1 DEF Call, Phases
    <2>3. CallOK(next)
      BY <1>1, <2>1 DEF Call, CallOK, Working
    <2> HIDE DEF next
    <2>4. QED
      BY <1>3, <2>2, <2>3, GotoType DEF next
  <1>4. QED
    BY <1>2, <1>3 DEF Recensus

(* A call that moves on with a new answer keeps what it carries.           *)
LEMMA MoveType ==
  ASSUME NEW call \in Call, CallOK(call), NEW pc \in Phases, NEW fps \in Store,
         call.pc \in Working, pc \in Working,
         pc \in {"exec", "deliver"} => call.pc \in {"exec", "deliver"},
         pc \in {"write", "refresh", "record"} =>
             call.op \in {"create", "edit", "delete"},
         pc \in {"refresh", "record"} => call.key \in Keys,
         pc = "deliver" /\ call.op = "edit" => \A key \in Names : fps[key] = None,
         pc = "write" /\ call.op = "edit" => call.key \in Cells
  PROVE  /\ [call EXCEPT !.pc = pc, !.fps = fps] \in Call
         /\ CallOK([call EXCEPT !.pc = pc, !.fps = fps])
  <1> DEFINE next == [call EXCEPT !.pc = pc, !.fps = fps]
  <1>1. next \in Call
    BY DEF Call
  <1>2. /\ next.pc = pc /\ next.op = call.op /\ next.sid = call.sid
        /\ next.s = call.s /\ next.p = call.p /\ next.key = call.key
        /\ next.fresh = call.fresh /\ next.source = call.source
        /\ next.bound = call.bound /\ next.fps = fps
    BY DEF Call
  <1> HIDE DEF next
  <1>3. CallOK(next)
    BY <1>2 DEF CallOK, Working
  <1>4. QED
    BY <1>1, <1>3 DEF next

LEMMA ServerCells ==
  ASSUME TypeInv, NEW s \in SessionIds, live[s] # None
  PROVE  live[s] \in Notebooks /\ doc[live[s]] \in Source
  BY DEF TypeInv, TypeOK

LEMMA ExecTypes ==
  ASSUME TypeInv, NEW k \in Calls, Exec(k)
  PROVE  calls' \in [Calls -> Call] /\ \A j \in Calls : CallOK(calls'[j])
  <1> DEFINE call  == calls[k]
             cells == doc[live[call.s]]
             fps   == CASE call.op = "map"  -> MapOf(cells)
                        [] call.op = "data" -> DataOf(cells, call.key)
                        [] OTHER            -> HashesOf(cells)
  <1>1. call \in Call /\ CallOK(call) /\ call.pc = "exec"
        /\ call.s \in SessionIds
    BY DEF TypeInv, TypeOK, Exec, At, CallOK
  <1>2. cells \in Source
    BY <1>1, ServerCells DEF Exec
  <1>3. /\ MapOf(cells) \in Store
        /\ DataOf(cells, call.key) \in Store
        /\ HashesOf(cells) \in Store
    BY <1>1, <1>2, MapOfType, DataOfType, HashesOfType DEF Call
  <1>4. fps \in Store
    BY <1>3
  <1>5. Goto(k, [call EXCEPT !.pc = "deliver", !.fps = fps])
    BY DEF Exec
  <1>6. call.op = "edit" => \A key \in Names : fps[key] = None
    BY CoWorkAssumption DEF HashesOf
  <1> HIDE DEF fps
  <1>7. QED
    BY <1>1, <1>4, <1>5, <1>6, MoveType, GotoType DEF Phases, Working

LEMMA GuardTypes ==
  ASSUME TypeInv, NEW k \in Calls, Guard(k) \/ Validate(k) \/ RefreshRead(k)
  PROVE  calls' \in [Calls -> Call] /\ \A j \in Calls : CallOK(calls'[j])
  <1> DEFINE call == calls[k]
  <1>1. call \in Call /\ CallOK(call) /\ call.fps \in Store
    BY DEF TypeInv, TypeOK, Call
  <1>2. CASE Return(k)
    BY <1>2, ReturnType
  <1>3. ASSUME Guard(k), ~Return(k)
        PROVE  calls' \in [Calls -> Call] /\ \A j \in Calls : CallOK(calls'[j])
    <2>1. call.pc = "deliver" /\ call.op = "edit" /\ call.key \in Keys
      BY <1>1, <1>3 DEF Guard, At, CallOK
    <2>2. Only(call.fps, call.key) \in Store
      BY <1>1, <2>1, OnlyType
    <2>3. Goto(k, [call EXCEPT !.pc = "write", !.fps = Only(call.fps, call.key)])
      BY <1>3 DEF Guard
    <2>4. call.key \in Cells
      BY <1>1, <1>3, <2>1, CoWorkAssumption DEF Guard, UnknownCell, CallOK
    <2>5. QED
      BY <1>1, <2>1, <2>2, <2>3, <2>4, MoveType, GotoType DEF Phases, Working
  <1>4. ASSUME Validate(k), ~Return(k)
        PROVE  calls' \in [Calls -> Call] /\ \A j \in Calls : CallOK(calls'[j])
    <2>1. call.pc = "deliver" /\ call.op \in {"create", "delete"}
      BY <1>4 DEF Validate, At
    <2>2. Goto(k, [call EXCEPT !.pc = "write", !.fps = NoFingerprints])
      BY <1>4 DEF Validate
    <2>3. QED
      BY <1>1, <2>1, <2>2, NoFingerprintsType, MoveType, GotoType
      DEF Phases, Working
  <1>5. ASSUME RefreshRead(k)
        PROVE  calls' \in [Calls -> Call] /\ \A j \in Calls : CallOK(calls'[j])
    <2> DEFINE fps == Touched(HashesOf(doc[live[call.s]]), call.key)
    <2>1. call.pc = "refresh" /\ call.s \in SessionIds /\ call.key \in Keys
      BY <1>1, <1>5 DEF RefreshRead, At, CallOK
    <2>2. fps \in Store
      BY <1>5, <2>1, ServerCells, HashesOfType, OnlyType DEF RefreshRead, Touched
    <2>3. Goto(k, [call EXCEPT !.pc = "record", !.fps = fps])
      BY <1>5 DEF RefreshRead
    <2>4. call.op \in {"create", "edit", "delete"}
      BY <1>1, <2>1 DEF CallOK
    <2> HIDE DEF fps
    <2>5. QED
      BY <1>1, <2>1, <2>2, <2>3, <2>4, MoveType, GotoType DEF Phases, Working
  <1>6. QED
    BY <1>2, <1>3, <1>4, <1>5

LEMMA WrittenType ==
  ASSUME TypeInv, NEW k \in Calls, NEW call \in Call, CallOK(call),
         call.pc = "write", call.key \in Keys, Written(k, call)
  PROVE  calls' \in [Calls -> Call] /\ \A j \in Calls : CallOK(calls'[j])
  <1>1. CASE Return(k)
    BY <1>1, ReturnType
  <1>2. CASE Goto(k, [call EXCEPT !.pc = "refresh", !.fps = NoFingerprints])
    <2>1. call.op \in {"create", "edit", "delete"}
      BY DEF CallOK
    <2>2. QED
      BY <1>2, <2>1, NoFingerprintsType, MoveType, GotoType DEF Phases, Working
  <1>3. QED
    BY <1>1, <1>2 DEF Written

LEMMA PutCellType ==
  ASSUME TypeInv, NEW n \in Notebooks, NEW c, NEW cell \in Cell \cup {None},
         PutCell(n, c, cell)
  PROVE  doc' \in [Notebooks -> Source]
  BY DEF TypeInv, TypeOK, PutCell, Source

LEMMA WriteTypes ==
  ASSUME TypeInv, NEW k \in Calls,
         WriteEdit(k) \/ WriteCreate(k) \/ WriteDelete(k)
  PROVE  TypeInv'
  <1> DEFINE call == calls[k]
             n    == live[call.s]
  <1>1. call \in Call /\ CallOK(call) /\ call.pc = "write"
        /\ call.s \in SessionIds /\ call.p \in Paths
    BY DEF TypeInv, TypeOK, WriteEdit, WriteCreate, WriteDelete, At, CallOK,
           Working
  <1>2. n \in Notebooks
    BY <1>1, ServerCells DEF WriteEdit, WriteCreate, WriteDelete
  <1>3. ASSUME call.source \in Hashes, NEW state \in States
        PROVE  [code_hash |-> call.source, state |-> state] \in Cell
    BY <1>3 DEF Cell
  <1>4. ASSUME call.source \in Hashes, NEW c \in Keys
        PROVE  Authored(call, c) \subseteq Knowledge
    BY <1>1, <1>4 DEF Authored, Knowledge, Ways
  <1>5. CASE WriteEdit(k)
    <2>1. call.source \in Hashes /\ call.key \in Keys
      BY <1>1, <1>5 DEF WriteEdit, CallOK
    <2>2. doc' \in [Notebooks -> Source]
      BY <1>2, <1>3, <1>5, <2>1, PutCellType DEF WriteEdit
    <2>3. calls' \in [Calls -> Call] /\ \A j \in Calls : CallOK(calls'[j])
      BY <1>1, <1>5, <2>1, WrittenType DEF WriteEdit
    <2>4. known' \subseteq Knowledge
      BY <1>4, <1>5, <2>1 DEF WriteEdit, TypeInv, TypeOK
    <2>5. QED
      BY <1>5, <2>2, <2>3, <2>4 DEF WriteEdit, TypeInv, TypeOK
  <1>6. CASE WriteCreate(k)
    <2>1. call.source \in Hashes
      BY <1>1, <1>6 DEF WriteCreate, CallOK
    <2>2. PICK c \in Cells, state \in States :
            /\ PutCell(n, c, [code_hash |-> call.source, state |-> state])
            /\ Written(k, [call EXCEPT !.key = c])
            /\ known' = known \cup Authored(call, c)
      BY <1>6 DEF WriteCreate
    <2>3. c \in Keys
      BY CoWorkAssumption
    <2>4. doc' \in [Notebooks -> Source]
      BY <1>2, <1>3, <2>1, <2>2, PutCellType
    <2> DEFINE next == [call EXCEPT !.key = c]
    <2>5. next \in Call /\ CallOK(next) /\ next.pc = "write" /\ next.key \in Keys
      BY <1>1, <2>3 DEF Call, CallOK, Working
    <2> HIDE DEF next
    <2>6. calls' \in [Calls -> Call] /\ \A j \in Calls : CallOK(calls'[j])
      BY <2>2, <2>5, WrittenType DEF next
    <2>7. known' \subseteq Knowledge
      BY <1>4, <2>1, <2>2, <2>3 DEF TypeInv, TypeOK
    <2>8. QED
      BY <1>6, <2>4, <2>6, <2>7 DEF WriteCreate, TypeInv, TypeOK
  <1>7. CASE WriteDelete(k)
    <2>1. call.key \in Keys
      BY <1>1, <1>7 DEF WriteDelete, CallOK
    <2>2. doc' \in [Notebooks -> Source]
      BY <1>2, <1>7, PutCellType DEF WriteDelete
    <2>3. calls' \in [Calls -> Call] /\ \A j \in Calls : CallOK(calls'[j])
      BY <1>1, <1>7, <2>1, WrittenType DEF WriteDelete
    <2>4. QED
      BY <1>7, <2>2, <2>3 DEF WriteDelete, TypeInv, TypeOK
  <1>8. QED
    BY <1>5, <1>6, <1>7

LEMMA AnswerTypes ==
  ASSUME TypeInv, NEW k \in Calls,
         DeliverMap(k) \/ DeliverData(k) \/ Record(k)
  PROVE  TypeInv'
  <1> DEFINE call == calls[k]
             entry == tracker[call.s]
  <1>1. /\ call \in Call /\ CallOK(call) /\ call.pc \in {"deliver", "record"}
        /\ call.s \in SessionIds /\ call.p \in Paths /\ call.fps \in Store
    BY DEF TypeInv, TypeOK, DeliverMap, DeliverData, Record, At, Call, CallOK,
           Working
  <1>2. entry \in Entry
    BY <1>1 DEF TypeInv, TypeOK
  <1>3. calls' \in [Calls -> Call] /\ \A j \in Calls : CallOK(calls'[j])
    BY ReturnType DEF DeliverMap, DeliverData, Record
  <1>4. /\ Commit(entry, call.fps) \in Entry
        /\ RecordCells(entry, call.fps) \in Entry
        /\ Touch(entry, call) \in Entry
    BY <1>1, <1>2, CommitType, RecordCellsType, ForgetCellsType DEF Touch
  <1>5. tracker' \in [SessionIds -> Entry]
    BY <1>1, <1>4 DEF DeliverMap, DeliverData, Record, TypeInv, TypeOK
  <1>6. \A way \in Ways : Learned(call.p, call.fps, way) \subseteq Knowledge
    BY <1>1, LearnedType
  <1>7. known' \subseteq Knowledge
    BY <1>6 DEF DeliverMap, DeliverData, Record, TypeInv, TypeOK, Ways
  <1>8. QED
    BY <1>3, <1>5, <1>7 DEF DeliverMap, DeliverData, Record, TypeInv, TypeOK

(* What humans and the server do, and a restart of the client.             *)
LEMMA EnvironmentTypes ==
  ASSUME TypeInv,
         \/ \E n \in Notebooks, c \in Cells : HumanChange(n, c)
         \/ \E s \in SessionIds, n \in Notebooks : Open(s, n)
         \/ \E s \in SessionIds : Close(s)
         \/ \E s, t \in SessionIds : Rekey(s, t)
         \/ Restart
  PROVE  TypeInv'
  <1>1. ASSUME NEW n \in Notebooks, NEW c \in Cells, HumanChange(n, c)
        PROVE  TypeInv'
    <2>1. doc' \in [Notebooks -> Source]
      BY <1>1, PutCellType DEF HumanChange
    <2>2. QED
      BY <1>1, <2>1 DEF HumanChange, TypeInv, TypeOK
  <1>2. ASSUME NEW s \in SessionIds, NEW n \in Notebooks, Open(s, n)
        PROVE  TypeInv'
    BY <1>2 DEF Open, TypeInv, TypeOK
  <1>3. ASSUME NEW s \in SessionIds, Close(s)
        PROVE  TypeInv'
    BY <1>3 DEF Close, TypeInv, TypeOK
  <1>4. ASSUME NEW s \in SessionIds, NEW t \in SessionIds, Rekey(s, t)
        PROVE  TypeInv'
    BY <1>4 DEF Rekey, TypeInv, TypeOK
  <1>5. CASE Restart
    BY <1>5, UnrecordedType, IdleType DEF Restart, TypeInv, TypeOK
  <1>6. QED
    BY <1>1, <1>2, <1>3, <1>4, <1>5

LEMMA CallTypes ==
  ASSUME TypeInv, NEW k \in Calls, Step(k) \/ Fail(k)
  PROVE  TypeInv'
  <1>1. CASE Resolve(k) \/ Repair(k)
    BY <1>1, ResolveTypes DEF Resolve, Repair, TypeInv, TypeOK
  <1>2. CASE Recensus(k)
    BY <1>2, RecensusTypes DEF Recensus, TypeInv, TypeOK
  <1>3. CASE Exec(k)
    BY <1>3, ExecTypes DEF Exec, TypeInv, TypeOK
  <1>4. CASE Guard(k) \/ Validate(k) \/ RefreshRead(k)
    BY <1>4, GuardTypes DEF Guard, Validate, RefreshRead, TypeInv, TypeOK
  <1>5. CASE Fail(k)
    BY <1>5, ReturnType DEF Fail, TypeInv, TypeOK
  <1>6. QED
    BY <1>1, <1>2, <1>3, <1>4, <1>5, WriteTypes, AnswerTypes DEF Step

LEMMA TypeInvStep == TypeInv /\ [Next]_vars => TypeInv'
  <1> SUFFICES ASSUME TypeInv, [Next]_vars
               PROVE  TypeInv'
    OBVIOUS
  <1>1. ASSUME NEW k \in Calls, NEW op \in Tools, NEW sid \in SessionIds,
               NEW bound \in Paths, NEW key \in Keys \cup {None},
               NEW source \in Hashes \cup {None}, NEW fresh \in BOOLEAN,
               begun' = begun + 1,
               Begin(k, op, sid, bound, key, source, fresh)
        PROVE  TypeInv'
    <2>1. op \in AllTools
      BY CoWorkAssumption
    <2>2. QED
      BY <1>1, <2>1, BeginTypes DEF Begin, TypeInv, TypeOK
  <1>2. CASE UNCHANGED vars
    BY <1>2 DEF vars, TypeInv, TypeOK
  <1>3. QED
    BY <1>1, <1>2, CallTypes, EnvironmentTypes DEF Next

LEMMA TypeInvInit == Init => TypeInv
  BY UnrecordedType, IdleType DEF Init, TypeInv, TypeOK

(* Types hold for ever, and every call carries what its phase needs: no    *)
(* step of a tool reads a session, path, cell or source it never got.      *)
THEOREM TypeCorrect == Spec => []TypeOK
  <1>1. TypeInv => TypeOK
    BY DEF TypeInv
  <1>2. QED
    BY <1>1, TypeInvInit, TypeInvStep, PTL DEF Spec
-----------------------------------------------------------------------------
(* Entries stay among the facts whatever the tracker does with them.       *)

LEMMA KnownMonotone ==
  ASSUME NEW facts, NEW more, facts \subseteq more, NEW entry, NEW path,
         EntryKnown(facts, entry, path)
  PROVE  EntryKnown(more, entry, path)
  BY DEF EntryKnown, KnownIn

LEMMA UnrecordedKnown ==
  ASSUME NEW facts, NEW path
  PROVE  EntryKnown(facts, Unrecorded, path)
  BY DEF EntryKnown, Unrecorded, NoFingerprints

(* adopt_notebook: what survives was recorded for the same notebook.       *)
LEMMA AdoptKnown ==
  ASSUME NEW facts, NEW entry \in Entry, NEW path \in Paths,
         entry.owner # None => EntryKnown(facts, entry, entry.owner)
  PROVE  /\ Adopt(entry, path).owner = path
         /\ EntryKnown(facts, Adopt(entry, path), path)
  <1>1. path # None
    BY TrackerAssumption
  <1>2. CASE entry.owner = path
    BY <1>1, <1>2 DEF Adopt
  <1>3. CASE entry.owner # path
    <2>1. Adopt(entry, path) = [Unrecorded EXCEPT !.owner = path]
      BY <1>3 DEF Adopt
    <2>2. QED
      BY <2>1 DEF EntryKnown, Unrecorded, NoFingerprints
  <1>4. QED
    BY <1>2, <1>3

(* Merging an answer the agent got adds only what it thereby knows.        *)
LEMMA RecordCellsKnown ==
  ASSUME NEW facts, NEW entry \in Entry, NEW fps \in Store, NEW path,
         NEW way \in Sourced, EntryKnown(facts, entry, path),
         Learned(path, fps, way) \subseteq facts
  PROVE  /\ RecordCells(entry, fps).owner = entry.owner
         /\ EntryKnown(facts, RecordCells(entry, fps), path)
  <1> DEFINE new == RecordCells(entry, fps)
  <1>1. /\ new.owner = entry.owner
        /\ new.baseline = Merge(entry.baseline, fps)
        /\ new.snapshot = Merge(entry.snapshot, fps)
    BY DEF RecordCells, Entry
  <1>2. ASSUME NEW key \in Keys, fps[key] # None
        PROVE  /\ KnownIn(facts, path, key, fps[key].code_hash, Sourced)
               /\ KnownIn(facts, path, key, fps[key].code_hash, Ways)
    <2>1. [path |-> path, key |-> key, hash |-> fps[key].code_hash,
           way |-> way] \in facts
      BY <1>2 DEF Learned, KeysOf
    <2>2. QED
      BY <2>1 DEF KnownIn, Sourced, Ways
  <1> HIDE DEF new
  <1>3. EntryKnown(facts, new, path)
    BY <1>1, <1>2 DEF EntryKnown, Merge
  <1>4. QED
    BY <1>1, <1>3 DEF new

LEMMA CommitKnown ==
  ASSUME NEW facts, NEW entry \in Entry, NEW fps \in Store, NEW path,
         EntryKnown(facts, entry, path),
         Learned(path, fps, "preview") \subseteq facts
  PROVE  /\ Commit(entry, fps).owner = entry.owner
         /\ EntryKnown(facts, Commit(entry, fps), path)
  <1> DEFINE new == Commit(entry, fps)
  <1>1. /\ new.owner = entry.owner
        /\ new.baseline = entry.baseline
        /\ new.snapshot = fps
    BY DEF Commit, Entry
  <1>2. ASSUME NEW key \in Keys, fps[key] # None
        PROVE  KnownIn(facts, path, key, fps[key].code_hash, Ways)
    <2>1. [path |-> path, key |-> key, hash |-> fps[key].code_hash,
           way |-> "preview"] \in facts
      BY <1>2 DEF Learned, KeysOf
    <2>2. QED
      BY <2>1 DEF KnownIn, Ways
  <1> HIDE DEF new
  <1>3. EntryKnown(facts, new, path)
    BY <1>1, <1>2 DEF EntryKnown
  <1>4. QED
    BY <1>1, <1>3 DEF new

LEMMA ForgetCellsKnown ==
  ASSUME NEW facts, NEW entry \in Entry, NEW keys, NEW path,
         EntryKnown(facts, entry, path)
  PROVE  /\ ForgetCells(entry, keys).owner = entry.owner
         /\ EntryKnown(facts, ForgetCells(entry, keys), path)
  <1> DEFINE new == ForgetCells(entry, keys)
  <1>1. /\ new.owner = entry.owner
        /\ new.baseline = Without(entry.baseline, keys)
        /\ new.snapshot = Without(entry.snapshot, keys)
    BY DEF ForgetCells, Entry
  <1> HIDE DEF new
  <1>2. EntryKnown(facts, new, path)
    BY <1>1 DEF EntryKnown, Without
  <1>3. QED
    BY <1>1, <1>2 DEF new

-----------------------------------------------------------------------------
(* The parts of the invariant under the moves of one call.                 *)

(* A call may drop its session and path, keep them, or take a session with *)
(* the path the server has for it.                                         *)
LEMMA BindingsMove ==
  ASSUME TypeInv, Bindings, UNCHANGED live, NEW k \in Calls, NEW call \in Call,
         Goto(k, call),
         \/ call.p = None
         \/ call.s = calls[k].s /\ call.p = calls[k].p
         \/ call.s \in SessionIds /\ call.p = PathAt(call.s)
  PROVE  Bindings'
  <1>1. /\ calls'[k] = call
        /\ \A j \in Calls : j # k => calls'[j] = calls[j]
    BY DEF Goto, TypeInv, TypeOK
  <1>2. \A s : PathAt(s)' = PathAt(s)
    BY DEF PathAt
  <1>3. call.p # None => PathAt(call.s) \in {None, call.p}
    BY DEF Bindings, NotReused
  <1>4. NotReused'
    BY <1>1, <1>2, <1>3 DEF Bindings, NotReused
  <1>5. ASSUME NEW j \in Calls, j # k, calls[j].s = call.s,
               calls[j].p # None, call.p # None
        PROVE  calls[j].p = call.p
    BY <1>5 DEF Bindings, NotReused, Agreement
  <1>6. Agreement'
    BY <1>1, <1>5 DEF Bindings, Agreement
  <1>7. QED
    BY <1>4, <1>6 DEF Bindings

(* A step that leaves the tracker alone.                                   *)
LEMMA EntriesMove ==
  ASSUME TypeInv, Entries, UNCHANGED tracker, known \subseteq known',
         NEW k \in Calls, NEW call \in Call, Goto(k, call),
         call.pc \in Working =>
             /\ calls[k].pc \in Working
             /\ call.s = calls[k].s
             /\ call.p = calls[k].p
  PROVE  Entries'
  <1>1. /\ calls'[k] = call
        /\ \A j \in Calls : j # k => calls'[j] = calls[j]
    BY DEF Goto, TypeInv, TypeOK
  <1>2. OwnerKept'
    BY <1>1 DEF Entries, OwnerKept
  <1>3. OwnersKnow'
    BY KnownMonotone DEF Entries, OwnersKnow
  <1>4. WorkersKnow'
    BY <1>1, KnownMonotone DEF Entries, WorkersKnow
  <1>5. QED
    BY <1>2, <1>3, <1>4 DEF Entries

(* An answer merged into the entry of the call's session, its owner kept.  *)
LEMMA EntriesUpdate ==
  ASSUME TypeInv, Agreement, Entries, known \subseteq known',
         NEW k \in Calls, Return(k), calls[k].pc \in Working,
         NEW new \in Entry,
         tracker' = [tracker EXCEPT ![calls[k].s] = new],
         new.owner = tracker[calls[k].s].owner,
         EntryKnown(known', new, calls[k].p)
  PROVE  Entries'
  <1> DEFINE s == calls[k].s
             p == calls[k].p
  <1>1. s \in SessionIds /\ p \in Paths /\ p # None
    BY TrackerAssumption DEF TypeInv, TypeOK, CallOK, Working
  <1>2. /\ calls'[k] = Idle
        /\ \A j \in Calls : j # k => calls'[j] = calls[j]
    BY DEF Return, Goto, TypeInv, TypeOK
  <1>3. /\ tracker'[s] = new
        /\ \A t \in SessionIds : t # s => tracker'[t] = tracker[t]
    BY <1>1 DEF TypeInv, TypeOK
  <1>4. ASSUME NEW j \in Calls, calls'[j].pc \in Working
        PROVE  /\ calls'[j] = calls[j]
               /\ calls[j].s \in SessionIds
               /\ calls[j].s = s => calls[j].p = p
    <2>1. j # k
      BY <1>2, <1>4 DEF Idle, Working
    <2>2. calls'[j] = calls[j] /\ calls[j].pc \in Working
      BY <1>2, <1>4, <2>1
    <2>3. calls[j].p \in Paths /\ calls[j].s \in SessionIds
      BY <2>2 DEF TypeInv, CallOK, Working
    <2>4. QED
      BY <1>1, <2>2, <2>3, TrackerAssumption DEF Agreement
  <1>5. OwnerKept'
    BY <1>3, <1>4 DEF Entries, OwnerKept
  <1>6. OwnersKnow'
    <2>1. tracker[s].owner \in {None, p}
      BY DEF Entries, OwnerKept
    <2>2. ASSUME NEW t \in SessionIds, tracker'[t].owner # None
          PROVE  EntryKnown(known', tracker'[t], tracker'[t].owner)
      <3>1. CASE t = s
        BY <1>3, <2>1, <2>2, <3>1
      <3>2. CASE t # s
        <4>1. EntryKnown(known, tracker[t], tracker[t].owner)
          BY <1>3, <2>2, <3>2 DEF Entries, OwnersKnow
        <4>2. QED
          BY <1>3, <3>2, <4>1, KnownMonotone
      <3>3. QED
        BY <3>1, <3>2
    <2>3. QED
      BY <2>2 DEF OwnersKnow
  <1>7. WorkersKnow'
    <2>1. ASSUME NEW j \in Calls, calls'[j].pc \in Working
          PROVE  EntryKnown(known', tracker'[calls'[j].s], calls'[j].p)
      <3>1. CASE calls[j].s = s
        BY <1>3, <1>4, <2>1, <3>1
      <3>2. CASE calls[j].s # s
        <4>1. EntryKnown(known, tracker[calls[j].s], calls[j].p)
          BY <1>4, <2>1 DEF Entries, WorkersKnow
        <4>2. QED
          BY <1>3, <1>4, <2>1, <3>2, <4>1, KnownMonotone
      <3>3. QED
        BY <3>1, <3>2
    <2>2. QED
      BY <2>1 DEF WorkersKnow
  <1>8. QED
    BY <1>5, <1>6, <1>7 DEF Entries

(* A session attributed to the notebook a call resolved it to; a repair    *)
(* has cleared another entry first.                                        *)
LEMMA EntriesAdopt ==
  ASSUME TypeInv, Agreement, Entries, UNCHANGED known,
         NEW k \in Calls, NEW call \in Call, Goto(k, call),
         call.pc \in Working =>
             call.s = calls[k].s /\ call.p = calls[k].p,
         calls[k].s \in SessionIds, calls[k].p \in Paths,
         NEW before \in [SessionIds -> Entry],
         \A s \in SessionIds : before[s] \in {tracker[s], Unrecorded},
         tracker' = [before EXCEPT ![calls[k].s] = Adopt(@, calls[k].p)]
  PROVE  Entries'
  <1> DEFINE s == calls[k].s
             p == calls[k].p
  <1>1. /\ calls'[k] = call
        /\ \A j \in Calls : j # k => calls'[j] = calls[j]
    BY DEF Goto, TypeInv, TypeOK
  <1>2. /\ tracker'[s] = Adopt(before[s], p)
        /\ \A t \in SessionIds : t # s => tracker'[t] = before[t]
    OBVIOUS
  <1>3. ASSUME NEW t \in SessionIds, NEW path, EntryKnown(known, tracker[t], path)
        PROVE  EntryKnown(known, before[t], path)
    BY <1>3, UnrecordedKnown
  <1>4. ASSUME NEW t \in SessionIds, before[t].owner # None
        PROVE  before[t] = tracker[t] /\ EntryKnown(known, before[t], before[t].owner)
    BY <1>4 DEF Unrecorded, Entries, OwnersKnow
  <1>5. /\ tracker'[s].owner = p
        /\ EntryKnown(known, tracker'[s], p)
    <2>1. before[s] \in Entry
      OBVIOUS
    <2>2. before[s].owner # None => EntryKnown(known, before[s], before[s].owner)
      BY <1>4
    <2>3. Adopt(before[s], p).owner = p /\ EntryKnown(known, Adopt(before[s], p), p)
      BY <2>1, <2>2, AdoptKnown
    <2>4. QED
      BY <1>2, <2>3
  <1>6. ASSUME NEW j \in Calls, calls'[j].pc \in Working
        PROVE  /\ calls'[j].s \in SessionIds
               /\ calls'[j].s = s => calls'[j].p = p
               /\ calls'[j].s # s => calls[j].pc \in Working /\ calls'[j] = calls[j]
    <2>1. CASE j = k
      BY <1>1, <1>6, <2>1
    <2>2. CASE j # k
      <3>1. calls'[j] = calls[j] /\ calls[j].pc \in Working
        BY <1>1, <1>6, <2>2
      <3>2. calls[j].p \in Paths /\ calls[j].s \in SessionIds
        BY <3>1 DEF TypeInv, CallOK, Working
      <3>3. QED
        BY <3>1, <3>2, TrackerAssumption DEF Agreement
    <2>3. QED
      BY <2>1, <2>2
  <1>7. OwnerKept'
    <2>1. ASSUME NEW j \in Calls, calls'[j].pc \in Working
          PROVE  tracker'[calls'[j].s].owner \in {None, calls'[j].p}
      <3>1. CASE calls'[j].s = s
        BY <1>5, <1>6, <2>1, <3>1
      <3>2. CASE calls'[j].s # s
        <4>1. tracker[calls[j].s].owner \in {None, calls[j].p}
          BY <1>6, <2>1, <3>2 DEF Entries, OwnerKept
        <4>2. before[calls[j].s].owner \in {None, calls[j].p}
          BY <1>4, <1>6, <2>1, <3>2, <4>1
        <4>3. QED
          BY <1>2, <1>6, <2>1, <3>2, <4>2
      <3>3. QED
        BY <3>1, <3>2
    <2>2. QED
      BY <2>1 DEF OwnerKept
  <1>8. OwnersKnow'
    BY <1>2, <1>4, <1>5 DEF OwnersKnow
  <1>9. WorkersKnow'
    <2>1. ASSUME NEW j \in Calls, calls'[j].pc \in Working
          PROVE  EntryKnown(known, tracker'[calls'[j].s], calls'[j].p)
      <3>1. CASE calls'[j].s = s
        BY <1>5, <1>6, <2>1, <3>1
      <3>2. CASE calls'[j].s # s
        <4>1. EntryKnown(known, tracker[calls[j].s], calls[j].p)
          BY <1>6, <2>1, <3>2 DEF Entries, WorkersKnow
        <4>2. QED
          BY <1>2, <1>3, <1>6, <2>1, <3>2, <4>1
      <3>3. QED
        BY <3>1, <3>2
    <2>2. QED
      BY <2>1 DEF WorkersKnow
  <1>10. QED
    BY <1>7, <1>8, <1>9 DEF Entries

(* The answers other calls hold stay what they were.                       *)
LEMMA AnswersMove ==
  ASSUME TypeInv, Answers, known \subseteq known',
         NEW k \in Calls, NEW call \in Call, Goto(k, call),
         call.pc = "record" =>
             \A key \in Keys \ {call.key} : call.fps[key] = None,
         call.pc = "write" /\ call.fresh =>
             KnownIn(known', call.p, call.key,
                     call.fps[call.key].code_hash, Sourced)
  PROVE  Answers'
  <1>1. /\ calls'[k] = call
        /\ \A j \in Calls : j # k => calls'[j] = calls[j]
    BY DEF Goto, TypeInv, TypeOK
  <1>2. RefreshTouchesOne'
    BY <1>1 DEF Answers, RefreshTouchesOne, At
  <1>3. GuardTrust'
    <2>1. ASSUME NEW j \in Calls, calls'[j].pc = "write", calls'[j].fresh
          PROVE  KnownIn(known', calls'[j].p, calls'[j].key,
                         calls'[j].fps[calls'[j].key].code_hash, Sourced)
      <3>1. CASE j = k
        BY <1>1, <2>1, <3>1
      <3>2. CASE j # k
        <4>1. KnownIn(known, calls[j].p, calls[j].key,
                      calls[j].fps[calls[j].key].code_hash, Sourced)
          BY <1>1, <2>1, <3>2 DEF Answers, GuardTrust, At, Knows
        <4>2. QED
          BY <1>1, <3>2, <4>1 DEF KnownIn
      <3>3. QED
        BY <3>1, <3>2
    <2>2. QED
      BY <2>1 DEF GuardTrust, At, Knows
  <1>4. QED
    BY <1>2, <1>3 DEF Answers

(* What a step of a call keeps, and what it needs for that: beyond the     *)
(* entries and the answers, only that the calls agree about the sessions   *)
(* they share.  That the server re-uses no id matters to Bindings alone.   *)
Trusting == Agreement /\ Entries /\ Answers

TrustKept == Entries' /\ Answers' /\ (NotReused => Bindings')

(* A call that ends takes nothing with it.                                 *)
LEMMA ReturnTrust ==
  ASSUME TypeInv, Trusting, UNCHANGED <<live, tracker>>, known \subseteq known',
         NEW k \in Calls, Return(k)
  PROVE  TrustKept
  <1>1. /\ Goto(k, Idle)
        /\ Idle \in Call
        /\ Idle.p = None
        /\ Idle.pc = "idle"
    BY IdleType DEF Return, Idle
  <1>2. QED
    BY <1>1, BindingsMove, EntriesMove, AnswersMove
    DEF Trusting, TrustKept, Bindings, Working

(* A call that moves on, within its session, with an answer of its own.    *)
LEMMA MoveTrust ==
  ASSUME TypeInv, Trusting, UNCHANGED <<live, tracker>>, known \subseteq known',
         NEW k \in Calls, NEW call \in Call, Goto(k, call),
         calls[k].pc \in Working, call.pc \in Working,
         call.s = calls[k].s, call.p = calls[k].p,
         call.pc = "record" =>
             \A key \in Keys \ {call.key} : call.fps[key] = None,
         call.pc = "write" /\ call.fresh =>
             KnownIn(known', call.p, call.key,
                     call.fps[call.key].code_hash, Sourced)
  PROVE  TrustKept
  BY BindingsMove, EntriesMove, AnswersMove DEF Trusting, TrustKept, Bindings

-----------------------------------------------------------------------------
(* One lemma per group of actions: the trust invariant is preserved.       *)

LEMMA BeginTrust ==
  ASSUME TypeInv, Trusting, NEW k \in Calls, NEW op \in AllTools,
         NEW sid \in SessionIds, NEW bound \in Paths,
         NEW key \in Keys \cup {None}, NEW source \in Hashes \cup {None},
         NEW fresh \in BOOLEAN, Begin(k, op, sid, bound, key, source, fresh)
  PROVE  TrustKept
  <1> DEFINE call ==
        [pc |-> "resolve", op |-> op, sid |-> sid, bound |-> bound,
         s |-> sid, p |-> PathAt(sid), key |-> key, fresh |-> fresh,
         source |-> source, fps |-> NoFingerprints]
  <1>1. call \in Call
    BY PathAtType, NoFingerprintsType DEF Call, Phases
  <1>2. call.pc = "resolve" /\ call.s = sid /\ call.p = PathAt(sid)
    OBVIOUS
  <1>3. Goto(k, call) /\ UNCHANGED <<live, tracker, known>>
    BY DEF Begin
  <1> HIDE DEF call
  <1>4. QED
    BY <1>1, <1>2, <1>3, BindingsMove, EntriesMove, AnswersMove
    DEF Trusting, TrustKept, Bindings, Working

LEMMA ResolvedPhases ==
  ASSUME NEW call \in Call
  PROVE  /\ Resolved(call).pc \notin {"record"}
         /\ Resolved(call).pc \in Working =>
              /\ Resolved(call).s = call.s
              /\ Resolved(call).p = call.p
         /\ Resolved(call).p # None =>
              /\ Resolved(call).s = call.s
              /\ Resolved(call).p = call.p
         /\ CallOK(call) /\ Resolved(call).pc = "write" => ~Resolved(call).fresh
  BY DEF Resolved, Idle, Call, CallOK, Working

LEMMA ResolveTrust ==
  ASSUME TypeInv, Trusting, NEW k \in Calls, Resolve(k) \/ Repair(k)
  PROVE  TrustKept
  <1> DEFINE call == calls[k]
             next == Resolved(call)
  <1>1. call \in Call /\ CallOK(call)
    BY DEF TypeInv, TypeOK
  <1>2. call.s \in SessionIds /\ UNCHANGED <<live, known>>
    BY <1>1 DEF Resolve, Repair, At, CallOK
  <1>3. CASE Return(k) /\ UNCHANGED tracker
    BY <1>2, <1>3, ReturnTrust
  <1>4. ASSUME next \in Call, Goto(k, next), call.p \in Paths,
               NEW before \in [SessionIds -> Entry],
               \A s \in SessionIds : before[s] \in {tracker[s], Unrecorded},
               tracker' = [before EXCEPT ![call.s] = Adopt(@, call.p)]
        PROVE  TrustKept
    <2>1. /\ next.pc # "record"
          /\ next.pc \in Working => next.s = call.s /\ next.p = call.p
          /\ next.p # None => next.s = call.s /\ next.p = call.p
          /\ next.pc = "write" => ~next.fresh
      BY <1>1, ResolvedPhases
    <2> HIDE DEF next
    <2>2. NotReused => Bindings'
      BY <1>2, <1>4, <2>1, BindingsMove DEF Trusting, Bindings
    <2>3. Entries'
      BY <1>2, <1>4, <2>1, EntriesAdopt DEF Trusting
    <2>4. Answers'
      BY <1>2, <1>4, <2>1, AnswersMove DEF Trusting
    <2>5. QED
      BY <2>2, <2>3, <2>4 DEF TrustKept
  <1>5. CASE Resolve(k)
    <2>1. call.p \in Paths /\ call.pc = "resolve"
      BY <1>1, <1>5 DEF Resolve, At, Call
    <2>2. CASE call.bound \notin {Unsaved, call.p}
      BY <1>3, <1>5, <2>2 DEF Resolve
    <2>3. CASE call.bound \in {Unsaved, call.p}
      <3>1. Goto(k, next) /\ tracker' = [tracker EXCEPT ![call.s] = Adopt(@, call.p)]
        BY <1>5, <2>3 DEF Resolve
      <3>2. next \in Call
        BY <1>1, <2>1, <2>3, ResolvedType
      <3>3. tracker \in [SessionIds -> Entry]
        BY DEF TypeInv, TypeOK
      <3>4. QED
        BY <1>4, <2>1, <3>1, <3>2, <3>3
    <2>4. QED
      BY <2>2, <2>3
  <1>6. CASE Repair(k)
    <2>1. /\ call.p \in Paths /\ call.pc = "repair" /\ call.sid \in SessionIds
          /\ call.bound \in {Unsaved, call.p}
      BY <1>1, <1>6 DEF Repair, At, CallOK
    <2> DEFINE before == [tracker EXCEPT ![call.sid] = Unrecorded]
    <2>2. before \in [SessionIds -> Entry]
      BY UnrecordedType DEF TypeInv, TypeOK
    <2>3. \A s \in SessionIds : before[s] \in {tracker[s], Unrecorded}
      BY DEF TypeInv, TypeOK
    <2>4. /\ Goto(k, next)
          /\ tracker' = [before EXCEPT ![call.s] = Adopt(@, call.p)]
      BY <1>6 DEF Repair
    <2>5. next \in Call
      BY <1>1, <2>1, ResolvedType
    <2> HIDE DEF before
    <2>6. QED
      BY <1>4, <2>1, <2>2, <2>3, <2>4, <2>5
  <1>7. QED
    BY <1>5, <1>6

LEMMA RecensusTrust ==
  ASSUME TypeInv, Trusting, NEW k \in Calls, Recensus(k)
  PROVE  TrustKept
  <1> DEFINE call == calls[k]
  <1>1. call \in Call /\ UNCHANGED <<live, tracker, known>>
    BY DEF TypeInv, TypeOK, Recensus
  <1>2. CASE Return(k)
    BY <1>1, <1>2, ReturnTrust
  <1>3. ASSUME NEW t \in Rotated(k),
               Goto(k, [call EXCEPT !.pc = "repair", !.s = t, !.p = call.bound])
        PROVE  TrustKept
    <2> DEFINE next == [call EXCEPT !.pc = "repair", !.s = t, !.p = call.bound]
    <2>1. t \in SessionIds /\ PathAt(t) = call.bound
      BY DEF Rotated
    <2>2. next \in Call
      BY <1>1, <2>1 DEF Call, Phases
    <2>3. next.pc = "repair" /\ next.s = t /\ next.p = PathAt(t)
      BY <1>1, <2>1 DEF Call
    <2> HIDE DEF next
    <2>4. Goto(k, next)
      BY <1>3 DEF next
    <2>5. QED
      BY <1>1, <2>1, <2>2, <2>3, <2>4, BindingsMove, EntriesMove, AnswersMove
      DEF Trusting, TrustKept, Bindings, Working
  <1>4. QED
    BY <1>2, <1>3 DEF Recensus

LEMMA ExecTrust ==
  ASSUME TypeInv, Trusting, NEW k \in Calls, Exec(k)
  PROVE  TrustKept
  <1>1. PICK fps : Goto(k, [calls[k] EXCEPT !.pc = "deliver", !.fps = fps])
    BY DEF Exec
  <1> DEFINE next == [calls[k] EXCEPT !.pc = "deliver", !.fps = fps]
  <1>2. next.pc = "deliver" /\ next.s = calls[k].s /\ next.p = calls[k].p
    BY DEF TypeInv, TypeOK, Call
  <1>3. next \in Call
    BY <1>1, ExecTypes DEF Goto, TypeInv, TypeOK
  <1>4. calls[k].pc \in Working /\ UNCHANGED <<live, tracker, known>>
    BY DEF Exec, At, Working
  <1>5. Goto(k, next)
    BY <1>1
  <1> HIDE DEF next
  <1>6. QED
    BY <1>2, <1>3, <1>4, <1>5, MoveTrust DEF Working

(* The heart of it: what the guard lets through is in the baseline of the  *)
(* call's session, and all of that baseline is known for the call's path.  *)
LEMMA GuardTrusts ==
  ASSUME TypeInv, Trusting, NEW k \in Calls, Guard(k)
  PROVE  TrustKept
  <1> DEFINE call == calls[k]
             next == [call EXCEPT !.pc = "write", !.fps = Only(call.fps, call.key)]
  <1>1. /\ call \in Call /\ CallOK(call) /\ call.pc = "deliver"
        /\ call.op = "edit" /\ UNCHANGED <<live, tracker, known>>
    BY DEF TypeInv, TypeOK, Guard, At
  <1>2. CASE Return(k)
    BY <1>1, <1>2, ReturnTrust
  <1>3. CASE ~Return(k)
    <2>1. /\ ~UnknownCell(call) /\ ~NeedsRead(call) /\ ~Conflict(call)
          /\ Goto(k, next)
      BY <1>3 DEF Guard
    <2>2. call.key \in Keys /\ call.fps \in Store
      BY <1>1 DEF CallOK, Call
    <2>3. /\ next.pc = "write" /\ next.s = call.s /\ next.p = call.p
          /\ next.key = call.key /\ next.fresh = call.fresh
          /\ next.fps = Only(call.fps, call.key)
      BY <1>1 DEF Call
    <2>4. next \in Call
      BY <1>1, <2>2, OnlyType DEF Call, Phases
    <2>5. ASSUME call.fresh
          PROVE  KnownIn(known, call.p, call.key, call.fps[call.key].code_hash,
                         Sourced)
      <3> DEFINE entry == tracker[call.s]
      <3>1. /\ entry.baseline[call.key] # None
            /\ call.fps[call.key].code_hash = entry.baseline[call.key].code_hash
        BY <2>1, <2>5 DEF NeedsRead, Conflict
      <3>2. EntryKnown(known, entry, call.p)
        BY <1>1 DEF Trusting, Entries, WorkersKnow, Working
      <3>3. QED
        BY <2>2, <3>1, <3>2 DEF EntryKnown
    <2>6. Only(call.fps, call.key)[call.key] = call.fps[call.key]
      BY <2>2 DEF Only, NoFingerprints
    <2> HIDE DEF next
    <2>7. QED
      BY <1>1, <2>1, <2>3, <2>4, <2>5, <2>6, MoveTrust DEF Working
  <1>4. QED
    BY <1>2, <1>3

LEMMA ValidateTrust ==
  ASSUME TypeInv, Trusting, NEW k \in Calls, Validate(k) \/ RefreshRead(k)
  PROVE  TrustKept
  <1> DEFINE call == calls[k]
  <1>1. /\ call \in Call /\ CallOK(call) /\ call.pc \in {"deliver", "refresh"}
        /\ UNCHANGED <<live, tracker, known>>
    BY DEF TypeInv, TypeOK, Validate, RefreshRead, At
  <1>2. CASE Return(k)
    BY <1>1, <1>2, ReturnTrust
  <1>3. CASE Validate(k) /\ ~Return(k)
    <2> DEFINE next == [call EXCEPT !.pc = "write", !.fps = NoFingerprints]
    <2>1. Goto(k, next)
      BY <1>3 DEF Validate
    <2>2. next \in Call
      BY <1>1, NoFingerprintsType DEF Call, Phases
    <2>3. /\ next.pc = "write" /\ next.s = call.s /\ next.p = call.p
          /\ next.fresh = call.fresh
      BY <1>1 DEF Call
    <2>4. ~call.fresh
      BY <1>1, <1>3 DEF Validate, CallOK
    <2> HIDE DEF next
    <2>5. QED
      BY <1>1, <2>1, <2>2, <2>3, <2>4, MoveTrust DEF Working
  <1>4. CASE RefreshRead(k)
    <2> DEFINE fps  == HashesOf(doc[live[call.s]])
               next == [call EXCEPT !.pc = "record", !.fps = Only(fps, call.key)]
    <2>1. Goto(k, next)
      BY <1>4 DEF RefreshRead, Touched
    <2>2. call.s \in SessionIds /\ call.key \in Keys
      BY <1>1, <1>4 DEF RefreshRead, At, CallOK
    <2>3. fps \in Store
      BY <1>4, <2>2, ServerCells, HashesOfType DEF RefreshRead
    <2> HIDE DEF fps
    <2>4. next \in Call
      BY <1>1, <2>2, <2>3, OnlyType DEF Call, Phases
    <2>5. /\ next.pc = "record" /\ next.s = call.s /\ next.p = call.p
          /\ next.key = call.key /\ next.fps = Only(fps, call.key)
      BY <1>1 DEF Call
    <2>6. \A key \in Keys \ {call.key} : Only(fps, call.key)[key] = None
      BY DEF Only, NoFingerprints
    <2> HIDE DEF next
    <2>7. QED
      BY <1>1, <2>1, <2>4, <2>5, <2>6, MoveTrust DEF Working
  <1>5. QED
    BY <1>2, <1>3, <1>4

LEMMA WriteTrust ==
  ASSUME TypeInv, Trusting, NEW k \in Calls,
         WriteEdit(k) \/ WriteCreate(k) \/ WriteDelete(k)
  PROVE  TrustKept
  <1> DEFINE call == calls[k]
  <1>1. /\ call \in Call /\ CallOK(call) /\ call.pc = "write"
        /\ UNCHANGED <<live, tracker>> /\ known \subseteq known'
    BY DEF TypeInv, TypeOK, WriteEdit, WriteCreate, WriteDelete, At
  <1>2. ASSUME NEW c \in Keys \cup {None},
               Written(k, [call EXCEPT !.key = c])
        PROVE  TrustKept
    <2> DEFINE next == [[call EXCEPT !.key = c]
                          EXCEPT !.pc = "refresh", !.fps = NoFingerprints]
    <2>1. CASE Return(k)
      BY <1>1, <2>1, ReturnTrust
    <2>2. CASE Goto(k, next)
      <3>1. next \in Call
        BY <1>1, NoFingerprintsType DEF Call, Phases
      <3>2. next.pc = "refresh" /\ next.s = call.s /\ next.p = call.p
        BY <1>1 DEF Call
      <3> HIDE DEF next
      <3>3. QED
        BY <1>1, <2>2, <3>1, <3>2, MoveTrust DEF Working
    <2>3. QED
      BY <1>2, <2>1, <2>2 DEF Written
  <1>3. call = [call EXCEPT !.key = call.key] /\ call.key \in Keys \cup {None}
    BY <1>1 DEF Call
  <1>4. Cells \subseteq Keys
    BY CoWorkAssumption
  <1>5. \/ Written(k, call)
        \/ \E c \in Cells : Written(k, [call EXCEPT !.key = c])
    BY DEF WriteEdit, WriteCreate, WriteDelete
  <1>6. QED
    BY <1>2, <1>3, <1>4, <1>5

LEMMA AnswerTrust ==
  ASSUME TypeInv, Trusting, NEW k \in Calls,
         DeliverMap(k) \/ DeliverData(k) \/ Record(k)
  PROVE  TrustKept
  <1> DEFINE call  == calls[k]
             entry == tracker[call.s]
  <1>1. /\ call \in Call /\ call.pc \in Working /\ call.s \in SessionIds
        /\ call.fps \in Store /\ Return(k) /\ UNCHANGED live
        /\ known \subseteq known'
    BY DEF TypeInv, TypeOK, CallOK, DeliverMap, DeliverData, Record, At, Call,
           Working
  <1>2. entry \in Entry
    BY <1>1 DEF TypeInv, TypeOK
  <1>3. EntryKnown(known, entry, call.p)
    BY <1>1 DEF Trusting, Entries, WorkersKnow
  <1>4. EntryKnown(known', entry, call.p)
    BY <1>1, <1>3, KnownMonotone
  <1>5. ASSUME NEW new \in Entry, tracker' = [tracker EXCEPT ![call.s] = new],
               new.owner = entry.owner, EntryKnown(known', new, call.p)
        PROVE  TrustKept
    <2>1. Entries'
      BY <1>1, <1>5, EntriesUpdate DEF Trusting
    <2>2. Goto(k, Idle) /\ Idle \in Call /\ Idle.p = None /\ Idle.pc = "idle"
      BY <1>1, IdleType DEF Return, Idle
    <2>3. QED
      BY <1>1, <2>1, <2>2, BindingsMove, AnswersMove
      DEF Trusting, TrustKept, Bindings
  <1>6. CASE DeliverMap(k)
    <2>1. Learned(call.p, call.fps, "preview") \subseteq known'
      BY <1>6 DEF DeliverMap
    <2>2. QED
      BY <1>1, <1>2, <1>4, <1>5, <1>6, <2>1, CommitKnown, CommitType
      DEF DeliverMap
  <1>7. CASE DeliverData(k)
    <2>1. Learned(call.p, call.fps, "source") \subseteq known'
      BY <1>7 DEF DeliverData
    <2>2. QED
      BY <1>1, <1>2, <1>4, <1>5, <1>7, <2>1, RecordCellsKnown, RecordCellsType
      DEF DeliverData, Sourced
  <1>8. CASE Record(k)
    <2>1. tracker' = [tracker EXCEPT ![call.s] = Touch(entry, call)]
      BY <1>8 DEF Record
    <2>2. CASE call.op = "delete"
      BY <1>2, <1>4, <1>5, <2>1, <2>2, ForgetCellsKnown, ForgetCellsType DEF Touch
    <2>3. CASE call.op # "delete" /\ call.fps[call.key] # None
      <3>1. \A key \in Keys \ {call.key} : call.fps[key] = None
        BY <1>8 DEF Record, Trusting, Answers, RefreshTouchesOne
      <3>2. Learned(call.p, call.fps, "refresh") \subseteq known'
        BY <1>8, <2>3, <3>1 DEF Record, Learned, KeysOf
      <3>3. QED
        BY <1>1, <1>2, <1>4, <1>5, <2>1, <2>3, <3>2, RecordCellsKnown,
           RecordCellsType DEF Touch, Sourced
    <2>4. CASE call.op # "delete" /\ call.fps[call.key] = None
      BY <1>2, <1>4, <1>5, <2>1, <2>4 DEF Touch
    <2>5. QED
      BY <2>2, <2>3, <2>4
  <1>9. QED
    BY <1>6, <1>7, <1>8

(* The server's session table moves, but no id changes hands under a call. *)
LEMMA ServerTrust ==
  ASSUME TypeInv, TrustInv, ~ReuseInFlight,
         \/ \E s \in SessionIds, n \in Notebooks : Open(s, n)
         \/ \E s \in SessionIds : Close(s)
         \/ \E s, t \in SessionIds : Rekey(s, t)
  PROVE  TrustInv'
  <1>1. UNCHANGED <<calls, tracker, known>>
    BY DEF Open, Close, Rekey
  <1>2. Entries' /\ Answers' /\ Agreement'
    BY <1>1 DEF TrustInv, Bindings, Agreement, Entries, OwnerKept, OwnersKnow,
                WorkersKnow, Answers, RefreshTouchesOne, GuardTrust, At, Knows
  <1>3. \A k \in Calls :
          calls[k].p # None =>
              calls[k].s \in SessionIds /\ PathAt(calls[k].s) \in {None, calls[k].p}
    BY DEF TypeInv, CallOK, TypeOK, Call, TrustInv, Bindings, NotReused
  <1>4. ASSUME NEW s \in SessionIds, NEW n \in Notebooks, MayServe(s, n)
        PROVE  \A k \in Calls : calls[k].s = s => calls[k].p \in {None, PathOf[n]}
    BY <1>4 DEF MayServe
  <1>5. \A n \in Notebooks : n # None
    BY CoWorkAssumption
  <1>6. ASSUME NEW s \in SessionIds, NEW n \in Notebooks, Open(s, n)
        PROVE  NotReused'
    BY <1>1, <1>3, <1>4, <1>5, <1>6
    DEF Open, NotReused, PathAt, TypeInv, TypeOK
  <1>7. ASSUME NEW s \in SessionIds, Close(s)
        PROVE  NotReused'
    BY <1>1, <1>3, <1>7 DEF Close, NotReused, PathAt, TypeInv, TypeOK
  <1>8. ASSUME NEW s \in SessionIds, NEW t \in SessionIds, Rekey(s, t)
        PROVE  NotReused'
    <2>1. live[s] \in Notebooks /\ MayServe(t, live[s]) /\ s # t
      BY <1>8 DEF Rekey, TypeInv, TypeOK
    <2>2. \A r \in SessionIds :
            live'[r] = IF r = t THEN live[s] ELSE IF r = s THEN None ELSE live[r]
      BY <1>8, <2>1 DEF Rekey, TypeInv, TypeOK
    <2>3. \A k \in Calls : calls[k].s = t => calls[k].p \in {None, PathOf[live[s]]}
      BY <1>4, <2>1
    <2>4. ASSUME NEW k \in Calls, calls[k].p # None
          PROVE  PathAt(calls[k].s)' \in {None, calls[k].p}
      BY <1>1, <1>3, <1>5, <2>1, <2>2, <2>3, <2>4 DEF PathAt
    <2>5. QED
      BY <1>1, <2>4 DEF NotReused
  <1>9. QED
    BY <1>2, <1>6, <1>7, <1>8 DEF TrustInv, Bindings

(* Humans, the server's session table and a restart of the process leave   *)
(* entries and answers, or nothing, behind.                                *)
LEMMA OthersTrust ==
  ASSUME Trusting,
         \/ \E n \in Notebooks, c \in Cells : HumanChange(n, c)
         \/ \E s \in SessionIds, n \in Notebooks : Open(s, n)
         \/ \E s \in SessionIds : Close(s)
         \/ \E s, t \in SessionIds : Rekey(s, t)
         \/ UNCHANGED vars
  PROVE  Entries' /\ Answers'
  <1>1. UNCHANGED <<calls, tracker, known>>
    BY DEF HumanChange, Open, Close, Rekey, vars
  <1>2. QED
    BY <1>1 DEF Trusting, Entries, OwnerKept, OwnersKnow, WorkersKnow, Answers,
                RefreshTouchesOne, GuardTrust, At, Knows

LEMMA IdleTrust ==
  ASSUME calls = [k \in Calls |-> Idle],
         tracker = [s \in SessionIds |-> Unrecorded]
  PROVE  TrustInv
  BY DEF TrustInv, Bindings, NotReused, Agreement, Entries, OwnerKept,
         OwnersKnow, WorkersKnow, Answers, RefreshTouchesOne, GuardTrust, At,
         Working, Idle, Unrecorded

LEMMA RestartTrust ==
  ASSUME Restart
  PROVE  TrustInv'
  BY DEF Restart, TrustInv, Bindings, NotReused, Agreement, Entries, OwnerKept,
         OwnersKnow, WorkersKnow, Answers, RefreshTouchesOne, GuardTrust, At,
         Working, Idle, Unrecorded

(* The steps of calls, whatever the server does with its ids.              *)
LEMMA CallTrust ==
  ASSUME TypeInv, Trusting, NEW k \in Calls, Step(k) \/ Fail(k)
  PROVE  TrustKept
  <1>1. CASE Fail(k)
    BY <1>1, ReturnTrust DEF Fail
  <1>2. CASE Step(k)
    BY <1>2, ResolveTrust, RecensusTrust, ExecTrust, GuardTrusts, ValidateTrust,
       WriteTrust, AnswerTrust DEF Step
  <1>3. QED
    BY <1>1, <1>2

LEMMA TrustingStep ==
  TypeInv /\ Trusting /\ [Next]_vars => Entries' /\ Answers'
  <1> SUFFICES ASSUME TypeInv, Trusting, [Next]_vars
               PROVE  Entries' /\ Answers'
    OBVIOUS
  <1>1. CASE Restart
    BY <1>1, RestartTrust DEF TrustInv
  <1>2. Tools \subseteq AllTools
    BY CoWorkAssumption
  <1>3. QED
    BY <1>1, <1>2, BeginTrust, CallTrust, OthersTrust DEF Next, TrustKept

LEMMA TrustInvStep ==
  ~ReuseInFlight /\ TypeInv /\ TrustInv /\ [Next]_vars => TrustInv'
  <1> SUFFICES ASSUME ~ReuseInFlight, TypeInv, TrustInv, [Next]_vars
               PROVE  TrustInv'
    OBVIOUS
  <1>1. Trusting /\ NotReused
    BY DEF TrustInv, Trusting, Bindings
  <1>2. ASSUME TrustKept
        PROVE  TrustInv'
    BY <1>1, <1>2 DEF TrustKept, TrustInv
  <1>3. ASSUME NEW n \in Notebooks, NEW c \in Cells, HumanChange(n, c)
        PROVE  TrustInv'
    BY <1>3 DEF HumanChange, TrustInv, Bindings, NotReused, PathAt, Agreement,
                Entries, OwnerKept, OwnersKnow, WorkersKnow, Answers,
                RefreshTouchesOne, GuardTrust, At, Knows
  <1>4. CASE UNCHANGED vars
    BY <1>4 DEF vars, TrustInv, Bindings, NotReused, PathAt, Agreement,
                Entries, OwnerKept, OwnersKnow, WorkersKnow, Answers,
                RefreshTouchesOne, GuardTrust, At, Knows
  <1>5. Tools \subseteq AllTools
    BY CoWorkAssumption
  <1>6. QED
    BY <1>1, <1>2, <1>3, <1>4, <1>5, BeginTrust, CallTrust, ServerTrust,
       RestartTrust DEF Next

LEMMA TrustInvInit == Init => TrustInv
  BY IdleTrust DEF Init

-----------------------------------------------------------------------------
(* The theorems.  First what the invariant says of the present: what holds *)
(* of entries and answers makes maps complete.                             *)

LEMMA EntriesMapWell ==
  ASSUME TypeInv, Entries
  PROVE  MapMissesNothing
  <1>1. ASSUME NEW k \in Calls, At(k, "deliver"), calls[k].op = "map",
               NEW key \in KeysOf(calls[k].fps)
        PROVE  LET call   == calls[k]
                   change == Diff(tracker[call.s], call.fps)
               IN  \/ key \in change.new_cells \cup change.edited_cells
                   \/ Knows(call.p, key, call.fps[key].code_hash, Ways)
    <2> DEFINE call  == calls[k]
               entry == tracker[call.s]
    <2>1. key \in Keys
      BY DEF KeysOf
    <2>2. EntryKnown(known, entry, call.p)
      BY <1>1 DEF Entries, WorkersKnow, At, Working
    <2>3. CASE entry.snapshot[key] = None
      BY <2>1, <2>3 DEF Diff, KeysOf
    <2>4. CASE entry.snapshot[key] # None
      <3>1. CASE call.fps[key].code_hash # entry.snapshot[key].code_hash
        BY <2>1, <2>4, <3>1 DEF Diff, KeysOf
      <3>2. CASE call.fps[key].code_hash = entry.snapshot[key].code_hash
        BY <2>1, <2>2, <2>4, <3>2 DEF EntryKnown, Knows
      <3>3. QED
        BY <3>1, <3>2
    <2>5. QED
      BY <2>3, <2>4
  <1>2. QED
    BY <1>1 DEF MapMissesNothing

LEMMA EntriesAreOwned ==
  ASSUME Entries
  PROVE  BaselineOwned
  BY DEF Entries, OwnersKnow, EntryKnown, BaselineOwned, Knows

(* Less than ~ReuseInFlight will do: as long as no two calls in flight     *)
(* have resolved one session id to different notebooks, a checked          *)
(* edit_cell passes its guard only on a source the agent was shown or      *)
(* wrote under its own notebook, no read baseline is filed under another   *)
(* notebook, and get_cell_map keeps no change from the agent.  What it is  *)
(* shown under a notebook also comes from there, unless the id was handed  *)
(* over under the call (RequestsLand).                                     *)
THEOREM AgreementSuffices ==
  Spec /\ []Agreement => []GuardTrust /\ []BaselineOwned /\ []MapMissesNothing
  <1>1. Init => TypeInv /\ Entries /\ Answers
    BY TypeInvInit, TrustInvInit DEF TrustInv
  <1>2. TypeInv /\ Entries /\ Answers /\ Agreement /\ [Next]_vars
          => (TypeInv /\ Entries /\ Answers)'
    BY TypeInvStep, TrustingStep DEF Trusting
  <1>3. Answers => GuardTrust
    BY DEF Answers
  <1>4. TypeInv /\ Entries => BaselineOwned /\ MapMissesNothing
    BY EntriesAreOwned, EntriesMapWell
  <1>5. QED
    BY <1>1, <1>2, <1>3, <1>4, PTL DEF Spec

(* Calls that do not overlap agree: with one call at a time the three hold *)
(* although the server may hand an id to another notebook in mid-call.     *)
THEOREM SequentialCallsAreSafe ==
  ASSUME \A j, k \in Calls : j = k
  PROVE  Spec => []GuardTrust /\ []BaselineOwned /\ []MapMissesNothing
  <1>1. Agreement
    BY DEF Agreement
  <1>2. QED
    BY <1>1, AgreementSuffices, PTL

-----------------------------------------------------------------------------
(* The theorems for a server that does not hand an id to another notebook  *)
(* while a call is in flight on it.                                        *)

(* No id some call has resolved serves another notebook, calls agree, and  *)
(* all that the tracker and the answers in flight are trusted with is      *)
(* known: the inductive invariant itself.                                  *)
THEOREM TrustIsKept ==
  ASSUME ~ReuseInFlight
  PROVE  Spec => []TrustInv
  <1>1. Init => TypeInv /\ TrustInv
    BY TypeInvInit, TrustInvInit
  <1>2. TypeInv /\ TrustInv /\ [Next]_vars => (TypeInv /\ TrustInv)'
    BY TypeInvStep, TrustInvStep
  <1>3. QED
    BY <1>1, <1>2, PTL DEF Spec

LEMMA TypesKept == Spec => []TypeInv
  BY TypeInvInit, TypeInvStep, PTL DEF Spec

(* A checked edit_cell is only ever let through on a source the agent saw  *)
(* in full, or wrote, in the notebook the call is for, however many calls, *)
(* notebooks and re-keyed sessions there are.                              *)
THEOREM GuardIsTrustworthy ==
  ASSUME ~ReuseInFlight
  PROVE  Spec => []GuardTrust
  <1>1. TrustInv => GuardTrust
    BY DEF TrustInv, Answers
  <1>2. QED
    BY <1>1, TrustIsKept, PTL

(* No read baseline is ever filed under a notebook it was not read in.     *)
THEOREM BaselinesAreOwned ==
  ASSUME ~ReuseInFlight
  PROVE  Spec => []BaselineOwned
  <1>1. TrustInv => BaselineOwned
    BY EntriesAreOwned DEF TrustInv
  <1>2. QED
    BY <1>1, TrustIsKept, PTL

(* After the first map, get_cell_map reports every cell whose source the   *)
(* agent was not shown for that notebook.                                  *)
THEOREM MapsMissNothing ==
  ASSUME ~ReuseInFlight
  PROVE  Spec => []MapMissesNothing
  <1>1. TypeInv /\ TrustInv => MapMissesNothing
    BY EntriesMapWell DEF TrustInv
  <1>2. QED
    BY <1>1, TrustIsKept, TypesKept, PTL
-----------------------------------------------------------------------------
(* Where requests go, whatever the server does with its ids.               *)
LEMMA RequestIs ==
  ASSUME TypeInv, Next, NEW k \in Calls, RequestMade(k)
  PROVE  Exec(k) \/ RefreshRead(k)
         \/ WriteEdit(k) \/ WriteCreate(k) \/ WriteDelete(k)
  <1>1. ASSUME NEW j \in Calls, Step(j)
        PROVE  j = k
    BY <1>1
    DEF Step, Resolve, Recensus, Repair, Exec, DeliverMap, DeliverData, Guard,
        Validate, RefreshRead, Record, WriteEdit, WriteCreate, WriteDelete,
        Written, Return, Goto, RequestMade, TypeInv, TypeOK
  <1>2. ASSUME Step(k)
        PROVE  Exec(k) \/ RefreshRead(k)
               \/ WriteEdit(k) \/ WriteCreate(k) \/ WriteDelete(k)
    BY <1>2
    DEF Step, Resolve, Recensus, Repair, DeliverMap, DeliverData, Guard,
        Validate, Record, At, RequestMade
  <1>3. \A j \in Calls : ~Fail(j)
    BY DEF Fail, Return, Goto, RequestMade, Idle, TypeInv, TypeOK
  <1>4. /\ \A s, t \in SessionIds : ~Close(s) /\ ~Rekey(s, t)
        /\ \A s \in SessionIds, n \in Notebooks : ~Open(s, n)
        /\ \A n \in Notebooks, c \in Cells : ~HumanChange(n, c)
    BY DEF Close, Rekey, Open, HumanChange, RequestMade
  <1>5. ~Restart
    BY DEF Restart, Idle, RequestMade
  <1>6. \A j \in Calls : \A op, sid, bound, key, source, fresh :
          ~Begin(j, op, sid, bound, key, source, fresh)
    BY DEF Begin, At, Goto, RequestMade, TypeInv, TypeOK
  <1>7. QED
    BY <1>1, <1>2, <1>3, <1>4, <1>5, <1>6 DEF Next

(* A step of a call leaves it with the target it had, with none, or with   *)
(* one that is where the call takes it to be.                              *)
Aims(old, new) ==
    \/ new.p = None
    \/ new.s = old.s /\ new.p = old.p
    \/ PathAt(new.s) = new.p

LEMMA ResolvedAims ==
  ASSUME NEW call \in Call
  PROVE  Aims(call, Resolved(call))
  BY DEF Resolved, Idle, Call, Aims

LEMMA StepAims ==
  ASSUME TypeInv, NEW k \in Calls, Step(k) \/ Fail(k)
  PROVE  \E new : Goto(k, new) /\ Aims(calls[k], new)
  <1> DEFINE call == calls[k]
  <1>1. call \in Call
    BY DEF TypeInv, TypeOK
  <1>2. Aims(call, Idle) /\ Aims(call, Resolved(call))
    BY <1>1, ResolvedAims DEF Idle, Aims
  <1>3. \A pc, fps : Aims(call, [call EXCEPT !.pc = pc, !.fps = fps])
    BY <1>1 DEF Call, Aims
  <1>4. CASE Resolve(k) \/ Repair(k) \/ Fail(k) \/ DeliverMap(k) \/ DeliverData(k)
               \/ Record(k)
    BY <1>2, <1>4
    DEF Resolve, Repair, Fail, DeliverMap, DeliverData, Record, Return
  <1>5. CASE Recensus(k)
    <2>1. ASSUME NEW t \in Rotated(k)
          PROVE  Aims(call, [call EXCEPT !.pc = "repair", !.s = t, !.p = call.bound])
      BY <1>1 DEF Rotated, Call, Aims
    <2>2. QED
      BY <1>2, <1>5, <2>1 DEF Recensus, Return
  <1>6. CASE Exec(k) \/ RefreshRead(k)
    BY <1>3, <1>6 DEF Exec, RefreshRead
  <1>7. CASE Guard(k) \/ Validate(k)
    BY <1>2, <1>3, <1>7 DEF Guard, Validate, Return
  <1>8. CASE WriteEdit(k) \/ WriteDelete(k)
    BY <1>2, <1>3, <1>8 DEF WriteEdit, WriteDelete, Written, Return
  <1>9. CASE WriteCreate(k)
    <2>1. \A c, pc, fps :
            Aims(call, [[call EXCEPT !.key = c] EXCEPT !.pc = pc, !.fps = fps])
      BY <1>1 DEF Call, Aims
    <2>2. QED
      BY <1>2, <1>9, <2>1 DEF WriteCreate, Written, Return
  <1>10. QED
    BY <1>4, <1>5, <1>6, <1>7, <1>8, <1>9 DEF Step

(* A call that aims stays on its way while the sessions stay.              *)
LEMMA AimsKeep ==
  ASSUME TypeInv, NEW k \in Calls, NEW new, Goto(k, new), Aims(calls[k], new),
         live' = live, NEW j \in Calls, Astray(j)'
  PROVE  Astray(j)
  <1>1. calls'[j] = IF j = k THEN new ELSE calls[j]
    BY DEF Goto, TypeInv, TypeOK
  <1>2. \A s : PathAt(s)' = PathAt(s)
    BY DEF PathAt
  <1>3. QED
    BY <1>1, <1>2 DEF Aims, Astray

LEMMA NeverAstray ==
  ASSUME TypeInv, [Next]_vars, NEW j \in Calls, Astray(j)'
  PROVE  Astray(j) \/ HandedOver(j)
  <1>1. ASSUME NEW k \in Calls, Step(k) \/ Fail(k)
        PROVE  Astray(j)
    <2>1. live' = live
      BY <1>1
      DEF Step, Resolve, Recensus, Repair, Exec, DeliverMap, DeliverData, Guard,
          Validate, RefreshRead, Record, WriteEdit, WriteCreate, WriteDelete, Fail
    <2>2. QED
      BY <1>1, <2>1, StepAims, AimsKeep
  <1>2. ASSUME NEW k \in Calls, NEW op, NEW sid, NEW bound, NEW key, NEW source,
               NEW fresh, Begin(k, op, sid, bound, key, source, fresh)
        PROVE  Astray(j)
    <2> DEFINE new == [pc |-> "resolve", op |-> op, sid |-> sid, bound |-> bound,
                       s |-> sid, p |-> PathAt(sid), key |-> key, fresh |-> fresh,
                       source |-> source, fps |-> NoFingerprints]
    <2>1. Goto(k, new) /\ live' = live
      BY <1>2 DEF Begin
    <2>2. Aims(calls[k], new)
      BY DEF Aims
    <2> HIDE DEF new
    <2>3. QED
      BY <2>1, <2>2, AimsKeep
  <1>3. CASE \/ \E s \in SessionIds, n \in Notebooks : Open(s, n)
             \/ \E s \in SessionIds : Close(s)
             \/ \E s, t \in SessionIds : Rekey(s, t)
    BY <1>3 DEF Open, Close, Rekey, HandedOver
  <1>4. CASE UNCHANGED <<calls, live>>
    <2>1. \A s : PathAt(s)' = PathAt(s)
      BY <1>4 DEF PathAt
    <2>2. QED
      BY <1>4, <2>1 DEF Astray
  <1>5. CASE Restart
    BY <1>5 DEF Restart, Astray, Idle
  <1>6. QED
    BY <1>1, <1>2, <1>3, <1>4, <1>5 DEF Next, HumanChange, vars

(* Only a hand-over leads a call astray (resolve_target, and the requests  *)
(* of the cell tools): with any number of calls, notebooks, stale bindings *)
(* and re-used ids, a request of a call is executed in the notebook its    *)
(* census found, the one it is anchored to, unless the server gave the id  *)
(* to another one since.                                                   *)
THEOREM OnlyHandOversLeadAstray == Spec => RequestsLand
  <1>1. ASSUME TypeInv, Next, NEW k \in Calls, RequestMade(k)
        PROVE  /\ calls[k].bound \in {Unsaved, calls[k].p}
               /\ PathAt(calls[k].s) = calls[k].p \/ Astray(k)
    <2>1. calls[k].p \in Paths /\ calls[k].s \in SessionIds
          /\ calls[k].bound \in {Unsaved, calls[k].p}
      BY <1>1 DEF RequestMade, TypeInv, CallOK, Working
    <2>2. live[calls[k].s] # None
      BY <1>1, RequestIs DEF Exec, RefreshRead, WriteEdit, WriteCreate, WriteDelete
    <2>3. PathAt(calls[k].s) \in Paths
      BY <1>1, <2>1, <2>2, ServerCells, CoWorkAssumption DEF PathAt
    <2>4. QED
      BY <2>1, <2>3, TrackerAssumption DEF Astray
  <1>2. TypeInv /\ [Next]_vars =>
          [\A k \in Calls :
             /\ Astray(k)' => Astray(k) \/ HandedOver(k)
             /\ RequestMade(k) => /\ calls[k].bound \in {Unsaved, calls[k].p}
                                  /\ PathAt(calls[k].s) = calls[k].p \/ Astray(k)]_vars
    BY <1>1, NeverAstray
  <1>3. QED
    BY <1>2, TypesKept, PTL DEF Spec, RequestsLand
-----------------------------------------------------------------------------
(* The contract.  First what the mapping makes of a step's parts: a cell   *)
(* that is put, a call that moves on, an answer.                           *)
LEMMA HashInIs ==
  ASSUME NEW cell \in Fingerprint \cup {None}
  PROVE  /\ HashIn(cell) \in Hashes \cup {None}
         /\ HashIn(cell) = None <=> cell = None
         /\ cell # None => HashIn(cell) = cell.code_hash
  BY TrackerAssumption, CoWorkAssumption DEF HashIn, Fingerprint

LEMMA DenotesCell ==
  ASSUME NEW key \in Keys
  PROVE  Denotes(key) \in Cells /\ Contract!Denotes(key) = Denotes(key)
  BY CoWorkAssumption DEF Denotes, Contract!Denotes

LEMMA PutRefines ==
  ASSUME NEW n, NEW c, NEW cell, PutCell(n, c, cell)
  PROVE  Contract!Put(n, c, cell)
  BY DEF PutCell, Contract!Put

LEMMA JobsMove ==
  ASSUME TypeInv, NEW k \in Calls, NEW call, Goto(k, call)
  PROVE  Jobs[k] = Job(calls[k]) /\ Contract!Becomes(k, Job(call))
  <1>1. calls' = [calls EXCEPT ![k] = call] /\ DOMAIN calls = Calls
    BY DEF Goto, TypeInv, TypeOK
  <1>2. QED
    BY <1>1 DEF Jobs, Contract!Becomes

(* The fields of a job.                                                    *)
LEMMA JobIs ==
  ASSUME NEW call, call.pc \in Working
  PROVE  /\ Job(call) = [stage |-> Stage(call.pc), op |-> call.op,
                         anchor |-> call.bound, path |-> call.p, key |-> call.key,
                         source |-> call.source, fresh |-> call.fresh,
                         answer |-> Job(call).answer]
  BY DEF Job, NoFingerprints, Contract!NoAnswer

LEMMA JobHas ==
  ASSUME NEW call, call.pc \in Working
  PROVE  /\ Job(call).stage = Stage(call.pc) /\ Job(call).op = call.op
         /\ Job(call).anchor = call.bound /\ Job(call).path = call.p
         /\ Job(call).key = call.key /\ Job(call).source = call.source
         /\ Job(call).fresh = call.fresh
         /\ call.pc \in {"deliver", "record"} =>
              Job(call).answer = HashesIn(call.fps)
         /\ call.pc \notin {"deliver", "record"} =>
              Job(call).answer = Contract!NoAnswer
  BY DEF Job, NoFingerprints, Contract!NoAnswer

LEMMA StagesAre ==
  /\ Stage("exec") = "asked" /\ Stage("deliver") = "seen"
  /\ Stage("write") = "cleared" /\ Stage("refresh") = "written"
  /\ Stage("record") = "reread"
  BY DEF Stage

LEMMA NoJobIs ==
  /\ NoJob = Contract!NoJob
  /\ NoJob.stage = "none"
  /\ \A call : call.pc \notin Working => Job(call) = NoJob
  BY DEF NoJob, Contract!NoJob, Contract!NoAnswer, NoFingerprints, Job

LEMMA IdleHasNoJob == Job(Idle) = NoJob
  BY NoJobIs DEF Idle, Working

(* A call that returns, whatever it was doing, ends its job.               *)
LEMMA ReturnRefines ==
  ASSUME TypeInv, NEW k \in Calls, Return(k), UNCHANGED <<doc, known>>
  PROVE  Contract!End(k)
  <1>1. Contract!Becomes(k, NoJob)
    BY JobsMove, IdleHasNoJob DEF Return
  <1>2. QED
    BY <1>1, NoJobIs DEF Contract!End

(* Steps of calls that have no job yet, and of the server, are stutters.   *)
LEMMA BeginRefines ==
  ASSUME TypeInv, NEW k \in Calls, NEW op, NEW sid, NEW bound, NEW key, NEW source,
         NEW fresh, Begin(k, op, sid, bound, key, source, fresh)
  PROVE  Contract!End(k)
  <1> DEFINE call == [pc |-> "resolve", op |-> op, sid |-> sid, bound |-> bound,
                      s |-> sid, p |-> PathAt(sid), key |-> key, fresh |-> fresh,
                      source |-> source, fps |-> NoFingerprints]
  <1>1. Goto(k, call) /\ UNCHANGED <<doc, known>>
    BY DEF Begin
  <1>2. Job(call) = NoJob
    BY NoJobIs DEF Working
  <1> HIDE DEF call
  <1>3. Contract!Becomes(k, NoJob)
    BY <1>1, <1>2, JobsMove
  <1>4. QED
    BY <1>1, <1>3, NoJobIs DEF Contract!End

(* A resolution: the call has its notebook, unless it was only to resolve. *)
LEMMA ResolvedRefines ==
  ASSUME TypeInv, NEW k \in Calls, calls[k].pc \in {"resolve", "repair"},
         calls[k].p \in Paths, calls[k].bound \in {Unsaved, calls[k].p},
         Goto(k, Resolved(calls[k])), UNCHANGED <<doc, known>>
  PROVE  Contract!Ask(k) \/ Contract!End(k)
  <1> DEFINE call == calls[k]
  <1>1. call \in Call /\ CallOK(call)
    BY DEF TypeInv, TypeOK
  <1>2. CASE call.op = "inspect"
    BY <1>2, ReturnRefines DEF Resolved, Return
  <1>3. CASE call.op # "inspect"
    <2> DEFINE pc  == IF call.op = "create" /\ call.key = None
                      THEN "write" ELSE "exec"
               res == [call EXCEPT !.pc = pc]
    <2>1. Goto(k, res)
      BY <1>3 DEF Resolved
    <2>2. /\ res.pc = pc /\ res.op = call.op /\ res.bound = call.bound
          /\ res.p = call.p /\ res.key = call.key /\ res.fresh = call.fresh
          /\ res.source = call.source
      BY <1>1 DEF Call
    <2>3. /\ call.op \in {"map", "data", "create", "edit", "delete"}
          /\ call.bound \in Paths /\ call.p \in Paths
          /\ call.key \in Keys \cup {None} /\ call.source \in Hashes \cup {None}
          /\ call.fresh \in BOOLEAN
      BY <1>1, <1>3 DEF Call, CallOK, AllTools
    <2> HIDE DEF res
    <2>4. /\ res.pc = IF call.op = "create" /\ call.key = None
                       THEN "write" ELSE "exec"
          /\ res.pc \in Working
          /\ res.pc \notin {"deliver", "record"}
      BY <2>2 DEF Working
    <2> HIDE DEF pc
    <2>5. Job(res).stage = IF call.op = "create" /\ call.key = None
                           THEN "cleared" ELSE "asked"
      <3>1. Job(res).stage = Stage(res.pc)
        BY <2>4, JobHas
      <3>2. QED
        BY <2>4, <3>1, StagesAre
    <2>6. /\ Job(res) = [stage |-> Job(res).stage, op |-> call.op,
                         anchor |-> call.bound, path |-> call.p, key |-> call.key,
                         source |-> call.source, fresh |-> call.fresh,
                         answer |-> Contract!NoAnswer]
          /\ Job(res).op = call.op /\ Job(res).anchor = call.bound
          /\ Job(res).path = call.p /\ Job(res).key = call.key
      <3>1. /\ Job(res).answer = Contract!NoAnswer
            /\ Job(res).stage = Stage(res.pc)
            /\ Job(res) = [stage |-> Stage(res.pc), op |-> res.op,
                           anchor |-> res.bound, path |-> res.p, key |-> res.key,
                           source |-> res.source, fresh |-> res.fresh,
                           answer |-> Job(res).answer]
        BY <2>4, JobIs, JobHas
      <3>2. QED
        BY <2>2, <3>1
    <2>7. Contract!Asked(Job(res))
      BY <2>3, <2>5, <2>6 DEF Contract!Asked
    <2>8. Jobs[k] = NoJob
      BY <2>1, JobsMove, NoJobIs DEF Working
    <2>9. Contract!Becomes(k, Job(res))
      BY <2>1, JobsMove
    <2>10. Jobs'[k] = Job(res)
      BY <2>9 DEF Contract!Becomes, Jobs
    <2>11. QED
      BY <2>7, <2>8, <2>9, <2>10, NoJobIs
      DEF Contract!Ask, Contract!In
  <1>4. QED
    BY <1>2, <1>3

LEMMA ResolveRefines ==
  ASSUME TypeInv, NEW k \in Calls, Resolve(k) \/ Recensus(k) \/ Repair(k)
  PROVE  Contract!Ask(k) \/ Contract!End(k)
  <1>1. calls[k] \in Call /\ CallOK(calls[k])
    BY DEF TypeInv, TypeOK
  <1>2. ASSUME Resolve(k)
        PROVE  Contract!Ask(k) \/ Contract!End(k)
    <2>1. calls[k].p \in Paths /\ calls[k].pc = "resolve"
      BY <1>1, <1>2 DEF Resolve, At, Call
    <2>2. QED
      BY <1>2, <2>1, ReturnRefines, ResolvedRefines DEF Resolve
  <1>3. ASSUME Repair(k)
        PROVE  Contract!Ask(k) \/ Contract!End(k)
    <2>1. /\ calls[k].p \in Paths /\ calls[k].pc = "repair"
          /\ calls[k].bound \in {Unsaved, calls[k].p}
      BY <1>1, <1>3 DEF Repair, At, CallOK
    <2>2. QED
      BY <1>3, <2>1, ResolvedRefines DEF Repair
  <1>4. ASSUME NEW t \in SessionIds,
               Goto(k, [calls[k] EXCEPT !.pc = "repair", !.s = t,
                                        !.p = calls[k].bound]),
               UNCHANGED <<doc, known>>
        PROVE  Contract!End(k)
    <2>1. Job([calls[k] EXCEPT !.pc = "repair", !.s = t,
                               !.p = calls[k].bound]) = NoJob
      <3>1. [calls[k] EXCEPT !.pc = "repair", !.s = t,
                             !.p = calls[k].bound].pc = "repair"
        BY <1>1 DEF Call
      <3>2. QED
        BY <3>1, NoJobIs DEF Working
    <2>2. Contract!Becomes(k, NoJob)
      BY <1>4, <2>1, JobsMove
    <2>3. QED
      BY <1>4, <2>2, NoJobIs DEF Contract!End
  <1>5. QED
    BY <1>2, <1>3, <1>4, ReturnRefines DEF Recensus, Rotated

(* The notebook a call's request reaches.                                  *)
LEMMA AtHome ==
  ASSUME TypeInv, Bindings, NEW k \in Calls, calls[k].pc \in Working,
         live[calls[k].s] # None
  PROVE  /\ calls[k] \in Call /\ CallOK(calls[k])
         /\ live[calls[k].s] \in Notebooks
         /\ doc[live[calls[k].s]] \in Source
         /\ PathOf[live[calls[k].s]] = calls[k].p
  <1>1. calls[k] \in Call /\ CallOK(calls[k])
    BY DEF TypeInv, TypeOK
  <1>2. calls[k].s \in SessionIds /\ calls[k].p \in Paths
    BY <1>1 DEF CallOK, Working
  <1>3. live[calls[k].s] \in Notebooks /\ doc[live[calls[k].s]] \in Source
    BY <1>2, ServerCells
  <1>4. PathOf[live[calls[k].s]] \in Paths
    BY <1>3, CoWorkAssumption
  <1>5. QED
    BY <1>1, <1>2, <1>3, <1>4, TrackerAssumption DEF Bindings, NotReused, PathAt

AnswerAt(pc, fps) ==
    IF pc \in {"deliver", "record"} THEN HashesIn(fps) ELSE Contract!NoAnswer

LEMMA JobUpdate ==
  ASSUME NEW stage, NEW op, NEW anchor, NEW path, NEW key, NEW source, NEW fresh,
         NEW answer, NEW later, NEW shown, NEW job,
         job = [stage |-> stage, op |-> op, anchor |-> anchor, path |-> path,
                key |-> key, source |-> source, fresh |-> fresh, answer |-> answer]
  PROVE  Contract!Moved(job, later, shown)
           = [stage |-> later, op |-> op, anchor |-> anchor, path |-> path, key |-> key,
              source |-> source, fresh |-> fresh, answer |-> shown]
  <1> DEFINE new == [job EXCEPT !.stage = later, !.answer = shown]
             res == [stage |-> later, op |-> op, anchor |-> anchor, path |-> path,
                     key |-> key, source |-> source, fresh |-> fresh, answer |-> shown]
  <1>1. /\ DOMAIN res = {"stage", "op", "anchor", "path", "key", "source", "fresh",
                         "answer"}
        /\ DOMAIN new = DOMAIN res
    OBVIOUS
  <1>2. /\ new.stage = res.stage /\ new.op = res.op /\ new.anchor = res.anchor
        /\ new.path = res.path /\ new.key = res.key /\ new.source = res.source
        /\ new.fresh = res.fresh /\ new.answer = res.answer
    OBVIOUS
  <1>3. /\ new = [field \in DOMAIN new |-> new[field]]
        /\ res = [field \in DOMAIN res |-> res[field]]
    OBVIOUS
  <1> HIDE DEF new, res
  <1>4. \A field \in DOMAIN res : new[field] = res[field]
    BY <1>1, <1>2
  <1>5. new = res
    BY <1>1, <1>3, <1>4
  <1>6. QED
    BY <1>5 DEF new, res, Contract!Moved

(* A call that moves on with its answer takes its job along.               *)
SameCall(call, next) ==
    /\ next.op = call.op /\ next.p = call.p /\ next.key = call.key
    /\ next.fresh = call.fresh /\ next.source = call.source
    /\ next.bound = call.bound

LEMMA SameCallMoves ==
  ASSUME NEW call \in Call, NEW pc, NEW fps
  PROVE  /\ SameCall(call, [call EXCEPT !.pc = pc, !.fps = fps])
         /\ [call EXCEPT !.pc = pc, !.fps = fps].pc = pc
         /\ [call EXCEPT !.pc = pc, !.fps = fps].fps = fps
  BY DEF Call, SameCall

LEMMA MovedJob ==
  ASSUME NEW call, NEW next, SameCall(call, next),
         call.pc \in Working, next.pc \in Working,
         NEW stage, stage = Stage(next.pc), NEW answer,
         answer = AnswerAt(next.pc, next.fps)
  PROVE  Job(next) = Contract!Moved(Job(call), stage, answer)
  <1> DEFINE res == [stage |-> stage, op |-> call.op,
                     anchor |-> call.bound, path |-> call.p, key |-> call.key,
                     source |-> call.source, fresh |-> call.fresh, answer |-> answer]
  <1>1. Job(next) = res
    BY DEF Job, AnswerAt, HashesIn, NoFingerprints, Contract!NoAnswer, SameCall
  <1>2. Job(call) = [stage |-> Stage(call.pc), op |-> call.op,
                     anchor |-> call.bound, path |-> call.p, key |-> call.key,
                     source |-> call.source, fresh |-> call.fresh,
                     answer |-> AnswerAt(call.pc, call.fps)]
    BY DEF Job, AnswerAt, HashesIn, NoFingerprints, Contract!NoAnswer
  <1>3. Contract!Moved(Job(call), stage, answer) = res
    BY <1>2, JobUpdate
  <1>4. QED
    BY <1>1, <1>3

LEMMA MoveRefines ==
  ASSUME TypeInv, NEW k \in Calls, NEW next, Goto(k, next), SameCall(calls[k], next),
         calls[k].pc \in Working, next.pc \in Working,
         NEW stage, stage = Stage(next.pc), NEW answer,
         answer = AnswerAt(next.pc, next.fps)
  PROVE  /\ Jobs[k] = Job(calls[k])
         /\ Contract!Becomes(k, Contract!Moved(Jobs[k], stage, answer))
  <1>1. Jobs[k] = Job(calls[k]) /\ Contract!Becomes(k, Job(next))
    BY JobsMove
  <1>2. Job(next) = Contract!Moved(Jobs[k], stage, answer)
    BY <1>1, MovedJob
  <1>3. QED
    BY <1>1, <1>2

(* What a scratchpad reads is true of the notebook it reads.               *)
LEMMA AnswersAreTrue ==
  ASSUME TypeInv, NEW n \in Notebooks, NEW fps \in Store,
         \A key \in Keys : fps[key] # None =>
             fps[key].code_hash = HashIn(doc[n][Denotes(key)])
  PROVE  HashesIn(fps) \in Contract!Answer /\ Contract!TrueOf(HashesIn(fps), n)
  <1>1. ASSUME NEW key \in Keys
        PROVE  /\ HashIn(fps[key]) \in Hashes \cup {None}
               /\ HashIn(fps[key]) # None =>
                    /\ doc[n][Contract!Denotes(key)] # None
                    /\ HashIn(fps[key]) = doc[n][Contract!Denotes(key)].code_hash
    <2>1. fps[key] \in Fingerprint \cup {None}
      BY DEF Store
    <2>2. Denotes(key) \in Cells /\ Contract!Denotes(key) = Denotes(key)
      BY DenotesCell
    <2>3. doc[n][Denotes(key)] \in Fingerprint \cup {None}
      BY <2>2, CellIsFingerprint DEF TypeInv, TypeOK, Source
    <2>4. QED
      BY <2>1, <2>2, <2>3, HashInIs
  <1>2. QED
    BY <1>1 DEF HashesIn, Contract!Answer, Contract!TrueOf

LEMMA ReadsAreTrue ==
  ASSUME NEW cells \in Source, NEW key \in Keys, NEW ref \in Keys \cup {None}
  PROVE  /\ MapOf(cells)[key] # None =>
              MapOf(cells)[key].code_hash = HashIn(cells[Denotes(key)])
         /\ HashesOf(cells)[key] # None =>
              HashesOf(cells)[key].code_hash = HashIn(cells[Denotes(key)])
         /\ DataOf(cells, ref)[key] # None =>
              DataOf(cells, ref)[key].code_hash = HashIn(cells[Denotes(key)])
  <1>1. Denotes(key) \in Cells /\ (key \in Cells => Denotes(key) = key)
    BY DenotesCell, CoWorkAssumption DEF Denotes
  <1>2. cells[Denotes(key)] \in Cell \cup {None}
    BY <1>1 DEF Source
  <1>3. MapOf(cells)[key] # None =>
              MapOf(cells)[key].code_hash = HashIn(cells[Denotes(key)])
    BY <1>1 DEF MapOf, HashIn
  <1>4. HashesOf(cells)[key] # None =>
              HashesOf(cells)[key].code_hash = HashIn(cells[Denotes(key)])
    <2>1. SUFFICES ASSUME key \in Cells, cells[key] # None
                   PROVE  [cells[key] EXCEPT !.state = None].code_hash
                             = cells[key].code_hash
      BY <1>1 DEF HashesOf, HashIn
    <2>2. cells[key] \in Cell
      BY <1>1, <1>2, <2>1
    <2>3. QED
      BY <2>2 DEF Cell
  <1>5. DataOf(cells, ref)[key] # None =>
              DataOf(cells, ref)[key].code_hash = HashIn(cells[Denotes(key)])
    <2>1. CASE ref = None
      BY <1>3, <2>1 DEF DataOf
    <2>2. CASE ref # None
      BY <2>2 DEF DataOf, HashIn
    <2>3. QED
      BY <2>1, <2>2
  <1>6. QED
    BY <1>3, <1>4, <1>5

LEMMA ExecRefines ==
  ASSUME TypeInv, Bindings, NEW k \in Calls, Exec(k)
  PROVE  Contract!Look(k)
  <1> DEFINE call  == calls[k]
             n     == live[call.s]
             cells == doc[n]
             fps   == CASE call.op = "map"  -> MapOf(cells)
                        [] call.op = "data" -> DataOf(cells, call.key)
                        [] OTHER            -> HashesOf(cells)
  <1>1. call.pc = "exec" /\ live[call.s] # None
    BY DEF Exec, At
  <1>2. call \in Call /\ n \in Notebooks /\ cells \in Source /\ PathOf[n] = call.p
    BY <1>1, AtHome DEF Working
  <1>3. fps \in Store
    <2>1. /\ MapOf(cells) \in Store
          /\ DataOf(cells, call.key) \in Store
          /\ HashesOf(cells) \in Store
      BY <1>2, MapOfType, DataOfType, HashesOfType DEF Call
    <2>2. QED
      BY <2>1
  <1>4. \A key \in Keys : fps[key] # None =>
          fps[key].code_hash = HashIn(doc[n][Denotes(key)])
    <2>1. call.key \in Keys \cup {None}
      BY <1>2 DEF Call
    <2>2. QED
      BY <1>2, <2>1, ReadsAreTrue
  <1> DEFINE next == [call EXCEPT !.pc = "deliver", !.fps = fps]
  <1>5. Goto(k, next) /\ UNCHANGED <<doc, known>>
    BY DEF Exec
  <1> HIDE DEF fps, n
  <1>6. HashesIn(fps) \in Contract!Answer /\ Contract!TrueOf(HashesIn(fps), n)
    BY <1>2, <1>3, <1>4, AnswersAreTrue
  <1>7. /\ Jobs[k] = Job(call)
        /\ Contract!Becomes(k, Contract!Moved(Jobs[k], "seen", HashesIn(fps)))
    <2>1. SameCall(call, next) /\ next.pc = "deliver" /\ next.fps = fps
      BY <1>2 DEF SameCall, Call
    <2> HIDE DEF next
    <2>2. call.pc \in Working /\ next.pc \in Working
      BY <1>1, <2>1 DEF Working
    <2>3. Stage(next.pc) = "seen" /\ AnswerAt(next.pc, next.fps) = HashesIn(fps)
      BY <2>1, StagesAre DEF AnswerAt
    <2>4. QED
      BY <1>5, <2>1, <2>2, <2>3, MoveRefines
  <1>8. Job(call).stage = "asked" /\ Job(call).path = call.p
    BY <1>1, JobHas, StagesAre DEF Working
  <1>9. Contract!Look(k)
    BY <1>2, <1>5, <1>6, <1>7, <1>8 DEF Contract!Look, Contract!In
  <1>10. QED
    BY <1>9

(* The facts of an answer.                                                 *)
LEMMA FactsAre ==
  ASSUME NEW call \in Call, call.pc \in {"deliver", "record"}, NEW way
  PROVE  Contract!Facts(Job(call), way) = Learned(call.p, call.fps, way)
  <1> DEFINE job == Job(call)
  <1>1. job.path = call.p /\ job.answer = HashesIn(call.fps)
    BY JobHas DEF Working
  <1> HIDE DEF job
  <1>2. ASSUME NEW key \in Keys
        PROVE  /\ job.answer[key] # None <=> call.fps[key] # None
               /\ call.fps[key] # None => job.answer[key] = call.fps[key].code_hash
    <2>1. call.fps[key] \in Fingerprint \cup {None}
      BY DEF Call, Store
    <2>2. job.answer[key] = HashIn(call.fps[key])
      BY <1>1 DEF HashesIn
    <2>3. QED
      BY <2>1, <2>2, HashInIs
  <1>3. {key \in Keys : job.answer[key] # None} = KeysOf(call.fps)
    BY <1>2 DEF KeysOf
  <1>4. \A key \in KeysOf(call.fps) :
          Contract!Fact(job.path, key, job.answer[key], way)
            = [path |-> call.p, key |-> key, hash |-> call.fps[key].code_hash,
               way |-> way]
    BY <1>1, <1>2 DEF Contract!Fact, KeysOf
  <1>5. QED
    BY <1>3, <1>4 DEF Contract!Facts, Learned, job

LEMMA DeliverRefines ==
  ASSUME TypeInv, NEW k \in Calls, DeliverMap(k) \/ DeliverData(k)
  PROVE  Contract!Tell(k)
  <1> DEFINE call == calls[k]
  <1>1. call \in Call /\ call.pc = "deliver"
    BY DEF TypeInv, TypeOK, DeliverMap, DeliverData, At
  <1>2. Return(k) /\ UNCHANGED doc
    BY DEF DeliverMap, DeliverData
  <1>3. Jobs[k] = Job(call) /\ Contract!Becomes(k, Contract!NoJob)
    BY <1>2, JobsMove, IdleHasNoJob, NoJobIs DEF Return
  <1>4. Job(call).stage = "seen" /\ Job(call).op = call.op
    BY <1>1, JobHas, StagesAre DEF Working
  <1>5. /\ Contract!Facts(Job(call), "source") = Learned(call.p, call.fps, "source")
        /\ Contract!Facts(Job(call), "preview") = Learned(call.p, call.fps, "preview")
    BY <1>1, FactsAre
  <1>6. \/ /\ call.op = "data"
           /\ known' = known \cup Learned(call.p, call.fps, "source")
        \/ /\ call.op = "map"
           /\ known' = known \cup Learned(call.p, call.fps, "preview")
    BY DEF DeliverMap, DeliverData
  <1>7. QED
    BY <1>2, <1>3, <1>4, <1>5, <1>6 DEF Contract!Tell, Contract!In

(* A mutation that goes on to its write; a checked edit is known.          *)
LEMMA ClearRefines ==
  ASSUME TypeInv, Answers', NEW k \in Calls, Guard(k) \/ Validate(k)
  PROVE  Contract!Clear(k) \/ Contract!End(k)
  <1> DEFINE call == calls[k]
             fps  == IF call.op = "edit" THEN Only(call.fps, call.key)
                     ELSE NoFingerprints
             next == [call EXCEPT !.pc = "write", !.fps = fps]
  <1>1. /\ call \in Call /\ CallOK(call) /\ call.pc = "deliver"
        /\ call.op \in {"create", "edit", "delete"}
        /\ UNCHANGED <<doc, known>>
    BY DEF TypeInv, TypeOK, Guard, Validate, At
  <1>2. SUFFICES ASSUME ~Return(k)
                 PROVE  Contract!Clear(k)
    BY <1>1, ReturnRefines
  <1>3. Goto(k, next)
    BY <1>2 DEF Guard, Validate
  <1>4. /\ SameCall(call, next) /\ next.pc = "write" /\ next.fps = fps
    BY <1>1 DEF SameCall, Call
  <1>5. call.key \in Keys
    BY <1>1 DEF CallOK
  <1>6. call.fps[Denotes(call.key)] # None
    <2>1. CASE Guard(k)
      <3>1. call.op = "edit" /\ call.fps[call.key] # None
        BY <1>2, <2>1 DEF Guard, UnknownCell
      <3>2. Denotes(call.key) = call.key
        BY <1>1, <3>1 DEF CallOK, Denotes
      <3>3. QED
        BY <3>1, <3>2
    <2>2. CASE Validate(k)
      BY <1>2, <2>2 DEF Validate, TargetKnown
    <2>3. QED
      BY <2>1, <2>2
  <1>7. /\ Denotes(call.key) \in Keys
        /\ Contract!Denotes(call.key) = Denotes(call.key)
    BY <1>5, DenotesCell, CoWorkAssumption
  <1>8. /\ Job(call).stage = "seen" /\ Job(call).op = call.op
        /\ Job(call).path = call.p /\ Job(call).key = call.key
        /\ Job(call).fresh = call.fresh
        /\ Job(call).answer = HashesIn(call.fps)
    BY <1>1, JobHas, StagesAre DEF Working
  <1>9. Job(call).answer[Contract!Denotes(Job(call).key)] # None
    <2>1. call.fps[Denotes(call.key)] \in Fingerprint \cup {None}
      BY <1>1, <1>7 DEF Call, Store
    <2>2. HashIn(call.fps[Denotes(call.key)]) # None
      BY <1>6, <2>1, HashInIs
    <2>3. QED
      BY <1>7, <1>8, <2>2 DEF HashesIn
  <1>10. ASSUME call.fresh
         PROVE  \E way \in {"source", "refresh"} :
                  Contract!Fact(call.p, call.key, HashIn(call.fps[call.key]), way)
                    \in known
    <2>1. call.op = "edit"
      BY <1>1, <1>10 DEF CallOK
    <2>2. calls'[k] = next
      BY <1>3 DEF Goto, TypeInv, TypeOK
    <2>3. /\ calls'[k].pc = "write" /\ calls'[k].fresh
          /\ calls'[k].p = call.p /\ calls'[k].key = call.key
          /\ calls'[k].fps = Only(call.fps, call.key)
      BY <1>4, <1>10, <2>1, <2>2 DEF SameCall
    <2>4. Only(call.fps, call.key)[call.key] = call.fps[call.key]
      BY <1>5 DEF Only, NoFingerprints
    <2>5. \E way \in Sourced :
            [path |-> call.p, key |-> call.key,
             hash |-> call.fps[call.key].code_hash, way |-> way] \in known'
      BY <2>3, <2>4 DEF Answers, GuardTrust, At, Knows, KnownIn
    <2>6. HashIn(call.fps[call.key]) = call.fps[call.key].code_hash
      BY <1>1, <1>2, <2>1 DEF Guard, Validate, UnknownCell, HashIn
    <2>7. QED
      BY <1>1, <2>5, <2>6 DEF Contract!Fact, Sourced
  <1>11. /\ Jobs[k] = Job(call)
         /\ Contract!Becomes(k, Contract!Moved(Jobs[k], "cleared", Contract!NoAnswer))
    <2> HIDE DEF next
    <2>1. call.pc \in Working /\ next.pc \in Working
      BY <1>1, <1>4 DEF Working
    <2>2. Stage(next.pc) = "cleared" /\ AnswerAt(next.pc, next.fps) = Contract!NoAnswer
      BY <1>4, StagesAre DEF AnswerAt
    <2>3. QED
      BY <1>3, <1>4, <2>1, <2>2, MoveRefines
  <1>12. HashesIn(call.fps)[call.key] = HashIn(call.fps[call.key])
    BY <1>5 DEF HashesIn
  <1>13. QED
    BY <1>1, <1>8, <1>9, <1>10, <1>11, <1>12
    DEF Contract!Clear, Contract!In

(* A write, whose answer may be lost.                                      *)
LEMMA WrittenRefines ==
  ASSUME TypeInv, NEW k \in Calls, NEW call \in Call, call.pc = "write",
         Written(k, call)
  PROVE  Contract!Wrote(k, Job(call))
  <1> DEFINE next == [call EXCEPT !.pc = "refresh", !.fps = NoFingerprints]
  <1>1. CASE Return(k)
    <2>1. Contract!Becomes(k, Contract!NoJob)
      BY <1>1, JobsMove, IdleHasNoJob, NoJobIs DEF Return
    <2>2. QED
      BY <2>1 DEF Contract!Wrote
  <1>2. CASE Goto(k, next)
    <2>1. SameCall(call, next) /\ next.pc = "refresh"
      BY DEF SameCall, Call
    <2> HIDE DEF next
    <2>2. Contract!Becomes(k, Job(next))
      BY <1>2, JobsMove
    <2>3. call.pc \in Working /\ next.pc \in Working
      BY <2>1 DEF Working
    <2>4. Stage(next.pc) = "written" /\ AnswerAt(next.pc, next.fps) = Contract!NoAnswer
      BY <2>1, StagesAre DEF AnswerAt
    <2>5. Job(next) = Contract!Moved(Job(call), "written", Contract!NoAnswer)
      BY <2>1, <2>3, <2>4, MovedJob
    <2>6. QED
      BY <2>2, <2>5 DEF Contract!Wrote
  <1>3. QED
    BY <1>1, <1>2 DEF Written

(* Where a write is executed, and what its call is for.                    *)
LEMMA WriteAt ==
  ASSUME TypeInv, Bindings, NEW k \in Calls, At(k, "write"),
         live[calls[k].s] # None
  PROVE  /\ calls[k] \in Call /\ CallOK(calls[k]) /\ calls[k].pc = "write"
         /\ live[calls[k].s] \in Notebooks
         /\ PathOf[live[calls[k].s]] = Jobs[k].path
         /\ Jobs[k] = Job(calls[k])
         /\ Jobs[k].stage = "cleared" /\ Jobs[k].op = calls[k].op
         /\ Jobs[k].key = calls[k].key /\ Jobs[k].source = calls[k].source
         /\ Jobs[k].path = calls[k].p
  <1>1. calls[k].pc = "write" /\ calls[k].pc \in Working
    BY DEF At, Working
  <1>2. /\ calls[k] \in Call /\ CallOK(calls[k])
        /\ live[calls[k].s] \in Notebooks
        /\ PathOf[live[calls[k].s]] = calls[k].p
    BY <1>1, AtHome
  <1>3. Jobs[k] = Job(calls[k])
    BY DEF Jobs
  <1>4. QED
    BY <1>1, <1>2, <1>3, JobHas, StagesAre

LEMMA WriteEditRefines ==
  ASSUME TypeInv, Bindings, NEW k \in Calls, WriteEdit(k)
  PROVE  Contract!Edit(k)
  <1> DEFINE call == calls[k]
             n    == live[call.s]
  <1>1. At(k, "write") /\ n # None /\ call.op = "edit"
    BY DEF WriteEdit
  <1>2. /\ call \in Call /\ CallOK(call) /\ call.pc = "write" /\ n \in Notebooks
        /\ PathOf[n] = Jobs[k].path /\ Jobs[k] = Job(call)
        /\ Jobs[k].stage = "cleared" /\ Jobs[k].op = call.op
        /\ Jobs[k].key = call.key /\ Jobs[k].source = call.source
        /\ Jobs[k].path = call.p
    BY <1>1, WriteAt
  <1>3. doc[n][call.key] # None
    BY DEF WriteEdit
  <1>4. PICK state \in States :
          PutCell(n, call.key, [code_hash |-> call.source, state |-> state])
    BY DEF WriteEdit
  <1>5. Contract!PutSource(n, call.key, call.source)
    BY <1>4, PutRefines DEF Contract!PutSource
  <1>6. Contract!Wrote(k, Jobs[k])
    BY <1>2, WrittenRefines DEF WriteEdit
  <1>7. known' = known \cup Contract!Authored(Jobs[k], call.key)
    BY <1>2 DEF WriteEdit, Authored, Contract!Authored, Contract!Fact
  <1>8. Contract!Edit(k)
    BY <1>1, <1>2, <1>3, <1>5, <1>6, <1>7 DEF Contract!Edit, Contract!In
  <1>9. QED
    BY <1>2, <1>8

LEMMA WriteDeleteRefines ==
  ASSUME TypeInv, Bindings, NEW k \in Calls, WriteDelete(k)
  PROVE  Contract!Delete(k)
  <1> DEFINE call == calls[k]
             n    == live[call.s]
  <1>1. At(k, "write") /\ n # None /\ call.op = "delete"
    BY DEF WriteDelete
  <1>2. /\ call \in Call /\ CallOK(call) /\ call.pc = "write" /\ n \in Notebooks
        /\ PathOf[n] = Jobs[k].path /\ Jobs[k] = Job(call)
        /\ Jobs[k].stage = "cleared" /\ Jobs[k].op = call.op
        /\ Jobs[k].key = call.key
    BY <1>1, WriteAt
  <1>3. /\ call.key \in Keys /\ Denotes(call.key) \in Cells
        /\ Contract!Denotes(call.key) = Denotes(call.key)
    BY <1>1, <1>2, DenotesCell DEF CallOK
  <1>4. doc[n][Denotes(call.key)] # None
    BY DEF WriteDelete
  <1>5. Contract!Put(n, Denotes(call.key), None)
    BY PutRefines DEF WriteDelete
  <1>6. Contract!Wrote(k, Jobs[k]) /\ UNCHANGED known
    BY <1>2, WrittenRefines DEF WriteDelete
  <1>7. Contract!Delete(k)
    BY <1>1, <1>2, <1>3, <1>4, <1>5, <1>6 DEF Contract!Delete, Contract!In
  <1>8. QED
    BY <1>2, <1>7

LEMMA JobOn ==
  ASSUME NEW call \in Call, call.pc = "write", NEW c
  PROVE  Job([call EXCEPT !.key = c]) = Contract!On(Job(call), c)
  <1> DEFINE next == [call EXCEPT !.key = c]
             job  == Job(call)
             new  == Contract!On(job, c)
  <1>1. /\ next.pc = "write" /\ next.op = call.op /\ next.p = call.p
        /\ next.fresh = call.fresh /\ next.source = call.source
        /\ next.bound = call.bound /\ next.key = c
    BY DEF Call
  <1> HIDE DEF next
  <1>2. Job(next) = [stage |-> Stage("write"), op |-> call.op,
                     anchor |-> call.bound, path |-> call.p, key |-> c,
                     source |-> call.source, fresh |-> call.fresh,
                     answer |-> Contract!NoAnswer]
    BY <1>1 DEF Job, Working, NoFingerprints, Contract!NoAnswer
  <1>3. job = [stage |-> Stage("write"), op |-> call.op,
               anchor |-> call.bound, path |-> call.p, key |-> call.key,
               source |-> call.source, fresh |-> call.fresh,
               answer |-> Contract!NoAnswer]
    BY DEF Job, Working, NoFingerprints, Contract!NoAnswer
  <1> HIDE DEF job
  <1>4. new = [stage |-> Stage("write"), op |-> call.op,
               anchor |-> call.bound, path |-> call.p, key |-> c,
               source |-> call.source, fresh |-> call.fresh,
               answer |-> Contract!NoAnswer]
    BY <1>3 DEF Contract!On
  <1>5. QED
    BY <1>2, <1>4 DEF next, job

LEMMA WriteCreateRefines ==
  ASSUME TypeInv, Bindings, NEW k \in Calls, WriteCreate(k)
  PROVE  Contract!Create(k)
  <1> DEFINE call == calls[k]
             n    == live[call.s]
  <1>1. At(k, "write") /\ n # None /\ call.op = "create"
    BY DEF WriteCreate
  <1>2. /\ call \in Call /\ CallOK(call) /\ call.pc = "write" /\ n \in Notebooks
        /\ PathOf[n] = Jobs[k].path /\ Jobs[k] = Job(call)
        /\ Jobs[k].stage = "cleared" /\ Jobs[k].op = call.op
        /\ Jobs[k].key = call.key /\ Jobs[k].source = call.source
        /\ Jobs[k].path = call.p
    BY <1>1, WriteAt
  <1>3. call.source \in Hashes /\ call.key \in Keys \cup {None}
    BY <1>1, <1>2 DEF CallOK, Call
  <1>4. ASSUME call.key # None
        PROVE  doc[n][Contract!Denotes(call.key)] # None
    BY <1>3, <1>4, DenotesCell DEF WriteCreate
  <1>5. PICK c \in Cells, state \in States :
          /\ doc[n][c] = None
          /\ PutCell(n, c, [code_hash |-> call.source, state |-> state])
          /\ Written(k, [call EXCEPT !.key = c])
          /\ known' = known \cup Authored(call, c)
    BY DEF WriteCreate
  <1>6. Contract!PutSource(n, c, call.source)
    BY <1>5, PutRefines DEF Contract!PutSource
  <1>7. Contract!Wrote(k, Contract!On(Jobs[k], c))
    <2> DEFINE next == [call EXCEPT !.key = c]
    <2>1. next \in Call /\ next.pc = "write"
      BY <1>2, CoWorkAssumption DEF Call
    <2>2. Job(next) = Contract!On(Jobs[k], c)
      BY <1>2, JobOn
    <2>3. Written(k, next)
      BY <1>5
    <2> HIDE DEF next
    <2>4. QED
      BY <2>1, <2>2, <2>3, WrittenRefines
  <1>8. known' = known \cup Contract!Authored(Jobs[k], c)
    BY <1>2, <1>5 DEF Authored, Contract!Authored, Contract!Fact
  <1>9. Contract!Create(k)
    BY <1>1, <1>2, <1>4, <1>5, <1>6, <1>7, <1>8 DEF Contract!Create, Contract!In
  <1>10. QED
    BY <1>9

LEMMA RefreshRefines ==
  ASSUME TypeInv, Bindings, NEW k \in Calls, RefreshRead(k)
  PROVE  Contract!LookAgain(k)
  <1> DEFINE call == calls[k]
             n    == live[call.s]
             fps  == Touched(HashesOf(doc[n]), call.key)
             next == [call EXCEPT !.pc = "record", !.fps = fps]
  <1>1. call.pc = "refresh" /\ live[call.s] # None
    BY DEF RefreshRead, At
  <1>2. /\ call \in Call /\ CallOK(call) /\ n \in Notebooks /\ doc[n] \in Source
        /\ PathOf[n] = call.p
    BY <1>1, AtHome DEF Working
  <1>3. call.key \in Keys
    BY <1>1, <1>2 DEF CallOK
  <1>4. fps \in Store
    BY <1>2, <1>3, HashesOfType, OnlyType DEF Touched
  <1>5. /\ \A key \in Keys \ {call.key} : fps[key] = None
        /\ \A key \in Keys : fps[key] # None => fps[key] = HashesOf(doc[n])[key]
    BY <1>3 DEF Touched, Only, NoFingerprints
  <1>6. Goto(k, next) /\ UNCHANGED <<doc, known>>
    BY DEF RefreshRead
  <1>7. SameCall(call, next) /\ next.pc = "record" /\ next.fps = fps
    BY <1>2 DEF SameCall, Call
  <1> HIDE DEF fps, n, next
  <1>8. HashesIn(fps) \in Contract!Answer /\ Contract!TrueOf(HashesIn(fps), n)
    <2>1. \A key \in Keys : fps[key] # None =>
            fps[key].code_hash = HashIn(doc[n][Denotes(key)])
      BY <1>2, <1>5, ReadsAreTrue
    <2>2. QED
      BY <1>2, <1>4, <2>1, AnswersAreTrue
  <1>9. \A key \in Keys \ {call.key} : HashesIn(fps)[key] = None
    BY <1>5 DEF HashesIn, HashIn
  <1>10. /\ Jobs[k] = Job(call)
         /\ Contract!Becomes(k, Contract!Moved(Jobs[k], "reread", HashesIn(fps)))
    <2>1. call.pc \in Working /\ next.pc \in Working
      BY <1>1, <1>7 DEF Working
    <2>2. Stage(next.pc) = "reread" /\ AnswerAt(next.pc, next.fps) = HashesIn(fps)
      BY <1>7, StagesAre DEF AnswerAt
    <2>3. QED
      BY <1>6, <1>7, <2>1, <2>2, MoveRefines
  <1>11. /\ Job(call).stage = "written" /\ Job(call).path = call.p
         /\ Job(call).key = call.key
    BY <1>1, JobHas, StagesAre DEF Working
  <1>12. Contract!LookAgain(k)
    BY <1>2, <1>6, <1>8, <1>9, <1>10, <1>11
    DEF Contract!LookAgain, Contract!In
  <1>13. QED
    BY <1>12

LEMMA RecordRefines ==
  ASSUME TypeInv, RefreshTouchesOne, NEW k \in Calls, Record(k)
  PROVE  Contract!Note(k)
  <1> DEFINE call == calls[k]
  <1>1. call \in Call /\ call.pc = "record" /\ Return(k) /\ UNCHANGED doc
    BY DEF TypeInv, TypeOK, Record, At
  <1>2. Jobs[k] = Job(call) /\ Contract!Becomes(k, Contract!NoJob)
    BY <1>1, JobsMove, IdleHasNoJob, NoJobIs DEF Return
  <1>3. Job(call).stage = "reread" /\ Job(call).op = call.op
    BY <1>1, JobHas, StagesAre DEF Working
  <1>4. Contract!Facts(Job(call), "refresh") = Learned(call.p, call.fps, "refresh")
    BY <1>1, FactsAre
  <1>5. {fact \in Learned(call.p, call.fps, "refresh") : fact.key = call.key}
          = Learned(call.p, call.fps, "refresh")
    <2>1. \A key \in KeysOf(call.fps) : key = call.key
      BY <1>1 DEF RefreshTouchesOne, At, KeysOf
    <2>2. QED
      BY <2>1 DEF Learned
  <1>6. known' = IF call.op = "delete" THEN known
                 ELSE known \cup Learned(call.p, call.fps, "refresh")
    BY <1>5 DEF Record
  <1>7. QED
    BY <1>1, <1>2, <1>3, <1>4, <1>6 DEF Contract!Note, Contract!In

LEMMA HumanRefines ==
  ASSUME TypeInv, NEW n \in Notebooks, NEW c \in Cells, HumanChange(n, c)
  PROVE  Contract!Human(n, c)
  <1>1. PICK cell \in Cell \cup {None} : PutCell(n, c, cell)
    BY DEF HumanChange
  <1>2. Contract!Put(n, c, cell)
    BY <1>1, PutRefines
  <1>3. Jobs' = Jobs /\ known' = known
    BY DEF HumanChange, Jobs
  <1>4. QED
    BY <1>2, <1>3 DEF Contract!Human, Contract!Cell, Cell

LEMMA RestartRefines ==
  ASSUME Restart
  PROVE  Contract!EndAll
  <1>1. Jobs' = [k \in Calls |-> Contract!NoJob]
    BY IdleHasNoJob, NoJobIs DEF Restart, Jobs
  <1>2. QED
    BY <1>1 DEF Restart, Contract!EndAll

LEMMA CallRefines ==
  ASSUME TypeInv, TrustInv, TrustInv', NEW k \in Calls, Step(k) \/ Fail(k)
  PROVE  Contract!Next
  <1>1. Bindings /\ RefreshTouchesOne /\ Answers'
    BY DEF TrustInv, Answers
  <1>2. CASE Resolve(k) \/ Recensus(k) \/ Repair(k)
    BY <1>2, ResolveRefines DEF Contract!Next
  <1>3. CASE Exec(k)
    BY <1>1, <1>3, ExecRefines DEF Contract!Next
  <1>4. CASE DeliverMap(k) \/ DeliverData(k)
    BY <1>4, DeliverRefines DEF Contract!Next
  <1>5. CASE Guard(k) \/ Validate(k)
    BY <1>1, <1>5, ClearRefines DEF Contract!Next
  <1>6. CASE WriteEdit(k)
    BY <1>1, <1>6, WriteEditRefines DEF Contract!Next
  <1>7. CASE WriteCreate(k)
    BY <1>1, <1>7, WriteCreateRefines DEF Contract!Next
  <1>8. CASE WriteDelete(k)
    BY <1>1, <1>8, WriteDeleteRefines DEF Contract!Next
  <1>9. CASE RefreshRead(k)
    BY <1>1, <1>9, RefreshRefines DEF Contract!Next
  <1>10. CASE Record(k)
    BY <1>1, <1>10, RecordRefines DEF Contract!Next
  <1>11. CASE Fail(k)
    <2>1. Contract!End(k)
      BY <1>11, ReturnRefines DEF Fail
    <2>2. QED
      BY <2>1 DEF Contract!Next
  <1>12. QED
    BY <1>2, <1>3, <1>4, <1>5, <1>6, <1>7, <1>8, <1>9, <1>10, <1>11 DEF Step

LEMMA ContractStep ==
  TypeInv /\ TrustInv /\ TrustInv' /\ [Next]_vars => [Contract!Next]_Contract!vars
  <1> SUFFICES ASSUME TypeInv, TrustInv, TrustInv', [Next]_vars
               PROVE  [Contract!Next]_Contract!vars
    OBVIOUS
  <1>1. ASSUME NEW k \in Calls, NEW op, NEW sid, NEW bound, NEW key, NEW source,
               NEW fresh, Begin(k, op, sid, bound, key, source, fresh)
        PROVE  Contract!Next
    BY <1>1, BeginRefines DEF Contract!Next
  <1>2. ASSUME NEW n \in Notebooks, NEW c \in Cells, HumanChange(n, c)
        PROVE  Contract!Next
    BY <1>2, HumanRefines DEF Contract!Next
  <1>3. CASE Restart
    BY <1>3, RestartRefines DEF Contract!Next
  <1>4. CASE UNCHANGED <<doc, calls, known>>
    BY <1>4 DEF Contract!vars, Jobs
  <1>5. /\ \A s \in SessionIds, n \in Notebooks :
             Open(s, n) => UNCHANGED <<doc, calls, known>>
        /\ \A s, t \in SessionIds :
             Close(s) \/ Rekey(s, t) => UNCHANGED <<doc, calls, known>>
        /\ UNCHANGED vars => UNCHANGED <<doc, calls, known>>
    BY DEF Open, Close, Rekey, vars
  <1>6. QED
    BY <1>1, <1>2, <1>3, <1>4, <1>5, CallRefines DEF Next

LEMMA ContractInit == Init => Contract!Init
  <1> SUFFICES ASSUME Init PROVE Contract!Init
    OBVIOUS
  <1>1. doc \in [Notebooks -> [Cells -> Contract!Cell \cup {None}]]
    BY DEF Init, Source, Cell, Contract!Cell
  <1>2. Jobs = [k \in Calls |-> Contract!NoJob]
    BY IdleHasNoJob, NoJobIs DEF Init, Jobs
  <1>3. QED
    BY <1>1, <1>2 DEF Init, Contract!Init

(* The cell tools implement their contract, for any number of calls,       *)
(* sessions, notebooks, cells and names: with ids that are re-keyed and    *)
(* entries that are shared, cleared and re-attributed, each call works in  *)
(* one notebook, shows what is there, edits over nothing but what the      *)
(* agent knows of it, and writes the one cell it was asked for.            *)
THEOREM ImplementsContract ==
  ASSUME ~ReuseInFlight
  PROVE  Spec => KeepsContract
  <1>1. TypeInv /\ TrustInv /\ TrustInv' /\ [Next]_vars
          => [Contract!Next]_Contract!vars
    BY ContractStep
  <1>2. Init => Contract!Init
    BY ContractInit
  <1>3. QED
    BY <1>1, <1>2, TrustIsKept, TypesKept, PTL
    DEF Spec, KeepsContract, Contract!Spec
=============================================================================
