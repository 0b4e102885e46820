---------------------------- MODULE TrackerProofs ----------------------------
(***************************************************************************)
(* Theorems about the change tracker, for any number of keys, sources,     *)
(* states and notebooks and for call histories of any length: an entry is  *)
(* what its history says, and a diff is exact.                             *)
(***************************************************************************)
EXTENDS TrackerLog, TLAPS

LEMMA UnrecordedType == NoFingerprints \in Store /\ Unrecorded \in Entry
  BY DEF NoFingerprints, Store, Unrecorded, Entry

LEMMA MergeType ==
  ASSUME NEW store \in Store, NEW fps \in Store
  PROVE  Merge(store, fps) \in Store
  BY DEF Merge, Store

LEMMA WithoutType ==
  ASSUME NEW store \in Store, NEW keys
  PROVE  Without(store, keys) \in Store
  BY DEF Without, Store

LEMMA AdoptType ==
  ASSUME NEW e \in Entry, NEW path \in Paths
  PROVE  Adopt(e, path) \in Entry
  BY UnrecordedType DEF Adopt, Entry

LEMMA RecordCellsType ==
  ASSUME NEW e \in Entry, NEW fps \in Store
  PROVE  RecordCells(e, fps) \in Entry
  <1>1. Merge(e.baseline, fps) \in Store /\ Merge(e.snapshot, fps) \in Store
    BY MergeType DEF Entry
  <1>2. QED
    BY <1>1 DEF RecordCells, Entry

LEMMA CommitType ==
  ASSUME NEW e \in Entry, NEW fps \in Store
  PROVE  Commit(e, fps) \in Entry
  BY DEF Commit, Entry

LEMMA ForgetCellsType ==
  ASSUME NEW e \in Entry, NEW keys
  PROVE  ForgetCells(e, keys) \in Entry
  <1>1. Without(e.baseline, keys) \in Store /\ Without(e.snapshot, keys) \in Store
    BY WithoutType DEF Entry
  <1>2. QED
    BY <1>1 DEF ForgetCells, Entry

(* A step is one of the tracker's methods.                                 *)
Moves(method) ==
    /\ log' = Append(log, method)
    /\ \/ /\ method.op = "adopt" /\ method.path \in Paths
          /\ entry' = Adopt(entry, method.path)
       \/ /\ method.op = "record" /\ method.fps \in Observations
          /\ entry' = RecordCells(entry, method.fps)
       \/ /\ method.op = "commit" /\ method.fps \in Observations
          /\ entry' = Commit(entry, method.fps)
       \/ /\ method.op = "forget" /\ entry' = ForgetCells(entry, method.keys)
       \/ /\ method.op = "clear" /\ entry' = Unrecorded

LEMMA StepMoves ==
  ASSUME Next
  PROVE  \E method \in Method : Moves(method)
  <1>1. ASSUME NEW path \in Paths, AdoptNotebook(path)
        PROVE  \E method \in Method : Moves(method)
    <2> DEFINE method == [op |-> "adopt", path |-> path]
    <2>1. method \in Method /\ Moves(method)
      BY <1>1 DEF AdoptNotebook, Do, Moves, Method
    <2>2. QED
      BY <2>1
  <1>2. ASSUME NEW fps \in Observations, Record(fps) \/ CommitMap(fps)
        PROVE  \E method \in Method : Moves(method)
    <2> DEFINE method(op) == [op |-> op, fps |-> fps]
    <2>1. \A op \in {"record", "commit"} : method(op) \in Method
      BY DEF Method
    <2>2. CASE Record(fps)
      <3>1. Moves(method("record"))
        BY <2>2 DEF Record, Do, Moves
      <3>2. QED
        BY <2>1, <3>1
    <2>3. CASE CommitMap(fps)
      <3>1. Moves(method("commit"))
        BY <2>3 DEF CommitMap, Do, Moves
      <3>2. QED
        BY <2>1, <3>1
    <2>4. QED
      BY <1>2, <2>2, <2>3
  <1>3. ASSUME NEW keys \in SUBSET Keys \ {{}}, Forget(keys)
        PROVE  \E method \in Method : Moves(method)
    <2> DEFINE method == [op |-> "forget", keys |-> keys]
    <2>1. method \in Method /\ Moves(method)
      BY <1>3 DEF Forget, Do, Moves, Method
    <2>2. QED
      BY <2>1
  <1>4. ASSUME Clear
        PROVE  \E method \in Method : Moves(method)
    <2> DEFINE method == [op |-> "clear"]
    <2>1. method \in Method /\ Moves(method)
      BY <1>4 DEF Clear, Do, Moves, Method
    <2>2. QED
      BY <2>1
  <1>5. QED
    BY <1>1, <1>2, <1>3, <1>4 DEF Next

LEMMA TypeStep ==
  ASSUME TypeOK, NEW method \in Method, Moves(method)
  PROVE  TypeOK'
  <1>1. Observations \subseteq Store
    BY LogAssumption
  <1>2. entry' \in Entry
    BY <1>1, UnrecordedType, AdoptType, RecordCellsType, CommitType, ForgetCellsType
    DEF TypeOK, Moves
  <1>3. log' \in Seq(Method)
    BY DEF TypeOK, Moves
  <1>4. QED
    BY <1>2, <1>3 DEF TypeOK

(* Types hold for ever: each method of the ChangeTracker makes a well      *)
(* formed entry of a well formed one.                                      *)
THEOREM TypeCorrect == Spec => []TypeOK
  <1>1. Init => TypeOK
    BY UnrecordedType DEF Init, TypeOK
  <1>2. TypeOK /\ [Next]_vars => TypeOK'
    <2>1. CASE Next
      BY <2>1, StepMoves, TypeStep
    <2>2. CASE UNCHANGED vars
      BY <2>2 DEF vars, TypeOK
    <2>3. QED
      BY <2>1, <2>2
  <1>3. QED
    BY <1>1, <1>2, PTL DEF Spec
-----------------------------------------------------------------------------
LEMMA DiffOf ==
  ASSUME NEW e \in Entry, NEW fps \in Store, NEW key \in Keys
  PROVE  LET change == Diff(e, fps)
             old == e.snapshot[key]
             now == fps[key]
         IN  /\ key \in change.new_cells <=> old = None /\ now # None
             /\ key \in change.removed_cells <=> old # None /\ now = None
             /\ key \in change.edited_cells <=>
                  old # None /\ now # None /\ now.code_hash # old.code_hash
             /\ key \in change.state_changed <=>
                  /\ old # None /\ now # None /\ now.code_hash = old.code_hash
                  /\ old.state # None /\ now.state # old.state
  BY DEF Diff, KeysOf

LEMMA DiffWithin ==
  ASSUME NEW e, NEW fps
  PROVE  LET change == Diff(e, fps) IN
         /\ change.new_cells \subseteq Keys /\ change.removed_cells \subseteq Keys
         /\ change.edited_cells \subseteq Keys /\ change.state_changed \subseteq Keys
  BY DEF Diff, KeysOf

(* get_cell_map's diff is silent about exactly the cells that are as they  *)
(* were last observed, and says one thing at most about each, whatever was *)
(* observed before (ChangeTracker.diff).                                   *)
THEOREM DiffsAreExact == Spec => []DiffExact
  <1>1. TypeOK => DiffExact
    <2> SUFFICES ASSUME TypeOK, NEW fps \in Observations
                 PROVE  LET change == Diff(entry, fps)
                            lists  == <<change.new_cells, change.edited_cells,
                                        change.removed_cells, change.state_changed>>
                        IN  /\ \A key \in Keys :
                                 SameCell(entry.snapshot[key], fps[key])
                                   <=> \A i \in DOMAIN lists : key \notin lists[i]
                            /\ \A i, j \in DOMAIN lists :
                                 i # j => lists[i] \cap lists[j] = {}
      BY DEF DiffExact
    <2> DEFINE change == Diff(entry, fps)
               lists  == <<change.new_cells, change.edited_cells,
                           change.removed_cells, change.state_changed>>
    <2>1. fps \in Store /\ entry \in Entry
      BY LogAssumption DEF TypeOK
    <2>2. DOMAIN lists = 1..4
      OBVIOUS
    <2>3. /\ lists[1] = change.new_cells /\ lists[2] = change.edited_cells
          /\ lists[3] = change.removed_cells /\ lists[4] = change.state_changed
      OBVIOUS
    <2>4. \A key : (\A i \in DOMAIN lists : key \notin lists[i]) <=>
                     key \notin change.new_cells \cup change.edited_cells
                                  \cup change.removed_cells \cup change.state_changed
      BY <2>2, <2>3
    <2>5. ASSUME NEW key \in Keys
          PROVE  SameCell(entry.snapshot[key], fps[key]) <=>
                   key \notin change.new_cells \cup change.edited_cells
                                \cup change.removed_cells \cup change.state_changed
      BY <2>1, <2>5, DiffOf DEF SameCell
    <2>6. ASSUME NEW i \in DOMAIN lists, NEW j \in DOMAIN lists, i # j,
                 NEW key \in lists[i] \cap lists[j]
          PROVE  FALSE
      <3>1. key \in Keys
        BY <2>2, <2>3, <2>6, DiffWithin
      <3>2. i \in 1..4 /\ j \in 1..4
        BY <2>2
      <3>3. QED
        BY <2>1, <2>3, <2>6, <3>1, <3>2, DiffOf
    <2>7. QED
      BY <2>4, <2>5, <2>6
  <1>2. QED
    BY <1>1, TypeCorrect, PTL
-----------------------------------------------------------------------------
(* Sets of times have a latest one.                                        *)
Maxed == \A T \in SUBSET DOMAIN log :
            T = {} \/ \E last \in T : \A i \in T : last >= i

LEMMA LatestIs ==
  ASSUME TypeOK, Maxed, NEW T, T \subseteq DOMAIN log
  PROVE  /\ T = {} => Latest(T) = 0
         /\ T # {} => Latest(T) \in T /\ \A i \in T : Latest(T) >= i
  BY DEF Maxed, Latest, Max

LEMMA LatestAdded ==
  ASSUME NEW n \in Nat, NEW T, T \subseteq 1..n
  PROVE  Latest(T \cup {n + 1}) = n + 1
  <1> DEFINE S == T \cup {n + 1}
  <1>1. /\ n + 1 \in S /\ \A i \in S : n + 1 >= i
        /\ \A x \in S : (\A i \in S : x >= i) => x = n + 1
    OBVIOUS
  <1> HIDE DEF S
  <1>2. Max(S) = n + 1
    BY <1>1 DEF Max
  <1>3. QED
    BY <1>1, <1>2 DEF Latest, S

(* A call is added at the end of the log.                                  *)
LEMMA Grows ==
  ASSUME TypeOK, NEW method \in Method, Moves(method), NEW n \in Nat, n = Len(log)
  PROVE  /\ n \in Nat /\ DOMAIN log = 1..n /\ DOMAIN log' = 1..(n + 1)
         /\ Len(log)' = n + 1
         /\ \A i \in 1..n : log'[i] = log[i]
         /\ log'[n + 1] = method
  BY DEF TypeOK, Moves

LEMMA TimesGrow ==
  ASSUME TypeOK, NEW method \in Method, Moves(method), NEW n \in Nat, n = Len(log), NEW ops
  PROVE  /\ Times(ops) \subseteq 1..n
         /\ method.op \in ops => Times(ops)' = Times(ops) \cup {n + 1}
         /\ method.op \notin ops => Times(ops)' = Times(ops)
  BY Grows DEF Times

LEMMA MaxedStep ==
  ASSUME TypeOK, Maxed, NEW method \in Method, Moves(method)
  PROVE  Maxed'
  <1>1. PICK n \in Nat : n = Len(log)
    BY DEF TypeOK
  <1>2. n \in Nat /\ DOMAIN log = 1..n /\ DOMAIN log' = 1..(n + 1)
    BY <1>1, Grows
  <1> SUFFICES ASSUME NEW T \in SUBSET (1..(n + 1)), T # {}
               PROVE  \E last \in T : \A i \in T : last >= i
    BY <1>2 DEF Maxed
  <1>3. CASE n + 1 \in T
    BY <1>2, <1>3
  <1>4. CASE n + 1 \notin T
    <2>1. T \subseteq DOMAIN log
      BY <1>2, <1>4
    <2>2. QED
      BY <2>1 DEF Maxed
  <1>5. QED
    BY <1>3, <1>4

LEMMA OwnerKept ==
  ASSUME TypeOK, Maxed, NEW method \in Method, Moves(method), NEW n \in Nat, n = Len(log),
         NEW i \in 0..n
  PROVE  OwnerAfter(i)' = OwnerAfter(i)
  <1>1. PICK T : T = {j \in Times({"adopt", "clear"}) : j <= i}
    OBVIOUS
  <1>2. T \subseteq DOMAIN log /\ n \in Nat
    BY <1>1, Grows DEF Times
  <1>3. T = {j \in Times({"adopt", "clear"})' : j <= i}
    BY <1>1, <1>2, Grows DEF Times
  <1>4. Latest(T) = 0 \/ Latest(T) \in T
    BY <1>2, LatestIs
  <1>5. Latest(T) # 0 => log'[Latest(T)] = log[Latest(T)]
    BY <1>2, <1>4, Grows
  <1>6. QED
    BY <1>1, <1>3, <1>5 DEF OwnerAfter

LEMMA OwnerNext ==
  ASSUME TypeOK, Maxed, NEW method \in Method, Moves(method), NEW n \in Nat, n = Len(log)
  PROVE  /\ method.op = "clear" => OwnerAfter(n + 1)' = None
         /\ method.op = "adopt" => OwnerAfter(n + 1)' = method.path
         /\ method.op \notin {"clear", "adopt"} =>
              OwnerAfter(n + 1)' = OwnerAfter(n)
  <1>1. PICK T : T = Times({"adopt", "clear"})
    OBVIOUS
  <1>2. n \in Nat /\ T \subseteq 1..n /\ DOMAIN log = 1..n
    BY <1>1, Grows, TimesGrow
  <1>3. T = {j \in Times({"adopt", "clear"}) : j <= n}
    BY <1>1, <1>2
  <1>4. CASE method.op \in {"adopt", "clear"}
    <2>1. T \cup {n + 1} = {j \in Times({"adopt", "clear"})' : j <= n + 1}
      BY <1>1, <1>2, <1>4, TimesGrow
    <2>2. Latest(T \cup {n + 1}) = n + 1
      BY <1>2, LatestAdded
    <2>3. log'[n + 1] = method
      BY Grows
    <2>4. OwnerAfter(n + 1)' = IF method.op = "clear" THEN None ELSE method.path
      <3>1. n + 1 # 0
        BY <1>2
      <3>2. QED
        BY <2>1, <2>2, <2>3, <3>1 DEF OwnerAfter
    <2>5. QED
      BY <1>4, <2>4
  <1>5. CASE method.op \notin {"adopt", "clear"}
    <2>1. T = {j \in Times({"adopt", "clear"})' : j <= n + 1}
      BY <1>1, <1>2, <1>5, TimesGrow
    <2>2. Latest(T) = 0 \/ Latest(T) \in T
      BY <1>2, LatestIs
    <2>3. Latest(T) # 0 => log'[Latest(T)] = log[Latest(T)]
      BY <1>2, <2>2, Grows
    <2>4. QED
      BY <1>3, <1>5, <2>1, <2>3 DEF OwnerAfter
  <1>6. QED
    BY <1>4, <1>5

LEMMA LatestWithin ==
  ASSUME TypeOK, Maxed, NEW n \in Nat, DOMAIN log = 1..n, NEW T \in SUBSET (1..n)
  PROVE  Latest(T) \in 0..n
  <1>1. Latest(T) = 0 \/ Latest(T) \in T
    BY LatestIs
  <1>2. T \subseteq 1..n
    OBVIOUS
  <1>3. 1..n \subseteq 0..n /\ 0 \in 0..n
    OBVIOUS
  <1>4. T \subseteq 0..n
    BY <1>2, <1>3, Zenon
  <1>5. QED
    BY <1>1, <1>3, <1>4, Zenon

LEMMA SameUpTo ==
  ASSUME NEW n \in Nat, NEW T \in SUBSET (1..n), NEW S \in SUBSET (1..(n + 1)),
         \A i \in 1..n : i \in S <=> i \in T
  PROVE  /\ n + 1 \in S => S = T \cup {n + 1}
         /\ n + 1 \notin S => S = T
  <1>1. \A i \in 1..(n + 1) : i \in 1..n \/ i = n + 1
    OBVIOUS
  <1>2. T \subseteq 1..n /\ S \subseteq 1..(n + 1) /\ 1..n \subseteq 1..(n + 1)
    OBVIOUS
  <1>3. \A i : i \in S => i \in T \/ i = n + 1
    BY <1>1, <1>2, Zenon
  <1>4. \A i : i \in T => i \in S
    BY <1>2, Zenon
  <1>5. QED
    BY <1>3, <1>4, Zenon

(* The entry changes hands with this call, or it does not.                 *)
Hands(method, n) ==
    method.op = "clear" \/ (method.op = "adopt" /\ method.path # OwnerAfter(n))

Handovers == Times({"clear"})
             \cup {i \in Times({"adopt"}) : log[i].path # OwnerAfter(i - 1)}

LEMMA HandoverNext ==
  ASSUME TypeOK, Maxed, NEW method \in Method, Moves(method), NEW n \in Nat, n = Len(log)
  PROVE  /\ Handover \in 0..n
         /\ Hands(method, n) => Handover' = n + 1
         /\ ~Hands(method, n) => Handover' = Handover
  <1>1. PICK T : T = Handovers
    OBVIOUS
  <1>2. n \in Nat /\ T \subseteq 1..n /\ DOMAIN log = 1..n
    BY <1>1, Grows, TimesGrow DEF Handovers
  <1>3. \A i \in 1..(n + 1) : OwnerAfter(i - 1)' = OwnerAfter(i - 1)
    <2>1. \A i \in 1..(n + 1) : i - 1 \in 0..n
      BY <1>2
    <2>2. QED
      BY <2>1, OwnerKept
  <1>5. Handovers' = IF Hands(method, n) THEN T \cup {n + 1} ELSE T
    <2>1. /\ \A i \in 1..n : log'[i] = log[i]
          /\ log'[n + 1] = method
      BY Grows
    <2>2. ASSUME NEW i \in 1..n
          PROVE  i \in Handovers' <=> i \in T
      <3>1. i \in 1..(n + 1) /\ i \in DOMAIN log /\ i \in DOMAIN log'
        BY <1>2, <2>2, Grows
      <3>2. i \in Handovers <=>
              \/ log[i].op = "clear"
              \/ log[i].op = "adopt" /\ log[i].path # OwnerAfter(i - 1)
        BY <3>1 DEF Handovers, Times
      <3>3. i \in Handovers' <=>
              \/ log'[i].op = "clear"
              \/ log'[i].op = "adopt" /\ log'[i].path # OwnerAfter(i - 1)
        BY <1>3, <3>1 DEF Handovers, Times
      <3>4. log'[i] = log[i]
        BY <2>1, <2>2
      <3>5. QED
        BY <1>1, <3>2, <3>3, <3>4
    <2>3. n + 1 \in Handovers' <=> Hands(method, n)
      <3>1. (n + 1) - 1 = n /\ n + 1 \in 1..(n + 1)
        BY <1>2
      <3>2. \A i \in 1..(n + 1) : i \in Handovers' <=>
              \/ log'[i].op = "clear"
              \/ log'[i].op = "adopt" /\ log'[i].path # OwnerAfter(i - 1)
        BY <1>3, Grows DEF Handovers, Times
      <3>3. OwnerAfter((n + 1) - 1) = OwnerAfter(n)
        BY <3>1
      <3>4. QED
        BY <2>1, <3>1, <3>2, <3>3 DEF Hands
    <2>4. Handovers' \subseteq 1..(n + 1)
      BY Grows DEF Handovers, Times
    <2>5. PICK S : S = Handovers'
      OBVIOUS
    <2>6. CASE Hands(method, n)
      <3>1. \A i \in 1..n : i \in S <=> i \in T
        BY <2>2, <2>5
      <3>2. n + 1 \in S /\ S \subseteq 1..(n + 1)
        BY <2>3, <2>4, <2>5, <2>6
      <3>3. S = T \cup {n + 1}
        BY <1>2, <3>1, <3>2, SameUpTo
      <3>4. QED
        BY <2>5, <2>6, <3>3
    <2>7. CASE ~Hands(method, n)
      <3>1. \A i \in 1..n : i \in S <=> i \in T
        BY <2>2, <2>5
      <3>2. n + 1 \notin S /\ S \subseteq 1..(n + 1)
        BY <2>3, <2>4, <2>5, <2>7
      <3>3. S = T
        BY <1>2, <3>1, <3>2, SameUpTo
      <3>4. QED
        BY <2>5, <2>7, <3>3
    <2>8. QED
      BY <2>6, <2>7
  <1>6. Handover = Latest(T) /\ Handover' = Latest(Handovers')
    BY <1>1 DEF Handover, Handovers
  <1>7. Latest(T) \in 0..n
    BY <1>2, LatestWithin
  <1>8. Latest(T \cup {n + 1}) = n + 1
    BY <1>2, LatestAdded
  <1>9. QED
    BY <1>5, <1>6, <1>7, <1>8
-----------------------------------------------------------------------------
(* What a store holds of a key, by the reads or observations and the       *)
(* deletions since the entry changed hands.                                *)
LastOf(reads, forgets, table, key) ==
    IF Latest(reads) = 0 \/ \E i \in forgets : i > Latest(reads) THEN None
    ELSE table[Latest(reads)].fps[key]

LEMMA ReferencesAre ==
  ASSUME NEW key
  PROVE  /\ ReferenceBaseline(key) = LastOf(Reads(key), Forgets(key), log, key)
         /\ ReferenceSnapshot(key) =
              LastOf(Reads(key) \cup Since(Handover, {"commit"}), Forgets(key),
                     log, key)
  BY DEF ReferenceBaseline, ReferenceSnapshot, LastOf

LEMMA LastKept ==
  ASSUME TypeOK, Maxed, NEW method \in Method, Moves(method),
         NEW reads, reads \subseteq DOMAIN log, NEW forgets, NEW key
  PROVE  LastOf(reads, forgets, log', key) = LastOf(reads, forgets, log, key)
  <1>1. Latest(reads) # 0 => Latest(reads) \in DOMAIN log
    BY LatestIs
  <1>2. PICK n \in Nat : n = Len(log)
    BY DEF TypeOK
  <1>3. Latest(reads) # 0 => log'[Latest(reads)] = log[Latest(reads)]
    BY <1>1, <1>2, Grows
  <1>4. QED
    BY <1>3 DEF LastOf

LEMMA LastForgotten ==
  ASSUME NEW n \in Nat, NEW reads, Latest(reads) \in 0..n, NEW forgets,
         NEW table, NEW key
  PROVE  LastOf(reads, forgets \cup {n + 1}, table, key) = None
  <1>1. n + 1 > Latest(reads)
    OBVIOUS
  <1>2. QED
    BY <1>1 DEF LastOf

(* What the sets of times since the last handover become.                  *)
LEMMA SinceNext ==
  ASSUME TypeOK, Maxed, NEW method \in Method, Moves(method), NEW n \in Nat, n = Len(log),
         NEW ops
  PROVE  /\ Since(Handover, ops) \subseteq 1..n
         /\ Hands(method, n) => Since(Handover, ops)' = {}
         /\ ~Hands(method, n) => Since(Handover, ops)' =
              IF method.op \in ops THEN Since(Handover, ops) \cup {n + 1}
              ELSE Since(Handover, ops)
  <1>1. n \in Nat /\ Handover \in 0..n
    BY Grows, HandoverNext
  <1>2. PICK h : h = Handover'
    OBVIOUS
  <1>3. Since(Handover, ops)' = {j \in Times(ops)' : j > h}
    BY <1>2 DEF Since
  <1>4. Times(ops) \subseteq 1..n
    BY TimesGrow
  <1>5. Times(ops)' = IF method.op \in ops THEN Times(ops) \cup {n + 1} ELSE Times(ops)
    BY TimesGrow
  <1>6. CASE Hands(method, n)
    BY <1>1, <1>2, <1>3, <1>4, <1>5, <1>6, HandoverNext DEF Since
  <1>7. CASE ~Hands(method, n)
    BY <1>1, <1>2, <1>3, <1>4, <1>5, <1>7, HandoverNext DEF Since
  <1>8. QED
    BY <1>6, <1>7

LEMMA KeyTimesNext ==
  ASSUME TypeOK, Maxed, NEW method \in Method, Moves(method), NEW n \in Nat, n = Len(log),
         NEW key \in Keys
  PROVE  /\ Reads(key) \subseteq 1..n /\ Forgets(key) \subseteq 1..n
         /\ Hands(method, n) => Reads(key)' = {} /\ Forgets(key)' = {}
         /\ ~Hands(method, n) =>
              /\ Reads(key)' =
                   IF method.op = "record" /\ method.fps[key] # None
                   THEN Reads(key) \cup {n + 1} ELSE Reads(key)
              /\ Forgets(key)' =
                   IF method.op = "forget" /\ key \in method.keys
                   THEN Forgets(key) \cup {n + 1} ELSE Forgets(key)
  <1>1. n \in Nat /\ log'[n + 1] = method /\ \A i \in 1..n : log'[i] = log[i]
    BY Grows
  <1>2. PICK R, F : R = Since(Handover, {"record"}) /\ F = Since(Handover, {"forget"})
    OBVIOUS
  <1>3. PICK Q, G : Q = Since(Handover, {"record"})' /\ G = Since(Handover, {"forget"})'
    OBVIOUS
  <1>4. /\ Reads(key) = {i \in R : log[i].fps[key] # None}
        /\ Forgets(key) = {i \in F : key \in log[i].keys}
        /\ Reads(key)' = {i \in Q : log'[i].fps[key] # None}
        /\ Forgets(key)' = {i \in G : key \in log'[i].keys}
    BY <1>2, <1>3 DEF Reads, Forgets
  <1>5. R \subseteq 1..n /\ F \subseteq 1..n
    BY <1>2, SinceNext
  <1>6. CASE Hands(method, n)
    <2>1. Q = {} /\ G = {}
      BY <1>3, <1>6, SinceNext
    <2>2. QED
      BY <1>4, <1>5, <1>6, <2>1
  <1>7. CASE ~Hands(method, n)
    <2>1. /\ Q = IF method.op = "record" THEN R \cup {n + 1} ELSE R
          /\ G = IF method.op = "forget" THEN F \cup {n + 1} ELSE F
      BY <1>2, <1>3, <1>7, SinceNext
    <2>2. QED
      BY <1>1, <1>4, <1>5, <1>7, <2>1
  <1>8. QED
    BY <1>6, <1>7
-----------------------------------------------------------------------------
HistoryInv == TypeOK /\ Maxed /\ EntryIsItsHistory

LEMMA HistoryStep ==
  ASSUME HistoryInv, NEW method \in Method, Moves(method)
  PROVE  EntryIsItsHistory'
  <1>1. PICK n \in Nat : n = Len(log)
    BY DEF HistoryInv, TypeOK
  <1>2. /\ TypeOK /\ Maxed /\ EntryIsItsHistory /\ entry \in Entry
        /\ n \in Nat /\ DOMAIN log = 1..n /\ Len(log)' = n + 1
    BY <1>1, Grows DEF HistoryInv, TypeOK
  <1>3. /\ entry.owner = OwnerAfter(n)
        /\ entry.observed = (Since(Handover, {"record", "commit"}) # {})
        /\ \A key \in Keys : /\ entry.baseline[key] = ReferenceBaseline(key)
                             /\ entry.snapshot[key] = ReferenceSnapshot(key)
    BY <1>1, <1>2 DEF EntryIsItsHistory
  <1>4. ASSUME entry'.owner = OwnerAfter(n + 1)',
               entry'.observed = (Since(Handover, {"record", "commit"}) # {})',
               \A key \in Keys : /\ entry'.baseline[key] = ReferenceBaseline(key)'
                                 /\ entry'.snapshot[key] = ReferenceSnapshot(key)'
        PROVE  EntryIsItsHistory'
    <2>1. Len(log') = n + 1
      BY <1>2
    <2>2. QED
      BY <1>4, <2>1 DEF EntryIsItsHistory
  <1>5. /\ method.op \in {"adopt", "record", "commit", "forget", "clear"}
        /\ method.op \in {"record", "commit"} => method.fps \in Store
    BY LogAssumption DEF Moves
  <1>6. ASSUME Hands(method, n)
        PROVE  EntryIsItsHistory'
    <2>1. /\ entry'.owner = OwnerAfter(n + 1)' /\ entry'.observed = FALSE
          /\ entry'.baseline = NoFingerprints /\ entry'.snapshot = NoFingerprints
      <3>1. CASE method.op = "clear"
        BY <1>1, <1>2, <3>1, OwnerNext DEF Moves, Unrecorded
      <3>2. CASE method.op = "adopt" /\ entry.owner # method.path
        BY <1>1, <1>2, <3>2, OwnerNext DEF Moves, Adopt, Unrecorded
      <3>3. QED
        BY <1>3, <1>6, <3>1, <3>2 DEF Hands
    <2>2. Since(Handover, {"record", "commit"})' = {}
      BY <1>1, <1>2, <1>6, SinceNext
    <2>3. ASSUME NEW key \in Keys
          PROVE  ReferenceBaseline(key)' = None /\ ReferenceSnapshot(key)' = None
      <3>1. Reads(key)' = {} /\ Since(Handover, {"commit"})' = {}
        BY <1>1, <1>2, <1>6, SinceNext, KeyTimesNext
      <3>2. QED
        BY <3>1 DEF ReferenceBaseline, ReferenceSnapshot, Latest
    <2>4. QED
      BY <1>4, <2>1, <2>2, <2>3 DEF NoFingerprints
  <1>7. ASSUME ~Hands(method, n)
        PROVE  EntryIsItsHistory'
    <2>1. entry'.owner = OwnerAfter(n + 1)'
      <3>1. CASE method.op = "adopt"
        BY <1>1, <1>2, <1>3, <1>7, <3>1, OwnerNext DEF Moves, Adopt, Hands
      <3>2. CASE method.op \in {"record", "commit", "forget"}
        BY <1>1, <1>2, <1>3, <3>2, OwnerNext
        DEF Moves, RecordCells, Commit, ForgetCells, Entry
      <3>3. QED
        BY <1>5, <1>7, <3>1, <3>2 DEF Hands
    <2>2. entry'.observed = (Since(Handover, {"record", "commit"}) # {})'
      <3>1. PICK S, T : /\ S = Since(Handover, {"record", "commit"})
                        /\ T = Since(Handover, {"record", "commit"})'
        OBVIOUS
      <3>2. T = IF method.op \in {"record", "commit"} THEN S \cup {n + 1} ELSE S
        BY <1>1, <1>2, <1>7, <3>1, SinceNext
      <3>3. entry'.observed = (T # {})
        BY <1>2, <1>3, <1>5, <1>7, <3>1, <3>2
        DEF Moves, Adopt, RecordCells, Commit, ForgetCells, Hands, Entry
      <3>4. QED
        BY <3>1, <3>3
    <2>3. ASSUME NEW key \in Keys
          PROVE  /\ entry'.baseline[key] = ReferenceBaseline(key)'
                 /\ entry'.snapshot[key] = ReferenceSnapshot(key)'
      <3>1. PICK R, F, C : /\ R = Reads(key) /\ F = Forgets(key)
                           /\ C = Since(Handover, {"commit"})
        OBVIOUS
      <3>2. PICK Q, G, D : /\ Q = Reads(key)' /\ G = Forgets(key)'
                           /\ D = Since(Handover, {"commit"})'
        OBVIOUS
      <3>3. /\ R \subseteq 1..n /\ F \subseteq 1..n /\ C \subseteq 1..n
            /\ Q = IF method.op = "record" /\ method.fps[key] # None
                   THEN R \cup {n + 1} ELSE R
            /\ G = IF method.op = "forget" /\ key \in method.keys
                   THEN F \cup {n + 1} ELSE F
            /\ D = IF method.op = "commit" THEN C \cup {n + 1} ELSE C
        BY <1>1, <1>2, <1>7, <3>1, <3>2, SinceNext, KeyTimesNext
      <3>4. /\ entry.baseline[key] = LastOf(R, F, log, key)
            /\ entry.snapshot[key] = LastOf(R \cup C, F, log, key)
        BY <1>3, <3>1, ReferencesAre
      <3>5. /\ ReferenceBaseline(key)' = LastOf(Q, G, log', key)
            /\ ReferenceSnapshot(key)' = LastOf(Q \cup D, G, log', key)
        BY <3>2 DEF ReferenceBaseline, ReferenceSnapshot, LastOf
      <3>6. /\ LastOf(R, F, log', key) = LastOf(R, F, log, key)
            /\ LastOf(R \cup C, F, log', key) = LastOf(R \cup C, F, log, key)
        BY <1>2, <3>3, LastKept
      <3>7. /\ LastOf(R \cup {n + 1}, F, log', key) = method.fps[key]
            /\ LastOf((R \cup C) \cup {n + 1}, F, log', key) = method.fps[key]
        <4>1. PICK S, L : S = R \cup C /\ L = log'
          OBVIOUS
        <4>2. /\ S \subseteq 1..n /\ R \subseteq 1..n /\ F \subseteq 1..n
              /\ L[n + 1] = method
          BY <1>1, <1>2, <3>3, <4>1, Grows
        <4>3. /\ LastOf(R \cup {n + 1}, F, L, key) = L[n + 1].fps[key]
              /\ LastOf(S \cup {n + 1}, F, L, key) = L[n + 1].fps[key]
          <5>1. Latest(R \cup {n + 1}) = n + 1 /\ Latest(S \cup {n + 1}) = n + 1
            BY <4>2, LatestAdded
          <5>2. n + 1 # 0 /\ ~\E i \in F : i > n + 1
            BY <4>2
          <5>3. QED
            BY <5>1, <5>2 DEF LastOf
        <4>4. QED
          BY <4>1, <4>2, <4>3
      <3>8. /\ LastOf(R, F \cup {n + 1}, log', key) = None
            /\ LastOf(R \cup C, F \cup {n + 1}, log', key) = None
        <4>1. PICK S, L : S = R \cup C /\ L = log'
          OBVIOUS
        <4>2. S \in SUBSET (1..n) /\ R \in SUBSET (1..n)
          BY <3>3, <4>1
        <4>3. Latest(S) \in 0..n /\ Latest(R) \in 0..n
          BY <1>2, <4>2, LatestWithin
        <4>4. /\ LastOf(R, F \cup {n + 1}, L, key) = None
              /\ LastOf(S, F \cup {n + 1}, L, key) = None
          BY <4>3, LastForgotten
        <4>5. QED
          BY <4>1, <4>4
      <3>9. CASE method.op = "adopt"
        <4>1. entry' = entry /\ Q = R /\ G = F /\ D = C
          BY <1>3, <1>7, <3>3, <3>9 DEF Moves, Adopt, Hands
        <4>2. QED
          BY <3>4, <3>5, <3>6, <4>1
      <3>10. CASE method.op = "record"
        <4>1. /\ entry'.baseline = Merge(entry.baseline, method.fps)
              /\ entry'.snapshot = Merge(entry.snapshot, method.fps)
          BY <1>2, <3>10 DEF Moves, RecordCells, Entry
        <4>2. CASE method.fps[key] # None
          <5>1. Q = R \cup {n + 1} /\ G = F /\ D = C
            BY <3>3, <3>10, <4>2
          <5>2. Q \cup D = (R \cup C) \cup {n + 1}
            BY <5>1
          <5>3. QED
            BY <3>5, <3>7, <4>1, <4>2, <5>1, <5>2 DEF Merge
        <4>3. CASE method.fps[key] = None
          <5>1. Q = R /\ G = F /\ D = C
            BY <3>3, <3>10, <4>3
          <5>2. QED
            BY <3>4, <3>5, <3>6, <4>1, <4>3, <5>1 DEF Merge
        <4>4. QED
          BY <4>2, <4>3
      <3>11. CASE method.op = "commit"
        <4>1. entry'.baseline = entry.baseline /\ entry'.snapshot = method.fps
          BY <1>2, <3>11 DEF Moves, Commit, Entry
        <4>2. Q = R /\ G = F /\ Q \cup D = (R \cup C) \cup {n + 1}
          BY <3>3, <3>11
        <4>3. QED
          BY <3>4, <3>5, <3>6, <3>7, <4>1, <4>2
      <3>12. CASE method.op = "forget"
        <4>1. /\ entry'.baseline = Without(entry.baseline, method.keys)
              /\ entry'.snapshot = Without(entry.snapshot, method.keys)
          BY <1>2, <3>12 DEF Moves, ForgetCells, Entry
        <4>2. Q = R /\ D = C
          BY <3>3, <3>12
        <4>3. CASE key \in method.keys
          <5>1. G = F \cup {n + 1}
            BY <3>3, <3>12, <4>3
          <5>2. QED
            BY <3>5, <3>8, <4>1, <4>2, <4>3, <5>1 DEF Without
        <4>4. CASE key \notin method.keys
          <5>1. G = F
            BY <3>3, <3>12, <4>4
          <5>2. QED
            BY <3>4, <3>5, <3>6, <4>1, <4>2, <4>4, <5>1 DEF Without
        <4>5. QED
          BY <4>3, <4>4
      <3>13. QED
        BY <1>5, <1>7, <3>9, <3>10, <3>11, <3>12 DEF Hands
    <2>4. QED
      BY <1>4, <2>1, <2>2, <2>3
  <1>8. QED
    BY <1>6, <1>7

(* After any sequence of calls of the ChangeTracker's methods, of any      *)
(* length, an entry holds what the log of the calls defines: the last read *)
(* and the last observation of each cell for the current notebook, unless  *)
(* the cell was deleted since.                                             *)
THEOREM EntriesAreTheirHistory == Spec => []EntryIsItsHistory
  <1>1. Init => HistoryInv
    <2> SUFFICES ASSUME Init PROVE HistoryInv
      OBVIOUS
    <2>1. log = <<>> /\ entry = Unrecorded /\ DOMAIN log = {} /\ Len(log) = 0
      BY DEF Init
    <2>2. TypeOK /\ Maxed
      BY <2>1, UnrecordedType DEF TypeOK, Maxed
    <2>3. \A ops : Times(ops) = {}
      BY <2>1 DEF Times
    <2>4. OwnerAfter(0) = None
      BY <2>3 DEF OwnerAfter, Latest
    <2>5. \A ops : Since(Handover, ops) = {}
      BY <2>3 DEF Since
    <2>6. \A key \in Keys : ReferenceBaseline(key) = None /\ ReferenceSnapshot(key) = None
      BY <2>5 DEF ReferenceBaseline, ReferenceSnapshot, Reads, Latest
    <2>7. EntryIsItsHistory
      BY <2>1, <2>4, <2>5, <2>6 DEF EntryIsItsHistory, Unrecorded, NoFingerprints
    <2>8. QED
      BY <2>2, <2>7 DEF HistoryInv
  <1>2. HistoryInv /\ [Next]_vars => HistoryInv'
    <2> SUFFICES ASSUME HistoryInv, [Next]_vars PROVE HistoryInv'
      OBVIOUS
    <2>1. CASE Next
      <3>1. PICK method \in Method : Moves(method)
        BY <2>1, StepMoves
      <3>2. QED
        BY <3>1, TypeStep, MaxedStep, HistoryStep DEF HistoryInv
    <2>2. CASE UNCHANGED vars
      <3>1. log' = log /\ entry' = entry
        BY <2>2 DEF vars
      <3>2. TypeOK' /\ Maxed'
        BY <3>1 DEF HistoryInv, TypeOK, Maxed
      <3>3. EntryIsItsHistory'
        <4>1. \A ops : Times(ops)' = Times(ops)
          BY <3>1 DEF Times
        <4>2. \A i : OwnerAfter(i)' = OwnerAfter(i)
          BY <3>1, <4>1 DEF OwnerAfter
        <4>3. Handover' = Handover
          BY <3>1, <4>1, <4>2 DEF Handover
        <4>4. \A ops : Since(Handover, ops)' = Since(Handover, ops)
          BY <4>1, <4>3 DEF Since
        <4>5. \A key : Reads(key)' = Reads(key) /\ Forgets(key)' = Forgets(key)
          BY <3>1, <4>4 DEF Reads, Forgets
        <4>6. \A key : /\ ReferenceBaseline(key)' = ReferenceBaseline(key)
                       /\ ReferenceSnapshot(key)' = ReferenceSnapshot(key)
          BY <3>1, <4>4, <4>5 DEF ReferenceBaseline, ReferenceSnapshot
        <4>7. PICK n : n = Len(log)
          OBVIOUS
        <4>8. OwnerAfter(n)' = OwnerAfter(n) /\ Len(log') = n
          BY <3>1, <4>2, <4>7
        <4>9. QED
          BY <3>1, <4>4, <4>6, <4>7, <4>8 DEF HistoryInv, EntryIsItsHistory
      <3>4. QED
        BY <3>2, <3>3 DEF HistoryInv
    <2>3. QED
      BY <2>1, <2>2
  <1>3. HistoryInv => EntryIsItsHistory
    BY DEF HistoryInv
  <1>4. QED
    BY <1>1, <1>2, <1>3, PTL DEF Spec
=============================================================================
