---------------------------- MODULE BindingProofs ----------------------------
(***************************************************************************)
(* Proofs about Binding, for every number of MCP sessions, calls and       *)
(* bindings: types, and the isolation of different clients from each       *)
(* other's bindings.                                                       *)
(***************************************************************************)
EXTENDS Binding, TLAPS

(* What a call carries in each of its phases.                              *)
CallOK(call) ==
    /\ call.pc # "idle" => call.ctx \in Contexts
    /\ call.pc \in {"read_url", "read_bound", "read_notebook"} =>
         call.got.sid \in SessionIds
    /\ call.pc \in {"read_bound", "read_notebook"} => call.got.url \in Urls

CallsOK == \A k \in Calls : calls[k] \in Complete /\ CallOK(calls[k])

StoredBySomebody == fallback.sid # None => writer \in Contexts

TypeInv == TypeOK /\ CallsOK /\ StoredBySomebody

LEMMA TripleIsKeys == Triple \subseteq Keys
  BY DEF Triple, Keys

LEMMA IdleType == Idle \in Complete /\ CallOK(Idle)
  BY BindingAssumption
  DEF Idle, NothingBound, Complete, Call, CallOK, Keys, Binds, Reads

(* One call moves, and others may be marked as disturbed by it.            *)
LEMMA GotoType ==
  ASSUME TypeInv, NEW k \in Calls, NEW call \in Complete, CallOK(call),
         Goto(k, call)
  PROVE  calls' \in [Calls -> Complete] /\ CallsOK'
  BY DEF TypeInv, TypeOK, CallsOK, Goto

LEMMA DisturbedType ==
  ASSUME NEW call \in Complete, CallOK(call), NEW b \in BOOLEAN
  PROVE  /\ [call EXCEPT !.clean = b] \in Complete
         /\ CallOK([call EXCEPT !.clean = b])
  BY DEF Complete, Call, CallOK

LEMMA DisturbType ==
  ASSUME TypeInv, NEW k \in Calls, NEW call \in Complete, CallOK(call),
         NEW whom, Disturb(k, call, whom)
  PROVE  calls' \in [Calls -> Complete] /\ CallsOK'
  <1>1. ASSUME NEW j \in Calls, j # k
        PROVE  /\ calls'[j] \in Complete
               /\ CallOK(calls'[j])
    <2> DEFINE b == calls[j].clean /\ j \notin whom
    <2>1. calls'[j] = [calls[j] EXCEPT !.clean = b]
      BY <1>1 DEF Disturb
    <2>2. b \in BOOLEAN
      OBVIOUS
    <2>3. calls[j] \in Complete /\ CallOK(calls[j])
      BY DEF TypeInv, CallsOK
    <2> HIDE DEF b
    <2>4. QED
      BY <2>1, <2>2, <2>3, DisturbedType
  <1>2. calls'[k] = call
    BY DEF Disturb
  <1>3. \A j \in Calls : calls'[j] \in Complete /\ CallOK(calls'[j])
    BY <1>1, <1>2
  <1>4. calls' = [j \in Calls |-> calls'[j]]
    BY DEF Disturb
  <1>5. QED
    BY <1>3, <1>4 DEF CallsOK

(* What a resolution finds for a key has the key's type.                   *)
LEMMA LookupType ==
  ASSUME TypeInv, NEW x \in Contexts
  PROVE  /\ Lookup(x, "sid").val \in SessionIds \cup {None}
         /\ Lookup(x, "url").val \in Urls \cup {None}
         /\ Lookup(x, "path").val \in Paths \cup {None}
         /\ \A field \in {"sid", "url", "path"} :
              Lookup(x, field).from \subseteq Contexts
  <1>1. keys[x] \in Keys /\ fallback \in Keys
    BY DEF TypeInv, TypeOK
  <1>2. Served => writer \in Contexts
    BY DEF Served, TypeInv, StoredBySomebody
  <1>3. QED
    BY <1>1, <1>2 DEF Lookup, Keys
-----------------------------------------------------------------------------
(* The handlers that only read: they leave all but the call as it was.     *)
LEMMA ReadKeeps ==
  ASSUME TypeInv, NEW k \in Calls, NEW call \in Complete, CallOK(call),
         Goto(k, call), begun' = begun,
         UNCHANGED <<stdio, keys, fallback, seen, writer, settled, last>>
  PROVE  TypeInv'
  <1>1. calls' \in [Calls -> Complete] /\ CallsOK'
    BY GotoType
  <1>2. QED
    BY <1>1 DEF TypeInv, TypeOK, StoredBySomebody

LEMMA RefuseType ==
  ASSUME TypeInv, NEW k \in Calls, calls[k].pc \in Reads
  PROVE  LET call == [calls[k] EXCEPT !.pc = "done", !.refused = TRUE]
         IN  call \in Complete /\ CallOK(call)
  BY DEF TypeInv, CallsOK, CallOK, Complete, Call, Binds, Reads

LEMMA TypeInvStep ==
  ASSUME TypeInv, [Next]_vars
  PROVE  TypeInv'
  <1>0. stdio' = stdio
    BY DEF Next, vars
  <1> USE <1>0
  <1>1. ASSUME NEW k \in Calls, NEW x \in Contexts, NEW b \in Triple,
               begun' = begun + 1, Bind(k, x, b)
        PROVE  TypeInv'
    <2> DEFINE call == [Idle EXCEPT !.pc = "set_url", !.ctx = x, !.got = b,
                                    !.clean = Binding(x) = {}]
    <2>1. call \in Complete /\ CallOK(call)
      BY IdleType, TripleIsKeys DEF Idle, Complete, Call, CallOK, Binds, Reads
    <2>2. calls' \in [Calls -> Complete] /\ CallsOK'
      <3>1. Disturb(k, call, InContext(x))
        BY <1>1 DEF Bind
      <3> HIDE DEF call
      <3>2. QED
        BY <2>1, <3>1, DisturbType
    <2>3. keys' \in [Contexts -> Keys]
      BY <1>1 DEF Bind, TypeInv, TypeOK, Keys, Triple
    <2>4. settled' \in [Contexts -> Triple \cup {None, Mixed}]
      BY <1>1 DEF Bind, TypeInv, TypeOK
    <2>5. QED
      BY <1>1, <2>2, <2>3, <2>4 DEF Bind, TypeInv, TypeOK, StoredBySomebody
  <1>2. ASSUME NEW k \in Calls, NEW x \in Contexts, NEW ask \in SessionIds \cup {None},
               NEW url \in Urls \cup {None},
               begun' = begun + 1, Resolve(k, x, ask, url)
        PROVE  TypeInv'
    <2> DEFINE call == [Idle EXCEPT !.pc = "read_id", !.ctx = x, !.ask = ask,
                                    !.ask_url = url, !.clean = Binding(x) = {}]
               whom == IF seen' = seen THEN {} ELSE Resolving
    <2>1. call \in Complete /\ CallOK(call)
      BY IdleType DEF Idle, Complete, Call, CallOK, Binds, Reads
    <2>2. calls' \in [Calls -> Complete] /\ CallsOK'
      <3>1. Disturb(k, call, whom)
        BY <1>2 DEF Resolve
      <3> HIDE DEF call, whom
      <3>2. QED
        BY <2>1, <3>1, DisturbType
    <2>3. seen' \subseteq Contexts
      BY <1>2 DEF Resolve, Observe, TypeInv, TypeOK
    <2>4. QED
      BY <1>2, <2>2, <2>3 DEF Resolve, TypeInv, TypeOK, StoredBySomebody
  <1>3. ASSUME NEW k \in Calls, Step(k)
        PROVE  TypeInv'
    <2> DEFINE call == calls[k]
    <2>1. call \in Complete /\ CallOK(call)
      BY DEF TypeInv, CallsOK
    <2>2. CASE BindUrl(k)
      <3> DEFINE new == [call EXCEPT !.pc = "set_notebook"]
      <3>1. call.got \in Triple /\ call.ctx \in Contexts
        BY <2>1, <2>2 DEF BindUrl, At, Complete, CallOK, Binds
      <3>2. new \in Complete /\ CallOK(new)
        BY <2>1, <3>1 DEF Complete, Call, CallOK, Binds
      <3>3. Disturb(k, new, InContext(call.ctx))
        BY <2>2 DEF BindUrl
      <3>4. calls' \in [Calls -> Complete] /\ CallsOK'
        <4> HIDE DEF new
        <4>1. QED
          BY <3>2, <3>3, DisturbType
      <3>5. keys' \in [Contexts -> Keys]
        BY <2>2, <3>1 DEF BindUrl, TypeInv, TypeOK, Keys, Triple
      <3>6. QED
        BY <2>2, <3>4, <3>5 DEF BindUrl, TypeInv, TypeOK, StoredBySomebody
    <2>3. CASE BindNotebook(k)
      <3> DEFINE new == [call EXCEPT !.pc = "store"]
      <3>1. call.got \in Triple /\ call.ctx \in Contexts
        BY <2>1, <2>3 DEF BindNotebook, At, Complete, CallOK, Binds
      <3>2. new \in Complete /\ CallOK(new)
        BY <2>1, <3>1 DEF Complete, Call, CallOK, Binds
      <3>3. Disturb(k, new, InContext(call.ctx))
        BY <2>3 DEF BindNotebook
      <3>4. calls' \in [Calls -> Complete] /\ CallsOK'
        <4> HIDE DEF new
        <4>1. QED
          BY <3>2, <3>3, DisturbType
      <3>5. keys' \in [Contexts -> Keys]
        BY <2>3, <3>1 DEF BindNotebook, TypeInv, TypeOK, Keys, Triple
      <3>6. QED
        BY <2>3, <3>4, <3>5 DEF BindNotebook, TypeInv, TypeOK, StoredBySomebody
    <2>4. CASE BindStore(k)
      <3>1. call.got \in Triple /\ call.ctx \in Contexts
        BY <2>1, <2>4 DEF BindStore, At, Complete, CallOK, Binds
      <3>2. calls' \in [Calls -> Complete] /\ CallsOK'
        BY <2>4, IdleType, DisturbType DEF BindStore
      <3>3. fallback' \in Keys /\ last' \in Triple
        BY <2>4, <3>1, TripleIsKeys DEF BindStore
      <3>4. settled' \in [Contexts -> Triple \cup {None, Mixed}]
        BY <2>4, <3>1 DEF BindStore, TypeInv, TypeOK
      <3>5. seen' \subseteq Contexts /\ writer' \in Contexts
        BY <2>4, <3>1 DEF BindStore, Observe, TypeInv, TypeOK
      <3>6. QED
        BY <2>4, <3>2, <3>3, <3>4, <3>5
        DEF BindStore, TypeInv, TypeOK, StoredBySomebody
    <2>5. CASE ReadId(k)
      <3> DEFINE bound == Lookup(call.ctx, "sid")
                 asked == [call EXCEPT !.pc = "read_url", !.got.sid = call.ask]
                 found == [call EXCEPT !.pc = "read_url", !.got.sid = bound.val,
                                       !.used = @ \cup bound.from]
      <3>1. call.ctx \in Contexts /\ call.pc \in Reads /\ call.pc = "read_id"
        BY <2>1, <2>5 DEF ReadId, At, CallOK, Reads
      <3>2. /\ bound.val \in SessionIds \cup {None}
            /\ bound.from \subseteq Contexts
        BY <3>1, LookupType
      <3>3. call.ask # None => asked \in Complete /\ CallOK(asked)
        BY <2>1, <3>1 DEF Complete, Call, CallOK, Keys, Binds, Reads
      <3>4. bound.val # None => found \in Complete /\ CallOK(found)
        <4> HIDE DEF bound
        <4>1. QED
          BY <2>1, <3>1, <3>2 DEF Complete, Call, CallOK, Keys, Binds, Reads
      <3>5. \/ call.ask # None /\ Goto(k, asked)
            \/ bound.val # None /\ Goto(k, found)
            \/ Refuse(k)
        BY <2>5 DEF ReadId
      <3>6. PICK new \in Complete : CallOK(new) /\ Goto(k, new)
        <4> HIDE DEF asked, found
        <4>1. QED
          BY <3>1, <3>3, <3>4, <3>5, RefuseType DEF Refuse
      <3>7. QED
        BY <2>5, <3>6, ReadKeeps DEF ReadId
    <2>6. CASE ReadUrl(k)
      <3> DEFINE bound == Lookup(call.ctx, "url")
                 asked == [call EXCEPT !.pc = "read_bound", !.got.url = call.ask_url]
                 found == [call EXCEPT !.pc = "read_bound", !.got.url = bound.val,
                                       !.used = @ \cup bound.from]
      <3>1. call.ctx \in Contexts /\ call.pc \in Reads /\ call.pc = "read_url"
        BY <2>1, <2>6 DEF ReadUrl, At, CallOK, Reads
      <3>2. /\ bound.val \in Urls \cup {None}
            /\ bound.from \subseteq Contexts
        BY <3>1, LookupType
      <3>3. call.ask_url # None => asked \in Complete /\ CallOK(asked)
        BY <2>1, <3>1 DEF Complete, Call, CallOK, Keys, Binds, Reads
      <3>4. bound.val # None => found \in Complete /\ CallOK(found)
        <4> HIDE DEF bound
        <4>1. QED
          BY <2>1, <3>1, <3>2 DEF Complete, Call, CallOK, Keys, Binds, Reads
      <3>5. \/ call.ask_url # None /\ Goto(k, asked)
            \/ bound.val # None /\ Goto(k, found)
            \/ Refuse(k)
        BY <2>6 DEF ReadUrl
      <3>6. PICK new \in Complete : CallOK(new) /\ Goto(k, new)
        <4> HIDE DEF asked, found
        <4>1. QED
          BY <3>1, <3>3, <3>4, <3>5, RefuseType DEF Refuse
      <3>7. QED
        BY <2>6, <3>6, ReadKeeps DEF ReadUrl
    <2>7. CASE ReadBound(k)
      <3> DEFINE anchored == [call EXCEPT !.pc = "read_notebook"]
                 free == [call EXCEPT !.pc = "done", !.got.path = Unsaved]
      <3>1. call.pc = "read_bound"
        BY <2>7 DEF ReadBound, At
      <3>2. anchored \in Complete /\ CallOK(anchored)
        BY <2>1, <3>1 DEF Complete, Call, CallOK, Binds, Reads
      <3>3. free \in Complete /\ CallOK(free)
        BY <2>1, <3>1, BindingAssumption
        DEF Complete, Call, CallOK, Keys, Triple, Binds
      <3>4. Goto(k, anchored) \/ Goto(k, free)
        BY <2>7 DEF ReadBound
      <3>5. QED
        <4> HIDE DEF anchored, free
        <4>1. QED
          BY <2>7, <3>2, <3>3, <3>4, ReadKeeps DEF ReadBound
    <2>8. CASE ReadNotebook(k)
      <3> DEFINE bound == Lookup(call.ctx, "path")
                 path == IF bound.val = None THEN Unsaved ELSE bound.val
                 new == [call EXCEPT !.pc = "done", !.got.path = path,
                                     !.used = @ \cup bound.from]
      <3>1. call.ctx \in Contexts /\ call.pc = "read_notebook"
        BY <2>1, <2>8 DEF ReadNotebook, At, CallOK
      <3>2. path \in Paths /\ bound.from \subseteq Contexts
        BY <3>1, LookupType, BindingAssumption
      <3>3. Goto(k, new)
        BY <2>8 DEF ReadNotebook
      <3> HIDE DEF bound, path
      <3>4. new \in Complete /\ CallOK(new)
        BY <2>1, <3>1, <3>2 DEF Complete, Call, CallOK, Keys, Triple, Binds
      <3> HIDE DEF new
      <3>5. QED
        BY <2>8, <3>3, <3>4, ReadKeeps DEF ReadNotebook
    <2>9. CASE End(k)
      BY <2>9, IdleType, ReadKeeps DEF End
    <2>10. QED
      BY <1>3, <2>2, <2>3, <2>4, <2>5, <2>6, <2>7, <2>8, <2>9 DEF Step
  <1>4. CASE UNCHANGED vars
    BY <1>4 DEF vars, TypeInv, TypeOK, CallsOK, StoredBySomebody
  <1>5. QED
    BY <1>1, <1>2, <1>3, <1>4 DEF Next, Start

LEMMA TypeInvInit == Init => TypeInv
  BY IdleType, BindingAssumption
  DEF Init, TypeInv, TypeOK, CallsOK, StoredBySomebody, NothingBound, Keys

LEMMA Typed == Spec => []TypeInv
  <1>1. Init => TypeInv
    BY TypeInvInit
  <1>2. TypeInv /\ [Next]_vars => TypeInv'
    BY TypeInvStep
  <1>3. QED
    BY <1>1, <1>2, PTL DEF Spec

(* Types, and that a resolution which is not refused is complete: it has a *)
(* session id, a server and an anchor, if only the empty one (what         *)
(* resolve_target hands on to the tools).                                  *)
THEOREM TypeCorrect == Spec => []TypeOK
  <1>1. TypeInv => TypeOK
    BY DEF TypeInv
  <1>2. QED
    BY Typed, <1>1, PTL
-----------------------------------------------------------------------------
(* Over HTTP, the fallback's writer and every MCP session a resolution is  *)
(* under way for have been observed; two of them withhold the fallback.    *)
Observed ==
    ~stdio =>
        /\ fallback.sid # None => writer \in seen
        /\ \A k \in Calls : calls[k].pc \in Reads => calls[k].ctx \in seen

IsolationInv == TypeInv /\ Observed /\ Isolation

(* Hence what a resolution finds is its own MCP session's.                 *)
LEMMA LookupIsOwn ==
  ASSUME IsolationInv, ~stdio, NEW k \in Calls, calls[k].pc \in Reads,
         NEW field
  PROVE  Lookup(calls[k].ctx, field).from \subseteq {calls[k].ctx}
  <1>1. Served => writer = calls[k].ctx
    BY DEF IsolationInv, Observed, Served, Withheld, Several
  <1>2. QED
    BY <1>1 DEF Lookup

(* A call that moves on with nothing but what it had and what it found.    *)
LEMMA ReadIsOwn ==
  ASSUME IsolationInv, NEW k \in Calls, calls[k].pc \in Reads,
         NEW call, Goto(k, call), call.ctx = calls[k].ctx,
         NEW field,
         call.used \subseteq calls[k].used \cup Lookup(calls[k].ctx, field).from,
         UNCHANGED <<stdio, keys, fallback, seen, writer>>
  PROVE  Observed' /\ Isolation'
  <1> SUFFICES ASSUME ~stdio
               PROVE  Observed' /\ Isolation'
    BY DEF Observed, Isolation
  <1>1. calls' = [calls EXCEPT ![k] = call]
    BY DEF Goto
  <1>2. call.used \subseteq {call.ctx}
    BY LookupIsOwn DEF IsolationInv, Isolation
  <1>3. call.ctx \in seen
    BY DEF IsolationInv, Observed
  <1>4. calls \in [Calls -> Complete]
    BY DEF IsolationInv, TypeInv, TypeOK
  <1>5. QED
    BY <1>1, <1>2, <1>3, <1>4 DEF IsolationInv, Observed, Isolation

(* Disturbance and cancellation leave what the others were given alone.    *)
LEMMA OthersKept ==
  ASSUME TypeInv, NEW k \in Calls, NEW call, NEW whom, Disturb(k, call, whom)
  PROVE  /\ calls'[k] = call
         /\ \A j \in Calls \ {k} : /\ calls'[j].pc = calls[j].pc
                                   /\ calls'[j].ctx = calls[j].ctx
                                   /\ calls'[j].used = calls[j].used
  BY DEF TypeInv, TypeOK, Complete, Call, Disturb

LEMMA IsolationStep ==
  ASSUME IsolationInv, [Next]_vars
  PROVE  Observed' /\ Isolation'
  <1> USE DEF IsolationInv
  <1>0. stdio' = stdio
    BY DEF Next, vars
  <1> USE <1>0
  <1>1. ASSUME NEW k \in Calls, NEW x \in Contexts, NEW b \in Triple, Bind(k, x, b)
        PROVE  Observed' /\ Isolation'
    <2> DEFINE call == [Idle EXCEPT !.pc = "set_url", !.ctx = x, !.got = b,
                                    !.clean = Binding(x) = {}]
    <2>1. Disturb(k, call, InContext(x))
      BY <1>1 DEF Bind
    <2>2. call.pc \notin Reads /\ call.used = {}
      BY DEF Idle, Reads
    <2>3. UNCHANGED <<fallback, seen, writer>>
      BY <1>1 DEF Bind
    <2> HIDE DEF call
    <2>4. QED
      BY <2>1, <2>2, <2>3, OthersKept DEF Observed, Isolation
  <1>2. ASSUME NEW k \in Calls, NEW x \in Contexts, NEW ask, NEW url,
               Resolve(k, x, ask, url)
        PROVE  Observed' /\ Isolation'
    <2> DEFINE call == [Idle EXCEPT !.pc = "read_id", !.ctx = x, !.ask = ask,
                                    !.ask_url = url, !.clean = Binding(x) = {}]
               whom == IF seen' = seen THEN {} ELSE Resolving
    <2>1. Disturb(k, call, whom)
      BY <1>2 DEF Resolve
    <2>2. call.ctx = x /\ call.used = {}
      BY DEF Idle
    <2>3. UNCHANGED <<fallback, writer>>
      BY <1>2 DEF Resolve
    <2>4. ~stdio => seen' = seen \cup {x}
      BY <1>2 DEF Resolve, Observe
    <2> HIDE DEF call, whom
    <2>5. QED
      BY <2>1, <2>2, <2>3, <2>4, OthersKept DEF Observed, Isolation
  <1>3. ASSUME NEW k \in Calls, Step(k)
        PROVE  Observed' /\ Isolation'
    <2> DEFINE call == calls[k]
    <2>0. call \in Complete
      BY DEF TypeInv, TypeOK
    <2>1. CASE BindUrl(k)
      <3> DEFINE new == [call EXCEPT !.pc = "set_notebook"]
      <3>1. Disturb(k, new, InContext(call.ctx))
        BY <2>1 DEF BindUrl
      <3>2. new.pc \notin Reads /\ new.used = call.used /\ new.ctx = call.ctx
        BY <2>0 DEF Complete, Call, Reads
      <3>3. UNCHANGED <<fallback, seen, writer>>
        BY <2>1 DEF BindUrl
      <3> HIDE DEF new
      <3>4. QED
        BY <3>1, <3>2, <3>3, OthersKept DEF Observed, Isolation
    <2>2. CASE BindNotebook(k)
      <3> DEFINE new == [call EXCEPT !.pc = "store"]
      <3>1. Disturb(k, new, InContext(call.ctx))
        BY <2>2 DEF BindNotebook
      <3>2. new.pc \notin Reads /\ new.used = call.used /\ new.ctx = call.ctx
        BY <2>0 DEF Complete, Call, Reads
      <3>3. UNCHANGED <<fallback, seen, writer>>
        BY <2>2 DEF BindNotebook
      <3> HIDE DEF new
      <3>4. QED
        BY <3>1, <3>2, <3>3, OthersKept DEF Observed, Isolation
    <2>3. CASE BindStore(k)
      <3> DEFINE whom == InContext(call.ctx) \cup Resolving
      <3>1. Disturb(k, Idle, whom)
        BY <2>3 DEF BindStore
      <3>2. Idle.pc \notin Reads /\ Idle.used = {}
        BY DEF Idle, Reads
      <3>3. ~stdio => seen' = seen \cup {call.ctx}
        BY <2>3 DEF BindStore, Observe
      <3>4. writer' = call.ctx
        BY <2>3 DEF BindStore
      <3> HIDE DEF whom
      <3>5. QED
        BY <3>1, <3>2, <3>3, <3>4, OthersKept DEF Observed, Isolation
    <2>4. CASE ReadId(k)
      <3>1. call.pc \in Reads
        BY <2>4 DEF ReadId, At, Reads
      <3> DEFINE bound == Lookup(call.ctx, "sid")
                 asked == [call EXCEPT !.pc = "read_url", !.got.sid = call.ask]
                 found == [call EXCEPT !.pc = "read_url", !.got.sid = bound.val,
                                       !.used = @ \cup bound.from]
                 refused == [call EXCEPT !.pc = "done", !.refused = TRUE]
      <3>2. Goto(k, asked) \/ Goto(k, found) \/ Goto(k, refused)
        BY <2>4 DEF ReadId, Refuse
      <3>3. \A new \in {asked, found, refused} :
              /\ new.ctx = call.ctx
              /\ new.used \subseteq call.used \cup bound.from
        BY <2>0 DEF Complete, Call
      <3>4. UNCHANGED <<keys, fallback, seen, writer>>
        BY <2>4 DEF ReadId
      <3> HIDE DEF asked, found, refused
      <3>5. QED
        BY <3>1, <3>2, <3>3, <3>4, ReadIsOwn
    <2>5. CASE ReadUrl(k)
      <3>1. call.pc \in Reads
        BY <2>5 DEF ReadUrl, At, Reads
      <3> DEFINE bound == Lookup(call.ctx, "url")
                 asked == [call EXCEPT !.pc = "read_bound", !.got.url = call.ask_url]
                 found == [call EXCEPT !.pc = "read_bound", !.got.url = bound.val,
                                       !.used = @ \cup bound.from]
                 refused == [call EXCEPT !.pc = "done", !.refused = TRUE]
      <3>2. Goto(k, asked) \/ Goto(k, found) \/ Goto(k, refused)
        BY <2>5 DEF ReadUrl, Refuse
      <3>3. \A new \in {asked, found, refused} :
              /\ new.ctx = call.ctx
              /\ new.used \subseteq call.used \cup bound.from
        BY <2>0 DEF Complete, Call
      <3>4. UNCHANGED <<keys, fallback, seen, writer>>
        BY <2>5 DEF ReadUrl
      <3> HIDE DEF asked, found, refused
      <3>5. QED
        BY <3>1, <3>2, <3>3, <3>4, ReadIsOwn
    <2>6. CASE ReadBound(k)
      <3>1. call.pc \in Reads
        BY <2>6 DEF ReadBound, At, Reads
      <3> DEFINE anchored == [call EXCEPT !.pc = "read_notebook"]
                 free == [call EXCEPT !.pc = "done", !.got.path = Unsaved]
      <3>2. Goto(k, anchored) \/ Goto(k, free)
        BY <2>6 DEF ReadBound
      <3>3. \A new \in {anchored, free} :
              /\ new.ctx = call.ctx
              /\ new.used \subseteq call.used
        BY <2>0 DEF Complete, Call
      <3>4. UNCHANGED <<keys, fallback, seen, writer>>
        BY <2>6 DEF ReadBound
      <3> HIDE DEF anchored, free
      <3>5. QED
        BY <3>1, <3>2, <3>3, <3>4, ReadIsOwn
    <2>7. CASE ReadNotebook(k)
      <3>1. call.pc \in Reads
        BY <2>7 DEF ReadNotebook, At, Reads
      <3> DEFINE bound == Lookup(call.ctx, "path")
                 path == IF bound.val = None THEN Unsaved ELSE bound.val
                 new == [call EXCEPT !.pc = "done", !.got.path = path,
                                     !.used = @ \cup bound.from]
      <3>2. Goto(k, new)
        BY <2>7 DEF ReadNotebook
      <3>3. /\ new.ctx = call.ctx
            /\ new.used \subseteq call.used \cup bound.from
        BY <2>0 DEF Complete, Call
      <3>4. UNCHANGED <<keys, fallback, seen, writer>>
        BY <2>7 DEF ReadNotebook
      <3> HIDE DEF new
      <3>5. QED
        BY <3>1, <3>2, <3>3, <3>4, ReadIsOwn
    <2>8. CASE End(k)
      <3>1. calls' = [calls EXCEPT ![k] = Idle] /\ calls \in [Calls -> Complete]
        BY <2>8 DEF End, Goto, TypeInv, TypeOK
      <3>2. Idle.pc \notin Reads /\ Idle.used = {}
        BY DEF Idle, Reads
      <3>3. UNCHANGED <<fallback, seen, writer>>
        BY <2>8 DEF End
      <3>4. QED
        BY <3>1, <3>2, <3>3 DEF Observed, Isolation
    <2>9. QED
      BY <1>3, <2>1, <2>2, <2>3, <2>4, <2>5, <2>6, <2>7, <2>8 DEF Step
  <1>4. CASE UNCHANGED vars
    BY <1>4 DEF vars, Observed, Isolation
  <1>5. QED
    BY <1>1, <1>2, <1>3, <1>4 DEF Next, Start

(* No call is ever given a part of another client's binding, however many  *)
(* clients, calls and binds there are and however they interleave          *)
(* (fallback_decision and the key-by-key reads around it).                 *)
THEOREM ClientsAreIsolated == Spec => []Isolation
  <1>1. Init => IsolationInv
    BY TypeInvInit
    DEF Init, IsolationInv, Observed, Isolation, NothingBound, Idle, Reads
  <1>2. IsolationInv /\ [Next]_vars => IsolationInv'
    BY TypeInvStep, IsolationStep DEF IsolationInv
  <1>3. IsolationInv => Isolation
    BY DEF IsolationInv
  <1>4. QED
    BY <1>1, <1>2, <1>3, PTL DEF Spec
-----------------------------------------------------------------------------
(* Why a resolution that no bind got in the way of finds one binding.  The *)
(* keys of an MCP session are those of its last bind, and no bind is under *)
(* way, unless they are known to be a mixture ...                          *)
KeysRight ==
    \A x \in Contexts :
        /\ settled[x] = None => keys[x] = NothingBound
        /\ settled[x] \in Triple => keys[x] = settled[x]
        /\ settled[x] # Mixed => Binding(x) = {}

(* ... the fallback is the binding last stored ...                         *)
FallbackRight ==
    IF last = None THEN fallback.sid = None ELSE fallback = last

(* ... an undisturbed bind is alone, and what it has written is there ...  *)
Written(k, call) ==
    call.pc \in Binds /\ call.clean =>
        /\ Binding(call.ctx) \subseteq {k}
        /\ keys[call.ctx].sid = call.got.sid
        /\ call.pc # "set_url" => keys[call.ctx].url = call.got.url
        /\ call.pc = "store" => keys[call.ctx].path = call.got.path

BindsRight ==
    \A k \in Calls, call \in Call : call = calls[k] => Written(k, call)

(* ... and what a resolution has read so far is of the binding it will be  *)
(* judged by.                                                              *)
SoFar(call, bound, want) ==
    /\ call.refused => call.pc = "done" /\ None \in {want.sid, want.url}
    /\ ~call.refused =>
         /\ call.pc # "read_id" => call.got.sid = want.sid
         /\ call.pc \notin {"read_id", "read_url"} => call.got.url = want.url
         /\ call.pc = "read_notebook" =>
              bound # None /\ call.ask \in {None, bound.sid}
         /\ call.pc = "done" => call.got = want

Judged == Reads \cup {"done"}

JudgedRight(call) ==
    call.pc \in Judged /\ call.clean /\ settled[call.ctx] # Mixed =>
        SoFar(call, Visible(call.ctx), Expected(call))

ReadsRight ==
    \A k \in Calls, call \in Call : call = calls[k] => JudgedRight(call)

WholeInv == TypeInv /\ KeysRight /\ FallbackRight /\ BindsRight /\ ReadsRight

LEMMA BoundIs ==
  ASSUME WholeInv, NEW x \in Contexts, settled[x] # Mixed
  PROVE  /\ Visible(x) \in Triple \cup {None}
         /\ Lookup(x, "sid").val  = IF Visible(x) = None THEN None ELSE Visible(x).sid
         /\ Lookup(x, "url").val  = IF Visible(x) = None THEN None ELSE Visible(x).url
         /\ Lookup(x, "path").val = IF Visible(x) = None THEN None ELSE Visible(x).path
  <1>1. /\ settled[x] \in Triple \cup {None} /\ None \notin Triple
        /\ last \in Triple \cup {None}
    BY BindingAssumption DEF WholeInv, TypeInv, TypeOK
  <1>2. \A b \in Triple : b.sid # None /\ b.url # None /\ b.path # None
    BY BindingAssumption DEF Triple
  <1>3. CASE settled[x] \in Triple
    <2>1. Visible(x) = settled[x] /\ keys[x] = settled[x]
      BY <1>1, <1>3 DEF Visible, WholeInv, KeysRight
    <2>2. QED
      BY <1>1, <1>2, <1>3, <2>1 DEF Lookup
  <1>4. CASE settled[x] = None
    <2>1. keys[x].sid = None /\ keys[x].url = None /\ keys[x].path = None
      BY <1>4 DEF WholeInv, KeysRight, NothingBound
    <2>2. Visible(x) = IF Withheld THEN None ELSE last
      BY <1>4 DEF Visible
    <2>3. CASE last = None
      BY <1>1, <2>1, <2>2, <2>3 DEF WholeInv, FallbackRight, Lookup, Served
    <2>4. CASE last # None
      <3>1. fallback = last /\ fallback.sid # None
        BY <1>1, <1>2, <2>4 DEF WholeInv, FallbackRight
      <3>2. Served <=> ~Withheld
        BY <3>1 DEF Served
      <3>3. QED
        BY <1>1, <2>1, <2>2, <2>4, <3>1, <3>2 DEF Lookup
    <2>5. QED
      BY <2>3, <2>4
  <1>5. QED
    BY <1>1, <1>3, <1>4

LEMMA WantIs ==
  ASSUME NEW call
  PROVE  LET bound == Visible(call.ctx)
             want == Expected(call)
         IN  /\ want.sid = IF call.ask # None THEN call.ask
                           ELSE IF bound = None THEN None ELSE bound.sid
             /\ want.url = IF call.ask_url # None THEN call.ask_url
                           ELSE IF bound = None THEN None ELSE bound.url
             /\ bound # None /\ call.ask \in {None, bound.sid} =>
                   want.path = bound.path
             /\ ~(bound # None /\ call.ask \in {None, bound.sid}) =>
                   want.path = Unsaved
             /\ want = [sid |-> want.sid, url |-> want.url, path |-> want.path]
  BY DEF Expected

LEMMA SameView ==
  ASSUME NEW x \in Contexts, settled'[x] = settled[x], last' = last,
         Withheld' = Withheld
  PROVE  Visible(x)' = Visible(x)
  BY DEF Visible

LEMMA SameWant ==
  ASSUME NEW call, settled'[call.ctx] = settled[call.ctx],
         Visible(call.ctx)' = Visible(call.ctx)
  PROVE  JudgedRight(call)' <=> JudgedRight(call)
  <1>1. Expected(call)' = Expected(call)
    BY DEF Expected
  <1>2. QED
    BY <1>1 DEF JudgedRight, SoFar

LEMMA Undisturbed ==
  ASSUME TypeInv, NEW k \in Calls, NEW new, NEW whom, Disturb(k, new, whom)
  PROVE  /\ calls'[k] = new
         /\ \A j \in Calls \ {k} :
              /\ calls'[j].pc = calls[j].pc /\ calls'[j].ctx = calls[j].ctx
              /\ calls'[j].clean => calls'[j] = calls[j] /\ j \notin whom
  <1>1. calls'[k] = new
    BY DEF Disturb
  <1>2. ASSUME NEW j \in Calls \ {k}
        PROVE  /\ calls'[j].pc = calls[j].pc /\ calls'[j].ctx = calls[j].ctx
               /\ calls'[j].clean => calls'[j] = calls[j] /\ j \notin whom
    <2> DEFINE b == calls[j].clean /\ j \notin whom
    <2>1. calls'[j] = [calls[j] EXCEPT !.clean = b]
      BY <1>2 DEF Disturb
    <2>2. calls[j] \in Call
      BY DEF TypeInv, TypeOK, Complete
    <2>3. b \in BOOLEAN
      OBVIOUS
    <2> HIDE DEF b
    <2>4. /\ calls'[j].pc = calls[j].pc /\ calls'[j].ctx = calls[j].ctx
          /\ calls'[j].clean = b
      BY <2>1, <2>2, <2>3 DEF Call
    <2>5. b => calls'[j] = calls[j] /\ j \notin whom
      <3>1. b => calls[j].clean = TRUE /\ b = TRUE /\ j \notin whom
        BY <2>2, Zenon DEF b, Call
      <3>2. [calls[j] EXCEPT !.clean = calls[j].clean] = calls[j]
        BY <2>2 DEF Call
      <3>3. QED
        BY <2>1, <3>1, <3>2, Zenon
    <2>6. QED
      BY <2>4, <2>5
  <1>3. QED
    BY <1>1, <1>2

(* A step that others do not see, except that it may disturb some of them. *)
LEMMA ReadsKept ==
  ASSUME WholeInv, TypeInv', NEW k \in Calls, NEW new, calls'[k] = new,
         \A j \in Calls \ {k} :
            /\ calls'[j].pc = calls[j].pc /\ calls'[j].ctx = calls[j].ctx
            /\ calls'[j].clean => calls'[j] = calls[j],
         \A j \in Calls \ {k}, x \in Contexts :
            calls'[j].pc \in Judged /\ calls'[j].clean /\ calls[j].ctx = x =>
               settled'[x] = settled[x] /\ Visible(x)' = Visible(x),
         JudgedRight(new)'
  PROVE  ReadsRight'
  <1> SUFFICES ASSUME NEW j \in Calls, NEW call \in Call, call = calls'[j],
                      call.pc \in Judged, call.clean, j # k
               PROVE  JudgedRight(call)'
    BY DEF ReadsRight, JudgedRight
  <1>1. call = calls[j]
    OBVIOUS
  <1>2. call.ctx \in Contexts
    BY <1>1 DEF WholeInv, TypeInv, CallsOK, CallOK, Judged, Reads
  <1>3. JudgedRight(call)
    BY <1>1 DEF WholeInv, ReadsRight
  <1>4. settled'[call.ctx] = settled[call.ctx] /\ Visible(call.ctx)' = Visible(call.ctx)
    BY <1>1, <1>2
  <1>5. QED
    BY <1>3, <1>4, SameWant

(* A resolution reads on, or a call ends.                                  *)
LEMMA Quiet ==
  ASSUME WholeInv, TypeInv', NEW k \in Calls, NEW new, Goto(k, new),
         UNCHANGED <<stdio, keys, fallback, seen, settled, last>>,
         new.pc \notin Binds, JudgedRight(new)
  PROVE  WholeInv'
  <1>1. calls'[k] = new /\ \A j \in Calls \ {k} : calls'[j] = calls[j]
    BY DEF Goto, WholeInv, TypeInv, TypeOK
  <1>2. \A x \in Contexts : Binding(x)' \subseteq Binding(x)
    BY <1>1 DEF Binding, InContext
  <1>3. KeysRight' /\ FallbackRight'
    BY <1>2 DEF WholeInv, KeysRight, FallbackRight
  <1>4. BindsRight'
    <2> SUFFICES ASSUME NEW j \in Calls, NEW call \in Call, call = calls'[j],
                        call.pc \in Binds, call.clean
                 PROVE  Written(j, call)'
      BY DEF BindsRight, Written
    <2>1. j # k /\ call = calls[j]
      BY <1>1
    <2>2. call.ctx \in Contexts
      BY <2>1 DEF WholeInv, TypeInv, CallsOK, CallOK, Binds
    <2>3. Binding(call.ctx)' \subseteq Binding(call.ctx)
      BY <1>2, <2>2
    <2>4. QED
      BY <2>1, <2>3 DEF WholeInv, BindsRight, Written
  <1>5. Withheld' = Withheld
    BY DEF Withheld, Several
  <1>6. \A x \in Contexts : settled'[x] = settled[x] /\ Visible(x)' = Visible(x)
    BY <1>5, SameView
  <1>7. JudgedRight(new)'
    <2>1. Expected(new)' = Expected(new) /\ Visible(new.ctx)' = Visible(new.ctx)
      BY <1>5 DEF Expected, Visible
    <2>2. QED
      BY <2>1, SameWant
  <1>8. ReadsRight'
    BY <1>1, <1>6, <1>7, ReadsKept
  <1>9. QED
    BY <1>3, <1>4, <1>8 DEF WholeInv

LEMMA SameQuestion ==
  ASSUME NEW c, NEW d, c.ctx = d.ctx, c.ask = d.ask, c.ask_url = d.ask_url
  PROVE  Expected(c) = Expected(d)
  BY DEF Expected

(* A new call has read nothing, and a bind or nobody is not judged.        *)
LEMMA Unread ==
  ASSUME NEW new, (new.pc = "read_id" /\ ~new.refused) \/ new.pc \notin Judged
  PROVE  JudgedRight(new) /\ JudgedRight(new)'
  BY DEF JudgedRight, SoFar

LEMMA ReadsStep ==
  ASSUME WholeInv, TypeInv', NEW k \in Calls,
         ReadId(k) \/ ReadUrl(k) \/ ReadBound(k) \/ ReadNotebook(k),
         stdio' = stdio
  PROVE  WholeInv'
  <1> DEFINE call == calls[k]
             x == call.ctx
             b == Visible(x)
             sid == IF b = None THEN None ELSE b.sid
             url == IF b = None THEN None ELSE b.url
  <1>1. /\ call \in Call /\ x \in Contexts /\ call.got \in Keys
        /\ call.pc \in Reads
        /\ UNCHANGED <<stdio, keys, fallback, seen, settled, last>>
    <2>1. call.pc \in Reads
      BY DEF ReadId, ReadUrl, ReadBound, ReadNotebook, At, Reads
    <2>2. call \in Call /\ CallOK(call)
      BY DEF WholeInv, TypeInv, CallsOK, Complete
    <2>3. call.got \in Keys /\ x \in Contexts
      BY <2>1, <2>2 DEF Call, CallOK, Reads
    <2>4. /\ UNCHANGED <<keys, fallback, seen, settled, last>>
          /\ stdio' = stdio
      BY DEF ReadId, ReadUrl, ReadBound, ReadNotebook
    <2>5. QED
      BY <2>1, <2>2, <2>3, <2>4
  <1>2. JudgedRight(call)
    BY <1>1 DEF WholeInv, ReadsRight
  <1>3. ASSUME call.clean, settled[x] # Mixed
        PROVE  /\ SoFar(call, b, Expected(call))
               /\ b \in Triple \cup {None}
               /\ Lookup(x, "sid").val = sid /\ Lookup(x, "url").val = url
               /\ Lookup(x, "path").val = IF b = None THEN None ELSE b.path
    BY <1>1, <1>2, <1>3, BoundIs DEF JudgedRight, Judged
  <1>4. ASSUME NEW new, new.pc \in Judged, new.ctx = call.ctx, new.ask = call.ask,
               new.ask_url = call.ask_url, new.clean = call.clean, Goto(k, new),
               call.clean /\ settled[x] # Mixed => SoFar(new, b, Expected(new))
        PROVE  WholeInv'
    <2>1. JudgedRight(new)
      BY <1>4 DEF JudgedRight
    <2>2. new.pc \notin Binds
      BY <1>4 DEF Judged, Binds, Reads
    <2>3. QED
      BY <1>1, <1>4, <2>1, <2>2, Quiet
  <1>5. CASE ReadId(k)
    <2> DEFINE asked == [call EXCEPT !.pc = "read_url", !.got.sid = call.ask]
               found == [call EXCEPT !.pc = "read_url",
                                     !.got.sid = Lookup(x, "sid").val,
                                     !.used = @ \cup Lookup(x, "sid").from]
               refused == [call EXCEPT !.pc = "done", !.refused = TRUE]
    <2>1. CASE call.ask # None
      <3>1. /\ asked.pc = "read_url" /\ asked.ctx = call.ctx
            /\ asked.ask = call.ask /\ asked.ask_url = call.ask_url
            /\ asked.clean = call.clean /\ asked.refused = call.refused
            /\ asked.got.sid = call.ask /\ Goto(k, asked)
        BY <1>1, <1>5, <2>1 DEF Call, Keys, ReadId
      <3> HIDE DEF asked
      <3>2. Expected(asked).sid = call.ask
        BY <2>1, <3>1, WantIs
      <3>3. call.clean /\ settled[x] # Mixed => SoFar(asked, b, Expected(asked))
        BY <1>1, <1>3, <3>1, <3>2 DEF SoFar, Reads
      <3>4. QED
        BY <1>4, <3>1, <3>3 DEF Judged, Reads
    <2>2. CASE call.ask = None /\ Lookup(x, "sid").val # None
      <3>1. /\ found.pc = "read_url" /\ found.ctx = call.ctx
            /\ found.ask = call.ask /\ found.ask_url = call.ask_url
            /\ found.clean = call.clean /\ found.refused = call.refused
            /\ found.got.sid = Lookup(x, "sid").val /\ Goto(k, found)
        BY <1>1, <1>5, <2>2 DEF Call, Keys, ReadId
      <3> HIDE DEF found
      <3>2. Expected(found).sid = sid
        BY <2>2, <3>1, WantIs
      <3>3. call.clean /\ settled[x] # Mixed => SoFar(found, b, Expected(found))
        BY <1>1, <1>3, <3>1, <3>2 DEF SoFar, Reads
      <3>4. QED
        BY <1>4, <3>1, <3>3 DEF Judged, Reads
    <2>3. CASE call.ask = None /\ Lookup(x, "sid").val = None
      <3>1. /\ refused.pc = "done" /\ refused.ctx = call.ctx
            /\ refused.ask = call.ask /\ refused.ask_url = call.ask_url
            /\ refused.clean = call.clean /\ refused.refused /\ Goto(k, refused)
        BY <1>1, <1>5, <2>3 DEF Call, ReadId, Refuse
      <3> HIDE DEF refused
      <3>2. Expected(refused).sid = sid
        BY <2>3, <3>1, WantIs
      <3>3. call.clean /\ settled[x] # Mixed => SoFar(refused, b, Expected(refused))
        BY <1>3, <2>3, <3>1, <3>2 DEF SoFar
      <3>4. QED
        BY <1>4, <3>1, <3>3 DEF Judged
    <2>4. QED
      BY <2>1, <2>2, <2>3
  <1>6. CASE ReadUrl(k)
    <2> DEFINE asked == [call EXCEPT !.pc = "read_bound", !.got.url = call.ask_url]
               found == [call EXCEPT !.pc = "read_bound",
                                     !.got.url = Lookup(x, "url").val,
                                     !.used = @ \cup Lookup(x, "url").from]
               refused == [call EXCEPT !.pc = "done", !.refused = TRUE]
    <2>0. call.pc = "read_url"
      BY <1>6 DEF ReadUrl, At
    <2>1. CASE call.ask_url # None
      <3>1. /\ asked.pc = "read_bound" /\ asked.ctx = call.ctx
            /\ asked.ask = call.ask /\ asked.ask_url = call.ask_url
            /\ asked.clean = call.clean /\ asked.refused = call.refused
            /\ asked.got.sid = call.got.sid /\ asked.got.url = call.ask_url
            /\ Goto(k, asked)
        BY <1>1, <1>6, <2>1 DEF Call, Keys, ReadUrl
      <3> HIDE DEF asked
      <3>2. Expected(asked).url = call.ask_url /\ Expected(asked).sid = Expected(call).sid
        BY <2>1, <3>1, WantIs
      <3>3. call.clean /\ settled[x] # Mixed => SoFar(asked, b, Expected(asked))
        BY <1>1, <1>3, <2>0, <3>1, <3>2 DEF SoFar, Reads
      <3>4. QED
        BY <1>4, <3>1, <3>3 DEF Judged, Reads
    <2>2. CASE call.ask_url = None /\ Lookup(x, "url").val # None
      <3>1. /\ found.pc = "read_bound" /\ found.ctx = call.ctx
            /\ found.ask = call.ask /\ found.ask_url = call.ask_url
            /\ found.clean = call.clean /\ found.refused = call.refused
            /\ found.got.sid = call.got.sid /\ found.got.url = Lookup(x, "url").val
            /\ Goto(k, found)
        BY <1>1, <1>6, <2>2 DEF Call, Keys, ReadUrl
      <3> HIDE DEF found
      <3>2. Expected(found).url = url /\ Expected(found) = Expected(call)
        BY <2>2, <3>1, WantIs, SameQuestion
      <3>3. call.clean /\ settled[x] # Mixed => SoFar(found, b, Expected(found))
        BY <1>1, <1>3, <2>0, <3>1, <3>2 DEF SoFar, Reads
      <3>4. QED
        BY <1>4, <3>1, <3>3 DEF Judged, Reads
    <2>3. CASE call.ask_url = None /\ Lookup(x, "url").val = None
      <3>1. /\ refused.pc = "done" /\ refused.ctx = call.ctx
            /\ refused.ask = call.ask /\ refused.ask_url = call.ask_url
            /\ refused.clean = call.clean /\ refused.refused /\ Goto(k, refused)
        BY <1>1, <1>6, <2>3 DEF Call, ReadUrl, Refuse
      <3> HIDE DEF refused
      <3>2. Expected(refused).url = url
        BY <2>3, <3>1, WantIs
      <3>3. call.clean /\ settled[x] # Mixed => SoFar(refused, b, Expected(refused))
        BY <1>3, <2>3, <3>1, <3>2 DEF SoFar
      <3>4. QED
        BY <1>4, <3>1, <3>3 DEF Judged
    <2>4. QED
      BY <2>1, <2>2, <2>3
  <1>7. CASE ReadBound(k)
    <2> DEFINE anchored == [call EXCEPT !.pc = "read_notebook"]
               free == [call EXCEPT !.pc = "done", !.got.path = Unsaved]
    <2>0. call.pc = "read_bound"
      BY <1>7 DEF ReadBound, At
    <2>1. CASE Anchored(call, Lookup(x, "sid").val)
      <3>1. /\ anchored.pc = "read_notebook" /\ anchored.ctx = call.ctx
            /\ anchored.ask = call.ask /\ anchored.ask_url = call.ask_url
            /\ anchored.clean = call.clean /\ anchored.refused = call.refused
            /\ anchored.got = call.got /\ Goto(k, anchored)
        BY <1>1, <1>7, <2>1 DEF Call, ReadBound
      <3> HIDE DEF anchored
      <3>2. /\ Expected(anchored).sid = Expected(call).sid
            /\ Expected(anchored).url = Expected(call).url
        BY <3>1, WantIs
      <3>3. call.clean /\ settled[x] # Mixed => SoFar(anchored, b, Expected(anchored))
        BY <1>1, <1>3, <2>0, <2>1, <3>1, <3>2 DEF SoFar, Reads, Anchored
      <3>4. QED
        BY <1>4, <3>1, <3>3 DEF Judged, Reads
    <2>2. CASE ~Anchored(call, Lookup(x, "sid").val)
      <3>1. /\ free.pc = "done" /\ free.ctx = call.ctx
            /\ free.ask = call.ask /\ free.ask_url = call.ask_url
            /\ free.clean = call.clean /\ free.refused = call.refused
            /\ free.got = [sid |-> call.got.sid, url |-> call.got.url,
                           path |-> Unsaved]
            /\ Goto(k, free)
        BY <1>1, <1>7, <2>2 DEF Call, Keys, ReadBound
      <3> HIDE DEF free
      <3>2. ASSUME call.clean, settled[x] # Mixed
            PROVE  SoFar(free, b, Expected(free))
        <4>1. ~(b # None /\ call.ask \in {None, b.sid})
          BY <1>3, <2>2, <3>2, BindingAssumption DEF Anchored, Triple
        <4>2. Expected(free).path = Unsaved
          BY <3>1, <4>1, WantIs
        <4>3. /\ Expected(free) = Expected(call)
              /\ Expected(free) = [sid |-> Expected(free).sid,
                                   url |-> Expected(free).url,
                                   path |-> Expected(free).path]
          BY <3>1, SameQuestion, WantIs
        <4>4. /\ ~call.refused /\ call.got.sid = Expected(call).sid
              /\ call.got.url = Expected(call).url
          BY <1>3, <2>0, <3>2 DEF SoFar
        <4>5. QED
          BY <3>1, <4>2, <4>3, <4>4 DEF SoFar
      <3>3. QED
        BY <1>4, <3>1, <3>2 DEF Judged
    <2>3. QED
      BY <2>1, <2>2
  <1>8. CASE ReadNotebook(k)
    <2> DEFINE bound == Lookup(x, "path")
               path == IF bound.val = None THEN Unsaved ELSE bound.val
               new == [call EXCEPT !.pc = "done", !.got.path = path,
                                   !.used = @ \cup bound.from]
    <2>0. call.pc = "read_notebook"
      BY <1>8 DEF ReadNotebook, At
    <2>1. /\ new.pc = "done" /\ new.ctx = call.ctx
          /\ new.ask = call.ask /\ new.ask_url = call.ask_url
          /\ new.clean = call.clean /\ new.refused = call.refused
          /\ new.got = [sid |-> call.got.sid, url |-> call.got.url, path |-> path]
          /\ Goto(k, new)
      BY <1>1, <1>8 DEF Call, Keys, ReadNotebook
    <2> HIDE DEF new
    <2>2. ASSUME call.clean, settled[x] # Mixed
          PROVE  SoFar(new, b, Expected(new))
      <3>1. /\ b # None /\ call.ask \in {None, b.sid} /\ ~call.refused
            /\ call.got.sid = Expected(call).sid /\ call.got.url = Expected(call).url
        BY <1>3, <2>0, <2>2 DEF SoFar
      <3>2. path = b.path
        BY <1>3, <2>2, <3>1, BindingAssumption DEF Triple
      <3> HIDE DEF path
      <3>3. Expected(new) = Expected(call)
        BY <2>1, SameQuestion
      <3>4. /\ Expected(new).path = b.path
            /\ Expected(new) = [sid |-> Expected(new).sid,
                                url |-> Expected(new).url,
                                path |-> Expected(new).path]
        BY <2>1, <3>1, WantIs
      <3>5. QED
        BY <2>1, <3>1, <3>2, <3>3, <3>4 DEF SoFar
    <2>3. QED
      BY <1>4, <2>1, <2>2 DEF Judged
  <1>9. QED
    BY <1>5, <1>6, <1>7, <1>8

(* What a step leaves of the binds of others.                              *)
LEMMA BindsKept ==
  ASSUME WholeInv, NEW k \in Calls, NEW new, NEW whom, NEW x \in Contexts,
         Disturb(k, new, whom), new.ctx = x,
         \A y \in Contexts \ {x} : keys'[y] = keys[y],
         InContext(x) \subseteq whom \/ (keys' = keys /\ new.pc \notin Binds),
         new.pc \in Binds /\ new.clean =>
            /\ Binding(x) \subseteq {k}
            /\ keys'[x].sid = new.got.sid
            /\ new.pc # "set_url" => keys'[x].url = new.got.url
            /\ new.pc = "store" => keys'[x].path = new.got.path
  PROVE  /\ BindsRight'
         /\ \A y \in Contexts \ {x} : Binding(y)' \subseteq Binding(y)
         /\ Binding(x)' \subseteq Binding(x) \cup {k}
         /\ new.pc \notin Binds => Binding(x)' \subseteq Binding(x) \ {k}
  <1>1. /\ calls'[k] = new
        /\ \A j \in Calls \ {k} :
              /\ calls'[j].pc = calls[j].pc /\ calls'[j].ctx = calls[j].ctx
              /\ calls'[j].clean => calls'[j] = calls[j] /\ j \notin whom
    BY Undisturbed DEF WholeInv
  <1>2. \A y \in Contexts \ {x} : Binding(y)' \subseteq Binding(y)
    BY <1>1 DEF Binding, InContext
  <1>3. /\ Binding(x)' \subseteq Binding(x) \cup {k}
        /\ new.pc \notin Binds => Binding(x)' \subseteq Binding(x) \ {k}
    BY <1>1 DEF Binding, InContext
  <1>4. ASSUME NEW j \in Calls, NEW call \in Call, call = calls'[j],
               call.pc \in Binds, call.clean, j # k
        PROVE  Written(j, call)'
    <2>1. call = calls[j] /\ j \notin whom
      BY <1>1, <1>4
    <2>2. call.ctx \in Contexts
      BY <1>4, <2>1 DEF WholeInv, TypeInv, CallsOK, CallOK, Binds
    <2>3. Written(j, call)
      BY <2>1 DEF WholeInv, BindsRight
    <2>4. call.ctx = x => keys' = keys /\ new.pc \notin Binds
      BY <2>1 DEF InContext
    <2>5. keys'[call.ctx] = keys[call.ctx]
      BY <2>2, <2>4
    <2>6. Binding(call.ctx)' \subseteq Binding(call.ctx)
      BY <1>2, <1>3, <2>2, <2>4
    <2>7. QED
      BY <1>4, <2>3, <2>5, <2>6 DEF Written
  <1>5. BindsRight'
    <2> SUFFICES ASSUME NEW j \in Calls, NEW call \in Call, call = calls'[j],
                        call.pc \in Binds, call.clean
                 PROVE  Written(j, call)'
      BY DEF BindsRight, Written
    <2>1. CASE j = k
      <3>1. call = new /\ call.ctx = x
        BY <1>1, <2>1
      <3>2. Binding(x)' \subseteq {k}
        BY <1>3, <3>1
      <3>3. QED
        BY <2>1, <3>1, <3>2 DEF Written
    <2>2. QED
      BY <1>4, <2>1
  <1>6. QED
    BY <1>2, <1>3, <1>5

(* A bind's next write.                                                    *)
LEMMA WriteStep ==
  ASSUME WholeInv, TypeInv', stdio' = stdio, NEW k \in Calls,
         NEW call \in Call, call = calls[k], NEW x, x = call.ctx,
         BindUrl(k) \/ BindNotebook(k)
  PROVE  WholeInv'
  <1> DEFINE next == IF call.pc = "set_url" THEN "set_notebook" ELSE "store"
             new == [call EXCEPT !.pc = next]
  <1>1. call.pc \in {"set_url", "set_notebook"} /\ x \in Contexts
    BY DEF BindUrl, BindNotebook, At, WholeInv, TypeInv, CallsOK, CallOK, Binds
  <1>2. /\ Disturb(k, new, InContext(x))
        /\ UNCHANGED <<fallback, seen, settled, last>>
    BY DEF BindUrl, BindNotebook, At
  <1>3. /\ new.ctx = x /\ new.pc = next /\ new.got = call.got
        /\ new.clean = call.clean
    BY <1>1 DEF Call
  <1>4. /\ keys[x] \in Keys
        /\ \A y \in Contexts \ {x} : keys'[y] = keys[y]
        /\ call.pc = "set_url" => keys'[x] = [keys[x] EXCEPT !.url = call.got.url]
        /\ call.pc = "set_notebook" =>
              keys'[x] = [keys[x] EXCEPT !.path = call.got.path]
    BY <1>1 DEF BindUrl, BindNotebook, At, WholeInv, TypeInv, TypeOK
  <1>5. call.clean =>
          /\ Binding(x) \subseteq {k} /\ keys[x].sid = call.got.sid
          /\ call.pc # "set_url" => keys[x].url = call.got.url
    BY <1>1 DEF WholeInv, BindsRight, Written, Binds
  <1>6. new.clean =>
          /\ Binding(x) \subseteq {k}
          /\ keys'[x].sid = new.got.sid
          /\ new.pc # "set_url" => keys'[x].url = new.got.url
          /\ new.pc = "store" => keys'[x].path = new.got.path
    BY <1>1, <1>3, <1>4, <1>5 DEF Keys
  <1> HIDE DEF new
  <1>7. /\ BindsRight'
        /\ \A y \in Contexts \ {x} : Binding(y)' \subseteq Binding(y)
    BY <1>1, <1>2, <1>3, <1>4, <1>6, BindsKept
  <1>8. settled[x] = Mixed
    BY <1>1 DEF WholeInv, KeysRight, Binding, InContext, Binds
  <1>9. KeysRight' /\ FallbackRight'
    <2>1. Mixed # None /\ Mixed \notin Triple
      BY BindingAssumption
    <2>2. FallbackRight'
      BY <1>2 DEF WholeInv, FallbackRight
    <2>3. KeysRight'
      <3> SUFFICES ASSUME NEW y \in Contexts, settled[y] # Mixed
                   PROVE  /\ settled[y] = None => keys'[y] = NothingBound
                          /\ settled[y] \in Triple => keys'[y] = settled[y]
                          /\ Binding(y)' = {}
        BY <1>2, <2>1 DEF KeysRight
      <3>1. y # x /\ Binding(y) = {}
        BY <1>8 DEF WholeInv, KeysRight
      <3>2. QED
        BY <1>4, <1>7, <3>1 DEF WholeInv, KeysRight
    <2>4. QED
      BY <2>2, <2>3
  <1>10. ReadsRight'
    <2>1. /\ calls'[k] = new
          /\ \A j \in Calls \ {k} :
                /\ calls'[j].pc = calls[j].pc /\ calls'[j].ctx = calls[j].ctx
                /\ calls'[j].clean => calls'[j] = calls[j]
      BY <1>2, Undisturbed DEF WholeInv
    <2>2. Withheld' = Withheld
      BY <1>2 DEF Withheld, Several
    <2>3. \A y \in Contexts : settled'[y] = settled[y] /\ Visible(y)' = Visible(y)
      BY <1>2, <2>2, SameView
    <2>4. JudgedRight(new)'
      BY <1>3, Unread DEF Judged, Reads
    <2>5. QED
      BY <2>1, <2>3, <2>4, ReadsKept
  <1>11. QED
    BY <1>7, <1>9, <1>10 DEF WholeInv

LEMMA BindStep ==
  ASSUME WholeInv, TypeInv', stdio' = stdio, NEW k \in Calls, NEW x \in Contexts,
         NEW b \in Triple, Bind(k, x, b)
  PROVE  WholeInv'
  <1>0. PICK new : new = [Idle EXCEPT !.pc = "set_url", !.ctx = x, !.got = b,
                                      !.clean = Binding(x) = {}]
    OBVIOUS
  <1>1. /\ Disturb(k, new, InContext(x)) /\ calls[k].pc = "idle"
        /\ UNCHANGED <<fallback, seen, last>>
        /\ settled' = [settled EXCEPT ![x] = Mixed]
    BY <1>0 DEF Bind, At
  <1>2. /\ new.ctx = x /\ new.pc = "set_url" /\ new.got = b
        /\ new.clean => Binding(x) = {}
    BY <1>0 DEF Idle
  <1>3. /\ \A y \in Contexts \ {x} : keys'[y] = keys[y]
        /\ keys'[x].sid = b.sid
    BY DEF Bind, WholeInv, TypeInv, TypeOK, Keys
  <1>4. /\ \A y \in Contexts \ {x} : settled'[y] = settled[y]
        /\ settled'[x] = Mixed
    BY <1>1 DEF WholeInv, TypeInv, TypeOK
  <1>5. /\ BindsRight'
        /\ \A y \in Contexts \ {x} : Binding(y)' \subseteq Binding(y)
    BY <1>1, <1>2, <1>3, BindsKept
  <1>6. KeysRight' /\ FallbackRight'
    <2>1. Mixed # None /\ Mixed \notin Triple
      BY BindingAssumption
    <2>2. FallbackRight'
      BY <1>1 DEF WholeInv, FallbackRight
    <2>3. KeysRight'
      BY <1>3, <1>4, <1>5, <2>1 DEF WholeInv, KeysRight
    <2>4. QED
      BY <2>2, <2>3
  <1>7. ReadsRight'
    <2>1. /\ calls'[k] = new
          /\ \A j \in Calls \ {k} :
                /\ calls'[j].pc = calls[j].pc /\ calls'[j].ctx = calls[j].ctx
                /\ calls'[j].clean => calls'[j] = calls[j] /\ calls[j].ctx # x
      BY <1>1, Undisturbed DEF WholeInv, InContext
    <2>2. Withheld' = Withheld
      BY <1>1 DEF Withheld, Several
    <2>3. \A y \in Contexts \ {x} :
            settled'[y] = settled[y] /\ Visible(y)' = Visible(y)
      BY <1>1, <1>4, <2>2, SameView
    <2>4. JudgedRight(new)'
      BY <1>2, Unread DEF Judged, Reads
    <2>5. QED
      BY <2>1, <2>3, <2>4, ReadsKept
  <1>8. QED
    BY <1>5, <1>6, <1>7 DEF WholeInv

LEMMA ResolveStep ==
  ASSUME WholeInv, TypeInv', stdio' = stdio, NEW k \in Calls, NEW x \in Contexts,
         NEW ask, NEW url, Resolve(k, x, ask, url)
  PROVE  WholeInv'
  <1>0. PICK new, whom :
            /\ new = [Idle EXCEPT !.pc = "read_id", !.ctx = x, !.ask = ask,
                                  !.ask_url = url, !.clean = Binding(x) = {}]
            /\ whom = IF seen' = seen THEN {} ELSE Resolving
    OBVIOUS
  <1>1. /\ Disturb(k, new, whom)
        /\ UNCHANGED <<keys, fallback, last, settled>>
    BY <1>0 DEF Resolve
  <1>2. new.ctx = x /\ new.pc = "read_id" /\ ~new.refused
    BY <1>0 DEF Idle
  <1>3. new.pc \notin Binds
    BY <1>2 DEF Binds
  <1>4. /\ BindsRight'
        /\ \A y \in Contexts \ {x} : Binding(y)' \subseteq Binding(y)
        /\ Binding(x)' \subseteq Binding(x)
    BY <1>1, <1>2, <1>3, BindsKept
  <1>5. KeysRight' /\ FallbackRight'
    BY <1>1, <1>4 DEF WholeInv, KeysRight, FallbackRight
  <1>6. ReadsRight'
    <2>1. /\ calls'[k] = new
          /\ \A j \in Calls \ {k} :
                /\ calls'[j].pc = calls[j].pc /\ calls'[j].ctx = calls[j].ctx
                /\ calls'[j].clean => calls'[j] = calls[j] /\ j \notin whom
      BY <1>1, Undisturbed DEF WholeInv
    <2>2. seen' = seen => Withheld' = Withheld
      BY <1>1 DEF Withheld, Several
    <2>3. seen' = seen => \A y \in Contexts : Visible(y)' = Visible(y)
      BY <1>1, <2>2, SameView
    <2>4. seen' # seen => \A j \in Calls : calls[j].pc \in Judged => j \in whom
      BY <1>0 DEF Resolving, Judged
    <2>5. JudgedRight(new)'
      BY <1>2, Unread
    <2>6. QED
      BY <1>1, <2>1, <2>3, <2>4, <2>5, ReadsKept
  <1>7. QED
    BY <1>4, <1>5, <1>6 DEF WholeInv

LEMMA StoreStep ==
  ASSUME WholeInv, TypeInv', stdio' = stdio, NEW k \in Calls,
         NEW call \in Call, call = calls[k], NEW x, x = call.ctx, BindStore(k)
  PROVE  WholeInv'
  <1> DEFINE whom == InContext(x) \cup Resolving
             mark == IF call.clean THEN call.got ELSE Mixed
  <1>1. /\ call.pc = "store" /\ x \in Contexts /\ call.got \in Triple
    BY DEF BindStore, At, WholeInv, TypeInv, CallsOK, CallOK, Complete, Binds
  <1>2. /\ Disturb(k, Idle, whom) /\ keys' = keys
        /\ fallback' = call.got /\ last' = call.got
        /\ settled' = [settled EXCEPT ![x] = mark]
    BY DEF BindStore
  <1>3. Idle.pc \notin Binds /\ Idle.pc \notin Judged
    BY DEF Idle, Binds, Judged, Reads
  <1>4. /\ \A y \in Contexts \ {x} : settled'[y] = settled[y]
        /\ settled'[x] = mark
    BY <1>1, <1>2 DEF WholeInv, TypeInv, TypeOK
  <1>5. /\ calls'[k] = Idle
        /\ \A j \in Calls \ {k} :
              /\ calls'[j].pc = calls[j].pc /\ calls'[j].ctx = calls[j].ctx
              /\ calls'[j].clean => calls'[j] = calls[j] /\ j \notin whom
    BY <1>2, Undisturbed DEF WholeInv
  <1>6. \A y \in Contexts : Binding(y)' \subseteq Binding(y) \ {k}
    BY <1>3, <1>5 DEF Binding, InContext
  <1>7. BindsRight'
    <2> SUFFICES ASSUME NEW j \in Calls, NEW c \in Call, c = calls'[j],
                        c.pc \in Binds, c.clean
                 PROVE  Written(j, c)'
      BY DEF BindsRight, Written
    <2>1. j # k
      BY <1>3, <1>5
    <2>2. c = calls[j]
      BY <1>5, <2>1
    <2>3. c.ctx \in Contexts
      BY <2>2 DEF WholeInv, TypeInv, CallsOK, CallOK, Binds
    <2>4. Binding(c.ctx)' \subseteq Binding(c.ctx)
      BY <1>6, <2>3
    <2>5. QED
      BY <1>2, <2>2, <2>4 DEF WholeInv, BindsRight, Written
  <1>8. KeysRight' /\ FallbackRight'
    <2>1. /\ Mixed # None /\ Mixed \notin Triple /\ None \notin Triple
      BY BindingAssumption
    <2>2. FallbackRight'
      BY <1>1, <1>2, <2>1 DEF FallbackRight
    <2>3. call.clean => keys[x] = call.got /\ Binding(x)' = {}
      <3> SUFFICES ASSUME call.clean PROVE keys[x] = call.got /\ Binding(x)' = {}
        OBVIOUS
      <3>1. /\ Binding(x) \subseteq {k} /\ keys[x].sid = call.got.sid
            /\ keys[x].url = call.got.url /\ keys[x].path = call.got.path
        BY <1>1 DEF WholeInv, BindsRight, Written, Binds
      <3>2. keys[x] \in Keys
        BY <1>1 DEF WholeInv, TypeInv, TypeOK
      <3>3. keys[x] = call.got
        BY <1>1, <3>1, <3>2 DEF Keys, Triple
      <3>4. Binding(x)' = {}
        BY <1>1, <1>6, <3>1
      <3>5. QED
        BY <3>3, <3>4
    <2>4. KeysRight'
      BY <1>1, <1>2, <1>4, <1>6, <2>1, <2>3 DEF WholeInv, KeysRight
    <2>5. QED
      BY <2>2, <2>4
  <1>9. ReadsRight'
    <2>1. \A j \in Calls \ {k} : calls'[j].pc \in Judged => ~calls'[j].clean
      BY <1>5 DEF Resolving, Judged
    <2>2. QED
      BY <1>3, <1>5, <2>1 DEF ReadsRight, JudgedRight
  <1>10. QED
    BY <1>7, <1>8, <1>9 DEF WholeInv

LEMMA WholeStep ==
  ASSUME WholeInv, [Next]_vars
  PROVE  WholeInv'
  <1>1. TypeInv'
    BY TypeInvStep DEF WholeInv
  <1>2. stdio' = stdio
    BY DEF Next, vars
  <1>3. ASSUME NEW k \in Calls, Step(k)
        PROVE  WholeInv'
    <2>1. CASE End(k)
      <3>1. Idle.pc \notin Binds /\ Idle.pc \notin Judged
        BY DEF Idle, Binds, Judged, Reads
      <3>2. QED
        BY <1>1, <1>2, <2>1, <3>1, Quiet, Unread DEF End
    <2>2. PICK call \in Call : call = calls[k]
      BY DEF WholeInv, TypeInv, TypeOK, Complete
    <2>3. PICK x : x = call.ctx
      OBVIOUS
    <2>4. QED
      BY <1>1, <1>2, <1>3, <2>1, <2>2, <2>3, ReadsStep, WriteStep, StoreStep
      DEF Step
  <1>4. CASE UNCHANGED vars
    <2>1. Withheld' = Withheld
      BY <1>4 DEF vars, Withheld, Several
    <2>2. \A x \in Contexts : Visible(x)' = Visible(x) /\ Binding(x)' = Binding(x)
      BY <1>4, <2>1 DEF vars, Visible, Binding, InContext
    <2>3. KeysRight' /\ FallbackRight'
      BY <1>4, <2>2 DEF vars, WholeInv, KeysRight, FallbackRight
    <2>4. BindsRight'
      BY <1>4 DEF vars, WholeInv, BindsRight, Written, Binding, InContext
    <2>5. ReadsRight'
      <3>1. \A call : Expected(call)' = Expected(call)
        BY <1>4, <2>1 DEF vars, Expected, Visible
      <3>2. \A call : JudgedRight(call)' <=> JudgedRight(call)
        BY <1>4, <2>1, <3>1 DEF vars, JudgedRight, SoFar, Visible
      <3>3. QED
        BY <1>4, <3>2 DEF vars, WholeInv, ReadsRight
    <2>6. QED
      BY <1>1, <2>3, <2>4, <2>5 DEF WholeInv
  <1>5. QED
    BY <1>1, <1>2, <1>3, <1>4, BindStep, ResolveStep DEF Next, Start

(* A resolution that no bind of its MCP session, and no change of what it  *)
(* may share, got in the way of finds one binding whole, with its anchor   *)
(* exactly when it is on the bound id, and is refused only if there is     *)
(* none (the key-by-key writes and reads of bind_active_session and the    *)
(* resolve_* functions), for any number of clients, calls and binds.       *)
THEOREM BindingsAreWhole == Spec => []WholeBinding
  <1>1. Init => WholeInv
    <2> SUFFICES ASSUME Init PROVE WholeInv
      OBVIOUS
    <2>1. \A x \in Contexts : keys[x] = NothingBound /\ settled[x] = None
      BY DEF Init
    <2>2. \A k \in Calls : calls[k].pc = "idle"
      BY DEF Init, Idle
    <2>3. KeysRight /\ FallbackRight
      BY <2>1, <2>2, BindingAssumption
      DEF Init, KeysRight, FallbackRight, NothingBound, Binding, InContext, Binds
    <2>4. BindsRight /\ ReadsRight
      BY <2>2 DEF BindsRight, Written, ReadsRight, JudgedRight, Judged, Binds, Reads
    <2>5. QED
      BY <2>3, <2>4, TypeInvInit DEF WholeInv
  <1>2. WholeInv /\ [Next]_vars => WholeInv'
    BY WholeStep
  <1>3. WholeInv => WholeBinding
    <2> SUFFICES ASSUME WholeInv, NEW k \in Calls, At(k, "done"), calls[k].clean,
                        settled[calls[k].ctx] # Mixed
                 PROVE  IF calls[k].refused
                        THEN None \in {Expected(calls[k]).sid, Expected(calls[k]).url}
                        ELSE calls[k].got = Expected(calls[k])
      BY DEF WholeBinding
    <2>1. calls[k] \in Call /\ calls[k].pc = "done"
      BY DEF WholeInv, TypeInv, TypeOK, Complete, At
    <2>2. JudgedRight(calls[k])
      BY <2>1 DEF WholeInv, ReadsRight
    <2>3. SoFar(calls[k], Visible(calls[k].ctx), Expected(calls[k]))
      BY <2>1, <2>2 DEF JudgedRight, Judged
    <2>4. QED
      BY <2>1, <2>3 DEF SoFar
  <1>4. QED
    BY <1>1, <1>2, <1>3, PTL DEF Spec
=============================================================================
