---------------------------- MODULE RestartProofs ----------------------------
(***************************************************************************)
(* Proofs about RestartKernel, for any number of restarts, sessions,       *)
(* notebooks, attempts and moves of the server: types, that state_changed  *)
(* never lies and, when no id changes hands under a call, that the kernel  *)
(* closed is the right one.                                                *)
(***************************************************************************)
EXTENDS RestartKernel, TLAPS

Before == {"idle", "census", "decide", "scrape", "post", "rescrape"}
After == {"handshake", "poll", "measure", "finish"}

(* What a call carries in each of its phases.                              *)
CallOK(call) ==
    /\ call.pc # "idle" => call.sid \in SessionIds
    /\ call.pc \in {"idle", "census", "decide"} => call.file = None
    /\ call.pc \in {"scrape", "post", "rescrape"} \cup After =>
         /\ call.file \in Paths
         /\ call.anchor \in {Unsaved, call.file}
    /\ call.pc \in Before \cup {"handshake"} => call.tries = 0
    /\ call.pc = "poll" => call.tries < Attempts
    /\ call.pc \in Before => call.closed = None
    /\ call.pc \in After => call.closed # None
    /\ call.pc = "done" =>
         /\ call.answer # None
         /\ call.answer.state_changed = FALSE => call.closed = None
         /\ call.answer.state_changed = TRUE => call.closed # None

CallsOK == \A k \in Calls : CallOK(calls[k])

TypeInv == TypeOK /\ CallsOK

(* What a call keeps from the POST to its end.                             *)
Unmoved(old, new) ==
    /\ new.sid = old.sid
    /\ new.file = old.file
    /\ new.anchor = old.anchor
    /\ new.tries = old.tries

LEMMA IdleType == Idle \in Call /\ CallOK(Idle)
  BY RestartAssumption
  DEF Idle, Call, CallOK, Phases, Listing, Nobody, NoToken, Before, After

LEMMA CensusType ==
  ASSUME TypeOK
  PROVE  Census \in Listing
  BY DEF TypeOK, Census, Listing, Session

LEMMA AdoptType ==
  ASSUME NEW entry \in Entry, NEW path \in Paths
  PROVE  Adopt(entry, path) \in Entry
  BY DEF Adopt, Entry, Unrecorded

LEMMA AnsweredType ==
  ASSUME NEW call \in Call, call.sid \in SessionIds,
         NEW reason \in Reasons \cup {"ok", "escaped"},
         NEW changed \in BOOLEAN \cup {None},
         changed = FALSE => call.closed = None,
         changed = TRUE => call.closed # None
  PROVE  /\ Answered(call, reason, changed) \in Call
         /\ CallOK(Answered(call, reason, changed))
  <1> DEFINE kept == IF reason = "ok" /\ call.rotated # None
                     THEN ~call.rotated ELSE None
             answer == [reason |-> reason, state_changed |-> changed,
                        preserved |-> kept]
             done == [call EXCEPT !.pc = "done", !.answer = answer]
  <1>1. kept \in BOOLEAN \cup {None}
    BY DEF Call
  <1>2. done = Answered(call, reason, changed)
    BY DEF Answered
  <1> HIDE DEF kept
  <1>3. answer \in Answer
    BY <1>1 DEF Answer
  <1>4. answer.state_changed = changed
    OBVIOUS
  <1>5. answer # None
    BY <1>3, RestartAssumption
  <1> HIDE DEF answer
  <1>6. done \in Call
    BY <1>3 DEF Call, Phases
  <1>7. CallOK(done)
    BY <1>4, <1>5 DEF Call, CallOK, Before, After
  <1> HIDE DEF done
  <1>8. QED
    BY <1>2, <1>6, <1>7

(* Steps of the client alone: one call moves on.                           *)
LEMMA GotoType ==
  ASSUME TypeInv, NEW k \in Calls, NEW call \in Call, CallOK(call), Goto(k, call)
  PROVE  calls' \in [Calls -> Call] /\ CallsOK'
  BY DEF TypeInv, TypeOK, CallsOK, Goto

LEMMA ClientStep ==
  ASSUME TypeInv, NEW k \in Calls, NEW call \in Call, CallOK(call), Goto(k, call),
         UNCHANGED <<Server, tracker, reads, Bounds>>
  PROVE  TypeInv'
  <1>1. calls' \in [Calls -> Call] /\ CallsOK'
    BY GotoType
  <1>2. QED
    BY <1>1 DEF TypeInv, TypeOK, Server, Bounds

(* Of an answer that reports no change, and of one that leaves it open.    *)
LEMMA RefusedType ==
  ASSUME TypeInv, NEW k \in Calls, calls[k].pc \in Before \ {"idle"},
         NEW reason \in Reasons
  PROVE  /\ Answered(calls[k], reason, FALSE) \in Call
         /\ CallOK(Answered(calls[k], reason, FALSE))
  <1>1. calls[k] \in Call /\ CallOK(calls[k])
    BY DEF TypeInv, TypeOK, CallsOK
  <1>2. calls[k].sid \in SessionIds /\ calls[k].closed = None
    BY <1>1 DEF CallOK, Before
  <1>3. QED
    BY <1>1, <1>2, AnsweredType

LEMMA LostType ==
  ASSUME NEW call \in Call, call.sid \in SessionIds
  PROVE  Lost(call) \in Call /\ CallOK(Lost(call))
  BY AnsweredType, RestartAssumption DEF Lost, Reasons

LEMMA BeginStep ==
  ASSUME TypeInv, NEW k \in Calls, NEW sid \in SessionIds, NEW anchor \in Paths,
         Begin(k, sid, anchor)
  PROVE  TypeInv'
  <1> DEFINE call == [Idle EXCEPT !.pc = "census", !.sid = sid, !.anchor = anchor]
  <1>1. call \in Call /\ CallOK(call)
    BY IdleType DEF Idle, Call, CallOK, Phases, Before, After
  <1>2. Goto(k, call) /\ begun' = begun + 1
    BY DEF Begin
  <1> HIDE DEF call
  <1>3. calls' \in [Calls -> Call] /\ CallsOK'
    BY <1>1, <1>2, GotoType
  <1>4. QED
    BY <1>2, <1>3 DEF Begin, TypeInv, TypeOK, Server

LEMMA PreflightStep ==
  ASSUME TypeInv, NEW k \in Calls,
         ReadCensus(k) \/ RefuseTarget(k) \/ AcceptTarget(k) \/ RepairTarget(k)
  PROVE  TypeInv'
  <1> DEFINE call == calls[k]
  <1>0. call \in Call /\ CallOK(call)
    BY DEF TypeInv, TypeOK, CallsOK
  <1>1. CASE ReadCensus(k)
    <2> DEFINE told == [call EXCEPT !.pc = "decide", !.listing = Census]
    <2>1. told \in Call /\ CallOK(told)
      BY <1>0, <1>1, CensusType
      DEF ReadCensus, At, TypeInv, Call, CallOK, Phases, Before, After
    <2>2. call.pc \in Before \ {"idle"}
      BY <1>1 DEF ReadCensus, At, Before
    <2>3. \/ Goto(k, told)
          \/ \E reason \in Reasons : Goto(k, Answered(call, reason, FALSE))
      BY <1>1 DEF ReadCensus, Reasons
    <2> HIDE DEF told
    <2>4. QED
      BY <1>1, <2>1, <2>2, <2>3, RefusedType, ClientStep DEF ReadCensus
  <1>2. CASE RefuseTarget(k)
    <2>1. call.pc \in Before \ {"idle"}
      BY <1>2 DEF RefuseTarget, At, Before
    <2>2. Refusal(call) \in Reasons
      BY DEF Refusal, Reasons
    <2>3. QED
      BY <1>2, <2>1, <2>2, RefusedType, ClientStep DEF RefuseTarget
  <1>3. CASE AcceptTarget(k)
    <2> DEFINE new == [call EXCEPT !.pc = "scrape", !.file = Target(call),
                                   !.listing = Nobody]
    <2>1. call.pc = "decide" /\ Target(call) \in Paths
      BY <1>0, <1>3 DEF AcceptTarget, At, Target, Call, CallOK, Listing
    <2>2. call.anchor \in {Unsaved, Target(call)}
      BY <1>3, <2>1 DEF AcceptTarget, Mismatch
    <2>3. new \in Call /\ CallOK(new)
      BY <1>0, <2>1, <2>2
      DEF Call, CallOK, Phases, Before, After, Listing, Nobody
    <2>4. Goto(k, new)
      BY <1>3 DEF AcceptTarget
    <2> HIDE DEF new
    <2>5. QED
      BY <1>3, <2>3, <2>4, ClientStep DEF AcceptTarget
  <1>4. CASE RepairTarget(k)
    <2>1. PICK t \in SessionIds :
            Goto(k, [call EXCEPT !.pc = "scrape", !.sid = t, !.file = call.anchor,
                                 !.listing = Nobody])
      BY <1>4 DEF RepairTarget, Rotated
    <2> DEFINE new == [call EXCEPT !.pc = "scrape", !.sid = t,
                                   !.file = call.anchor, !.listing = Nobody]
    <2>2. call.pc = "decide"
      BY <1>4 DEF RepairTarget, At
    <2>3. new \in Call /\ CallOK(new)
      BY <1>0, <2>2 DEF Call, CallOK, Phases, Before, After, Listing, Nobody
    <2> HIDE DEF new
    <2>4. calls' \in [Calls -> Call] /\ CallsOK'
      BY <2>1, <2>3, GotoType DEF new
    <2>5. tracker' \in [SessionIds -> Entry]
      BY <1>4 DEF RepairTarget, TypeInv, TypeOK, Entry, Unrecorded
    <2>6. QED
      BY <1>4, <2>4, <2>5 DEF RepairTarget, TypeInv, TypeOK, Server, Bounds
  <1>5. QED
    BY <1>1, <1>2, <1>3, <1>4

LEMMA PostStep ==
  ASSUME TypeInv, NEW k \in Calls,
         Scrape(k) \/ PostCloses(k) \/ PostFails(k) \/ Rescrape(k)
  PROVE  TypeInv'
  <1> DEFINE call == calls[k]
  <1>0. call \in Call /\ CallOK(call)
    BY DEF TypeInv, TypeOK, CallsOK
  <1>1. CASE Scrape(k)
    <2>1. PICK token \in {proc, NoToken} :
            Goto(k, [call EXCEPT !.pc = "post", !.token = token])
      BY <1>1 DEF Scrape
    <2> DEFINE new == [call EXCEPT !.pc = "post", !.token = token]
    <2>2. token \in Nat
      BY DEF TypeInv, TypeOK, NoToken
    <2>3. new \in Call /\ CallOK(new)
      BY <1>0, <1>1, <2>2
      DEF Scrape, At, Call, CallOK, Phases, Before, After
    <2> HIDE DEF new
    <2>4. QED
      BY <1>1, <2>1, <2>3, ClientStep DEF Scrape, new
  <1>2. CASE PostCloses(k)
    <2> DEFINE marked == [call EXCEPT !.closed = live[call.sid],
                                      !.closed_in = proc]
               on == [marked EXCEPT !.pc = "handshake"]
    <2>1. call.pc = "post" /\ live[call.sid] # None
      BY <1>0, <1>2 DEF PostCloses, At, Call
    <2>2. call.sid \in SessionIds
      BY <1>0, <2>1 DEF CallOK
    <2>3. live[call.sid] \in Session
      BY <2>1, <2>2 DEF TypeInv, TypeOK
    <2>4. marked \in Call /\ marked.sid \in SessionIds
      BY <1>0, <2>2, <2>3 DEF Call, TypeInv, TypeOK
    <2>5. on \in Call /\ CallOK(on)
      <3> DEFINE old == live[call.sid]
      <3>1. old \in Session /\ old # None /\ proc \in Nat
        BY <2>1, <2>3 DEF TypeInv, TypeOK
      <3>2. on \in Call
        <4> HIDE DEF marked
        <4>1. QED
          BY <2>4 DEF Call, Phases
      <3> HIDE DEF old
      <3>3. /\ on.pc = "handshake" /\ on.closed = old
            /\ Unmoved(call, on)
        BY <1>0 DEF Call, Unmoved, old
      <3> HIDE DEF on
      <3>4. QED
        BY <1>0, <2>1, <3>1, <3>2, <3>3 DEF CallOK, Unmoved, Before, After
    <2>6. Goto(k, on) \/ Goto(k, Lost(marked))
      BY <1>2 DEF PostCloses
    <2>7. calls' \in [Calls -> Call] /\ CallsOK'
      <3> HIDE DEF marked, on
      <3>1. QED
        BY <2>4, <2>5, <2>6, LostType, GotoType
    <2>8. live' \in [SessionIds -> Session \cup {None}]
      BY <1>2 DEF PostCloses, TypeInv, TypeOK
    <2>9. QED
      BY <1>2, <2>7, <2>8 DEF PostCloses, TypeInv, TypeOK, Bounds
  <1>3. CASE PostFails(k)
    <2> DEFINE again == [call EXCEPT !.pc = "rescrape"]
    <2>1. call.pc = "post"
      BY <1>3 DEF PostFails, At
    <2>2. call.sid \in SessionIds /\ call.pc \in Before \ {"idle"}
      BY <1>0, <2>1 DEF CallOK, Before
    <2>3. again \in Call /\ CallOK(again)
      BY <1>0, <2>1 DEF Call, CallOK, Phases, Before, After
    <2>4. \/ Goto(k, again)
          \/ Goto(k, Lost(call))
          \/ \E reason \in Reasons : Goto(k, Answered(call, reason, FALSE))
      BY <1>3 DEF PostFails, WrongToken, Reasons
    <2> HIDE DEF again
    <2>5. QED
      BY <1>0, <1>3, <2>2, <2>3, <2>4, RefusedType, LostType, ClientStep
      DEF PostFails
  <1>4. CASE Rescrape(k)
    <2> DEFINE again == [call EXCEPT !.pc = "post", !.token = proc,
                                     !.refreshed = TRUE]
    <2>1. call.pc = "rescrape"
      BY <1>4 DEF Rescrape, At
    <2>2. call.pc \in Before \ {"idle"}
      BY <2>1 DEF Before
    <2>3. again \in Call /\ CallOK(again)
      BY <1>0, <2>1 DEF TypeInv, TypeOK, Call, CallOK, Phases, Before, After
    <2>4. \/ Goto(k, again)
          \/ \E reason \in Reasons : Goto(k, Answered(call, reason, FALSE))
      BY <1>4 DEF Rescrape, Reasons
    <2> HIDE DEF again
    <2>5. QED
      BY <1>4, <2>2, <2>3, <2>4, RefusedType, ClientStep DEF Rescrape
  <1>5. QED
    BY <1>1, <1>2, <1>3, <1>4

LEMMA HandshakeStep ==
  ASSUME TypeInv, NEW k \in Calls, Handshake(k)
  PROVE  TypeInv'
  <1> DEFINE call == [calls[k] EXCEPT !.pc = "poll"]
  <1>0. calls[k] \in Call /\ CallOK(calls[k]) /\ calls[k].pc = "handshake"
    BY DEF TypeInv, TypeOK, CallsOK, Handshake, At
  <1>1. /\ calls[k].sid \in SessionIds
        /\ calls[k].file \in Paths
    BY <1>0 DEF CallOK, After
  <1>2. call.sid = calls[k].sid /\ call.file = calls[k].file
    BY <1>0 DEF Call
  <1>4. call \in Call /\ CallOK(call)
    BY <1>0, RestartAssumption DEF Call, CallOK, Phases, Before, After
  <1> HIDE DEF call
  <1>3. ASSUME NEW ready \in BOOLEAN
        PROVE  /\ [call EXCEPT !.ready = ready] \in Call
               /\ CallOK([call EXCEPT !.ready = ready])
    BY <1>4 DEF Call, CallOK
  <1>5. \/ \E ready \in BOOLEAN : Goto(k, [call EXCEPT !.ready = ready])
        \/ Goto(k, call)
    BY DEF Handshake, call
  <1>6. calls' \in [Calls -> Call] /\ CallsOK'
    BY <1>3, <1>4, <1>5, GotoType
  <1>7. /\ live' \in [SessionIds -> Session \cup {None}]
        /\ spawned' \in Nat
    <2>1. CASE Connect(call)
      <3>1. [path |-> call.file, kernel |-> spawned + 1] \in Session
        BY <1>1, <1>2 DEF TypeInv, TypeOK, Session
      <3>2. QED
        BY <2>1, <3>1, <1>1, <1>2 DEF Connect, TypeInv, TypeOK
    <2>2. CASE UNCHANGED <<live, spawned>>
      BY <2>2 DEF TypeInv, TypeOK
    <2>3. QED
      BY <2>1, <2>2 DEF Handshake, call
  <1>8. QED
    BY <1>6, <1>7 DEF Handshake, TypeInv, TypeOK, Bounds

LEMMA TriedType ==
  ASSUME NEW call \in Call, CallOK(call), call.pc = "poll"
  PROVE  Tried(call) \in Call /\ CallOK(Tried(call))
  <1>1. call.tries + 1 \in 0..Attempts
    BY RestartAssumption DEF Call, CallOK
  <1> DEFINE pc == IF call.tries + 1 = Attempts THEN "measure" ELSE "poll"
             tries == call.tries + 1
             new == [call EXCEPT !.tries = tries, !.pc = pc]
  <1>2. pc = "poll" => tries < Attempts
    BY <1>1, RestartAssumption
  <1>3. Tried(call) = new
    BY DEF Tried, Call
  <1>4. pc \in {"measure", "poll"}
    OBVIOUS
  <1> HIDE DEF pc, tries
  <1>5. new \in Call
    BY <1>1, <1>4 DEF Call, Phases, tries
  <1>6. new.pc = pc /\ new.tries = tries /\ new.closed = call.closed
        /\ new.sid = call.sid /\ new.file = call.file /\ new.anchor = call.anchor
    BY DEF Call
  <1> HIDE DEF new
  <1>7. CallOK(new)
    BY <1>2, <1>4, <1>6 DEF CallOK, Before, After
  <1>8. QED
    BY <1>3, <1>5, <1>7

LEMMA PollStep ==
  ASSUME TypeInv, NEW k \in Calls, Poll(k) \/ PollFails(k) \/ PollEscapes(k)
  PROVE  TypeInv'
  <1>0. calls[k] \in Call /\ CallOK(calls[k]) /\ calls[k].pc = "poll"
    BY DEF TypeInv, TypeOK, CallsOK, Poll, PollFails, PollEscapes, At
  <1>1. CASE Poll(k)
    <2> DEFINE call == [calls[k] EXCEPT !.listing = Census]
    <2>1. call \in Call /\ CallOK(call) /\ call.pc = "poll"
      BY <1>0, CensusType DEF TypeInv, Call, CallOK
    <2> HIDE DEF call
    <2>2. ASSUME NEW s \in IsBack(call)
          PROVE  LET new == [call EXCEPT !.pc = "measure", !.live_id = s,
                                         !.verified = live[s]]
                 IN  new \in Call /\ CallOK(new)
      <3>1. s \in SessionIds /\ live[s] \in Session
        BY <2>1 DEF IsBack, CallOK, TypeInv, TypeOK
      <3>2. QED
        BY <2>1, <3>1 DEF Call, CallOK, Phases, Before, After
    <2>3. \/ \E s \in IsBack(call) :
               Goto(k, [call EXCEPT !.pc = "measure", !.live_id = s,
                                    !.verified = live[s]])
          \/ Goto(k, Tried(call))
      BY <1>1 DEF Poll, call
    <2>4. PICK new \in Call : CallOK(new) /\ Goto(k, new)
      BY <2>1, <2>2, <2>3, TriedType
    <2>5. QED
      BY <1>1, <2>4, ClientStep DEF Poll
  <1>2. CASE PollFails(k)
    <2> DEFINE call == [calls[k] EXCEPT !.listing = Nobody]
    <2>1. call \in Call /\ CallOK(call) /\ call.pc = "poll"
      <3>1. Nobody \in Listing
        BY DEF Nobody, Listing
      <3>2. call \in Call /\ call.pc = "poll"
        BY <1>0, <3>1 DEF Call
      <3>3. /\ Unmoved(calls[k], call)
            /\ call.closed = calls[k].closed
        BY <1>0 DEF Call, Unmoved
      <3> HIDE DEF call
      <3>4. QED
        BY <1>0, <3>2, <3>3 DEF CallOK, Unmoved, Before, After
    <2>2. Goto(k, Tried(call))
      BY <1>2 DEF PollFails
    <2> HIDE DEF call
    <2>3. QED
      BY <1>2, <2>1, <2>2, TriedType, ClientStep DEF PollFails
  <1>3. CASE PollEscapes(k)
    <2>1. calls[k].sid \in SessionIds
      BY <1>0 DEF CallOK
    <2>2. /\ Answered(calls[k], "escaped", None) \in Call
          /\ CallOK(Answered(calls[k], "escaped", None))
      BY <1>0, <2>1, AnsweredType, RestartAssumption
    <2>3. QED
      BY <1>3, <2>2, ClientStep DEF PollEscapes
  <1>4. QED
    BY <1>1, <1>2, <1>3

LEMMA EndStep ==
  ASSUME TypeInv, NEW k \in Calls,
         Measure(k) \/ Finish(k) \/ NotBack(k) \/ Return(k)
  PROVE  TypeInv'
  <1> DEFINE call == calls[k]
  <1>0. call \in Call /\ CallOK(call)
    BY DEF TypeInv, TypeOK, CallsOK
  <1>1. CASE Measure(k)
    <2>1. PICK rotated \in Measured(call) :
            Goto(k, [call EXCEPT !.pc = "finish", !.rotated = rotated,
                                 !.measured_in = proc])
      BY <1>1 DEF Measure
    <2> DEFINE new == [call EXCEPT !.pc = "finish", !.rotated = rotated,
                                   !.measured_in = proc]
    <2>2. rotated \in BOOLEAN \cup {None} /\ proc \in Nat
      BY DEF Measured, TypeInv, TypeOK
    <2>3. new \in Call /\ CallOK(new)
      BY <1>0, <1>1, <2>2 DEF Measure, At, Call, CallOK, Phases, Before, After
    <2> HIDE DEF new
    <2>4. QED
      BY <1>1, <2>1, <2>3, ClientStep DEF Measure, new
  <1>2. CASE Finish(k) \/ NotBack(k)
    <2>1. call.pc = "finish"
      BY <1>2 DEF Finish, NotBack, At
    <2>2. call.sid \in SessionIds /\ call.file \in Paths /\ call.closed # None
      BY <1>0, <2>1 DEF CallOK, After
    <2>3. PICK reason \in Reasons \cup {"ok"} : Goto(k, Answered(call, reason, TRUE))
      BY <1>2 DEF Finish, NotBack, Reasons
    <2>4. calls' \in [Calls -> Call] /\ CallsOK'
      BY <1>0, <2>2, <2>3, AnsweredType, GotoType
    <2>5. tracker' \in [SessionIds -> Entry]
      <3>1. Unrecorded \in Entry
        BY DEF Unrecorded, Entry
      <3>2. Reset(tracker[call.sid], call.file) \in Entry
        BY <2>2, <3>1, AdoptType DEF Reset
      <3>3. QED
        BY <1>2, <3>2 DEF Finish, NotBack, TypeInv, TypeOK
    <2>6. QED
      BY <1>2, <2>4, <2>5 DEF Finish, NotBack, TypeInv, TypeOK, Server, Bounds
  <1>3. CASE Return(k)
    BY <1>3, IdleType, ClientStep DEF Return
  <1>4. QED
    BY <1>1, <1>2, <1>3

LEMMA EnvironmentStep ==
  ASSUME TypeInv, Environment
  PROVE  TypeInv'
  <1> USE DEF TypeInv, TypeOK
  <1>1. ASSUME UNCHANGED calls
        PROVE  CallsOK'
    BY <1>1 DEF CallsOK
  <1>2. ASSUME NEW s \in SessionIds, Read(s)
        PROVE  TypeInv'
    <2>1. live[s] \in Session
      BY <1>2 DEF Read
    <2>2. Adopt(tracker[s], live[s].path) \in Entry
      BY <2>1, AdoptType DEF Session
    <2>3. /\ live[s].kernel \in Nat
          /\ RecordRead(Adopt(tracker[s], live[s].path), live[s].kernel) \in Entry
      BY <2>1, <2>2 DEF Session, RecordRead, Entry
    <2>4. tracker' \in [SessionIds -> Entry]
      BY <1>2, <2>2, <2>3 DEF Read
    <2>5. reads' \subseteq [sid: SessionIds, kernel: Nat]
      BY <1>2, <2>3 DEF Read
    <2>6. QED
      BY <1>1, <1>2, <2>4, <2>5 DEF Read, Server
  <1>3. ASSUME NEW answer \in reads, Deliver(answer)
        PROVE  TypeInv'
    <2>1. tracker' \in [SessionIds -> Entry]
      BY <1>3 DEF Deliver, RecordRead, Entry
    <2>2. QED
      BY <1>1, <1>3, <2>1 DEF Deliver, Server, Bounds
  <1>4. ASSUME NEW s \in SessionIds, NEW path \in Paths, Open(s, path)
        PROVE  TypeInv'
    <2>1. [path |-> path, kernel |-> spawned + 1] \in Session
      BY DEF Session
    <2>2. live' \in [SessionIds -> Session \cup {None}] /\ spawned' \in Nat
      BY <1>4, <2>1 DEF Open
    <2>3. QED
      BY <1>1, <1>4, <2>2 DEF Open, Move
  <1>5. ASSUME NEW s \in SessionIds, Drop(s)
        PROVE  TypeInv'
    BY <1>1, <1>5 DEF Drop, Move
  <1>6. ASSUME NEW s \in SessionIds, NEW t \in SessionIds, Rekey(s, t)
        PROVE  TypeInv'
    <2>1. live' \in [SessionIds -> Session \cup {None}]
      BY <1>6 DEF Rekey
    <2>2. QED
      BY <1>1, <1>6, <2>1 DEF Rekey, Move
  <1>7. CASE Relaunch
    BY <1>1, <1>7 DEF Relaunch, Move
  <1>8. QED
    BY <1>2, <1>3, <1>4, <1>5, <1>6, <1>7 DEF Environment

LEMMA TypeInvStep ==
  ASSUME TypeInv, [Next]_vars
  PROVE  TypeInv'
  <1>1. ASSUME NEW k \in Calls, Step(k)
        PROVE  TypeInv'
    BY <1>1, PreflightStep, PostStep, HandshakeStep, PollStep, EndStep DEF Step
  <1>2. CASE UNCHANGED vars
    BY <1>2 DEF vars, TypeInv, TypeOK, CallsOK
  <1>3. QED
    BY <1>1, <1>2, BeginStep, EnvironmentStep DEF Next

LEMMA TypeInvInit == Init => TypeInv
  <1> SUFFICES ASSUME Init
               PROVE  TypeInv
    OBVIOUS
  <1>1. \A path \in Paths : [path |-> path, kernel |-> 1] \in Session
    BY DEF Session
  <1>2. live \in [SessionIds -> Session \cup {None}]
    BY <1>1 DEF Init
  <1>3. QED
    BY <1>2, IdleType, RestartAssumption
    DEF Init, TypeInv, TypeOK, CallsOK, Entry, Unrecorded

LEMMA Typed == Spec => []TypeInv
  <1>1. TypeInv /\ [Next]_vars => TypeInv'
    BY TypeInvStep
  <1>2. QED
    BY <1>1, TypeInvInit, PTL DEF Spec

(* Types hold for ever; among them that the poll never exceeds its         *)
(* attempts.                                                               *)
THEOREM TypeCorrect == Spec => []TypeOK
  <1>1. TypeInv => TypeOK
    BY DEF TypeInv
  <1>2. QED
    BY <1>1, Typed, PTL

(* state_changed never lies (_failure, _restart_failure,                   *)
(* _closed_without_live_session): not with any number of restarts of the   *)
(* same session at once, nor when ids are reused under them.               *)
THEOREM NeverLies == Spec => []Truthful
  <1>1. TypeInv => Truthful
    BY DEF TypeInv, CallsOK, CallOK, Truthful, Ended, Changed, At
  <1>2. QED
    BY <1>1, Typed, PTL
-----------------------------------------------------------------------------
(* Every step counts.  What is left of a call, phase by phase.             *)
LEMMA StepsLeftIs ==
  ASSUME NEW call \in Call, CallOK(call)
  PROVE  /\ call.pc = "done" => StepsLeft(call) = 0
         /\ call.pc # "done" => StepsLeft(call) \in Nat /\ StepsLeft(call) > 0
         /\ call.pc = "finish" => StepsLeft(call) = 1
         /\ call.pc = "measure" => StepsLeft(call) = 2
         /\ call.pc = "poll" => StepsLeft(call) = 2 + (Attempts - call.tries)
         /\ call.pc = "handshake" => StepsLeft(call) = 3 + Attempts
         /\ call.pc = "post" =>
              StepsLeft(call) = IF call.refreshed THEN 4 + Attempts ELSE 6 + Attempts
         /\ call.pc = "rescrape" => StepsLeft(call) = 5 + Attempts
         /\ call.pc = "scrape" => StepsLeft(call) = 7 + Attempts
         /\ call.pc = "decide" => StepsLeft(call) = 8 + Attempts
         /\ call.pc = "census" => StepsLeft(call) = 9 + Attempts
         /\ call.pc = "idle" => StepsLeft(call) = 10 + Attempts
  <1>1. /\ Attempts \in Nat \ {0} /\ call.tries \in 0..Attempts
        /\ call.refreshed \in BOOLEAN /\ call.pc \in Phases
        /\ call.pc = "poll" => call.tries < Attempts
    BY RestartAssumption DEF Call, CallOK
  <1>2. QED
    BY <1>1 DEF StepsLeft, Phases

Counts(k) ==
    \/ calls'[k] = calls[k]
    \/ At(k, "done")
    \/ StepsLeft(calls'[k]) < StepsLeft(calls[k])

(* One call moves on, the others stay.                                     *)
LEMMA OneCallCounts ==
  ASSUME TypeInv, NEW k \in Calls, NEW new, Goto(k, new),
         StepsLeft(new) < StepsLeft(calls[k])
  PROVE  \A j \in Calls : Counts(j)
  BY DEF TypeInv, TypeOK, Goto, Counts

(* An answer ends a call that has not been answered yet.                   *)
LEMMA AnswerCounts ==
  ASSUME TypeInv, NEW k \in Calls, calls[k].pc # "done",
         NEW call \in Call, NEW reason, NEW changed,
         Goto(k, Answered(call, reason, changed))
  PROVE  \A j \in Calls : Counts(j)
  <1>1. StepsLeft(Answered(call, reason, changed)) = 0
    BY DEF Answered, StepsLeft, Call
  <1>2. StepsLeft(calls[k]) \in Nat /\ StepsLeft(calls[k]) > 0
    BY StepsLeftIs DEF TypeInv, TypeOK, CallsOK
  <1>3. StepsLeft(Answered(call, reason, changed)) < StepsLeft(calls[k])
    BY <1>1, <1>2
  <1>4. QED
    BY <1>3, OneCallCounts

(* A call that goes on to a later phase.                                   *)
LEMMA OnwardCounts ==
  ASSUME TypeInv, NEW k \in Calls, NEW new, Goto(k, new), new = calls'[k],
         TypeInv',
         \/ calls[k].pc = "census" /\ new.pc = "decide"
         \/ calls[k].pc = "decide" /\ new.pc = "scrape"
         \/ calls[k].pc = "scrape" /\ new.pc = "post"
         \/ calls[k].pc = "post" /\ ~calls[k].refreshed /\ new.pc = "rescrape"
         \/ calls[k].pc = "post" /\ new.pc = "handshake"
         \/ calls[k].pc = "rescrape" /\ new.pc = "post" /\ new.refreshed
         \/ calls[k].pc = "handshake" /\ new.pc = "poll"
         \/ calls[k].pc = "poll" /\ new.pc = "poll" /\ new.tries = calls[k].tries + 1
         \/ calls[k].pc = "poll" /\ new.pc = "measure"
         \/ calls[k].pc = "measure" /\ new.pc = "finish"
         \/ calls[k].pc = "idle" /\ new.pc = "census"
  PROVE  \A j \in Calls : Counts(j)
  <1>1. /\ calls[k] \in Call /\ CallOK(calls[k])
        /\ new \in Call /\ CallOK(new)
    BY DEF TypeInv, TypeOK, CallsOK
  <1>2. /\ Attempts \in Nat \ {0}
        /\ calls[k].tries \in 0..Attempts /\ new.tries \in 0..Attempts
        /\ calls[k].pc = "poll" => calls[k].tries < Attempts
        /\ new.pc = "poll" => new.tries < Attempts
    BY <1>1, RestartAssumption DEF Call, CallOK
  <1>3. StepsLeft(new) < StepsLeft(calls[k])
    BY <1>1, <1>2, StepsLeftIs
  <1>4. QED
    BY <1>3, OneCallCounts

LEMMA StepCounts ==
  ASSUME TypeInv, TypeInv', NEW k \in Calls, Step(k)
  PROVE  \A j \in Calls : Counts(j)
  <1> DEFINE call == calls[k]
             new  == calls'[k]
  <1>1. call \in Call /\ CallOK(call) /\ calls \in [Calls -> Call] /\ new \in Call
    BY DEF TypeInv, TypeOK, CallsOK
  <1>2. ASSUME NEW next, Goto(k, next)
        PROVE  next = new
    BY <1>1, <1>2 DEF Goto
  <1>3. CASE ReadCensus(k)
    <2>1. call.pc = "census"
      BY <1>3 DEF ReadCensus, At
    <2>2. CASE Goto(k, [call EXCEPT !.pc = "decide", !.listing = Census])
      <3>1. new.pc = "decide"
        BY <1>1, <1>2, <2>2 DEF Call
      <3>2. QED
        BY <1>2, <2>1, <2>2, <3>1, OnwardCounts
    <2>3. QED
      BY <1>1, <1>3, <2>1, <2>2, AnswerCounts DEF ReadCensus
  <1>4. CASE RefuseTarget(k)
    BY <1>1, <1>4, AnswerCounts DEF RefuseTarget, At
  <1>5. CASE AcceptTarget(k) \/ RepairTarget(k)
    <2>1. PICK sid, file :
            Goto(k, [call EXCEPT !.pc = "scrape", !.sid = sid, !.file = file,
                                 !.listing = Nobody])
      <3>1. CASE AcceptTarget(k)
        <4>1. [call EXCEPT !.pc = "scrape", !.file = Target(call),
                           !.listing = Nobody]
                = [call EXCEPT !.pc = "scrape", !.sid = call.sid,
                               !.file = Target(call), !.listing = Nobody]
          BY <1>1 DEF Call
        <4>2. QED
          BY <3>1, <4>1 DEF AcceptTarget
      <3>2. CASE RepairTarget(k)
        BY <3>2 DEF RepairTarget
      <3>3. QED
        BY <1>5, <3>1, <3>2
    <2>2. call.pc = "decide" /\ new.pc = "scrape"
      BY <1>1, <1>2, <1>5, <2>1 DEF AcceptTarget, RepairTarget, At, Call
    <2>3. QED
      BY <1>2, <2>1, <2>2, OnwardCounts
  <1>6. CASE Scrape(k)
    <2>1. PICK token : Goto(k, [call EXCEPT !.pc = "post", !.token = token])
      BY <1>6 DEF Scrape
    <2>2. call.pc = "scrape" /\ new.pc = "post"
      BY <1>1, <1>2, <1>6, <2>1 DEF Scrape, At, Call
    <2>3. QED
      BY <1>2, <2>1, <2>2, OnwardCounts
  <1>7. CASE PostCloses(k)
    <2> DEFINE closing == [call EXCEPT !.closed = live[call.sid], !.closed_in = proc]
    <2>1. call.pc = "post" /\ closing \in Call
      <3>1. call.pc = "post" /\ live[call.sid] \in Session \cup {None} /\ proc \in Nat
        BY <1>1, <1>7 DEF PostCloses, At, TypeInv, TypeOK, CallOK
      <3>2. QED
        BY <1>1, <3>1 DEF Call
    <2>2. CASE Goto(k, [closing EXCEPT !.pc = "handshake"])
      <3>1. new.pc = "handshake"
        BY <1>2, <2>1, <2>2 DEF Call
      <3>2. QED
        BY <1>2, <2>1, <2>2, <3>1, OnwardCounts
    <2>3. CASE Goto(k, Lost(closing))
      <3> HIDE DEF closing
      <3>1. QED
        BY <2>1, <2>3, AnswerCounts DEF Lost
    <2>4. QED
      BY <1>7, <2>2, <2>3 DEF PostCloses
  <1>8. CASE PostFails(k)
    <2>1. call.pc = "post"
      BY <1>8 DEF PostFails, At
    <2>2. ASSUME Goto(k, [call EXCEPT !.pc = "rescrape"]), ~call.refreshed
          PROVE  \A j \in Calls : Counts(j)
      <3>1. new.pc = "rescrape"
        BY <1>1, <1>2, <2>2 DEF Call
      <3>2. QED
        BY <1>2, <2>1, <2>2, <3>1, OnwardCounts
    <2>3. \/ \E reason, changed : Goto(k, Answered(call, reason, changed))
          \/ Goto(k, [call EXCEPT !.pc = "rescrape"]) /\ ~call.refreshed
      BY <1>8 DEF PostFails, WrongToken, Lost
    <2>4. QED
      BY <1>1, <2>1, <2>2, <2>3, AnswerCounts
  <1>9. CASE Rescrape(k)
    <2>1. call.pc = "rescrape"
      BY <1>9 DEF Rescrape, At
    <2>2. CASE Goto(k, [call EXCEPT !.pc = "post", !.token = proc, !.refreshed = TRUE])
      <3>1. new.pc = "post" /\ new.refreshed
        BY <1>1, <1>2, <2>2 DEF Call
      <3>2. QED
        BY <1>2, <2>1, <2>2, <3>1, OnwardCounts
    <2>3. QED
      BY <1>1, <1>9, <2>1, <2>2, AnswerCounts DEF Rescrape
  <1>10. CASE Handshake(k)
    <2>1. PICK ready : Goto(k, [call EXCEPT !.pc = "poll", !.ready = ready])
      <3>1. [call EXCEPT !.pc = "poll"]
              = [call EXCEPT !.pc = "poll", !.ready = call.ready]
        BY <1>1 DEF Call
      <3>2. \/ \E ready : Goto(k, [[call EXCEPT !.pc = "poll"] EXCEPT !.ready = ready])
            \/ Goto(k, [call EXCEPT !.pc = "poll"])
        BY <1>10 DEF Handshake
      <3>3. QED
        BY <3>1, <3>2
    <2>2. call.pc = "handshake" /\ new.pc = "poll"
      BY <1>1, <1>2, <1>10, <2>1 DEF Handshake, At, Call
    <2>3. QED
      BY <1>2, <2>1, <2>2, OnwardCounts
  <1>11. CASE Poll(k) \/ PollFails(k)
    <2>1. PICK listing \in Listing :
            \/ \E s : Goto(k, [[call EXCEPT !.listing = listing] EXCEPT
                                 !.pc = "measure", !.live_id = s, !.verified = live[s]])
            \/ Goto(k, Tried([call EXCEPT !.listing = listing]))
      <3>1. Census \in Listing /\ Nobody \in Listing
        BY CensusType DEF TypeInv, Nobody, Listing
      <3>2. QED
        BY <1>11, <3>1 DEF Poll, PollFails
    <2>2. call.pc = "poll"
      BY <1>11 DEF Poll, PollFails, At
    <2>3. CASE \E s : Goto(k, [[call EXCEPT !.listing = listing] EXCEPT
                                 !.pc = "measure", !.live_id = s, !.verified = live[s]])
      <3>1. new.pc = "measure"
        BY <1>1, <1>2, <2>3 DEF Call
      <3>2. QED
        BY <1>2, <2>2, <2>3, <3>1, OnwardCounts
    <2>4. CASE Goto(k, Tried([call EXCEPT !.listing = listing]))
      <3>1. new = Tried([call EXCEPT !.listing = listing])
        BY <1>2, <2>4
      <3>2. new.pc \in {"poll", "measure"} /\ new.tries = call.tries + 1
        BY <1>1, <3>1 DEF Tried, Call
      <3>3. QED
        BY <2>2, <2>4, <3>1, <3>2, OnwardCounts
    <2>5. QED
      BY <2>1, <2>3, <2>4
  <1>12. CASE PollEscapes(k)
    BY <1>1, <1>12, AnswerCounts DEF PollEscapes, At
  <1>13. CASE Measure(k)
    <2>1. PICK rotated, process :
            Goto(k, [call EXCEPT !.pc = "finish", !.rotated = rotated,
                                 !.measured_in = process])
      BY <1>13 DEF Measure
    <2>2. call.pc = "measure" /\ new.pc = "finish"
      BY <1>1, <1>2, <1>13, <2>1 DEF Measure, At, Call
    <2>3. QED
      BY <1>2, <2>1, <2>2, OnwardCounts
  <1>14. CASE Finish(k) \/ NotBack(k)
    BY <1>1, <1>14, AnswerCounts DEF Finish, NotBack, At
  <1>15. CASE Return(k)
    BY <1>1, <1>15 DEF Return, At, Goto, Counts
  <1>16. QED
    BY <1>3, <1>4, <1>5, <1>6, <1>7, <1>8, <1>9, <1>10, <1>11, <1>12, <1>13,
       <1>14, <1>15 DEF Step

(* A restart is answered after Attempts + 9 of its own steps at most, with *)
(* any number of restarts, reads, moves and relaunches in between: the     *)
(* poll is bounded (REMATERIALIZE_POLL_ATTEMPTS), the POST is retried once *)
(* (restart_session), and nobody else takes a step of it back.             *)
THEOREM RestartsAreBounded == Spec => EveryStepCounts
  <1>1. TypeInv /\ TypeInv' /\ [Next]_vars => [\A k \in Calls : Counts(k)]_vars
    <2> SUFFICES ASSUME TypeInv, TypeInv', Next
                 PROVE  \A j \in Calls : Counts(j)
      OBVIOUS
    <2>1. ASSUME NEW k \in Calls, NEW sid \in SessionIds, NEW anchor \in Paths,
                 Begin(k, sid, anchor)
          PROVE  \A j \in Calls : Counts(j)
      <3>1. Goto(k, [Idle EXCEPT !.pc = "census", !.sid = sid, !.anchor = anchor])
        BY <2>1 DEF Begin
      <3>2. calls'[k] = [Idle EXCEPT !.pc = "census", !.sid = sid, !.anchor = anchor]
        BY <3>1 DEF Goto, TypeInv, TypeOK
      <3>3. calls[k].pc = "idle" /\ calls'[k].pc = "census"
        BY <2>1, <3>2 DEF Begin, At, Idle
      <3>4. QED
        BY <3>1, <3>2, <3>3, OnwardCounts
    <2>2. CASE Environment
      BY <2>2 DEF Environment, Read, Deliver, Open, Drop, Rekey, Relaunch, Move, Counts
    <2>3. QED
      BY <2>1, <2>2, StepCounts DEF Next
  <1>2. QED
    BY <1>1, Typed, PTL DEF Spec, EveryStepCounts, Counts
-----------------------------------------------------------------------------
(* The right kernel.  From its target on, a call keeps what it is about.   *)
Kept(old, new) ==
    /\ new.pc # "decide"
    /\ new.sid = old.sid
    /\ new.file = old.file
    /\ new.anchor = old.anchor
    /\ new.closed = old.closed

Right(call) ==
    call.closed # None => /\ call.closed.path = call.file
                          /\ call.anchor \in {Unsaved, call.closed.path}

LEMMA AnsweredKept ==
  ASSUME NEW call \in Call, NEW reason, NEW changed
  PROVE  Kept(call, Answered(call, reason, changed))
  BY DEF Answered, Kept, Call

(* The session table loses sessions, and a restart claims less than        *)
(* before, or what the table says.                                         *)
Narrowed ==
    \A s \in SessionIds :
        /\ Census'[s] \in {None, Census[s]}
        /\ \A j \in Calls :
             Claimed(calls'[j], s) \in {None, Census[s], Claimed(calls[j], s)}

RightStays == \A j \in Calls : Right(calls[j]) => Right(calls'[j])

LEMMA NarrowedAgrees ==
  ASSUME Narrowed, NEW s \in SessionIds, Agreed(s)
  PROVE  Agreed(s)'
  <1>1. /\ Census'[s] \in {None, Census[s]}
        /\ \A j \in Calls :
             Claimed(calls'[j], s) \in {None, Census[s], Claimed(calls[j], s)}
    BY DEF Narrowed
  <1>2. QED
    BY <1>1 DEF Agreed

LEMMA NarrowMove ==
  ASSUME TypeInv, NEW k \in Calls, NEW new, Goto(k, new),
         \A s \in SessionIds :
           Claimed(new, s) \in {None, Census[s], Claimed(calls[k], s)},
         \A s \in SessionIds : Census'[s] \in {None, Census[s]}
  PROVE  Narrowed
  <1>1. \A j \in Calls : calls'[j] = IF j = k THEN new ELSE calls[j]
    BY DEF Goto, TypeInv, TypeOK
  <1>2. QED
    BY <1>1 DEF Narrowed

LEMMA RightMove ==
  ASSUME TypeInv, NEW k \in Calls, NEW new, Goto(k, new),
         Right(calls[k]) => Right(new)
  PROVE  RightStays
  <1>1. \A j \in Calls : calls'[j] = IF j = k THEN new ELSE calls[j]
    BY DEF Goto, TypeInv, TypeOK
  <1>2. QED
    BY <1>1 DEF RightStays

LEMMA KeptClaims ==
  ASSUME NEW old, NEW new, old.pc \notin {"decide", "done"}, Kept(old, new)
  PROVE  \A s \in SessionIds : Claimed(new, s) \in {None, Claimed(old, s)}
  BY DEF Claimed, Kept

LEMMA KeptMove ==
  ASSUME TypeInv, NEW k \in Calls, NEW new, Goto(k, new),
         calls[k].pc \notin {"decide", "done"}, Kept(calls[k], new),
         \A s \in SessionIds : Census'[s] \in {None, Census[s]}
  PROVE  Narrowed /\ RightStays
  <1>1. Right(calls[k]) => Right(new)
    BY DEF Right, Kept
  <1>2. QED
    BY <1>1, KeptClaims, NarrowMove, RightMove

(* The decision about the target narrows what a call claims.               *)
LEMMA QuietPreflight ==
  ASSUME TypeInv, NEW k \in Calls,
         ReadCensus(k) \/ RefuseTarget(k) \/ AcceptTarget(k) \/ RepairTarget(k)
  PROVE  Narrowed /\ RightStays
  <1> DEFINE call == calls[k]
  <1>0. call \in Call /\ CallOK(call)
    BY DEF TypeInv, TypeOK, CallsOK
  <1>1. Census' = Census
    BY DEF Census, ReadCensus, RefuseTarget, AcceptTarget, RepairTarget, Server
  <1>2. call.pc \in {"census", "decide"}
    BY DEF At, ReadCensus, RefuseTarget, AcceptTarget, RepairTarget
  <1>3. call.file = None /\ call.closed = None
    BY <1>0, <1>2 DEF CallOK, Before
  <1>4. ASSUME NEW reason, Goto(k, Answered(call, reason, FALSE))
        PROVE  Narrowed /\ RightStays
    <2> DEFINE new == Answered(call, reason, FALSE)
    <2>1. new.pc = "done" /\ new.file = None /\ new.closed = None
      BY <1>0, <1>3 DEF Answered, Call
    <2> HIDE DEF new
    <2>2. Right(new) /\ \A s \in SessionIds : Claimed(new, s) = None
      BY <2>1 DEF Right, Claimed
    <2>3. QED
      BY <1>1, <1>4, <2>2, NarrowMove, RightMove DEF new
  <1>5. ASSUME Goto(k, [call EXCEPT !.pc = "decide", !.listing = Census])
        PROVE  Narrowed /\ RightStays
    <2> DEFINE new == [call EXCEPT !.pc = "decide", !.listing = Census]
    <2>1. new.pc = "decide" /\ new.listing = Census /\ new.closed = None
      BY <1>0, <1>3 DEF Call
    <2> HIDE DEF new
    <2>2. Right(new) /\ \A s \in SessionIds : Claimed(new, s) = Census[s]
      BY <2>1 DEF Right, Claimed
    <2>3. QED
      BY <1>1, <1>5, <2>2, NarrowMove, RightMove DEF new
  <1>6. ASSUME NEW t \in SessionIds, NEW file, call.listing[t] = file,
               call.pc = "decide",
               Goto(k, [call EXCEPT !.pc = "scrape", !.sid = t, !.file = file,
                                    !.listing = Nobody])
        PROVE  Narrowed /\ RightStays
    <2> DEFINE new == [call EXCEPT !.pc = "scrape", !.sid = t, !.file = file,
                                   !.listing = Nobody]
    <2>1. /\ new.pc = "scrape" /\ new.sid = t /\ new.file = file
          /\ new.closed = None
      BY <1>0, <1>3 DEF Call
    <2> HIDE DEF new
    <2>2. Right(new)
      BY <2>1 DEF Right
    <2>3. \A s \in SessionIds : Claimed(new, s) \in {None, Claimed(call, s)}
      BY <1>6, <2>1 DEF Claimed
    <2>4. QED
      BY <1>1, <1>6, <2>2, <2>3, NarrowMove, RightMove DEF new
  <1>7. CASE ReadCensus(k)
    BY <1>4, <1>5, <1>7 DEF ReadCensus
  <1>8. CASE RefuseTarget(k)
    BY <1>4, <1>8 DEF RefuseTarget
  <1>9. CASE AcceptTarget(k)
    <2>1. call.sid \in SessionIds
      BY <1>0, <1>2 DEF CallOK
    <2>2. [call EXCEPT !.pc = "scrape", !.file = Target(call), !.listing = Nobody]
          = [call EXCEPT !.pc = "scrape", !.sid = call.sid, !.file = Target(call),
                         !.listing = Nobody]
      BY <1>0 DEF Call
    <2>3. QED
      BY <1>6, <1>9, <2>1, <2>2 DEF AcceptTarget, Target, At
  <1>10. CASE RepairTarget(k)
    <2>1. PICK t \in Rotated(call) :
            Goto(k, [call EXCEPT !.pc = "scrape", !.sid = t, !.file = call.anchor,
                                 !.listing = Nobody])
      BY <1>10 DEF RepairTarget
    <2>2. QED
      BY <1>6, <1>10, <2>1 DEF RepairTarget, Rotated, At
  <1>11. QED
    BY <1>7, <1>8, <1>9, <1>10

(* The POST closes what the census showed, if all agree about it.          *)
LEMMA PostIsRight ==
  ASSUME TypeInv, NEW k \in Calls, PostCloses(k)
  PROVE  /\ calls[k].sid \in SessionIds
         /\ calls[k].anchor \in {Unsaved, calls[k].file}
         /\ Agreed(calls[k].sid) => live[calls[k].sid].path = calls[k].file
  <1> DEFINE old == calls[k]
             gone == live[old.sid]
  <1>1. old \in Call /\ CallOK(old) /\ old.pc = "post"
    BY DEF TypeInv, TypeOK, CallsOK, PostCloses, At
  <1>2. /\ old.sid \in SessionIds /\ old.file \in Paths /\ old.file # None
        /\ old.anchor \in {Unsaved, old.file}
    BY <1>1, RestartAssumption DEF CallOK
  <1>3. gone \in Session /\ gone # None
    BY <1>1, <1>2 DEF PostCloses, TypeInv, TypeOK, Call
  <1>4. ASSUME Agreed(old.sid)
        PROVE  gone.path = old.file
    <2>1. Claimed(old, old.sid) = old.file
      BY <1>1 DEF Claimed
    <2>2. Census[old.sid] = gone.path
      BY <1>2, <1>3 DEF Census
    <2>3. gone.path # None
      BY <1>3, RestartAssumption DEF Session
    <2>4. QED
      BY <1>2, <1>4, <2>1, <2>2, <2>3 DEF Agreed
  <1>5. QED
    BY <1>2, <1>4

LEMMA PostNarrows ==
  ASSUME TypeInv, NEW k \in Calls, PostCloses(k)
  PROVE  /\ Narrowed
         /\ Agreed(calls[k].sid) => RightStays
  <1> DEFINE old == calls[k]
             gone == live[old.sid]
             call == [old EXCEPT !.closed = gone, !.closed_in = proc]
  <1>1. old \in Call /\ old.pc = "post" /\ old.sid \in SessionIds
    BY PostIsRight DEF TypeInv, TypeOK, PostCloses, At
  <1>2. gone \in Session
    BY <1>1 DEF PostCloses, TypeInv, TypeOK
  <1>3. call \in Call
    BY <1>1, <1>2 DEF TypeInv, TypeOK, Call
  <1>4. /\ call.pc = old.pc /\ call.sid = old.sid /\ call.file = old.file
        /\ call.anchor = old.anchor /\ call.closed = gone
    BY <1>1 DEF Call
  <1>5. \A s \in SessionIds : Census'[s] \in {None, Census[s]}
    BY <1>1, <1>4 DEF PostCloses, Census, TypeInv, TypeOK
  <1>6. Goto(k, [call EXCEPT !.pc = "handshake"]) \/ Goto(k, Lost(call))
    BY DEF PostCloses
  <1> HIDE DEF call
  <1>7. PICK new : Goto(k, new) /\ Kept(call, new)
    <2> DEFINE on == [call EXCEPT !.pc = "handshake"]
    <2>1. Kept(call, on)
      BY <1>3 DEF Call, Kept
    <2>2. Kept(call, Lost(call))
      BY <1>3, AnsweredKept DEF Lost
    <2> HIDE DEF on
    <2>3. QED
      BY <1>6, <2>1, <2>2 DEF on
  <1>8. \A s \in SessionIds : Claimed(new, s) \in {None, Claimed(old, s)}
    BY <1>1, <1>4, <1>7 DEF Kept, Claimed
  <1>9. Agreed(old.sid) => Right(new)
    BY <1>4, <1>7, PostIsRight DEF Right, Kept
  <1>10. QED
    BY <1>5, <1>7, <1>8, <1>9, NarrowMove, RightMove

(* The steps between the POST's preparation and the end keep the claim.    *)
LEMMA QuietClient ==
  ASSUME TypeInv, NEW k \in Calls,
         \/ Scrape(k) \/ PostFails(k) \/ Rescrape(k)
         \/ Poll(k) \/ PollFails(k) \/ PollEscapes(k)
         \/ Measure(k) \/ Finish(k) \/ NotBack(k)
  PROVE  Narrowed /\ RightStays
  <1> DEFINE call == calls[k]
  <1>0. call \in Call
    BY DEF TypeInv, TypeOK
  <1>1. Census' = Census
    BY DEF Scrape, PostFails, Rescrape, Poll, PollFails, PollEscapes, Measure,
           Finish, NotBack, Server, Census
  <1>2. call.pc \notin {"decide", "done"}
    BY DEF Scrape, PostFails, Rescrape, Poll, PollFails, PollEscapes, Measure,
           Finish, NotBack, At
  <1>3. ASSUME NEW new, Goto(k, new), Kept(call, new)
        PROVE  Narrowed /\ RightStays
    BY <1>1, <1>2, <1>3, KeptMove
  <1>4. ASSUME NEW reason, NEW changed, Goto(k, Answered(call, reason, changed))
        PROVE  Narrowed /\ RightStays
    BY <1>0, <1>3, <1>4, AnsweredKept
  <1>5. CASE Scrape(k)
    <2>1. PICK token \in {proc, NoToken} :
            Goto(k, [call EXCEPT !.pc = "post", !.token = token])
      BY <1>5 DEF Scrape
    <2>2. Kept(call, [call EXCEPT !.pc = "post", !.token = token])
      BY <1>0 DEF Call, Kept
    <2>3. QED
      BY <1>3, <2>1, <2>2
  <1>6. CASE PostFails(k)
    <2>1. Kept(call, [call EXCEPT !.pc = "rescrape"])
      BY <1>0 DEF Call, Kept
    <2>2. \/ Goto(k, [call EXCEPT !.pc = "rescrape"])
          \/ \E reason, changed : Goto(k, Answered(call, reason, changed))
      BY <1>6 DEF PostFails, WrongToken, Lost
    <2>3. QED
      BY <1>3, <1>4, <2>1, <2>2
  <1>7. CASE Rescrape(k)
    <2>1. Kept(call, [call EXCEPT !.pc = "post", !.token = proc, !.refreshed = TRUE])
      BY <1>0 DEF Call, Kept
    <2>2. QED
      BY <1>3, <1>4, <1>7, <2>1 DEF Rescrape
  <1>8. ASSUME NEW old \in Call, Kept(call, old), Goto(k, Tried(old))
        PROVE  Narrowed /\ RightStays
    <2>1. Kept(call, Tried(old))
      BY <1>8 DEF Tried, Call, Kept
    <2>2. QED
      BY <1>3, <1>8, <2>1
  <1>9. CASE Poll(k)
    <2> DEFINE old == [call EXCEPT !.listing = Census]
    <2>1. old \in Call /\ Kept(call, old)
      BY <1>0, <1>2, CensusType DEF TypeInv, Call, Kept
    <2>2. \/ \E s \in IsBack(old) :
               Goto(k, [old EXCEPT !.pc = "measure", !.live_id = s,
                                   !.verified = live[s]])
          \/ Goto(k, Tried(old))
      BY <1>9 DEF Poll
    <2> HIDE DEF old
    <2>3. ASSUME NEW s \in IsBack(old)
          PROVE  Kept(call, [old EXCEPT !.pc = "measure", !.live_id = s,
                                        !.verified = live[s]])
      BY <2>1 DEF Call, Kept
    <2>4. QED
      BY <1>3, <1>8, <2>1, <2>2, <2>3
  <1>10. CASE PollFails(k)
    <2> DEFINE old == [call EXCEPT !.listing = Nobody]
    <2>1. old \in Call /\ Kept(call, old)
      BY <1>0, <1>2 DEF Call, Kept, Nobody, Listing
    <2>2. Goto(k, Tried(old))
      BY <1>10 DEF PollFails
    <2> HIDE DEF old
    <2>3. QED
      BY <1>8, <2>1, <2>2
  <1>11. CASE PollEscapes(k)
    BY <1>4, <1>11 DEF PollEscapes
  <1>12. CASE Measure(k)
    <2>1. PICK rotated \in Measured(call) :
            Goto(k, [call EXCEPT !.pc = "finish", !.rotated = rotated,
                                 !.measured_in = proc])
      BY <1>12 DEF Measure
    <2>2. Kept(call, [call EXCEPT !.pc = "finish", !.rotated = rotated,
                                  !.measured_in = proc])
      BY <1>0 DEF Call, Kept
    <2>3. QED
      BY <1>3, <2>1, <2>2
  <1>13. CASE Finish(k)
    BY <1>4, <1>13 DEF Finish
  <1>14. CASE NotBack(k)
    BY <1>4, <1>14 DEF NotBack
  <1>15. QED
    BY <1>5, <1>6, <1>7, <1>9, <1>10, <1>11, <1>12, <1>13, <1>14

(* A call that begins, and one that is over, claims nothing.               *)
LEMMA QuietEnds ==
  ASSUME TypeInv, NEW k \in Calls,
         \/ Return(k)
         \/ \E sid \in SessionIds, anchor \in Paths : Begin(k, sid, anchor)
  PROVE  Narrowed /\ RightStays
  <1>1. Census' = Census
    BY DEF Return, Begin, Server, Census
  <1>2. ASSUME NEW new, Goto(k, new), new.pc # "decide", new.file = None,
               new.closed = None
        PROVE  Narrowed /\ RightStays
    <2>1. Right(new) /\ \A s \in SessionIds : Claimed(new, s) = None
      BY <1>2 DEF Right, Claimed
    <2>2. QED
      BY <1>1, <1>2, <2>1, NarrowMove, RightMove
  <1>3. ASSUME NEW sid \in SessionIds, NEW anchor \in Paths, Begin(k, sid, anchor)
        PROVE  Narrowed /\ RightStays
    <2> DEFINE new == [Idle EXCEPT !.pc = "census", !.sid = sid, !.anchor = anchor]
    <2>1. new.pc = "census" /\ new.file = None /\ new.closed = None
      BY DEF Idle
    <2>2. Goto(k, new)
      BY <1>3 DEF Begin
    <2> HIDE DEF new
    <2>3. QED
      BY <1>2, <2>1, <2>2
  <1>4. CASE Return(k)
    <2>1. Idle.pc = "idle" /\ Idle.file = None /\ Idle.closed = None
      BY DEF Idle
    <2>2. QED
      BY <1>2, <1>4, <2>1 DEF Return
  <1>5. QED
    BY <1>3, <1>4

(* The handshake brings back what the call claims its id to be, and what   *)
(* the others claim it to be if all agree.                                 *)
LEMMA HandshakeClaims ==
  ASSUME TypeInv, NEW k \in Calls, Handshake(k)
  PROVE  /\ \A j \in Calls, s \in SessionIds :
              Claimed(calls'[j], s) = Claimed(calls[j], s)
         /\ RightStays
  <1> DEFINE old == calls[k]
             call == [old EXCEPT !.pc = "poll"]
  <1>1. old \in Call /\ old.pc = "handshake"
    BY DEF TypeInv, TypeOK, Handshake, At
  <1>2. ASSUME NEW ready \in BOOLEAN
        PROVE  /\ Kept(old, [call EXCEPT !.ready = ready])
               /\ [call EXCEPT !.ready = ready].pc = "poll"
    BY <1>1 DEF Call, Kept
  <1>3. Kept(old, call) /\ call.pc = "poll"
    BY <1>1 DEF Call, Kept
  <1>4. PICK new : Goto(k, new) /\ Kept(old, new) /\ new.pc = "poll"
    <2>1. \/ \E ready \in BOOLEAN : Goto(k, [call EXCEPT !.ready = ready])
          \/ Goto(k, call)
      BY DEF Handshake
    <2> HIDE DEF call
    <2>2. QED
      BY <1>2, <1>3, <2>1
  <1> HIDE DEF call
  <1>5. \A s \in SessionIds : Claimed(new, s) = Claimed(old, s)
    BY <1>1, <1>4 DEF Claimed, Kept
  <1>6. \A j \in Calls : calls'[j] = IF j = k THEN new ELSE calls[j]
    BY <1>4 DEF Goto, TypeInv, TypeOK
  <1>7. Right(old) => Right(new)
    BY <1>4 DEF Right, Kept
  <1>8. QED
    BY <1>4, <1>5, <1>6, <1>7, RightMove

LEMMA HandshakeAgrees ==
  ASSUME TypeInv, NEW k \in Calls, Handshake(k), NEW s \in SessionIds, Agreed(s)
  PROVE  Agreed(s)'
  <1> DEFINE old == calls[k]
             call == [old EXCEPT !.pc = "poll"]
  <1>1. old \in Call /\ CallOK(old) /\ old.pc = "handshake"
    BY DEF TypeInv, TypeOK, CallsOK, Handshake, At
  <1>2. old.sid \in SessionIds /\ old.file \in Paths /\ old.file # None
    BY <1>1, RestartAssumption DEF CallOK, After
  <1>3. call.sid = old.sid /\ call.file = old.file
    BY <1>1 DEF Call
  <1> HIDE DEF call
  <1>4. \/ Census'[s] \in {None, Census[s]}
        \/ s = old.sid /\ Census'[s] = old.file
    <2>1. CASE UNCHANGED live
      BY <2>1 DEF Census
    <2>2. CASE live' = [live EXCEPT ![call.sid] = [path |-> call.file,
                                                   kernel |-> spawned + 1]]
      <3> DEFINE started == [path |-> call.file, kernel |-> spawned + 1]
      <3>1. started.path = old.file /\ started \in Session
        BY <1>2, <1>3 DEF Session, TypeInv, TypeOK
      <3>2. started # None
        BY <3>1, RestartAssumption
      <3> HIDE DEF started
      <3>3. live' = [live EXCEPT ![old.sid] = started]
        BY <1>3, <2>2 DEF started
      <3>4. QED
        BY <1>2, <3>1, <3>2, <3>3 DEF Census, TypeInv, TypeOK
    <2>3. ASSUME NEW t \in SessionIds, Census[t] = call.file,
                 live' = [live EXCEPT ![t] = None, ![call.sid] = live[t]]
          PROVE  \/ Census'[s] \in {None, Census[s]}
                 \/ s = old.sid /\ Census'[s] = old.file
      BY <1>2, <1>3, <2>3 DEF Census, TypeInv, TypeOK
    <2>4. QED
      BY <2>1, <2>2, <2>3 DEF Handshake, Connect, call
  <1>5. CASE Census'[s] \in {None, Census[s]}
    BY <1>5, HandshakeClaims DEF Agreed
  <1>6. CASE s = old.sid /\ Census'[s] = old.file
    <2>1. Claimed(old, s) = old.file
      BY <1>1, <1>6 DEF Claimed
    <2>2. \A j \in Calls : Claimed(calls[j], s) \in {None, old.file}
      BY <1>2, <2>1 DEF Agreed
    <2>3. QED
      BY <1>2, <1>6, <2>2, HandshakeClaims DEF Agreed
  <1>7. QED
    BY <1>4, <1>5, <1>6

(* A browser or the server may end the agreement, by handing the id over.  *)
LEMMA EnvironmentAgrees ==
  ASSUME Environment, NEW s \in SessionIds, Agreed(s)
  PROVE  Agreed(s)' \/ HandedOver(s)
  <1>1. calls' = calls
    BY DEF Environment, Read, Deliver, Open, Drop, Rekey, Relaunch, Move
  <1>2. UNCHANGED live \/ moves' = moves + 1
    BY DEF Environment, Read, Deliver, Open, Drop, Rekey, Relaunch, Move, Server
  <1>3. CASE UNCHANGED live
    BY <1>1, <1>3 DEF Agreed, Census
  <1>4. CASE moves' = moves + 1
    BY <1>1, <1>4 DEF Agreed, HandedOver
  <1>5. QED
    BY <1>2, <1>3, <1>4

(* Without re-use under a restart they do not.                             *)
LEMMA NothingHandedOver ==
  ASSUME TypeInv, ~ReuseInFlight, Environment, NEW s \in SessionIds, Agreed(s)
  PROVE  ~HandedOver(s)
  <1>1. \/ Census'[s] \in {None, Census[s]}
        \/ \A j \in Calls : Claimed(calls[j], s) \in {None, Census'[s]}
    <2>1. CASE UNCHANGED live
      BY <2>1 DEF Census
    <2>2. ASSUME NEW t \in SessionIds, NEW path \in Paths, Open(t, path)
          PROVE  \/ Census'[s] \in {None, Census[s]}
                 \/ \A j \in Calls : Claimed(calls[j], s) \in {None, Census'[s]}
      <3> DEFINE started == [path |-> path, kernel |-> spawned + 1]
      <3>1. started.path = path /\ started # None
        BY RestartAssumption DEF Session, TypeInv, TypeOK
      <3>2. live' = [live EXCEPT ![t] = started] /\ MayServe(t, path)
        BY <2>2 DEF Open
      <3> HIDE DEF started
      <3>3. QED
        BY <3>1, <3>2 DEF Census, MayServe, TypeInv, TypeOK
    <2>3. ASSUME NEW t \in SessionIds, Drop(t)
          PROVE  Census'[s] \in {None, Census[s]}
      BY <2>3 DEF Drop, Census, TypeInv, TypeOK
    <2>4. ASSUME NEW t \in SessionIds, NEW u \in SessionIds, Rekey(t, u)
          PROVE  \/ Census'[s] \in {None, Census[s]}
                 \/ \A j \in Calls : Claimed(calls[j], s) \in {None, Census'[s]}
      BY <2>4 DEF Rekey, MayServe, Census, TypeInv, TypeOK
    <2>5. CASE Relaunch
      BY <2>5 DEF Relaunch, Census
    <2>6. ASSUME (\E t \in SessionIds : Read(t)) \/ (\E a \in reads : Deliver(a))
          PROVE  UNCHANGED live
      BY <2>6 DEF Read, Deliver, Server
    <2>7. QED
      BY <2>1, <2>2, <2>3, <2>4, <2>5, <2>6 DEF Environment
  <1>2. QED
    BY <1>1 DEF HandedOver, Agreed

(* Steps that close nothing: what one call knows narrows, or the table     *)
(* changes as the claims have it.                                          *)
LEMMA QuietStep ==
  ASSUME TypeInv, NEW k \in Calls, Step(k), ~PostCloses(k), ~Handshake(k)
  PROVE  Narrowed /\ RightStays
  BY QuietPreflight, QuietClient, QuietEnds DEF Step

LEMMA StepAgrees ==
  ASSUME TypeInv, [Next]_vars, NEW s \in SessionIds, Agreed(s)
  PROVE  Agreed(s)' \/ (Environment /\ HandedOver(s))
  <1>1. ASSUME NEW k \in Calls, Step(k)
        PROVE  Agreed(s)'
    BY <1>1, QuietStep, PostNarrows, NarrowedAgrees, HandshakeAgrees
  <1>2. CASE Environment
    BY <1>2, EnvironmentAgrees
  <1>3. CASE UNCHANGED vars
    BY <1>3 DEF vars, Agreed, Claimed, Census
  <1>4. CASE \E k \in Calls, sid \in SessionIds, anchor \in Paths :
               Begin(k, sid, anchor)
    BY <1>4, QuietEnds, NarrowedAgrees
  <1>5. QED
    BY <1>1, <1>2, <1>3, <1>4 DEF Next

LEMMA RightStep ==
  ASSUME TypeInv, RightInv, ~ReuseInFlight, [Next]_vars
  PROVE  RightInv'
  <1>1. \A s \in SessionIds : Agreed(s)'
    BY StepAgrees, NothingHandedOver DEF RightInv
  <1>2. RightStays
    <2>1. ASSUME NEW k \in Calls, Step(k)
          PROVE  RightStays
      BY <2>1, QuietStep, PostIsRight, PostNarrows, HandshakeClaims DEF RightInv
    <2>2. ASSUME Environment \/ UNCHANGED vars
          PROVE  calls' = calls
      BY <2>2 DEF Environment, Read, Deliver, Open, Drop, Rekey, Relaunch, Move, vars
    <2>3. CASE Environment \/ UNCHANGED vars
      BY <2>2, <2>3 DEF RightStays
    <2>4. CASE \E k \in Calls, sid \in SessionIds, anchor \in Paths :
                 Begin(k, sid, anchor)
      BY <2>4, QuietEnds
    <2>5. QED
      BY <2>1, <2>3, <2>4 DEF Next
  <1>3. \A j \in Calls : Right(calls[j])
    BY DEF RightInv, ClosedRight, Right
  <1>4. ClosedRight'
    BY <1>2, <1>3 DEF RightStays, ClosedRight, Right
  <1>5. QED
    BY <1>1, <1>4 DEF RightInv

LEMMA RightInit == Init => RightInv
  <1>1. Idle.pc = "idle" /\ Idle.file = None /\ Idle.closed = None
    BY DEF Idle
  <1>2. QED
    BY <1>1 DEF Init, RightInv, Agreed, ClosedRight, Claimed

(* Only a hand-over misleads a restart (restart_kernel, steps 1 and 2): it *)
(* closes the kernel of the notebook it resolved, unless a browser or the  *)
(* server gave the id to another one after a restart in flight read it,    *)
(* whatever becomes of ids, sessions and the server, and whatever any      *)
(* number of other restarts repair, close and bring back.                  *)
THEOREM OnlyHandOversMislead == Spec => RightKernel
  <1> DEFINE Agrees == \A s \in SessionIds : Agreed(s) => Agreed(s)' \/ HandedOver(s)
             Closes == \A k \in Calls :
                         PostCloses(k) =>
                             /\ calls[k].anchor \in {Unsaved, calls[k].file}
                             /\ Agreed(calls[k].sid) =>
                                  live[calls[k].sid].path = calls[k].file
  <1>1. TypeInv /\ [Next]_vars => [Agrees /\ Closes]_vars
    BY StepAgrees, PostIsRight
  <1>2. QED
    BY <1>1, Typed, PTL DEF Spec, RightKernel
=============================================================================
