-------------------------- MODULE RestartRefinement --------------------------
(***************************************************************************)
(* Proofs that restart_kernel keeps the contract of RestartContract, and   *)
(* of what a success and server_process_preserved mean, for any number of  *)
(* restarts, sessions, notebooks, attempts and moves of the server.        *)
(***************************************************************************)
EXTENDS RestartProofs

(* The session table: a notebook has one session, and kernels are numbered *)
(* as they start.                                                          *)
TableOK ==
    /\ \A s, t \in SessionIds :
         s # t /\ live[s] # None /\ live[t] # None => live[s].path # live[t].path
    /\ \A s \in SessionIds : live[s] # None => live[s].kernel <= spawned

(* What a step may do to the table: sessions go, one is re-keyed, one is   *)
(* added.                                                                  *)
Loses ==
    /\ live' \in [SessionIds -> Session \cup {None}]
    /\ \A s \in SessionIds : live'[s] \in {None, live[s]}
    /\ spawned' = spawned

Renames(s, t) ==
    /\ live[s] # None /\ live[t] = None
    /\ live' = [live EXCEPT ![s] = None, ![t] = live[s]]
    /\ spawned' = spawned

Newborn(path) == [path |-> path, kernel |-> spawned + 1]

Adds(s, path) ==
    /\ live[s] = None
    /\ Free(live, path)
    /\ live' = [live EXCEPT ![s] = Newborn(path)]
    /\ spawned' = spawned + 1

Grown ==
    /\ spawned' >= spawned
    /\ \A s \in SessionIds :
         live'[s] # None => \/ \E t \in SessionIds : live[t] = live'[s]
                            \/ live'[s].kernel > spawned

LEMMA NewbornType ==
  ASSUME TypeInv, NEW path \in Paths
  PROVE  /\ Newborn(path) \in Session /\ Newborn(path) # None
         /\ Newborn(path).path = path /\ Newborn(path).kernel = spawned + 1
  <1>1. Newborn(path) \in Session
    BY DEF Newborn, Session, TypeInv, TypeOK
  <1>2. QED
    BY <1>1, RestartAssumption DEF Newborn

LEMMA LosesTable ==
  ASSUME TypeInv, TableOK, Loses
  PROVE  TableOK' /\ Grown
  <1>1. spawned \in Nat
    BY DEF TypeInv, TypeOK
  <1>2. QED
    BY <1>1 DEF TableOK, Loses, Grown

LEMMA RenamesTable ==
  ASSUME TypeInv, TableOK, NEW s \in SessionIds, NEW t \in SessionIds, Renames(s, t)
  PROVE  TableOK' /\ Grown
  <1>1. /\ spawned \in Nat /\ s # t
        /\ \A u \in SessionIds : live'[u] = IF u = t THEN live[s]
                                            ELSE IF u = s THEN None ELSE live[u]
    BY DEF TypeInv, TypeOK, Renames
  <1>2. spawned' = spawned /\ live[s] # None /\ live[t] = None
    BY DEF Renames
  <1>3. Grown
    BY <1>1, <1>2 DEF Grown
  <1>4. ASSUME NEW u \in SessionIds, live'[u] # None
        PROVE  live'[u].kernel <= spawned'
    BY <1>1, <1>2, <1>4 DEF TableOK
  <1>5. ASSUME NEW u \in SessionIds, NEW v \in SessionIds, u # v,
               live'[u] # None, live'[v] # None
        PROVE  live'[u].path # live'[v].path
    BY <1>1, <1>2, <1>5 DEF TableOK
  <1>6. QED
    BY <1>3, <1>4, <1>5 DEF TableOK

LEMMA AddsTable ==
  ASSUME TypeInv, TableOK, NEW s \in SessionIds, NEW path \in Paths, Adds(s, path)
  PROVE  TableOK' /\ Grown
  <1>1. /\ spawned \in Nat
        /\ \A u \in SessionIds : live'[u] = IF u = s THEN Newborn(path) ELSE live[u]
    BY DEF TypeInv, TypeOK, Adds
  <1>2. \A u \in SessionIds : live[u] # None => live[u].kernel \in Nat
    BY DEF TypeInv, TypeOK, Session
  <1>3. /\ Newborn(path).path = path /\ Newborn(path).kernel = spawned + 1
    BY NewbornType
  <1>4. QED
    BY <1>1, <1>2, <1>3 DEF TableOK, Adds, Free, Grown
-----------------------------------------------------------------------------
(* Which steps change the table, and how.                                  *)
LEMMA PostTable ==
  ASSUME TypeInv, NEW k \in Calls, PostCloses(k)
  PROVE  Loses /\ live' = [live EXCEPT ![calls[k].sid] = None]
  <1> DEFINE call == [calls[k] EXCEPT !.closed = live[calls[k].sid],
                                      !.closed_in = proc]
  <1>1. call.sid = calls[k].sid
    BY DEF TypeInv, TypeOK, Call
  <1>2. live' = [live EXCEPT ![call.sid] = None] /\ spawned' = spawned
    BY DEF PostCloses
  <1> HIDE DEF call
  <1>3. QED
    BY <1>1, <1>2 DEF Loses, TypeInv, TypeOK

LEMMA HandshakeTable ==
  ASSUME TypeInv, NEW k \in Calls, Handshake(k)
  PROVE  \/ UNCHANGED <<live, spawned>>
         \/ Adds(calls[k].sid, calls[k].file)
         \/ \E t \in SessionIds : Renames(t, calls[k].sid)
  <1> DEFINE call == [calls[k] EXCEPT !.pc = "poll"]
  <1>1. call.sid = calls[k].sid /\ call.file = calls[k].file
    BY DEF TypeInv, TypeOK, Call
  <1>2. Connect(call) \/ UNCHANGED <<live, spawned>>
    BY DEF Handshake
  <1>3. calls[k] \in Call /\ CallOK(calls[k]) /\ calls[k].pc = "handshake"
    BY DEF TypeInv, TypeOK, CallsOK, Handshake, At
  <1>4. calls[k].file \in Paths /\ calls[k].file # None
    BY <1>3, RestartAssumption DEF CallOK, After
  <1> HIDE DEF call
  <1>5. ASSUME NEW t \in SessionIds, Census[t] = call.file
        PROVE  live[t] # None
    BY <1>1, <1>4, <1>5 DEF Census
  <1>6. QED
    BY <1>1, <1>2, <1>5 DEF Connect, Adds, Renames, Newborn

LEMMA EnvironmentTable ==
  ASSUME TypeInv, Environment
  PROVE  \/ Loses
         \/ \E s \in SessionIds, path \in Paths : Adds(s, path)
         \/ \E s, t \in SessionIds : Renames(s, t)
  <1>1. ASSUME NEW s \in SessionIds, Read(s)
        PROVE  Loses
    BY <1>1 DEF Read, Server, Loses, TypeInv, TypeOK
  <1>2. ASSUME NEW answer \in reads, Deliver(answer)
        PROVE  Loses
    BY <1>2 DEF Deliver, Server, Loses, TypeInv, TypeOK
  <1>3. ASSUME NEW s \in SessionIds, NEW path \in Paths, Open(s, path)
        PROVE  Adds(s, path)
    BY <1>3 DEF Open, Adds, Newborn
  <1>4. ASSUME NEW s \in SessionIds, Drop(s)
        PROVE  Loses
    BY <1>4 DEF Drop, Loses, TypeInv, TypeOK
  <1>5. ASSUME NEW s \in SessionIds, NEW t \in SessionIds, Rekey(s, t)
        PROVE  Renames(s, t)
    BY <1>5 DEF Rekey, Renames
  <1>6. CASE Relaunch
    BY <1>6 DEF Relaunch, Loses, TypeInv, TypeOK
  <1>7. QED
    BY <1>1, <1>2, <1>3, <1>4, <1>5, <1>6 DEF Environment

LEMMA TableStep ==
  ASSUME TypeInv, TableOK, [Next]_vars
  PROVE  TableOK' /\ Grown
  <1>1. CASE UNCHANGED <<live, spawned>>
    <2>1. Loses
      BY <1>1 DEF Loses, TypeInv, TypeOK
    <2>2. QED
      BY <2>1, LosesTable
  <1>2. ASSUME NEW k \in Calls, PostCloses(k)
        PROVE  TableOK' /\ Grown
    BY <1>2, PostTable, LosesTable
  <1>3. ASSUME NEW k \in Calls, Handshake(k)
        PROVE  TableOK' /\ Grown
    <2>1. calls[k].sid \in SessionIds /\ calls[k].file \in Paths
      BY <1>3 DEF TypeInv, CallsOK, CallOK, Handshake, At, After
    <2>2. QED
      BY <1>1, <1>3, <2>1, HandshakeTable, AddsTable, RenamesTable
  <1>4. CASE Environment
    BY <1>4, EnvironmentTable, LosesTable, AddsTable, RenamesTable
  <1>5. ASSUME NEW k \in Calls,
               \/ ReadCensus(k) \/ RefuseTarget(k) \/ AcceptTarget(k)
               \/ RepairTarget(k) \/ Scrape(k) \/ PostFails(k) \/ Rescrape(k)
               \/ Poll(k) \/ PollFails(k) \/ PollEscapes(k) \/ Measure(k)
               \/ Finish(k) \/ NotBack(k) \/ Return(k)
               \/ \E sid \in SessionIds, anchor \in Paths : Begin(k, sid, anchor)
        PROVE  UNCHANGED <<live, spawned>>
    BY <1>5 DEF ReadCensus, RefuseTarget, AcceptTarget, RepairTarget, Scrape,
                PostFails, Rescrape, Poll, PollFails, PollEscapes, Measure,
                Finish, NotBack, Return, Begin, Server
  <1>6. QED
    BY <1>1, <1>2, <1>3, <1>4, <1>5 DEF Next, Step, vars
-----------------------------------------------------------------------------
(* What a call does before it has seen the notebook's session again, the   *)
(* POST apart: it gets on, or it ends without success.                     *)
EarlyStep(old, new) ==
    /\ old.pc \in (Before \ {"idle"}) \cup {"handshake", "poll"}
    /\ new.anchor = old.anchor
    /\ new.closed = old.closed /\ new.closed_in = old.closed_in
    /\ new.verified = old.verified /\ new.live_id = old.live_id
    /\ new.rotated = old.rotated
    /\ \/ new.token = old.token
       \/ old.closed = None /\ new.token \in {proc, NoToken}
    /\ \/ /\ new.pc \in (Before \ {"idle"}) \cup {"handshake", "poll", "measure"}
          /\ new.answer = old.answer
       \/ /\ new.pc = "done"
          /\ new.answer # None
          /\ new.answer.reason # "ok" /\ new.answer.preserved = None
          /\ new.answer.state_changed \in {None, FALSE}
          /\ new.answer.state_changed = FALSE => old.closed = None

LEMMA AnsweredFields ==
  ASSUME NEW call \in Call, NEW reason, NEW changed
  PROVE  LET new == Answered(call, reason, changed) IN
         /\ new.pc = "done"
         /\ new.answer.reason = reason
         /\ new.answer.state_changed = changed
         /\ new.answer.preserved = IF reason = "ok" /\ call.rotated # None
                                   THEN ~call.rotated ELSE None
         /\ new.sid = call.sid /\ new.file = call.file /\ new.anchor = call.anchor
         /\ new.closed = call.closed /\ new.closed_in = call.closed_in
         /\ new.verified = call.verified /\ new.live_id = call.live_id
         /\ new.rotated = call.rotated /\ new.token = call.token
         /\ new.ready = call.ready /\ new.measured_in = call.measured_in
  BY DEF Answered, Call

LEMMA EarlyAnswer ==
  ASSUME NEW call \in Call, CallOK(call),
         call.pc \in (Before \ {"idle"}) \cup {"handshake", "poll"},
         NEW reason \in Reasons \cup {"escaped"}, NEW changed \in {None, FALSE},
         changed = FALSE => call.closed = None
  PROVE  EarlyStep(call, Answered(call, reason, changed))
  <1> DEFINE new == Answered(call, reason, changed)
  <1>1. call.sid \in SessionIds
    BY DEF CallOK, Before
  <1>2. CallOK(new)
    BY <1>1, AnsweredType, RestartAssumption
  <1>3. reason # "ok"
    BY DEF Reasons
  <1>4. new.pc = "done" /\ new.answer # None
    BY <1>2, AnsweredFields DEF CallOK
  <1>5. /\ new.answer.reason = reason /\ new.answer.state_changed = changed
        /\ new.answer.preserved = None
    BY <1>3, AnsweredFields
  <1>6. /\ new.anchor = call.anchor
        /\ new.closed = call.closed /\ new.closed_in = call.closed_in
        /\ new.verified = call.verified /\ new.live_id = call.live_id
        /\ new.rotated = call.rotated /\ new.token = call.token
    BY AnsweredFields
  <1> HIDE DEF new
  <1>7. QED
    BY <1>3, <1>4, <1>5, <1>6 DEF EarlyStep, new

LEMMA EarlyPreflight ==
  ASSUME TypeInv, NEW k \in Calls,
         ReadCensus(k) \/ RefuseTarget(k) \/ AcceptTarget(k) \/ RepairTarget(k)
  PROVE  \E new : Goto(k, new) /\ EarlyStep(calls[k], new)
  <1> DEFINE call == calls[k]
  <1>1. call \in Call /\ CallOK(call) /\ call.pc \in {"census", "decide"}
    BY DEF TypeInv, TypeOK, CallsOK, ReadCensus, RefuseTarget, AcceptTarget,
           RepairTarget, At
  <1>2. call.closed = None
    BY <1>1 DEF CallOK, Before
  <1>3. ASSUME NEW reason \in Reasons
        PROVE  EarlyStep(call, Answered(call, reason, FALSE))
    BY <1>1, <1>2, EarlyAnswer DEF Before
  <1>4. EarlyStep(call, [call EXCEPT !.pc = "decide", !.listing = Census])
    BY <1>1 DEF Call, EarlyStep, Before
  <1>5. ASSUME NEW t, NEW file
        PROVE  EarlyStep(call, [call EXCEPT !.pc = "scrape", !.sid = t, !.file = file,
                                            !.listing = Nobody])
    BY <1>1 DEF Call, EarlyStep, Before
  <1>6. EarlyStep(call, [call EXCEPT !.pc = "scrape", !.file = Target(call),
                                     !.listing = Nobody])
    BY <1>1 DEF Call, EarlyStep, Before
  <1>7. CASE ReadCensus(k)
    BY <1>3, <1>4, <1>7 DEF ReadCensus, Reasons
  <1>8. CASE RefuseTarget(k)
    <2>1. Refusal(call) \in Reasons
      BY DEF Refusal, Reasons
    <2>2. QED
      BY <1>3, <1>8, <2>1 DEF RefuseTarget
  <1>9. CASE AcceptTarget(k)
    BY <1>6, <1>9 DEF AcceptTarget
  <1>10. CASE RepairTarget(k)
    BY <1>5, <1>10 DEF RepairTarget
  <1>11. QED
    BY <1>7, <1>8, <1>9, <1>10

LEMMA EarlyRequests ==
  ASSUME TypeInv, NEW k \in Calls, Scrape(k) \/ PostFails(k) \/ Rescrape(k)
  PROVE  \E new : Goto(k, new) /\ EarlyStep(calls[k], new)
  <1> DEFINE call == calls[k]
  <1>1. call \in Call /\ CallOK(call) /\ call.pc \in {"scrape", "post", "rescrape"}
    BY DEF TypeInv, TypeOK, CallsOK, Scrape, PostFails, Rescrape, At
  <1>2. call.closed = None
    BY <1>1 DEF CallOK, Before
  <1>3. ASSUME NEW reason \in Reasons, NEW changed \in {None, FALSE}
        PROVE  EarlyStep(call, Answered(call, reason, changed))
    BY <1>1, <1>2, EarlyAnswer DEF Before
  <1>4. ASSUME NEW token \in {proc, NoToken}
        PROVE  EarlyStep(call, [call EXCEPT !.pc = "post", !.token = token])
    BY <1>1, <1>2 DEF Call, EarlyStep, Before
  <1>5. EarlyStep(call, [call EXCEPT !.pc = "rescrape"])
    BY <1>1 DEF Call, EarlyStep, Before
  <1>6. EarlyStep(call, [call EXCEPT !.pc = "post", !.token = proc, !.refreshed = TRUE])
    BY <1>1, <1>2 DEF Call, EarlyStep, Before
  <1>7. CASE Scrape(k)
    BY <1>4, <1>7 DEF Scrape
  <1>8. CASE PostFails(k)
    BY <1>3, <1>5, <1>8 DEF PostFails, WrongToken, Lost, Reasons
  <1>9. CASE Rescrape(k)
    BY <1>3, <1>6, <1>9 DEF Rescrape, Reasons
  <1>10. QED
    BY <1>7, <1>8, <1>9

LEMMA EarlyTried ==
  ASSUME NEW call \in Call, NEW old \in Call, call.pc = "poll",
         \E listing : old = [call EXCEPT !.listing = listing]
  PROVE  EarlyStep(call, Tried(old))
  <1>1. /\ old.anchor = call.anchor
        /\ old.closed = call.closed /\ old.closed_in = call.closed_in
        /\ old.verified = call.verified /\ old.live_id = call.live_id
        /\ old.rotated = call.rotated /\ old.token = call.token
        /\ old.answer = call.answer
    BY DEF Call
  <1> DEFINE new == Tried(old)
  <1>2. /\ new.anchor = old.anchor
        /\ new.closed = old.closed /\ new.closed_in = old.closed_in
        /\ new.verified = old.verified /\ new.live_id = old.live_id
        /\ new.rotated = old.rotated /\ new.token = old.token
        /\ new.answer = old.answer /\ new.pc \in {"poll", "measure"}
    BY DEF Call, Tried
  <1> HIDE DEF new
  <1>3. QED
    BY <1>1, <1>2 DEF EarlyStep, new

LEMMA EarlyPoll ==
  ASSUME TypeInv, NEW k \in Calls, PollFails(k) \/ PollEscapes(k)
  PROVE  \E new : Goto(k, new) /\ EarlyStep(calls[k], new)
  <1> DEFINE call == calls[k]
             old == [call EXCEPT !.listing = Nobody]
  <1>1. call \in Call /\ CallOK(call) /\ call.pc = "poll"
    BY DEF TypeInv, TypeOK, CallsOK, PollFails, PollEscapes, At
  <1>2. CASE PollFails(k)
    <2>1. old \in Call
      BY <1>1 DEF Call, Nobody, Listing
    <2>2. EarlyStep(call, Tried(old))
      BY <1>1, <2>1, EarlyTried
    <2>3. QED
      BY <1>2, <2>2 DEF PollFails
  <1>3. CASE PollEscapes(k)
    <2>1. EarlyStep(call, Answered(call, "escaped", None))
      BY <1>1, EarlyAnswer, RestartAssumption
    <2>2. QED
      BY <1>3, <2>1 DEF PollEscapes
  <1>4. QED
    BY <1>2, <1>3

LEMMA EarlyHandshake ==
  ASSUME TypeInv, NEW k \in Calls, Handshake(k)
  PROVE  \E new : Goto(k, new) /\ EarlyStep(calls[k], new) /\ new.pc = "poll"
  <1> DEFINE old == calls[k]
             call == [old EXCEPT !.pc = "poll"]
  <1>1. old \in Call /\ old.pc = "handshake"
    BY DEF TypeInv, TypeOK, Handshake, At
  <1>2. EarlyStep(old, call) /\ call.pc = "poll"
    BY <1>1 DEF Call, EarlyStep
  <1>3. ASSUME NEW ready
        PROVE  LET new == [call EXCEPT !.ready = ready] IN
               EarlyStep(old, new) /\ new.pc = "poll"
    BY <1>1 DEF Call, EarlyStep
  <1>4. Goto(k, call) \/ \E ready \in BOOLEAN : Goto(k, [call EXCEPT !.ready = ready])
    BY DEF Handshake
  <1> HIDE DEF call
  <1>5. QED
    BY <1>2, <1>3, <1>4

(* The poll, and what follows it.                                          *)
SeesStep(old, new) ==
    /\ old.pc = "poll" /\ new.pc = "measure"
    /\ live[old.sid] # None
    /\ new.live_id = old.sid /\ new.verified = live[old.sid]
    /\ new.sid = old.sid /\ new.anchor = old.anchor
    /\ new.closed = old.closed /\ new.closed_in = old.closed_in
    /\ new.rotated = old.rotated /\ new.token = old.token
    /\ new.answer = old.answer

LEMMA PollSees ==
  ASSUME TypeInv, NEW k \in Calls, Poll(k)
  PROVE  \E new : /\ Goto(k, new)
                  /\ EarlyStep(calls[k], new) \/ SeesStep(calls[k], new)
  <1> DEFINE old == calls[k]
             call == [old EXCEPT !.listing = Census]
  <1>1. old \in Call /\ old.pc = "poll"
    BY DEF TypeInv, TypeOK, Poll, At
  <1>2. call \in Call
    BY <1>1, CensusType DEF TypeInv, Call
  <1>3. EarlyStep(old, Tried(call))
    BY <1>1, <1>2, EarlyTried
  <1>4. ASSUME NEW s \in IsBack(call)
        PROVE  SeesStep(old, [call EXCEPT !.pc = "measure", !.live_id = s,
                                          !.verified = live[s]])
    <2>1. s = old.sid /\ live[s] # None
      BY <1>1 DEF IsBack, Call
    <2>2. QED
      BY <1>1, <2>1 DEF SeesStep, Call
  <1>5. \/ \E s \in IsBack(call) :
              Goto(k, [call EXCEPT !.pc = "measure", !.live_id = s,
                                   !.verified = live[s]])
        \/ Goto(k, Tried(call))
    BY DEF Poll
  <1> HIDE DEF call
  <1>6. QED
    BY <1>3, <1>4, <1>5
-----------------------------------------------------------------------------
(* Every step of a call.                                                   *)
ClosesStep(old, new) ==
    /\ old.pc = "post"
    /\ live[old.sid] # None
    /\ new.closed = live[old.sid] /\ new.closed_in = proc
    /\ new.anchor = old.anchor
    /\ new.verified = old.verified /\ new.live_id = old.live_id
    /\ new.rotated = old.rotated /\ new.token = old.token
    /\ \/ new.pc = "handshake" /\ new.answer = old.answer
       \/ /\ new.pc = "done"
          /\ new.answer # None
          /\ new.answer.reason # "ok" /\ new.answer.preserved = None
          /\ new.answer.state_changed = None

MeasuresStep(old, new) ==
    /\ old.pc = "measure" /\ new.pc = "finish"
    /\ new.rotated \in Measured(old) /\ new.measured_in = proc
    /\ new.sid = old.sid /\ new.anchor = old.anchor
    /\ new.closed = old.closed /\ new.closed_in = old.closed_in
    /\ new.verified = old.verified /\ new.live_id = old.live_id
    /\ new.token = old.token /\ new.answer = old.answer

FinishStep(old, new) ==
    /\ old.pc = "finish" /\ new.pc = "done"
    /\ new.sid = old.sid /\ new.anchor = old.anchor
    /\ new.closed = old.closed /\ new.closed_in = old.closed_in
    /\ new.verified = old.verified /\ new.live_id = old.live_id
    /\ new.rotated = old.rotated /\ new.measured_in = old.measured_in
    /\ new.token = old.token /\ new.ready = old.ready
    /\ new.answer # None /\ new.answer.state_changed = TRUE
    /\ new.answer.reason = "ok" => Succeeded(old)
    /\ new.answer.preserved # None =>
         /\ new.answer.reason = "ok" /\ old.rotated # None
         /\ new.answer.preserved = ~old.rotated

CallStep(k, new) ==
    LET old == calls[k] IN
    \/ EarlyStep(old, new)
    \/ SeesStep(old, new)
    \/ PostCloses(k) /\ ClosesStep(old, new)
    \/ MeasuresStep(old, new)
    \/ FinishStep(old, new)
    \/ old.pc = "done" /\ new = Idle

LEMMA PostStepped ==
  ASSUME TypeInv, NEW k \in Calls, PostCloses(k)
  PROVE  \E new : Goto(k, new) /\ ClosesStep(calls[k], new)
  <1> DEFINE old == calls[k]
             call == [old EXCEPT !.closed = live[old.sid], !.closed_in = proc]
             on == [call EXCEPT !.pc = "handshake"]
  <1>1. /\ old \in Call /\ CallOK(old) /\ old.pc = "post"
        /\ live \in [SessionIds -> Session \cup {None}] /\ proc \in Nat
    BY DEF TypeInv, TypeOK, CallsOK, PostCloses, At
  <1>2. old.sid \in SessionIds
    BY <1>1 DEF CallOK
  <1>3. call \in Call /\ call.sid = old.sid
    BY <1>1, <1>2 DEF Call
  <1>4. /\ call.closed = live[old.sid] /\ call.closed_in = proc
        /\ call.anchor = old.anchor /\ call.answer = old.answer
        /\ call.verified = old.verified /\ call.live_id = old.live_id
        /\ call.rotated = old.rotated /\ call.token = old.token
    BY <1>1 DEF Call
  <1>5. /\ live[call.sid] # None
        /\ Goto(k, on) \/ Goto(k, Lost(call))
    BY DEF PostCloses
  <1> HIDE DEF call
  <1>6. ClosesStep(old, on)
    BY <1>1, <1>3, <1>4, <1>5 DEF ClosesStep, Call
  <1>7. ClosesStep(old, Lost(call))
    <2> DEFINE new == Lost(call)
    <2>1. CallOK(new)
      BY <1>2, <1>3, LostType
    <2>2. /\ new.pc = "done" /\ new.answer.reason = "server_unreachable"
          /\ new.answer.state_changed = None /\ new.answer.preserved = None
          /\ new.anchor = call.anchor
          /\ new.closed = call.closed /\ new.closed_in = call.closed_in
          /\ new.verified = call.verified /\ new.live_id = call.live_id
          /\ new.rotated = call.rotated /\ new.token = call.token
      BY <1>3, AnsweredFields DEF Lost
    <2> HIDE DEF new
    <2>3. QED
      BY <1>1, <1>3, <1>4, <1>5, <2>1, <2>2 DEF ClosesStep, CallOK, new
  <1>8. QED
    BY <1>5, <1>6, <1>7

LEMMA EndStepped ==
  ASSUME TypeInv, NEW k \in Calls, Measure(k) \/ Finish(k) \/ NotBack(k) \/ Return(k)
  PROVE  \E new : Goto(k, new) /\ CallStep(k, new)
  <1> DEFINE call == calls[k]
  <1>1. call \in Call /\ CallOK(call)
    BY DEF TypeInv, TypeOK, CallsOK
  <1>2. CASE Measure(k)
    <2>1. PICK rotated \in Measured(call) :
            Goto(k, [call EXCEPT !.pc = "finish", !.rotated = rotated,
                                 !.measured_in = proc])
      BY <1>2 DEF Measure
    <2>2. MeasuresStep(call, [call EXCEPT !.pc = "finish", !.rotated = rotated,
                                          !.measured_in = proc])
      BY <1>1, <1>2 DEF MeasuresStep, Measure, At, Call
    <2>3. QED
      BY <2>1, <2>2 DEF CallStep
  <1>3. ASSUME call.pc = "finish", NEW reason \in Reasons \cup {"ok"},
               reason = "ok" => Succeeded(call)
        PROVE  FinishStep(call, Answered(call, reason, TRUE))
    <2> DEFINE new == Answered(call, reason, TRUE)
    <2>1. call.sid \in SessionIds /\ call.closed # None
      BY <1>1, <1>3 DEF CallOK, After
    <2>2. CallOK(new)
      BY <1>1, <2>1, AnsweredType
    <2>3. /\ new.answer.reason = reason /\ new.answer.state_changed = TRUE
          /\ new.answer.preserved = IF reason = "ok" /\ call.rotated # None
                                    THEN ~call.rotated ELSE None
      BY <1>1 DEF Answered, Call
    <2>4. /\ new.pc = "done"
          /\ new.sid = call.sid /\ new.anchor = call.anchor
          /\ new.closed = call.closed /\ new.closed_in = call.closed_in
          /\ new.verified = call.verified /\ new.live_id = call.live_id
          /\ new.rotated = call.rotated /\ new.token = call.token
          /\ new.ready = call.ready /\ new.measured_in = call.measured_in
      BY <1>1 DEF Answered, Call
    <2> HIDE DEF new
    <2>5. new.answer # None
      BY <2>2, <2>4 DEF CallOK
    <2>6. QED
      BY <1>3, <2>3, <2>4, <2>5 DEF FinishStep, new
  <1>4. CASE Finish(k)
    <2>1. FinishStep(call, Answered(call, "ok", TRUE))
      BY <1>3, <1>4 DEF Finish, At
    <2>2. QED
      BY <1>4, <2>1 DEF Finish, CallStep
  <1>5. CASE NotBack(k)
    <2> DEFINE reason == IF call.ready /\ call.listing = Nobody
                         THEN "server_sessionless"
                         ELSE "session_not_rematerialized"
    <2>1. reason \in Reasons /\ reason # "ok"
      BY DEF Reasons
    <2>2. Goto(k, Answered(call, reason, TRUE)) /\ call.pc = "finish"
      BY <1>5 DEF NotBack, At
    <2> HIDE DEF reason
    <2>3. FinishStep(call, Answered(call, reason, TRUE))
      BY <1>3, <2>1, <2>2
    <2>4. QED
      BY <2>2, <2>3 DEF CallStep
  <1>6. CASE Return(k)
    BY <1>6 DEF Return, At, CallStep
  <1>7. QED
    BY <1>2, <1>4, <1>5, <1>6

LEMMA Stepped ==
  ASSUME TypeInv, NEW k \in Calls, Step(k)
  PROVE  \E new : Goto(k, new) /\ CallStep(k, new)
  BY EarlyPreflight, EarlyRequests, EarlyPoll, EarlyHandshake, PollSees,
     PostStepped, EndStepped
  DEF Step, CallStep
-----------------------------------------------------------------------------
(* A kernel that a call closed stays gone: what serves its notebook from   *)
(* then on is younger.  And a session that the poll has seen is such a     *)
(* one.                                                                    *)
Younger(call, table, count) ==
    call.closed # None =>
        /\ call.closed.kernel <= count
        /\ \A s \in SessionIds :
             table[s] # None /\ table[s].path = call.closed.path =>
                 table[s].kernel > call.closed.kernel

Seen(call) ==
    /\ call.pc \in Before \cup {"handshake", "poll"} =>
         call.verified = None /\ call.live_id = None
    /\ call.live_id # None => call.verified # None
    /\ call.verified # None =>
         /\ call.closed # None
         /\ call.live_id = call.sid
         /\ call.verified.path = call.closed.path
         /\ call.verified.kernel > call.closed.kernel
    /\ call.pc = "done" /\ call.answer.reason = "ok" =>
         call.ready /\ call.verified # None

YoungInv ==
    /\ TableOK
    /\ \A k \in Calls : Younger(calls[k], live, spawned)

SuccessInv ==
    /\ YoungInv
    /\ \A k \in Calls : Seen(calls[k])

LEMMA YoungerKept ==
  ASSUME TypeInv, Grown, TypeInv', NEW call \in Call, Younger(call, live, spawned)
  PROVE  Younger(call, live', spawned')
  <1>1. SUFFICES ASSUME call.closed # None
                 PROVE  Younger(call, live', spawned')
    BY DEF Younger
  <1>2. /\ call.closed.kernel \in Nat /\ spawned \in Nat /\ spawned' \in Nat
        /\ spawned' >= spawned /\ call.closed.kernel <= spawned
    BY <1>1 DEF TypeInv, TypeOK, Call, Session, Grown, Younger
  <1>3. ASSUME NEW s \in SessionIds, live'[s] # None,
               live'[s].path = call.closed.path
        PROVE  live'[s].kernel > call.closed.kernel
    <2>1. live'[s].kernel \in Nat
      BY <1>3 DEF TypeInv, TypeOK, Session
    <2>2. CASE \E t \in SessionIds : live[t] = live'[s]
      BY <1>1, <1>3, <2>2 DEF Younger
    <2>3. CASE live'[s].kernel > spawned
      BY <1>2, <2>1, <2>3
    <2>4. QED
      BY <1>3, <2>2, <2>3 DEF Grown
  <1>4. QED
    BY <1>2, <1>3 DEF Younger

LEMMA GotoCalls ==
  ASSUME TypeInv, NEW k \in Calls, NEW new, Goto(k, new)
  PROVE  \A j \in Calls : calls'[j] = IF j = k THEN new ELSE calls[j]
  BY DEF TypeInv, TypeOK, Goto

(* One call moves on, and is as it should be afterwards.                   *)
LEMMA YoungGoto ==
  ASSUME TypeInv, TypeInv', YoungInv, [Next]_vars, NEW k \in Calls, NEW new,
         Goto(k, new), Younger(new, live', spawned')
  PROVE  YoungInv'
  <1>1. TableOK' /\ Grown
    BY TableStep DEF YoungInv
  <1>2. \A j \in Calls : calls[j] \in Call
    BY DEF TypeInv, TypeOK
  <1>3. \A j \in Calls : Younger(calls[j], live', spawned')
    BY <1>1, <1>2, YoungerKept DEF YoungInv
  <1>4. \A j \in Calls : calls'[j] = IF j = k THEN new ELSE calls[j]
    BY GotoCalls
  <1>5. QED
    BY <1>1, <1>3, <1>4 DEF YoungInv

LEMMA YoungClosed ==
  ASSUME TypeInv, YoungInv, NEW k \in Calls, PostCloses(k), NEW new,
         new.closed = live[calls[k].sid]
  PROVE  Younger(new, live', spawned')
  <1> DEFINE sid == calls[k].sid
  <1>1. sid \in SessionIds /\ calls[k] \in Call
    BY DEF TypeInv, TypeOK, CallsOK, CallOK, PostCloses, At
  <1>2. live' = [live EXCEPT ![sid] = None] /\ spawned' = spawned
    BY PostTable DEF Loses
  <1>3. \A s \in SessionIds : live'[s] = IF s = sid THEN None ELSE live[s]
    BY <1>2 DEF TypeInv, TypeOK
  <1>4. QED
    BY <1>1, <1>2, <1>3 DEF Younger, YoungInv, TableOK

LEMMA YoungCall ==
  ASSUME TypeInv, TypeInv', YoungInv, NEW k \in Calls, Step(k)
  PROVE  YoungInv'
  <1> DEFINE old == calls[k]
  <1>1. PICK new : Goto(k, new) /\ CallStep(k, new)
    BY Stepped
  <1>2. [Next]_vars
    BY DEF Next
  <1>3. Younger(old, live', spawned')
    <2>1. old \in Call /\ Younger(old, live, spawned) /\ TableOK
      BY DEF TypeInv, TypeOK, YoungInv
    <2>2. QED
      BY <1>2, <2>1, TableStep, YoungerKept
  <1>4. CASE new.closed = old.closed
    <2>1. Younger(new, live', spawned')
      BY <1>3, <1>4 DEF Younger
    <2>2. QED
      BY <1>1, <1>2, <2>1, YoungGoto
  <1>5. CASE PostCloses(k) /\ ClosesStep(old, new)
    BY <1>1, <1>2, <1>5, YoungClosed, YoungGoto DEF ClosesStep
  <1>6. CASE new = Idle
    <2>1. Younger(Idle, live', spawned')
      BY DEF Younger, Idle
    <2>2. QED
      BY <1>1, <1>2, <1>6, <2>1, YoungGoto
  <1>7. QED
    BY <1>1, <1>4, <1>5, <1>6
    DEF CallStep, EarlyStep, SeesStep, MeasuresStep, FinishStep

LEMMA YoungStep ==
  ASSUME TypeInv, TypeInv', YoungInv, [Next]_vars
  PROVE  YoungInv'
  <1>1. ASSUME NEW k \in Calls, NEW sid \in SessionIds, NEW anchor \in Paths,
               Begin(k, sid, anchor)
        PROVE  YoungInv'
    <2> DEFINE new == [Idle EXCEPT !.pc = "census", !.sid = sid, !.anchor = anchor]
    <2>1. Goto(k, new) /\ Younger(new, live', spawned')
      BY <1>1 DEF Begin, Younger, Idle
    <2> HIDE DEF new
    <2>2. QED
      BY <2>1, YoungGoto
  <1>2. CASE calls' = calls
    <2>1. TableOK' /\ Grown
      BY TableStep DEF YoungInv
    <2>2. \A k \in Calls : calls[k] \in Call
      BY DEF TypeInv, TypeOK
    <2>3. QED
      BY <1>2, <2>1, <2>2, YoungerKept DEF YoungInv
  <1>3. ASSUME Environment \/ UNCHANGED vars
        PROVE  calls' = calls
    BY <1>3 DEF Environment, Read, Deliver, Open, Drop, Rekey, Relaunch, Move, vars
  <1>4. QED
    BY <1>1, <1>2, <1>3, YoungCall DEF Next

LEMMA YoungInit == Init => YoungInv
  <1> SUFFICES ASSUME Init PROVE YoungInv
    OBVIOUS
  <1>1. TableOK
    BY DEF Init, TableOK
  <1>2. \A k \in Calls : calls[k] = Idle
    BY DEF Init
  <1>3. Younger(Idle, live, spawned)
    BY DEF Younger, Idle
  <1>4. QED
    BY <1>1, <1>2, <1>3 DEF YoungInv

(* What a call has seen.                                                   *)
LEMMA SuccessGoto ==
  ASSUME TypeInv, TypeInv', SuccessInv, [Next]_vars, NEW k \in Calls, NEW new,
         Goto(k, new), Seen(new)
  PROVE  SuccessInv'
  <1>1. \A j \in Calls : calls'[j] = IF j = k THEN new ELSE calls[j]
    BY GotoCalls
  <1>2. QED
    BY <1>1, YoungStep DEF SuccessInv

LEMMA SeenIsYounger ==
  ASSUME TypeInv, RightInv, SuccessInv, NEW k \in Calls, calls[k].pc = "poll",
         live[calls[k].sid] # None
  PROVE  /\ calls[k].closed # None
         /\ live[calls[k].sid].path = calls[k].closed.path
         /\ live[calls[k].sid].kernel > calls[k].closed.kernel
  <1> DEFINE call == calls[k]
  <1>1. /\ call \in Call /\ call.sid \in SessionIds
        /\ call.closed # None /\ call.file # None
    BY RestartAssumption DEF TypeInv, TypeOK, CallsOK, CallOK, After
  <1>2. live[call.sid].path # None /\ Census[call.sid] = live[call.sid].path
    BY <1>1, RestartAssumption DEF TypeInv, TypeOK, Session, Census
  <1>3. Claimed(call, call.sid) = call.file
    BY DEF Claimed
  <1>4. live[call.sid].path = call.file
    BY <1>1, <1>2, <1>3 DEF RightInv, Agreed
  <1>5. call.closed.path = call.file
    BY <1>1 DEF RightInv, ClosedRight
  <1>6. QED
    BY <1>1, <1>4, <1>5 DEF SuccessInv, YoungInv, Younger

LEMMA SuccessCall ==
  ASSUME TypeInv, TypeInv', RightInv, SuccessInv, NEW k \in Calls, Step(k)
  PROVE  SuccessInv'
  <1> DEFINE old == calls[k]
  <1>1. PICK new : Goto(k, new) /\ CallStep(k, new)
    BY Stepped
  <1>2. CallOK(old) /\ Seen(old) /\ [Next]_vars
    BY DEF TypeInv, CallsOK, SuccessInv, Next
  <1>3. CASE EarlyStep(old, new)
    <2>1. old.verified = None /\ old.live_id = None
      BY <1>2, <1>3 DEF EarlyStep, Seen
    <2>2. Seen(new)
      BY <1>3, <2>1 DEF EarlyStep, Seen, Before
    <2>3. QED
      BY <1>1, <1>2, <2>2, SuccessGoto
  <1>4. CASE SeesStep(old, new)
    <2>1. /\ old.closed # None
          /\ live[old.sid].path = old.closed.path
          /\ live[old.sid].kernel > old.closed.kernel
      BY <1>4, SeenIsYounger DEF SeesStep
    <2>2. Seen(new)
      BY <1>4, <2>1 DEF SeesStep, Seen, Before
    <2>3. QED
      BY <1>1, <1>2, <2>2, SuccessGoto
  <1>5. CASE ClosesStep(old, new)
    <2>1. Seen(new)
      BY <1>2, <1>5 DEF ClosesStep, Seen, Before
    <2>2. QED
      BY <1>1, <1>2, <2>1, SuccessGoto
  <1>6. CASE MeasuresStep(old, new)
    <2>1. Seen(new)
      BY <1>2, <1>6 DEF MeasuresStep, Seen, Before
    <2>2. QED
      BY <1>1, <1>2, <2>1, SuccessGoto
  <1>7. CASE FinishStep(old, new)
    <2>1. Seen(new)
      BY <1>2, <1>7 DEF FinishStep, Seen, Succeeded, Before
    <2>2. QED
      BY <1>1, <1>2, <2>1, SuccessGoto
  <1>8. CASE new = Idle
    <2>1. Seen(Idle)
      BY DEF Seen, Idle
    <2>2. QED
      BY <1>1, <1>2, <1>8, <2>1, SuccessGoto
  <1>9. QED
    BY <1>1, <1>3, <1>4, <1>5, <1>6, <1>7, <1>8 DEF CallStep

LEMMA SuccessStep ==
  ASSUME TypeInv, TypeInv', RightInv, SuccessInv, [Next]_vars
  PROVE  SuccessInv'
  <1>1. ASSUME NEW k \in Calls, NEW sid \in SessionIds, NEW anchor \in Paths,
               Begin(k, sid, anchor)
        PROVE  SuccessInv'
    <2> DEFINE new == [Idle EXCEPT !.pc = "census", !.sid = sid, !.anchor = anchor]
    <2>1. Goto(k, new) /\ Seen(new)
      BY <1>1 DEF Begin, Seen, Idle
    <2> HIDE DEF new
    <2>2. QED
      BY <2>1, SuccessGoto
  <1>2. CASE calls' = calls
    BY <1>2, YoungStep DEF SuccessInv
  <1>3. ASSUME Environment \/ UNCHANGED vars
        PROVE  calls' = calls
    BY <1>3 DEF Environment, Read, Deliver, Open, Drop, Rekey, Relaunch, Move, vars
  <1>4. QED
    BY <1>1, <1>2, <1>3, SuccessCall DEF Next

LEMMA SuccessInit == Init => SuccessInv
  <1>1. Init => \A k \in Calls : calls[k] = Idle
    BY DEF Init
  <1>2. Seen(Idle)
    BY DEF Seen, Idle
  <1>3. QED
    BY <1>1, <1>2, YoungInit DEF SuccessInv

(* All of it holds when no id changes hands under a call.                  *)
LEMMA Succeeds ==
  ASSUME ~ReuseInFlight
  PROVE  Spec => [](TypeInv /\ RightInv /\ SuccessInv)
  <1>1. TypeInv /\ TypeInv' /\ RightInv /\ SuccessInv /\ [Next]_vars => SuccessInv'
    BY SuccessStep
  <1>2. TypeInv /\ RightInv /\ [Next]_vars => RightInv'
    BY RightStep
  <1>3. QED
    BY <1>1, <1>2, SuccessInit, RightInit, Typed, PTL DEF Spec

(* restart_kernel never reports a success it did not verify: it closed a   *)
(* kernel, and then saw a younger one live under the same id for the same  *)
(* notebook, as long as no id passes to another notebook under a restart.  *)
THEOREM SuccessIsVerified ==
  ASSUME ~ReuseInFlight
  PROVE  Spec => []SuccessIsReal
  <1>1. TypeInv /\ RightInv /\ SuccessInv => SuccessIsReal
    BY DEF TypeInv, TypeOK, RightInv, ClosedRight, SuccessInv, Seen, SuccessIsReal,
           Success, At
  <1>2. QED
    BY <1>1, Succeeds, PTL
-----------------------------------------------------------------------------
(* Server processes follow each other: the token a call sent is not        *)
(* younger than the process its POST reached, nor that one than the        *)
(* process that was measured.                                              *)
Clock(call, now) ==
    /\ call.token <= now
    /\ call.closed # None => call.token <= call.closed_in /\ call.closed_in <= now
    /\ call.pc \in Before \cup {"handshake", "poll", "measure"} => call.rotated = None
    /\ call.rotated = FALSE =>
         /\ call.measured_in = call.token
         /\ call.closed # None /\ call.closed_in <= call.measured_in
    /\ call.answer # None /\ call.answer.preserved = TRUE => call.rotated = FALSE

ClockInv == \A k \in Calls : Clock(calls[k], proc)

LEMMA ProcGrows ==
  ASSUME TypeInv, [Next]_vars
  PROVE  proc' >= proc
  <1>1. proc \in Nat
    BY DEF TypeInv, TypeOK
  <1>2. CASE Environment
    BY <1>1, <1>2 DEF Environment, Read, Deliver, Open, Drop, Rekey, Relaunch, Server
  <1>3. ASSUME NEW k \in Calls, Step(k)
        PROVE  proc' = proc
    BY <1>3 DEF Step, ReadCensus, RefuseTarget, AcceptTarget, RepairTarget, Scrape,
                PostCloses, PostFails, Rescrape, Handshake, Poll, PollFails,
                PollEscapes, Measure, Finish, NotBack, Return, Server
  <1>4. ASSUME NEW k \in Calls, NEW sid \in SessionIds, NEW anchor \in Paths,
               Begin(k, sid, anchor)
        PROVE  proc' = proc
    BY <1>4 DEF Begin, Server
  <1>5. QED
    BY <1>1, <1>2, <1>3, <1>4 DEF Next, vars

LEMMA ClockKept ==
  ASSUME NEW call \in Call, NEW now \in Nat, NEW later \in Nat, later >= now,
         Clock(call, now)
  PROVE  Clock(call, later)
  BY DEF Clock, Call

LEMMA NoneIsNoTruth == None # FALSE /\ None # TRUE
  BY RestartAssumption

LEMMA BlankClock ==
  ASSUME NEW call, call.token = NoToken, call.closed = None, call.rotated = None,
         call.answer = None, NEW now \in Nat
  PROVE  Clock(call, now)
  <1>1. call.token <= now
    BY DEF NoToken
  <1>2. ~(call.rotated = FALSE)
    BY NoneIsNoTruth, Zenon
  <1>3. QED
    BY <1>1, <1>2, Zenon DEF Clock

LEMMA ClockCall ==
  ASSUME TypeInv, NEW k \in Calls, Clock(calls[k], proc),
         NEW new \in Call, CallStep(k, new)
  PROVE  Clock(new, proc)
  <1> DEFINE old == calls[k]
  <1>1. old \in Call /\ CallOK(old) /\ proc \in Nat /\ proc # 0
    BY DEF TypeInv, TypeOK, CallsOK
  <1>2. /\ old.token \in Nat /\ old.closed_in \in Nat /\ old.measured_in \in Nat
        /\ new.token \in Nat /\ new.closed_in \in Nat /\ new.measured_in \in Nat
    BY <1>1 DEF Call
  <1>3. None # FALSE /\ None # TRUE
    BY NoneIsNoTruth
  <1>4. CASE EarlyStep(old, new)
    <2>1. old.rotated = None
      BY <1>4 DEF EarlyStep, Clock
    <2>2. new.token <= proc
      BY <1>1, <1>2, <1>4 DEF EarlyStep, Clock, NoToken
    <2>3. new.closed # None => new.token <= new.closed_in /\ new.closed_in <= proc
      BY <1>4 DEF EarlyStep, Clock
    <2>4. new.answer # None => new.answer.preserved # TRUE
      BY <1>3, <1>4, <2>1 DEF EarlyStep, Clock
    <2>5. QED
      BY <1>3, <1>4, <2>1, <2>2, <2>3, <2>4 DEF EarlyStep, Clock
  <1>5. CASE SeesStep(old, new)
    BY <1>1, <1>2, <1>3, <1>5 DEF SeesStep, Clock, Before
  <1>6. CASE ClosesStep(old, new)
    <2>1. old.rotated = None
      BY <1>6 DEF ClosesStep, Clock, Before
    <2>2. new.token <= proc /\ new.closed_in = proc
      BY <1>6 DEF ClosesStep, Clock
    <2>3. new.answer # None => new.answer.preserved # TRUE
      BY <1>3, <1>6, <2>1 DEF ClosesStep, Clock
    <2>4. new.rotated = None /\ proc <= proc /\ new.token <= new.closed_in
      BY <1>1, <1>6, <2>1, <2>2 DEF ClosesStep
    <2>5. ~(new.rotated = FALSE)
      BY <1>3, <2>4, Zenon
    <2>6. QED
      BY <2>2, <2>3, <2>4, <2>5, Zenon DEF Clock
  <1>7. CASE MeasuresStep(old, new)
    <2>1. old.closed # None
      BY <1>1, <1>7 DEF MeasuresStep, CallOK, After
    <2>2. new.rotated = FALSE => proc = old.token
      BY <1>1, <1>2, <1>3, <1>7 DEF MeasuresStep, Measured
    <2>3. QED
      BY <1>1, <1>2, <1>3, <1>7, <2>1, <2>2 DEF MeasuresStep, Clock, Before
  <1>8. CASE FinishStep(old, new)
    <2>1. new.answer.preserved = TRUE => old.rotated = FALSE
      <3>1. old.rotated \in BOOLEAN \cup {None}
        BY <1>1 DEF Call
      <3>2. QED
        BY <1>3, <1>8, <3>1 DEF FinishStep
    <2>2. QED
      BY <1>1, <1>2, <1>3, <1>8, <2>1 DEF FinishStep, Clock, Before
  <1>9. CASE old.pc = "done" /\ new = Idle
    <2>1. /\ Idle.token = NoToken /\ Idle.closed = None /\ Idle.rotated = None
          /\ Idle.answer = None
      BY DEF Idle
    <2>2. QED
      BY <1>1, <1>9, <2>1, BlankClock
  <1>10. QED
    BY <1>4, <1>5, <1>6, <1>7, <1>8, <1>9 DEF CallStep

LEMMA ClockStep ==
  ASSUME TypeInv, TypeInv', ClockInv, [Next]_vars
  PROVE  ClockInv'
  <1>1. /\ proc \in Nat /\ proc' \in Nat /\ proc' >= proc
        /\ \A k \in Calls : calls[k] \in Call /\ calls'[k] \in Call
    BY ProcGrows DEF TypeInv, TypeOK
  <1>2. \A k \in Calls : Clock(calls[k], proc')
    BY <1>1, ClockKept DEF ClockInv
  <1>3. ASSUME NEW k \in Calls, Step(k)
        PROVE  ClockInv'
    <2>1. PICK new : Goto(k, new) /\ CallStep(k, new)
      BY <1>3, Stepped
    <2>2. \A j \in Calls : calls'[j] = IF j = k THEN new ELSE calls[j]
      BY <2>1, GotoCalls
    <2>3. new \in Call
      BY <1>1, <2>2
    <2>4. Clock(new, proc')
      BY <1>1, <2>1, <2>3, ClockCall, ClockKept DEF ClockInv
    <2>5. QED
      BY <1>2, <2>2, <2>4 DEF ClockInv
  <1>4. ASSUME NEW k \in Calls, NEW sid \in SessionIds, NEW anchor \in Paths,
               Begin(k, sid, anchor)
        PROVE  ClockInv'
    <2> DEFINE new == [Idle EXCEPT !.pc = "census", !.sid = sid, !.anchor = anchor]
    <2>1. /\ new.token = NoToken /\ new.closed = None /\ new.rotated = None
          /\ new.answer = None
      BY DEF Idle
    <2>2. Goto(k, new)
      BY <1>4 DEF Begin
    <2> HIDE DEF new
    <2>3. Clock(new, proc')
      BY <1>1, <2>1, BlankClock
    <2>4. \A j \in Calls : calls'[j] = IF j = k THEN new ELSE calls[j]
      BY <2>2, GotoCalls
    <2>5. QED
      BY <1>2, <2>3, <2>4 DEF ClockInv
  <1>5. ASSUME Environment \/ UNCHANGED vars
        PROVE  ClockInv'
    <2>1. calls' = calls
      BY <1>5 DEF Environment, Read, Deliver, Open, Drop, Rekey, Relaunch, Move, vars
    <2>2. QED
      BY <1>2, <2>1 DEF ClockInv
  <1>6. QED
    BY <1>3, <1>4, <1>5 DEF Next

(* server_process_preserved is never said of a server that was relaunched  *)
(* between the POST that closed the kernel and the measurement, for any    *)
(* number of restarts and relaunches (_measure_token_rotation).            *)
THEOREM PreservedIsTrue == Spec => []PreservedServer
  <1>1. Init => ClockInv
    <2>1. Clock(Idle, 1)
      <3>1. /\ Idle.token = NoToken /\ Idle.closed = None /\ Idle.rotated = None
            /\ Idle.answer = None
        BY DEF Idle
      <3>2. QED
        BY <3>1, BlankClock
    <2>2. QED
      BY <2>1 DEF Init, ClockInv
  <1>2. TypeInv /\ TypeInv' /\ ClockInv /\ [Next]_vars => ClockInv'
    BY ClockStep
  <1>3. TypeInv /\ ClockInv => PreservedServer
    <2> SUFFICES ASSUME TypeInv, ClockInv, NEW k \in Calls, Success(k),
                        calls[k].answer.preserved = TRUE
                 PROVE  calls[k].closed_in = calls[k].measured_in
      BY DEF PreservedServer
    <2>1. calls[k] \in Call /\ calls[k].answer # None
      BY DEF TypeInv, TypeOK, CallsOK, CallOK, Success, At
    <2>2. /\ calls[k].token \in Nat /\ calls[k].closed_in \in Nat
          /\ calls[k].measured_in \in Nat
      BY <2>1 DEF Call
    <2>3. QED
      BY <2>1, <2>2 DEF ClockInv, Clock
  <1>4. QED
    BY <1>1, <1>2, <1>3, Typed, PTL DEF Spec
-----------------------------------------------------------------------------
(* A restart succeeds by Finish and in no other way.                       *)
LEMMA SucceedsByFinish ==
  ASSUME TypeInv, NEW k \in Calls, Step(k), Success(k)'
  PROVE  Finish(k)
  <1> DEFINE old == calls[k]
  <1>1. PICK new : Goto(k, new) /\ CallStep(k, new)
    BY Stepped
  <1>2. calls'[k] = new /\ new.pc = "done" /\ new.answer.reason = "ok"
    BY <1>1, GotoCalls DEF Success, At
  <1>3. old.pc = "finish"
    BY <1>1, <1>2
    DEF CallStep, EarlyStep, SeesStep, ClosesStep, MeasuresStep, FinishStep,
        Before, Idle
  <1>4. ~NotBack(k)
    <2> SUFFICES ASSUME NotBack(k) PROVE FALSE
      OBVIOUS
    <2>1. PICK reason \in {"server_sessionless", "session_not_rematerialized"} :
            Goto(k, Answered(old, reason, TRUE))
      BY DEF NotBack
    <2>2. calls'[k] = Answered(old, reason, TRUE)
      BY <2>1 DEF Goto, TypeInv, TypeOK
    <2>3. old \in Call
      BY DEF TypeInv, TypeOK
    <2>4. Answered(old, reason, TRUE).answer.reason = reason
      BY <2>3 DEF Answered, Call
    <2>5. QED
      BY <1>2, <2>2, <2>4
  <1>5. QED
    BY <1>3, <1>4
    DEF Step, At, ReadCensus, RefuseTarget, AcceptTarget, RepairTarget, Scrape,
        PostCloses, PostFails, Rescrape, Handshake, Poll, PollFails, PollEscapes,
        Measure, Return

(* Steps of calls record nothing.                                          *)
LEMMA CallsRecordNothing ==
  ASSUME TypeInv, NEW k \in Calls, Step(k), NEW s \in SessionIds
  PROVE  tracker'[s].kernels \subseteq tracker[s].kernels
  <1>1. tracker \in [SessionIds -> Entry]
    BY DEF TypeInv, TypeOK
  <1>2. CASE RepairTarget(k)
    BY <1>1, <1>2 DEF RepairTarget, Unrecorded
  <1>3. CASE Finish(k)
    BY <1>1, <1>3 DEF Finish, Reset, Adopt, Unrecorded
  <1>4. CASE UNCHANGED tracker
    BY <1>4
  <1>5. QED
    BY <1>2, <1>3, <1>4
    DEF Step, ReadCensus, RefuseTarget, AcceptTarget, Scrape,
        PostCloses, PostFails, Rescrape, Handshake, Poll, PollFails, PollEscapes,
        Measure, NotBack, Return

(* What a step leaves recorded for the id of a successful restart.         *)
LEMMA AfreshStep ==
  ASSUME TypeInv, YoungInv, [Next]_vars, NEW k \in Calls, Success(k)'
  PROVE  Afresh(k)
  <1> DEFINE call == calls[k]
  <1>1. /\ tracker \in [SessionIds -> Entry] /\ call \in Call
        /\ reads \subseteq [sid: SessionIds, kernel: Nat]
        /\ live \in [SessionIds -> Session \cup {None}]
    BY DEF TypeInv, TypeOK
  <1>2. ASSUME calls'[k] = call
        PROVE  Success(k) /\ call.sid \in SessionIds
    <2>1. Success(k)
      BY <1>2 DEF Success, At
    <2>2. QED
      BY <2>1 DEF Success, At, TypeInv, CallsOK, CallOK
  <1>3. ASSUME calls'[k] = call,
               tracker'[call.sid].kernels \subseteq tracker[call.sid].kernels
        PROVE  Afresh(k)
    BY <1>2, <1>3 DEF Afresh
  <1>4. CASE Finish(k)
    <2>1. /\ Goto(k, Answered(call, "ok", TRUE)) /\ call.pc = "finish"
          /\ tracker' = [tracker EXCEPT ![call.sid] = Reset(@, call.file)]
      BY <1>4 DEF Finish, At
    <2>2. calls'[k].sid = call.sid /\ call.sid \in SessionIds
      <3>1. calls'[k] = Answered(call, "ok", TRUE)
        BY <2>1 DEF Goto, TypeInv, TypeOK
      <3>2. Answered(call, "ok", TRUE).sid = call.sid
        BY <1>1 DEF Answered, Call
      <3>3. QED
        BY <2>1, <3>1, <3>2 DEF TypeInv, CallsOK, CallOK
    <2>3. tracker'[call.sid].kernels = {}
      BY <1>1, <2>1, <2>2 DEF Reset, Adopt, Unrecorded
    <2>4. QED
      BY <2>2, <2>3 DEF Afresh
  <1>5. ASSUME NEW j \in Calls, Step(j), j # k
        PROVE  Afresh(k)
    <2>1. calls'[k] = call
      BY <1>5, Stepped, GotoCalls
    <2>2. QED
      BY <1>2, <1>3, <1>5, <2>1, CallsRecordNothing
  <1>6. ASSUME NEW j \in Calls, NEW sid \in SessionIds, NEW anchor \in Paths,
               Begin(j, sid, anchor)
        PROVE  Afresh(k)
    <2> DEFINE new == [Idle EXCEPT !.pc = "census", !.sid = sid, !.anchor = anchor]
    <2>1. Goto(j, new) /\ new.pc = "census" /\ tracker' = tracker
      BY <1>6 DEF Begin, Idle
    <2> HIDE DEF new
    <2>2. calls'[k] = call
      BY <2>1, GotoCalls DEF Success, At
    <2>3. QED
      BY <1>3, <2>1, <2>2
  <1>7. ASSUME NEW s \in SessionIds, Read(s)
        PROVE  Afresh(k)
    <2>1. calls' = calls /\ live[s] # None
      BY <1>7 DEF Read
    <2>2. /\ \A t \in SessionIds \ {s} : tracker'[t] = tracker[t]
          /\ tracker'[s].owner = live[s].path
          /\ tracker'[s].kernels \subseteq
               tracker[s].kernels \cup {live[s].kernel}
      <3> DEFINE adopted == Adopt(tracker[s], live[s].path)
      <3>1. /\ adopted \in Entry /\ adopted.owner = live[s].path
            /\ adopted.kernels \subseteq tracker[s].kernels
        BY <1>1, <2>1, AdoptType DEF Adopt, Unrecorded, Entry, Session
      <3> HIDE DEF adopted
      <3>2. /\ RecordRead(adopted, live[s].kernel).owner = adopted.owner
            /\ RecordRead(adopted, live[s].kernel).kernels
                 = adopted.kernels \cup {live[s].kernel}
        BY <3>1 DEF RecordRead, Entry
      <3>3. tracker' = [tracker EXCEPT ![s] = adopted]
            \/ tracker' = [tracker EXCEPT ![s] =
                             RecordRead(adopted, live[s].kernel)]
        BY <1>7 DEF Read, adopted
      <3>4. QED
        BY <1>1, <3>1, <3>2, <3>3
    <2>3. CASE call.sid # s
      BY <1>2, <1>3, <2>1, <2>2, <2>3
    <2>4. CASE call.sid = s
      <3>1. ASSUME ClosedOwn(call), tracker'[s].owner = call.file
            PROVE  live[s].kernel > call.closed.kernel
        BY <2>1, <2>2, <3>1 DEF ClosedOwn, YoungInv, Younger
      <3>2. QED
        BY <1>2, <2>1, <2>2, <2>4, <3>1 DEF Afresh
    <2>5. QED
      BY <2>3, <2>4
  <1>8. ASSUME NEW answer \in reads, Deliver(answer)
        PROVE  Afresh(k)
    <2>1. /\ calls' = calls
          /\ tracker' = [tracker EXCEPT ![answer.sid] = RecordRead(@, answer.kernel)]
      BY <1>8 DEF Deliver
    <2>2. answer = [sid |-> answer.sid, kernel |-> answer.kernel]
          /\ answer.sid \in SessionIds
      BY <1>1
    <2>3. CASE call.sid # answer.sid
      BY <1>1, <1>2, <1>3, <2>1, <2>3
    <2>4. CASE call.sid = answer.sid
      <3>1. tracker'[call.sid].kernels = tracker[call.sid].kernels \cup {answer.kernel}
        BY <1>1, <2>1, <2>2, <2>4 DEF RecordRead, Entry
      <3>2. QED
        BY <1>2, <2>1, <2>2, <2>4, <3>1 DEF Afresh
    <2>5. QED
      BY <2>3, <2>4
  <1>9. ASSUME UNCHANGED <<calls, tracker>>
        PROVE  Afresh(k)
    BY <1>3, <1>9
  <1>10. QED
    BY <1>4, <1>5, <1>6, <1>7, <1>8, <1>9, SucceedsByFinish
    DEF Next, Environment, Open, Drop, Rekey, Relaunch, Move, vars

(* After a restart that closed its notebook's kernel and succeeded,        *)
(* nothing read in an earlier kernel is recorded for the notebook under    *)
(* its id, unless by a read that was under way: the clearing of            *)
(* restart_kernel and all that follows it, for any number of restarts,     *)
(* reads and moves, and whatever notebooks the id passes to.               *)
THEOREM RestartsStartAfresh == Spec => StartsAfresh
  <1>1. TypeInv /\ YoungInv /\ [Next]_vars =>
          [\A k \in Calls : Success(k)' => Afresh(k)]_vars
    BY AfreshStep
  <1>2. TypeInv /\ TypeInv' /\ YoungInv /\ [Next]_vars => YoungInv'
    BY YoungStep
  <1>3. QED
    BY <1>1, <1>2, YoungInit, Typed, PTL DEF Spec, StartsAfresh
-----------------------------------------------------------------------------
(* The contract.  What its variables are here:                             *)
Alive == {live[s] : s \in SessionIds} \ {None}
Restarts == [k \in Calls |-> Restart(calls[k])]

LEMMA RestartsGoto ==
  ASSUME TypeInv, NEW k \in Calls, NEW new, Goto(k, new)
  PROVE  /\ Restarts' = [Restarts EXCEPT ![k] = Restart(new)]
         /\ Restarts[k] = Restart(calls[k])
  BY GotoCalls DEF Restarts

LEMMA AliveLoses == Loses => Alive' \in SUBSET Alive
  BY DEF Loses, Alive

LEMMA AliveRenames ==
  ASSUME TypeInv, NEW s \in SessionIds, NEW t \in SessionIds, Renames(s, t)
  PROVE  Alive' = Alive
  <1>1. /\ s # t
        /\ \A u \in SessionIds : live'[u] = IF u = t THEN live[s]
                                            ELSE IF u = s THEN None ELSE live[u]
    BY DEF TypeInv, TypeOK, Renames
  <1>2. live[t] = None
    BY DEF Renames
  <1>3. Alive' \subseteq Alive
    BY <1>1 DEF Alive
  <1>4. Alive \subseteq Alive'
    BY <1>1, <1>2 DEF Alive
  <1>5. QED
    BY <1>3, <1>4

LEMMA AliveAdds ==
  ASSUME TypeInv, NEW s \in SessionIds, NEW path \in Paths, Adds(s, path)
  PROVE  /\ \A kernel \in Alive : kernel.path # path
         /\ Alive' = Alive \cup {Newborn(path)}
  <1>1. \A u \in SessionIds : live'[u] = IF u = s THEN Newborn(path) ELSE live[u]
    BY DEF TypeInv, TypeOK, Adds
  <1>2. Newborn(path) # None /\ live[s] = None
    BY NewbornType DEF Adds
  <1>3. \A kernel \in Alive : kernel.path # path
    BY DEF Adds, Free, Alive
  <1>4. Alive' \subseteq Alive \cup {Newborn(path)}
    BY <1>1 DEF Alive
  <1>5. Alive \subseteq Alive'
    BY <1>1, <1>2 DEF Alive
  <1>6. Newborn(path) \in Alive'
    BY <1>1, <1>2 DEF Alive
  <1>7. QED
    BY <1>3, <1>4, <1>5, <1>6

LEMMA AliveCloses ==
  ASSUME TypeInv, TableOK, NEW k \in Calls, PostCloses(k)
  PROVE  /\ live[calls[k].sid] \in Alive
         /\ Alive' = Alive \ {live[calls[k].sid]}
  <1> DEFINE sid == calls[k].sid
  <1>1. sid \in SessionIds /\ calls[k] \in Call
    BY DEF TypeInv, TypeOK, CallsOK, CallOK, PostCloses, At
  <1>2. live' = [live EXCEPT ![sid] = None]
    BY PostTable
  <1>3. live[sid] # None
    BY <1>1 DEF PostCloses, Call
  <1>4. \A s \in SessionIds : live'[s] = IF s = sid THEN None ELSE live[s]
    BY <1>2 DEF TypeInv, TypeOK
  <1>5. \A s \in SessionIds : s # sid => live[s] # live[sid]
    BY <1>1, <1>3 DEF TableOK
  <1> HIDE DEF sid
  <1>6. Alive' \subseteq Alive \ {live[sid]}
    BY <1>4, <1>5 DEF Alive
  <1>7. Alive \ {live[sid]} \subseteq Alive'
    BY <1>4 DEF Alive
  <1>8. live[sid] \in Alive
    BY <1>1, <1>3 DEF Alive, sid
  <1>9. QED
    BY <1>6, <1>7, <1>8 DEF sid
-----------------------------------------------------------------------------
(* What each step of a call is to its contract.                            *)
LEMMA SaidIs ==
  ASSUME NEW answer, answer # None
  PROVE  /\ answer.reason = "ok" => Said(answer) = "ok"
         /\ answer.reason # "ok" =>
              /\ answer.state_changed = None => Said(answer) = "unknown"
              /\ answer.state_changed = FALSE => Said(answer) = "unchanged"
              /\ answer.state_changed = TRUE => Said(answer) = "changed"
  BY NoneIsNoTruth DEF Said

(* A restart changes in two ways: it ends, or it sees a session.  Records  *)
(* with the same fields are equal.                                         *)
Fields(A, B, C, D, E) == [phase: A, anchor: B, closed: C, seen: D, said: E]

LEMMA SameFields ==
  ASSUME NEW A, NEW B, NEW C, NEW D, NEW E,
         NEW u \in Fields(A, B, C, D, E), NEW v \in Fields(A, B, C, D, E),
         u.phase = v.phase, u.anchor = v.anchor, u.closed = v.closed,
         u.seen = v.seen, u.said = v.said
  PROVE  u = v
  BY DEF Fields

LEMMA RestartEnds ==
  ASSUME NEW old, NEW new, new.pc = "done", new.anchor = old.anchor,
         new.closed = old.closed, new.verified = old.verified
  PROVE  Restart(new) = [Restart(old) EXCEPT !.phase = "done",
                                             !.said = Said(new.answer)]
  <1> DEFINE R == Fields({Stage(old), "done"}, {old.anchor}, {old.closed},
                         {old.verified}, {Said(old.answer), Said(new.answer)})
             u == [Restart(old) EXCEPT !.phase = "done", !.said = Said(new.answer)]
             v == Restart(new)
  <1>1. Stage(new) = "done"
    BY DEF Stage
  <1>2. Restart(old) \in R
    BY DEF Fields, Restart
  <1>3. u \in R
    BY <1>2 DEF Fields
  <1>4. v \in R
    BY <1>1 DEF Fields, Restart
  <1>5. /\ u.phase = "done" /\ u.anchor = old.anchor /\ u.closed = old.closed
        /\ u.seen = old.verified /\ u.said = Said(new.answer)
    BY <1>2 DEF Fields
  <1>6. /\ v.phase = "done" /\ v.anchor = old.anchor /\ v.closed = old.closed
        /\ v.seen = old.verified /\ v.said = Said(new.answer)
    BY <1>1 DEF Restart
  <1> HIDE DEF u, v
  <1>7. u = v
    BY <1>3, <1>4, <1>5, <1>6, SameFields
  <1>8. QED
    BY <1>7, Zenon DEF u, v

LEMMA RestartGoesOn ==
  ASSUME NEW old, NEW new, new.pc \notin {"idle", "done"},
         old.pc \notin {"idle", "done"}, new.anchor = old.anchor,
         new.closed = old.closed, new.answer = old.answer
  PROVE  Restart(new) = [Restart(old) EXCEPT !.seen = new.verified]
  <1> DEFINE R == Fields({Stage(old)}, {old.anchor}, {old.closed},
                         {old.verified, new.verified}, {Said(old.answer)})
             u == [Restart(old) EXCEPT !.seen = new.verified]
             v == Restart(new)
  <1>1. Stage(new) = Stage(old)
    BY DEF Stage
  <1>2. Restart(old) \in R
    BY DEF Fields, Restart
  <1>3. u \in R
    BY <1>2 DEF Fields
  <1>4. v \in R
    BY <1>1 DEF Fields, Restart
  <1>5. /\ u.phase = Stage(old) /\ u.anchor = old.anchor /\ u.closed = old.closed
        /\ u.seen = new.verified /\ u.said = Said(old.answer)
    BY <1>2 DEF Fields
  <1>6. /\ v.phase = Stage(old) /\ v.anchor = old.anchor /\ v.closed = old.closed
        /\ v.seen = new.verified /\ v.said = Said(old.answer)
    BY <1>1 DEF Restart
  <1> HIDE DEF u, v
  <1>7. u = v
    BY <1>3, <1>4, <1>5, <1>6, SameFields
  <1>8. QED
    BY <1>7, Zenon DEF u, v

LEMMA StageIs ==
  ASSUME NEW old, old.pc \notin {"idle", "done"}
  PROVE  /\ old.closed = None => Restart(old).phase = "open"
         /\ old.closed # None => Restart(old).phase = "closed"
         /\ Restart(old).seen = old.verified
         /\ Restart(old).closed = old.closed
         /\ Restart(old).anchor = old.anchor
  BY DEF Restart, Stage

LEMMA Stutters ==
  ASSUME Alive' = Alive, spawned' = spawned, Restarts' = Restarts
  PROVE  UNCHANGED Contract!vars
  BY DEF Contract!vars, Restarts, Alive

LEMMA Says ==
  ASSUME TypeInv, NEW k \in Calls, NEW new, Goto(k, new),
         Alive' = Alive, spawned' = spawned,
         calls[k].pc \notin {"idle", "done"}, new.pc = "done",
         new.anchor = calls[k].anchor, new.closed = calls[k].closed,
         new.verified = calls[k].verified,
         \/ Said(new.answer) = "unknown"
         \/ Said(new.answer) = "unchanged" /\ calls[k].closed = None
         \/ Said(new.answer) = "changed" /\ calls[k].closed # None
         \/ Said(new.answer) = "ok" /\ calls[k].verified # None
  PROVE  Contract!Say(k)
  <1> DEFINE old == calls[k]
             said == Said(new.answer)
  <1>1. /\ Restarts' = [Restarts EXCEPT ![k] = Restart(new)]
        /\ Restarts[k] = Restart(old)
    BY RestartsGoto
  <1>2. Restart(new) = [Restart(old) EXCEPT !.phase = "done", !.said = said]
    BY RestartEnds
  <1> HIDE DEF said
  <1>3. said \in Contract!MaySay(Restart(old))
    <2>1. /\ old.closed = None => Restart(old).phase = "open"
          /\ old.closed # None => Restart(old).phase = "closed"
          /\ Restart(old).seen = old.verified
      BY StageIs
    <2>2. QED
      BY <2>1 DEF Contract!MaySay, said
  <1>4. Restart(old).phase \in {"open", "closed"}
    BY StageIs
  <1>5. QED
    BY <1>1, <1>2, <1>3, <1>4
    DEF Contract!Say, Contract!In, Contract!Ends, Contract!Becomes, Restarts, Alive

LEMMA EarlyGoes ==
  ASSUME TypeInv, NEW k \in Calls, NEW new, Goto(k, new), EarlyStep(calls[k], new),
         new.pc # "done"
  PROVE  Restarts' = Restarts
  <1> DEFINE old == calls[k]
  <1>1. /\ old.pc \notin {"idle", "done"} /\ new.pc \notin {"idle", "done"}
        /\ new.anchor = old.anchor /\ new.closed = old.closed
        /\ new.answer = old.answer /\ new.verified = old.verified
    BY DEF EarlyStep, Before
  <1>2. Restart(new) = [Restart(old) EXCEPT !.seen = new.verified]
    BY <1>1, RestartGoesOn
  <1>3. Restart(new) = Restart(old)
    BY <1>1, <1>2 DEF Restart
  <1>4. QED
    BY <1>3, RestartsGoto DEF Restarts

LEMMA EarlyRefines ==
  ASSUME TypeInv, NEW k \in Calls, NEW new, Goto(k, new), EarlyStep(calls[k], new),
         Alive' = Alive, spawned' = spawned
  PROVE  Contract!Say(k) \/ UNCHANGED Contract!vars
  <1> DEFINE old == calls[k]
  <1>1. old.pc \notin {"idle", "done"}
    BY DEF EarlyStep, Before
  <1>2. CASE new.pc # "done"
    <2>1. Restarts' = Restarts
      BY <1>1, <1>2, EarlyGoes
    <2>2. QED
      BY <2>1, Stutters
  <1>3. CASE new.pc = "done"
    <2>1. /\ new.answer # None /\ new.answer.reason # "ok"
          /\ \/ new.answer.state_changed = None
             \/ new.answer.state_changed = FALSE /\ old.closed = None
      BY <1>3 DEF EarlyStep, Before
    <2>2. \/ Said(new.answer) = "unknown"
          \/ Said(new.answer) = "unchanged" /\ old.closed = None
      BY <2>1, SaidIs
    <2>3. /\ new.anchor = old.anchor /\ new.closed = old.closed
          /\ new.verified = old.verified
      BY DEF EarlyStep
    <2>4. QED
      BY <1>1, <1>3, <2>2, <2>3, Says
  <1>4. QED
    BY <1>2, <1>3

LEMMA SeesRefines ==
  ASSUME TypeInv, RightInv, SuccessInv, NEW k \in Calls, NEW new, Goto(k, new),
         SeesStep(calls[k], new), Alive' = Alive, spawned' = spawned
  PROVE  \E kernel \in Alive : Contract!See(k, kernel)
  <1> DEFINE old == calls[k]
             kernel == live[old.sid]
  <1>1. /\ old.closed # None /\ kernel.path = old.closed.path
        /\ kernel.kernel > old.closed.kernel
    BY SeenIsYounger DEF SeesStep
  <1>2. kernel \in Alive
    BY DEF SeesStep, Alive, TypeInv, TypeOK, CallsOK, CallOK
  <1>3. /\ old.pc = "poll" /\ new.pc = "measure" /\ new.verified = kernel
        /\ new.anchor = old.anchor /\ new.closed = old.closed
        /\ new.answer = old.answer
    BY DEF SeesStep
  <1> HIDE DEF kernel
  <1>4. Restart(new) = [Restart(old) EXCEPT !.seen = kernel]
    <2>1. Restart(new) = [Restart(old) EXCEPT !.seen = new.verified]
      BY <1>3, RestartGoesOn
    <2>2. QED
      BY <1>3, <2>1
  <1>5. Restart(old).phase = "closed" /\ Restart(old).closed = old.closed
    BY <1>1, <1>3, StageIs
  <1>6. Restarts' = [Restarts EXCEPT ![k] = Restart(new)] /\ Restarts[k] = Restart(old)
    BY RestartsGoto
  <1>7. Contract!See(k, kernel)
    BY <1>1, <1>4, <1>5, <1>6
    DEF Contract!See, Contract!In, Contract!Becomes, Restarts, Alive
  <1>8. QED
    BY <1>2, <1>7

LEMMA RestartCloses ==
  ASSUME NEW old, NEW new, new.pc = "handshake", new.anchor = old.anchor,
         new.closed # None, new.verified = old.verified, new.answer = old.answer
  PROVE  Restart(new) = [Restart(old) EXCEPT !.phase = "closed",
                                             !.closed = new.closed]
  <1> DEFINE R == Fields({Stage(old), "closed"}, {old.anchor},
                         {old.closed, new.closed}, {old.verified},
                         {Said(old.answer)})
             u == [Restart(old) EXCEPT !.phase = "closed", !.closed = new.closed]
             v == Restart(new)
  <1>1. Stage(new) = "closed"
    BY DEF Stage
  <1>2. Restart(old) \in R
    BY DEF Fields, Restart
  <1>3. u \in R
    BY <1>2 DEF Fields
  <1>4. v \in R
    BY <1>1 DEF Fields, Restart
  <1>5. /\ u.phase = "closed" /\ u.anchor = old.anchor /\ u.closed = new.closed
        /\ u.seen = old.verified /\ u.said = Said(old.answer)
    BY <1>2 DEF Fields
  <1>6. /\ v.phase = "closed" /\ v.anchor = old.anchor /\ v.closed = new.closed
        /\ v.seen = old.verified /\ v.said = Said(old.answer)
    BY <1>1 DEF Restart
  <1> HIDE DEF u, v
  <1>7. u = v
    BY <1>3, <1>4, <1>5, <1>6, SameFields
  <1>8. QED
    BY <1>7, Zenon DEF u, v

LEMMA ClosesRefines ==
  ASSUME TypeInv, TypeInv', RightInv', SuccessInv, NEW k \in Calls, NEW new,
         Goto(k, new), PostCloses(k), ClosesStep(calls[k], new)
  PROVE  \E kernel \in Alive : Contract!Close(k, kernel)
  <1> DEFINE old == calls[k]
             kernel == live[old.sid]
             mid == [old EXCEPT !.pc = "handshake", !.closed = kernel]
  <1>1. kernel \in Alive /\ Alive' = Alive \ {kernel} /\ spawned' = spawned
    BY AliveCloses, PostTable DEF SuccessInv, YoungInv, Loses
  <1>2. /\ old \in Call /\ old.pc = "post" /\ old.closed = None
    BY DEF TypeInv, TypeOK, CallsOK, CallOK, ClosesStep, Before
  <1>3. /\ new.closed = kernel /\ kernel # None /\ new.anchor = old.anchor
        /\ new.verified = old.verified
        /\ \/ new.pc = "handshake" /\ new.answer = old.answer
           \/ /\ new.pc = "done" /\ new.answer # None
              /\ new.answer.reason # "ok" /\ new.answer.state_changed = None
    BY DEF ClosesStep
  <1>4. old.anchor \in {Unsaved, kernel.path}
    <2>1. calls'[k] = new
      BY GotoCalls
    <2>2. QED
      BY <1>3, <2>1 DEF RightInv, ClosedRight
  <1> HIDE DEF kernel
  <1>5. /\ mid.pc = "handshake" /\ mid.anchor = old.anchor /\ mid.closed = kernel
        /\ mid.verified = old.verified /\ mid.answer = old.answer
    BY <1>2 DEF Call
  <1> HIDE DEF mid
  <1>6. Restarts' = [Restarts EXCEPT ![k] = Restart(new)] /\ Restarts[k] = Restart(old)
    BY RestartsGoto
  <1>7. /\ Restart(old).phase = "open" /\ Restart(old).anchor = old.anchor
    BY <1>2, StageIs
  <1> DEFINE restart == [Restart(old) EXCEPT !.phase = "closed", !.closed = kernel]
  <1>8. Restart(mid) = restart
    <2>1. Restart(mid) = [Restart(old) EXCEPT !.phase = "closed", !.closed = mid.closed]
      BY <1>3, <1>5, RestartCloses
    <2>2. QED
      BY <1>5, <2>1
  <1>9. restart.anchor = old.anchor
    <2>1. Restart(mid).anchor = mid.anchor
      BY <1>5, StageIs
    <2>2. QED
      BY <1>5, <1>8, <2>1
  <1>10. \/ Restart(new) = restart
         \/ Restart(new) = [restart EXCEPT !.phase = "done", !.said = "unknown"]
    <2>1. CASE new.pc = "handshake"
      <3>1. new.answer = old.answer
        BY <1>3, <2>1
      <3>2. Restart(new) = [Restart(old) EXCEPT !.phase = "closed",
                                                !.closed = new.closed]
        BY <1>3, <2>1, <3>1, RestartCloses
      <3>3. QED
        BY <1>3, <3>2
    <2>2. CASE new.pc = "done"
      <3>1. Said(new.answer) = "unknown"
        BY <1>3, <2>2, SaidIs
      <3>2. Restart(new) = [Restart(mid) EXCEPT !.phase = "done",
                                                !.said = Said(new.answer)]
        <4>1. /\ new.anchor = mid.anchor /\ new.closed = mid.closed
              /\ new.verified = mid.verified
          BY <1>3, <1>5
        <4>2. QED
          BY <2>2, <4>1, RestartEnds
      <3>3. QED
        BY <1>8, <3>1, <3>2
    <2>3. QED
      BY <1>3, <2>1, <2>2
  <1> HIDE DEF restart
  <1>11. Contract!Close(k, kernel)
    BY <1>1, <1>4, <1>6, <1>7, <1>9, <1>10, Zenon
    DEF Contract!Close, Contract!In, Contract!Becomes, Restarts, Alive, restart
  <1>12. kernel \in Alive
    BY <1>1
  <1>13. QED
    BY <1>11, <1>12, Zenon DEF Contract!Close

LEMMA HandshakeRefines ==
  ASSUME TypeInv, RightInv, NEW k \in Calls, Handshake(k)
  PROVE  Contract!Renew(k) \/ UNCHANGED Contract!vars
  <1> DEFINE old == calls[k]
  <1>1. Restarts' = Restarts
    BY EarlyHandshake, EarlyGoes
  <1>2. /\ old.pc = "handshake" /\ old.closed # None /\ old.sid \in SessionIds
        /\ old.file \in Paths /\ old.closed.path = old.file
    BY DEF Handshake, At, TypeInv, CallsOK, CallOK, After, RightInv, ClosedRight
  <1>3. CASE UNCHANGED <<live, spawned>>
    BY <1>1, <1>3, Stutters DEF Alive
  <1>4. CASE \E t \in SessionIds : Renames(t, old.sid)
    BY <1>1, <1>2, <1>4, AliveRenames, Stutters DEF Renames
  <1>5. CASE Adds(old.sid, old.file)
    <2>1. /\ \A kernel \in Alive : kernel.path # old.file
          /\ Alive' = Alive \cup {Newborn(old.file)}
          /\ spawned' = spawned + 1
      BY <1>2, <1>5, AliveAdds DEF Adds
    <2>2. /\ Restarts[k] = Restart(old) /\ Restart(old).phase = "closed"
          /\ Restart(old).closed = old.closed
      BY <1>2, StageIs DEF Restarts
    <2>3. QED
      BY <1>1, <1>2, <2>1, <2>2
      DEF Contract!Renew, Contract!Born, Contract!In, Newborn, Alive, Restarts
  <1>6. QED
    BY <1>3, <1>4, <1>5, HandshakeTable

LEMMA RestartIdle == Restart(Idle) = Contract!NoRestart
  BY DEF Restart, Stage, Said, Idle, Contract!NoRestart

LEMMA ReturnRefines ==
  ASSUME TypeInv, NEW k \in Calls, Goto(k, Idle), calls[k].pc = "done",
         Alive' = Alive, spawned' = spawned
  PROVE  Contract!Return(k)
  <1>1. /\ Restarts' = [Restarts EXCEPT ![k] = Restart(Idle)]
        /\ Restarts[k] = Restart(calls[k])
    BY RestartsGoto DEF Idle
  <1>2. Restart(calls[k]).phase = "done"
    BY DEF Restart, Stage
  <1>3. QED
    BY <1>1, <1>2, RestartIdle
    DEF Contract!Return, Contract!In, Contract!Becomes, Restarts, Alive

LEMMA BeginRefines ==
  ASSUME TypeInv, NEW k \in Calls, NEW sid \in SessionIds, NEW anchor \in Paths,
         Begin(k, sid, anchor)
  PROVE  Contract!Ask(k, anchor)
  <1> DEFINE new == [Idle EXCEPT !.pc = "census", !.sid = sid, !.anchor = anchor]
             none == Contract!NoRestart
             u == [none EXCEPT !.phase = "open", !.anchor = anchor]
             v == Restart(new)
             R == Fields({"idle", "open"}, {Unsaved, anchor}, {None}, {None}, {None})
  <1>1. /\ new.pc = "census" /\ new.anchor = anchor /\ new.closed = None
        /\ new.verified = None /\ new.answer = None
    BY DEF Idle
  <1>2. Goto(k, new) /\ UNCHANGED <<live, spawned>> /\ calls[k].pc = "idle"
    BY DEF Begin, Server, At
  <1> HIDE DEF new
  <1>3. Stage(new) = "open" /\ Said(new.answer) = None
    BY <1>1 DEF Stage, Said
  <1>4. v \in R
    BY <1>1, <1>3 DEF Restart, Fields
  <1>5. none \in R
    BY DEF Contract!NoRestart, Fields
  <1>6. none.closed = None /\ none.seen = None /\ none.said = None
    BY DEF Contract!NoRestart
  <1>7. /\ v.phase = "open" /\ v.anchor = anchor /\ v.closed = None
        /\ v.seen = None /\ v.said = None
    BY <1>1, <1>3 DEF Restart
  <1> HIDE DEF none
  <1>8. u \in R
    BY <1>5 DEF Fields
  <1>9. /\ u.phase = "open" /\ u.anchor = anchor /\ u.closed = None
        /\ u.seen = None /\ u.said = None
    BY <1>5, <1>6 DEF Fields
  <1> HIDE DEF u, v
  <1>10. u = v
    BY <1>4, <1>7, <1>8, <1>9, SameFields
  <1>11. /\ Restarts' = [Restarts EXCEPT ![k] = Restart(new)]
         /\ Restarts[k] = Restart(calls[k])
    BY <1>2, RestartsGoto
  <1>12. Restart(calls[k]).phase = "idle"
    BY <1>2 DEF Restart, Stage
  <1>13. Alive' = Alive /\ spawned' = spawned
    BY <1>2 DEF Alive
  <1>14. Restart(new) = [Contract!NoRestart EXCEPT !.phase = "open", !.anchor = anchor]
    BY <1>10, Zenon DEF u, v, none
  <1>15. QED
    BY <1>11, <1>12, <1>13, <1>14
    DEF Contract!Ask, Contract!In, Contract!Becomes, Restarts, Alive

(* Browsers and the server start kernels, stop them, and re-key them,      *)
(* which the contract does not see.                                        *)
LEMMA EnvironmentRefines ==
  ASSUME TypeInv, Environment
  PROVE  [Contract!Next]_Contract!vars
  <1>1. Restarts' = Restarts
    BY DEF Environment, Read, Deliver, Open, Drop, Rekey, Relaunch, Move, Restarts
  <1>2. CASE Loses
    <2>1. Alive' \in SUBSET Alive /\ spawned' = spawned
      BY <1>2, AliveLoses DEF Loses
    <2>2. Contract!Stop
      BY <1>1, <2>1 DEF Contract!Stop, Alive, Restarts
    <2>3. QED
      BY <2>2 DEF Contract!Next
  <1>3. ASSUME NEW s \in SessionIds, NEW path \in Paths, Adds(s, path)
        PROVE  [Contract!Next]_Contract!vars
    <2>1. /\ \A kernel \in Alive : kernel.path # path
          /\ Alive' = Alive \cup {Newborn(path)} /\ spawned' = spawned + 1
      BY <1>3, AliveAdds DEF Adds
    <2>2. Contract!Start(path)
      BY <1>1, <2>1
      DEF Contract!Start, Contract!Born, Newborn, Alive, Restarts
    <2>3. QED
      BY <2>2 DEF Contract!Next
  <1>4. ASSUME NEW s \in SessionIds, NEW t \in SessionIds, Renames(s, t)
        PROVE  [Contract!Next]_Contract!vars
    BY <1>1, <1>4, AliveRenames, Stutters DEF Renames
  <1>5. QED
    BY <1>2, <1>3, <1>4, EnvironmentTable

LEMMA CallRefines ==
  ASSUME TypeInv, TypeInv', RightInv, RightInv', SuccessInv, NEW k \in Calls, Step(k)
  PROVE  [Contract!Next]_Contract!vars
  <1> DEFINE old == calls[k]
  <1>1. CASE Handshake(k)
    BY <1>1, HandshakeRefines DEF Contract!Next
  <1>2. ASSUME NEW new, Goto(k, new), PostCloses(k), ClosesStep(old, new)
        PROVE  Contract!Next
    <2>1. \E kernel \in Alive : Contract!Close(k, kernel)
      BY <1>2, ClosesRefines
    <2>2. QED
      BY <2>1 DEF Contract!Next, Alive
  <1>3. CASE PostCloses(k)
    BY <1>2, <1>3, PostStepped
  <1>4. CASE ~Handshake(k) /\ ~PostCloses(k)
    <2>1. Alive' = Alive /\ spawned' = spawned
      BY <1>4 DEF Step, ReadCensus, RefuseTarget, AcceptTarget, RepairTarget,
                  Scrape, PostFails, Rescrape, Poll, PollFails, PollEscapes,
                  Measure, Finish, NotBack, Return, Server, Alive
    <2>2. PICK new : Goto(k, new) /\ CallStep(k, new)
      BY Stepped
    <2>3. old \in Call /\ CallOK(old) /\ Seen(old)
      BY DEF TypeInv, TypeOK, CallsOK, SuccessInv, YoungInv
    <2>4. CASE EarlyStep(old, new)
      BY <2>1, <2>2, <2>4, EarlyRefines DEF Contract!Next
    <2>5. CASE SeesStep(old, new)
      <3>1. \E kernel \in Alive : Contract!See(k, kernel)
        BY <2>1, <2>2, <2>5, SeesRefines
      <3>2. QED
        BY <3>1 DEF Contract!Next, Alive
    <2>6. CASE MeasuresStep(old, new)
      <3>1. /\ old.pc \notin {"idle", "done"} /\ new.pc \notin {"idle", "done"}
            /\ new.anchor = old.anchor /\ new.closed = old.closed
            /\ new.answer = old.answer /\ new.verified = old.verified
        BY <2>6 DEF MeasuresStep
      <3>2. Restart(new) = Restart(old)
        BY <3>1 DEF Restart, Stage
      <3>3. Restarts' = Restarts
        BY <2>2, <3>2, RestartsGoto DEF Restarts
      <3>4. QED
        BY <2>1, <3>3, Stutters
    <2>7. CASE FinishStep(old, new)
      <3>1. /\ old.pc = "finish" /\ new.pc = "done"
            /\ new.anchor = old.anchor /\ new.closed = old.closed
            /\ new.verified = old.verified
            /\ new.answer # None /\ new.answer.state_changed = TRUE
        BY <2>7 DEF FinishStep
      <3>2. old.closed # None
        BY <2>3, <3>1 DEF CallOK, After
      <3>3. new.answer.reason = "ok" => old.verified # None
        BY <2>3, <2>7 DEF FinishStep, Succeeded, Seen
      <3>4. \/ Said(new.answer) = "changed" /\ old.closed # None
            \/ Said(new.answer) = "ok" /\ old.verified # None
        BY <3>1, <3>2, <3>3, SaidIs
      <3>5. Contract!Say(k)
        BY <2>1, <2>2, <3>1, <3>4, Says
      <3>6. QED
        BY <3>5 DEF Contract!Next
    <2>8. CASE old.pc = "done" /\ new = Idle
      BY <2>1, <2>2, <2>8, ReturnRefines DEF Contract!Next
    <2>9. QED
      BY <1>4, <2>2, <2>4, <2>5, <2>6, <2>7, <2>8 DEF CallStep
  <1>5. QED
    BY <1>1, <1>3, <1>4

LEMMA ContractStep ==
  ASSUME TypeInv, TypeInv', RightInv, RightInv', SuccessInv, [Next]_vars
  PROVE  [Contract!Next]_Contract!vars
  <1>1. ASSUME NEW k \in Calls, NEW sid \in SessionIds, NEW anchor \in Paths,
               Begin(k, sid, anchor)
        PROVE  Contract!Next
    BY <1>1, BeginRefines DEF Contract!Next
  <1>2. CASE UNCHANGED vars
    BY <1>2 DEF vars, Contract!vars
  <1>3. QED
    BY <1>1, <1>2, CallRefines, EnvironmentRefines DEF Next

LEMMA ContractInit == Init => Contract!Init
  <1> SUFFICES ASSUME Init PROVE Contract!Init
    OBVIOUS
  <1>1. Alive \in SUBSET [path: Paths, kernel: {1}]
    <2>1. PICK first \in SUBSET SessionIds, at \in [SessionIds -> Paths] :
            live = [s \in SessionIds |->
                      IF s \in first THEN [path |-> at[s], kernel |-> 1] ELSE None]
      BY DEF Init
    <2>2. QED
      BY <2>1 DEF Alive
  <1>2. Restarts = [k \in Calls |-> Contract!NoRestart]
    BY RestartIdle DEF Restarts, Init
  <1>3. QED
    BY <1>1, <1>2 DEF Contract!Init, Init, Alive, Restarts

(* restart_kernel implements RestartContract for any number of calls, ids, *)
(* notebooks, attempts and moves, as long as no id passes to another       *)
(* notebook under a restart: whatever ids, tokens, polls and lost answers  *)
(* do, one kernel at most is closed by a call, the right one, and what the *)
(* call says of it is true.                                                *)
THEOREM ImplementsContract ==
  ASSUME ~ReuseInFlight
  PROVE  Spec => KeepsContract
  <1>1. Init => Contract!Init
    BY ContractInit
  <1>2. TypeInv /\ TypeInv' /\ RightInv /\ RightInv' /\ SuccessInv /\ [Next]_vars
          => [Contract!Next]_Contract!vars
    BY ContractStep
  <1>3. QED
    BY <1>1, <1>2, Succeeds, PTL DEF Spec, KeepsContract, Contract!Spec
=============================================================================
