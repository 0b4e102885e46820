-------------------------- MODULE EditRetryProofs ---------------------------
(***************************************************************************)
(* Theorems about EditRetry, for any number of notebooks, sessions, cells, *)
(* interferences and lost requests.  A step of the loop is a step of one   *)
(* call of CoWork, so what CoWorkProofs says of a call's step applies, and *)
(* a single agent always agrees with itself about its sessions.            *)
(***************************************************************************)
EXTENDS EditRetry, CoWorkProofs

(* The calls the loop begins.                                              *)
AgentBegins ==
    \E op \in {"edit", "data", "inspect"}, sid \in SessionIds, bound \in Paths,
       key \in Keys \cup {None}, source \in Hashes \cup {None}, fresh \in BOOLEAN :
        /\ Begin(Agent, op, sid, bound, key, source, fresh)
        /\ begun' = begun
        /\ op \in {"edit", "data"} => key = Target /\ bound = BoundPath
        /\ op = "edit" => source = Goal /\ fresh
        /\ op = "inspect" => bound = Unsaved

LEMMA RetryConstants ==
  /\ Agent \in Calls /\ Target \in Cells /\ Target \in Keys /\ Goal \in Hashes
  /\ BoundPath \in Paths /\ Unsaved \in Paths /\ BoundPath # Unsaved
  /\ {"edit", "data", "inspect"} \subseteq AllTools
  BY EditRetryAssumption, CoWorkAssumption DEF AllTools

LEMMA BeginsAreAgents ==
  ASSUME RetryTypeOK, BeginEdit \/ BeginRead \/ BeginBind
  PROVE  AgentBegins
  <1>1. CASE BeginEdit
    BY <1>1, RetryConstants DEF BeginEdit, AgentBegins, RetryTypeOK
  <1>2. CASE BeginRead
    BY <1>2, RetryConstants DEF BeginRead, AgentBegins, RetryTypeOK
  <1>3. CASE BeginBind
    BY <1>3, RetryConstants DEF BeginBind, AgentBegins, RetryTypeOK
  <1>4. QED
    BY <1>1, <1>2, <1>3

(* Every step of the loop is one of CoWork, up to the count of calls.      *)
LEMMA RetryStepIs ==
  ASSUME RetryTypeOK, [RetryNext]_retryVars
  PROVE  \/ AgentBegins
         \/ Step(Agent) \/ Fail(Agent)
         \/ Interference
         \/ UNCHANGED vars
  <1>1. ASSUME RetryResolve \/ RetryGuard \/ RetryRead \/ RetryWrite \/ RetryOther
        PROVE  Step(Agent)
    BY <1>1 DEF RetryResolve, RetryGuard, RetryRead, RetryWrite, RetryOther, Step
  <1>2. ASSUME ServerRefuses \/ RequestLost
        PROVE  Fail(Agent)
    BY <1>2 DEF ServerRefuses, RequestLost
  <1>3. QED
    BY <1>1, <1>2, BeginsAreAgents DEF RetryNext, AgentStep, retryVars

LEMMA RetryTypeStep ==
  RetryTypeOK /\ [RetryNext]_retryVars => RetryTypeOK'
  <1> SUFFICES ASSUME RetryTypeOK, [RetryNext]_retryVars
               PROVE  RetryTypeOK'
    OBVIOUS
  <1>1. MaxFaults \in Nat
    BY EditRetryAssumption
  <1>2. CASE BeginEdit \/ BeginRead
    BY <1>2 DEF BeginEdit, BeginRead, RetryTypeOK
  <1>3. CASE BeginBind
    BY <1>3 DEF BeginBind, RetryTypeOK
  <1>4. CASE RetryResolve
    BY <1>4 DEF RetryResolve, RetryTypeOK
  <1>5. CASE RetryGuard
    BY <1>5 DEF RetryGuard, Advice, RetryTypeOK
  <1>6. CASE RetryRead
    BY <1>6 DEF RetryRead, RetryTypeOK
  <1>7. CASE RetryWrite
    BY <1>1, <1>7 DEF RetryWrite, RetryTypeOK
  <1>8. CASE RetryOther \/ ServerRefuses \/ Interference
    BY <1>8 DEF RetryOther, ServerRefuses, Interference, RetryTypeOK
  <1>9. CASE RequestLost
    BY <1>1, <1>9 DEF RequestLost, RetryTypeOK
  <1>10. CASE UNCHANGED retryVars
    BY <1>10 DEF retryVars, RetryTypeOK
  <1>11. QED
    BY <1>2, <1>3, <1>4, <1>5, <1>6, <1>7, <1>8, <1>9, <1>10
    DEF RetryNext, AgentStep

-----------------------------------------------------------------------------
(* What a step of a call leaves as it is.                                  *)
LEMMA StepKeeps ==
  ASSUME TypeInv, NEW k \in Calls, Step(k) \/ Fail(k)
  PROVE  /\ \A j \in Calls \ {k} : calls'[j] = calls[j]
         /\ \/ calls'[k] = Idle
            \/ /\ calls'[k].op = calls[k].op
               /\ calls'[k].source = calls[k].source
               /\ calls'[k].bound = calls[k].bound
               /\ calls'[k].fresh = calls[k].fresh
               /\ calls[k].op # "create" => calls'[k].key = calls[k].key
  <1> DEFINE call == calls[k]
  <1>1. call \in Call /\ calls \in [Calls -> Call]
    BY DEF TypeInv, TypeOK
  <1>2. ASSUME NEW next, Goto(k, next),
               \/ next = Idle
               \/ /\ next.op = call.op
                  /\ next.source = call.source
                  /\ next.bound = call.bound
                  /\ next.fresh = call.fresh
                  /\ call.op # "create" => next.key = call.key
        PROVE  /\ \A j \in Calls \ {k} : calls'[j] = calls[j]
               /\ \/ calls'[k] = Idle
                  \/ /\ calls'[k].op = call.op
                     /\ calls'[k].source = call.source
                     /\ calls'[k].bound = call.bound
                     /\ calls'[k].fresh = call.fresh
                     /\ call.op # "create" => calls'[k].key = call.key
    BY <1>1, <1>2 DEF Goto
  <1>3. CASE Return(k)
    BY <1>2, <1>3 DEF Return
  <1>4. CASE Resolve(k) \/ Repair(k)
    BY <1>1, <1>2, <1>3, <1>4 DEF Resolve, Repair, Resolved, Call
  <1>5. CASE Recensus(k)
    BY <1>1, <1>2, <1>3, <1>5 DEF Recensus, Call
  <1>6. CASE Exec(k) \/ RefreshRead(k)
    <2>1. PICK pc, fps : Goto(k, [call EXCEPT !.pc = pc, !.fps = fps])
      BY <1>6 DEF Exec, RefreshRead
    <2>2. QED
      BY <1>1, <1>2, <2>1 DEF Call
  <1>7. CASE Guard(k) \/ Validate(k)
    BY <1>1, <1>2, <1>3, <1>7 DEF Guard, Validate, Call
  <1>8. CASE WriteEdit(k) \/ WriteDelete(k)
    BY <1>1, <1>2, <1>3, <1>8 DEF WriteEdit, WriteDelete, Written, Call
  <1>9. CASE WriteCreate(k)
    <2>1. PICK c : Written(k, [call EXCEPT !.key = c])
      BY <1>9 DEF WriteCreate
    <2>2. call.op = "create"
      BY <1>9 DEF WriteCreate
    <2>3. QED
      BY <1>1, <1>2, <1>3, <2>1, <2>2 DEF Written, Call
  <1>10. CASE DeliverMap(k) \/ DeliverData(k) \/ Record(k) \/ Fail(k)
    BY <1>3, <1>10 DEF DeliverMap, DeliverData, Record, Fail
  <1>11. QED
    BY <1>4, <1>5, <1>6, <1>7, <1>8, <1>9, <1>10 DEF Step

-----------------------------------------------------------------------------
(* Only the agent's slot is in use, and a call under way is the loop's.    *)
OnlyAgent ==
    \A k \in Calls \ {Agent} : calls[k] = Idle

OwnCall ==
    ~At(Agent, "idle") =>
        /\ calls[Agent].op \in {"edit", "data", "inspect"}
        /\ calls[Agent].op \in {"edit", "data"} =>
             calls[Agent].key = Target /\ calls[Agent].bound = BoundPath
        /\ calls[Agent].op = "edit" =>
             calls[Agent].source = Goal /\ calls[Agent].fresh
        /\ calls[Agent].op = "inspect" => calls[Agent].bound = Unsaved

RetryInv ==
    /\ TypeInv /\ RetryTypeOK
    /\ OnlyAgent /\ OwnCall
    /\ Entries /\ Answers

LEMMA OnlyAgentAgrees ==
  ASSUME OnlyAgent
  PROVE  Agreement
  <1>1. \A k \in Calls : calls[k].p # None => k = Agent
    BY DEF OnlyAgent, Idle
  <1>2. QED
    BY <1>1 DEF Agreement

LEMMA RetryInvInit == RetryInit => RetryInv
  <1> SUFFICES ASSUME RetryInit
               PROVE  RetryInv
    OBVIOUS
  <1>1. TypeInv /\ Entries /\ Answers
    BY TypeInvInit, TrustInvInit DEF RetryInit, TrustInv
  <1>2. RetryTypeOK
    BY EditRetryAssumption DEF RetryInit, RetryTypeOK
  <1>3. OnlyAgent /\ OwnCall
    BY RetryConstants DEF RetryInit, Init, OnlyAgent, OwnCall, At, Idle
  <1>4. QED
    BY <1>1, <1>2, <1>3 DEF RetryInv

(* A call the loop begins is well-typed and keeps the trust.               *)
LEMMA AgentBeginsWell ==
  ASSUME RetryInv, AgentBegins
  PROVE  TypeInv' /\ Entries' /\ Answers' /\ OnlyAgent' /\ OwnCall'
  <1>1. PICK op \in {"edit", "data", "inspect"}, sid \in SessionIds,
             bound \in Paths, key \in Keys \cup {None},
             source \in Hashes \cup {None}, fresh \in BOOLEAN :
          /\ Begin(Agent, op, sid, bound, key, source, fresh)
          /\ begun' = begun
          /\ op \in {"edit", "data"} => key = Target /\ bound = BoundPath
          /\ op = "edit" => source = Goal /\ fresh
          /\ op = "inspect" => bound = Unsaved
    BY DEF AgentBegins
  <1>2. Agent \in Calls /\ op \in AllTools
    BY RetryConstants
  <1>3. TypeInv /\ Trusting
    BY OnlyAgentAgrees DEF RetryInv, Trusting
  <1>4. TypeInv'
    BY <1>1, <1>2, <1>3, BeginTypes DEF Begin, TypeInv, TypeOK
  <1>5. Entries' /\ Answers'
    BY <1>1, <1>2, <1>3, BeginTrust DEF TrustKept
  <1>6. OnlyAgent' /\ OwnCall'
    BY <1>1, <1>2, <1>3 DEF Begin, Goto, RetryInv, OnlyAgent, OwnCall, At,
                            TypeInv, TypeOK
  <1>7. QED
    BY <1>4, <1>5, <1>6

LEMMA AgentStepsWell ==
  ASSUME RetryInv, Step(Agent) \/ Fail(Agent)
  PROVE  TypeInv' /\ Entries' /\ Answers' /\ OnlyAgent' /\ OwnCall'
  <1>1. TypeInv /\ Trusting /\ Agent \in Calls
    BY RetryConstants, OnlyAgentAgrees DEF RetryInv, Trusting
  <1>2. TypeInv'
    BY <1>1, CallTypes
  <1>3. Entries' /\ Answers'
    BY <1>1, CallTrust DEF TrustKept
  <1>4. ~At(Agent, "idle")
    BY DEF At, Step, Fail, Resolve, Recensus, Repair, Exec, DeliverMap, DeliverData,
           Guard, Validate, WriteEdit, WriteCreate, WriteDelete, RefreshRead, Record
  <1>5. OnlyAgent'
    BY <1>1, StepKeeps DEF RetryInv, OnlyAgent
  <1>6. OwnCall'
    <2>1. calls[Agent].op # "create"
      BY <1>4 DEF RetryInv, OwnCall
    <2>2. CASE calls'[Agent] = Idle
      BY <2>2 DEF OwnCall, At, Idle
    <2>3. CASE calls'[Agent] # Idle
      BY <1>1, <1>4, <2>1, <2>3, StepKeeps DEF RetryInv, OwnCall, At
    <2>4. QED
      BY <2>2, <2>3
  <1>7. QED
    BY <1>2, <1>3, <1>5, <1>6

LEMMA InterferesWell ==
  ASSUME RetryInv, Interference \/ UNCHANGED vars
  PROVE  TypeInv' /\ Entries' /\ Answers' /\ OnlyAgent' /\ OwnCall'
  <1>1. TypeInv /\ Trusting
    BY OnlyAgentAgrees DEF RetryInv, Trusting
  <1>2. UNCHANGED calls
    BY DEF Interference, HumanChange, Open, Close, Rekey, vars
  <1>3. Entries' /\ Answers'
    BY <1>1, OthersTrust DEF Interference
  <1>4. TypeInv'
    <2>1. CASE Interference
      BY <1>1, <2>1, EnvironmentTypes DEF Interference
    <2>2. CASE UNCHANGED vars
      BY <1>1, <2>2 DEF vars, TypeInv, TypeOK
    <2>3. QED
      BY <2>1, <2>2
  <1>5. OnlyAgent' /\ OwnCall'
    BY <1>2 DEF RetryInv, OnlyAgent, OwnCall, At
  <1>6. QED
    BY <1>3, <1>4, <1>5

LEMMA RetryInvStep == RetryInv /\ [RetryNext]_retryVars => RetryInv'
  <1> SUFFICES ASSUME RetryInv, [RetryNext]_retryVars
               PROVE  RetryInv'
    OBVIOUS
  <1>1. RetryTypeOK'
    BY RetryTypeStep DEF RetryInv
  <1>2. TypeInv' /\ Entries' /\ Answers' /\ OnlyAgent' /\ OwnCall'
    BY RetryStepIs, AgentBeginsWell, AgentStepsWell, InterferesWell DEF RetryInv
  <1>3. QED
    BY <1>1, <1>2 DEF RetryInv

LEMMA RetryInvHolds == RetrySpec => []RetryInv
  BY RetryInvInit, RetryInvStep, PTL DEF RetrySpec

(* The types of the loop and of the calls it makes.                        *)
THEOREM RetryTypesCorrect == RetrySpec => []RetryTypeOK /\ []TypeOK
  <1>1. RetryInv => RetryTypeOK /\ TypeOK
    BY DEF RetryInv, TypeInv
  <1>2. QED
    BY <1>1, RetryInvHolds, PTL

(* However often the loop reads, binds and retries, and whatever the       *)
(* server does with its ids meanwhile, an edit of it only passes the guard *)
(* on a source known of its notebook: no retry turns a refusal into a      *)
(* silent overwrite.                                                       *)
THEOREM RetriesAreGuarded == RetrySpec => []GuardTrust /\ []BaselineOwned
  <1>1. RetryInv => GuardTrust /\ BaselineOwned
    BY EntriesAreOwned DEF RetryInv, Answers
  <1>2. QED
    BY <1>1, RetryInvHolds, PTL

-----------------------------------------------------------------------------
(* What the loop's only successful step does.                              *)
LEMMA RetryWrites ==
  ASSUME RetryInv, [RetryNext]_retryVars, todo # "done", todo' = "done"
  PROVE  /\ WriteEdit(Agent)
         /\ calls[Agent] \in Call
         /\ calls[Agent].key = Target /\ calls[Agent].source = Goal
         /\ calls[Agent].p = BoundPath /\ calls[Agent].fresh
         /\ calls[Agent].s \in SessionIds
  <1>1. RetryWrite
    <2>1. ~BeginEdit /\ ~BeginRead /\ ~BeginBind
      BY DEF BeginEdit, BeginRead, BeginBind
    <2>2. ~RetryResolve /\ ~RetryGuard /\ ~RetryRead /\ ~RetryOther
      BY DEF RetryResolve, RetryGuard, Advice, RetryRead, RetryOther
    <2>3. ~ServerRefuses /\ ~RequestLost /\ ~Interference
      BY DEF ServerRefuses, RequestLost, Interference
    <2>4. QED
      BY <2>1, <2>2, <2>3 DEF RetryNext, AgentStep, retryVars
  <1>2. WriteEdit(Agent)
    BY <1>1 DEF RetryWrite
  <1>3. calls[Agent] \in Call /\ CallOK(calls[Agent])
    BY RetryConstants DEF RetryInv, TypeInv, TypeOK
  <1>4. At(Agent, "write") /\ calls[Agent].op = "edit"
    BY <1>2 DEF WriteEdit
  <1>5. /\ calls[Agent].key = Target /\ calls[Agent].source = Goal
        /\ calls[Agent].bound = BoundPath /\ calls[Agent].fresh
    BY <1>4 DEF RetryInv, OwnCall, At
  <1>6. calls[Agent].p = BoundPath /\ calls[Agent].s \in SessionIds
    BY <1>3, <1>4, <1>5, RetryConstants DEF CallOK, At, Working
  <1>7. QED
    BY <1>2, <1>3, <1>5, <1>6

(* The agent is done when its source is in the cell it named, after a      *)
(* guard that compared the cell with what the agent knows of its notebook: *)
(* following the refusals' advice, in any order and any number of times,   *)
(* never ends in another cell, with another source, or past a bare guard.  *)
THEOREM DoneMeansWritten == RetrySpec => DoneIsWritten
  <1>1. RetryInv /\ [RetryNext]_retryVars =>
          [todo # "done" /\ todo' = "done" =>
             LET call == calls[Agent]
                 n    == live[call.s]
             IN  /\ n # None
                 /\ doc'[n][Target].code_hash = Goal
                 /\ Knows(BoundPath, Target, call.fps[Target].code_hash,
                          Sourced)]_retryVars
    <2> SUFFICES ASSUME RetryInv, [RetryNext]_retryVars,
                        todo # "done", todo' = "done"
                 PROVE  LET call == calls[Agent]
                            n    == live[call.s]
                        IN  /\ n # None
                            /\ doc'[n][Target].code_hash = Goal
                            /\ Knows(BoundPath, Target,
                                     call.fps[Target].code_hash, Sourced)
      OBVIOUS
    <2> DEFINE call == calls[Agent]
               n    == live[call.s]
    <2>1. /\ WriteEdit(Agent) /\ call.key = Target /\ call.source = Goal
          /\ call.p = BoundPath /\ call.fresh /\ call.s \in SessionIds
      BY RetryWrites
    <2>2. n \in Notebooks /\ n # None /\ doc[n] \in Source
      BY <2>1, ServerCells DEF WriteEdit, RetryInv
    <2>3. doc'[n][Target].code_hash = Goal
      <3>1. PICK state \in States :
              PutCell(n, Target, [code_hash |-> Goal, state |-> state])
        BY <2>1 DEF WriteEdit
      <3>2. Target \in Cells /\ doc \in [Notebooks -> Source]
        BY RetryConstants DEF RetryInv, TypeInv, TypeOK
      <3>3. doc'[n][Target] = [code_hash |-> Goal, state |-> state]
        BY <2>2, <3>1, <3>2 DEF PutCell, Source
      <3>4. QED
        BY <3>3
    <2>4. Knows(BoundPath, Target, call.fps[Target].code_hash, Sourced)
      BY <2>1, RetryConstants DEF RetryInv, Answers, GuardTrust, WriteEdit
    <2>5. QED
      BY <2>2, <2>3, <2>4
  <1>2. QED
    BY <1>1, RetryInvHolds, PTL DEF RetrySpec, DoneIsWritten

(* A server that hands no id to another notebook under a call: the edit is *)
(* then written in the agent's own notebook.                               *)
DoneAtHome ==
    [][todo # "done" /\ todo' = "done" =>
         PathAt(calls[Agent].s) = BoundPath]_retryVars

LEMMA RetryBindingsStep ==
  ~ReuseInFlight /\ RetryInv /\ Bindings /\ [RetryNext]_retryVars => Bindings'
  <1> SUFFICES ASSUME ~ReuseInFlight, RetryInv, Bindings, [RetryNext]_retryVars
               PROVE  Bindings'
    OBVIOUS
  <1>1. TypeInv /\ Trusting /\ TrustInv /\ NotReused /\ Agent \in Calls
    BY RetryConstants DEF RetryInv, Trusting, TrustInv, Bindings
  <1>2. CASE AgentBegins
    <2>1. {"edit", "data", "inspect"} \subseteq AllTools
      BY RetryConstants
    <2>2. QED
      BY <1>1, <1>2, <2>1, BeginTrust DEF AgentBegins, TrustKept
  <1>3. CASE Step(Agent) \/ Fail(Agent)
    BY <1>1, <1>3, CallTrust DEF TrustKept
  <1>4. CASE Interference
    <2>1. ASSUME NEW n \in Notebooks, NEW c \in Cells, HumanChange(n, c)
          PROVE  Bindings'
      BY <1>1, <2>1 DEF HumanChange, Bindings, NotReused, PathAt, Agreement
    <2>2. QED
      BY <1>1, <1>4, <2>1, ServerTrust DEF Interference, TrustInv
  <1>5. CASE UNCHANGED vars
    BY <1>1, <1>5 DEF vars, Bindings, NotReused, PathAt, Agreement
  <1>6. QED
    BY <1>2, <1>3, <1>4, <1>5, RetryStepIs DEF RetryInv

THEOREM DoneMeansWrittenAtHome ==
  ASSUME ~ReuseInFlight
  PROVE  RetrySpec => DoneAtHome
  <1>1. RetryInit => Bindings
    BY TrustInvInit DEF RetryInit, TrustInv
  <1>2. RetryInv /\ Bindings /\ [RetryNext]_retryVars => Bindings'
    BY RetryBindingsStep
  <1>3. RetryInv /\ Bindings /\ [RetryNext]_retryVars =>
          [todo # "done" /\ todo' = "done" =>
             PathAt(calls[Agent].s) = BoundPath]_retryVars
    <2> SUFFICES ASSUME RetryInv, Bindings, [RetryNext]_retryVars,
                        todo # "done", todo' = "done"
                 PROVE  PathAt(calls[Agent].s) = BoundPath
      OBVIOUS
    <2>1. /\ WriteEdit(Agent) /\ calls[Agent].p = BoundPath
          /\ calls[Agent].s \in SessionIds
      BY RetryWrites
    <2>2. live[calls[Agent].s] # None /\ BoundPath # None
      BY <2>1, RetryConstants, TrackerAssumption DEF WriteEdit
    <2>3. PathAt(calls[Agent].s) # None
      BY <2>1, <2>2, ServerCells, CoWorkAssumption, TrackerAssumption
      DEF PathAt, RetryInv
    <2>4. QED
      BY <2>1, <2>2, <2>3, RetryConstants DEF Bindings, NotReused
  <1>4. QED
    BY <1>1, <1>2, <1>3, RetryInvHolds, PTL DEF RetrySpec, DoneAtHome
-----------------------------------------------------------------------------
(* Progress.  A notebook has one session, and the loop's bounds hold.      *)

OneSession ==
    \A s, t \in SessionIds : s # t /\ live[s] # None => live[s] # live[t]

Bounded == human <= MaxHuman /\ moves <= MaxMoves

MeasureInv == RetryInv /\ OneSession /\ Bounded

(* No other notebook has the agent's path.                                 *)
OneNotebook ==
    \A m, n \in Notebooks : PathOf[m] = BoundPath /\ PathOf[n] = BoundPath => m = n

LEMMA MeasureInvInit == RetryInit => MeasureInv
  BY RetryInvInit, CoWorkAssumption
  DEF MeasureInv, RetryInit, Init, OneSession, Bounded

LEMMA CallsMoveNoSession ==
  ASSUME NEW k \in Calls, Step(k) \/ Fail(k)
  PROVE  UNCHANGED <<live, begun, human, moves>>
  BY DEF Step, Resolve, Recensus, Repair, Exec, DeliverMap, DeliverData, Guard,
         Validate, WriteEdit, WriteCreate, WriteDelete, RefreshRead, Record, Fail

LEMMA MeasureInvStep == MeasureInv /\ [RetryNext]_retryVars => MeasureInv'
  <1> SUFFICES ASSUME MeasureInv, [RetryNext]_retryVars
               PROVE  MeasureInv'
    OBVIOUS
  <1>1. RetryInv'
    BY RetryInvStep DEF MeasureInv
  <1>2. live \in [SessionIds -> Notebooks \cup {None}] /\ human \in Nat /\ moves \in Nat
        /\ MaxHuman \in Nat /\ MaxMoves \in Nat
    BY CoWorkAssumption DEF MeasureInv, RetryInv, TypeInv, TypeOK
  <1>3. CASE UNCHANGED <<live, human, moves>>
    BY <1>1, <1>3 DEF MeasureInv, OneSession, Bounded
  <1>4. CASE AgentBegins
    BY <1>3, <1>4 DEF AgentBegins, Begin
  <1>5. CASE Step(Agent) \/ Fail(Agent)
    BY <1>3, <1>5, CallsMoveNoSession, RetryConstants
  <1>6. CASE UNCHANGED vars
    BY <1>3, <1>6 DEF vars
  <1>7. ASSUME NEW n \in Notebooks, NEW c \in Cells, HumanChange(n, c)
        PROVE  MeasureInv'
    BY <1>1, <1>2, <1>7 DEF HumanChange, MeasureInv, OneSession, Bounded
  <1>8. ASSUME NEW s \in SessionIds, NEW n \in Notebooks, Open(s, n)
        PROVE  MeasureInv'
    BY <1>1, <1>2, <1>8 DEF Open, Free, MeasureInv, OneSession, Bounded
  <1>9. ASSUME NEW s \in SessionIds, Close(s)
        PROVE  MeasureInv'
    BY <1>1, <1>2, <1>9 DEF Close, MeasureInv, OneSession, Bounded
  <1>10. ASSUME NEW s \in SessionIds, NEW t \in SessionIds, Rekey(s, t)
         PROVE  MeasureInv'
    BY <1>1, <1>2, <1>10 DEF Rekey, MeasureInv, OneSession, Bounded
  <1>11. QED
    BY <1>4, <1>5, <1>6, <1>7, <1>8, <1>9, <1>10, RetryStepIs
    DEF MeasureInv, RetryInv, Interference

LEMMA MeasureInvHolds == RetrySpec => []MeasureInv
  BY MeasureInvInit, MeasureInvStep, PTL DEF RetrySpec

(* The notebook's session: there is one while it is editable, and no other.*)
LEMMA HomeIsServed ==
  ASSUME MeasureInv, NEW s \in SessionIds, Home(s)
  PROVE  live[s] \in Notebooks /\ live[s] # None /\ PathOf[live[s]] = BoundPath
  BY RetryConstants, TrackerAssumption
  DEF Home, PathAt, MeasureInv, RetryInv, TypeInv, TypeOK

LEMMA HomeIsUnique ==
  ASSUME MeasureInv, OneNotebook, NEW s \in SessionIds, NEW t \in SessionIds,
         Home(s), Home(t)
  PROVE  s = t
  BY HomeIsServed DEF OneNotebook, MeasureInv, OneSession

LEMMA HomeIsEditable ==
  ASSUME MeasureInv, OneNotebook, Editable, NEW s \in SessionIds, Home(s)
  PROVE  doc[live[s]][Target] # None
  <1>1. PICK t \in SessionIds : Home(t) /\ doc[live[t]][Target] # None
    BY DEF Editable, Home
  <1>2. s = t
    BY <1>1, HomeIsUnique
  <1>3. QED
    BY <1>1, <1>2

LEMMA FreshAtHome ==
  ASSUME MeasureInv, OneNotebook, NEW s \in SessionIds, Home(s)
  PROVE  FreshHome <=> Fresh(s)
  BY HomeIsUnique DEF FreshHome

(* The outlook is one of few numbers.                                      *)
LEMMA AheadRange ==
  ASSUME NEW next, NEW ok, NEW fresh
  PROVE  /\ Ahead(next, ok, fresh) \in Nat
         /\ Ahead(next, ok, fresh) <= Worst
         /\ Ahead(next, ok, fresh) <= Ahead(next, ok, FALSE)
         /\ Ahead(next, ok, TRUE) <= Ahead(next, ok, fresh)
  BY DEF Ahead, Worst

LEMMA OutlookRange ==
  ASSUME NEW call
  PROVE  Outlook(call) \in Nat /\ Outlook(call) <= Worst
  <1>1. Worst \in Nat /\ 0 \in Nat /\ 0 <= Worst /\ Worst <= Worst
    BY DEF Worst
  <1>2. QED
    BY <1>1, AheadRange DEF Outlook

LEMMA StepsLeftRange ==
  ASSUME NEW pc \in Phases
  PROVE  StepsLeft[pc] \in 0..7
  BY DEF StepsLeft, Phases

LEMMA RankRange ==
  ASSUME RetryInv
  PROVE  Rank \in 0..47
  <1>1. StepsLeft[calls[Agent].pc] \in 0..7
    BY StepsLeftRange, RetryConstants DEF RetryInv, TypeInv, TypeOK, Call
  <1>2. QED
    BY <1>1, OutlookRange DEF Rank, Worst

(* Where the agent stands: the phase of its call and what that call does.  *)
LEMMA OwnCallIs ==
  ASSUME MeasureInv
  PROVE  /\ calls \in [Calls -> Call] /\ Agent \in Calls
         /\ calls[Agent] \in Call /\ CallOK(calls[Agent])
         /\ calls[Agent].pc # "idle" =>
              /\ calls[Agent].s \in SessionIds
              /\ calls[Agent].sid \in SessionIds
              /\ calls[Agent].op \in {"edit", "data", "inspect"}
              /\ calls[Agent].op \in {"edit", "data"} =>
                   calls[Agent].key = Target /\ calls[Agent].bound = BoundPath
              /\ calls[Agent].op = "edit" => calls[Agent].fresh
              /\ calls[Agent].op = "inspect" => calls[Agent].bound = Unsaved
  BY RetryConstants
  DEF MeasureInv, RetryInv, TypeInv, TypeOK, CallOK, OwnCall, At

(* The outlook, branch by branch, now and after a step.                    *)
OutlookReads ==
    LET call  == calls[Agent]
        going == call.pc \in {"resolve", "repair", "exec", "deliver", "write"}
    IN
    /\ Rank = StepsLeft[call.pc] + Outlook(call)
    /\ Outlook(call) \in Nat /\ Outlook(call) <= 40
    /\ call.pc = "idle" => Outlook(call) = Ahead(todo, IdOK, FreshHome)
    /\ call.pc \in {"refresh", "record"} =>
         Outlook(call) = IF todo = "done" THEN 0 ELSE 40
    /\ going /\ Mismatched(call) => Outlook(call) = 32
    /\ going /\ ~Mismatched(call) /\ Overtaken(call) => Outlook(call) = 40
    /\ going /\ ~Mismatched(call) /\ ~Overtaken(call) =>
         /\ call.op = "inspect" => Outlook(call) = Ahead(todo, IdOK, FALSE)
         /\ call.op = "data" => Outlook(call) = IF IdOK THEN 8 ELSE 40
         /\ call.op = "edit" /\ WillPass(call) => Outlook(call) = 0
         /\ call.op = "edit" /\ ~WillPass(call) =>
              Outlook(call) = IF IdOK THEN 16 ELSE 40

LEMMA OutlookIs == OutlookReads
  <1>1. Outlook(calls[Agent]) \in Nat /\ Outlook(calls[Agent]) <= 40
    BY OutlookRange DEF Worst
  <1>2. QED
    BY <1>1 DEF OutlookReads, Outlook, Rank, Ahead, Worst

LEMMA OutlookBecomes == OutlookReads'
  BY OutlookIs, PTL

LEMMA BeginEditCounts ==
  ASSUME MeasureInv, OneNotebook, BeginEdit
  PROVE  Rank' < Rank
  <1>1. calls[Agent].pc = "idle" /\ todo = "edit" /\ boundId \in SessionIds
    BY DEF BeginEdit, Begin, At, MeasureInv, RetryInv, RetryTypeOK
  <1>2. Rank = Ahead("edit", IdOK, FreshHome)
    BY <1>1, OutlookIs DEF OutlookReads, StepsLeft, Ahead, Worst
  <1>3. /\ calls'[Agent] = [pc |-> "resolve", op |-> "edit", sid |-> boundId,
                            bound |-> BoundPath, s |-> boundId,
                            p |-> PathAt(boundId), key |-> Target,
                            fresh |-> TRUE, source |-> Goal,
                            fps |-> NoFingerprints]
        /\ UNCHANGED <<live, doc, tracker, todo, boundId>>
    BY OwnCallIs DEF BeginEdit, Begin, Goto
  <1>4. (IdOK' <=> IdOK) /\ (FreshHome' <=> FreshHome)
    BY <1>3 DEF IdOK, FreshHome, Home, PathAt, Fresh, Holds
  <1>5. Mismatched(calls[Agent])' <=> ~IdOK
    BY <1>3, RetryConstants DEF Mismatched, IdOK
  <1>6. IdOK => ~Overtaken(calls[Agent])'
    BY <1>3 DEF Overtaken, IdOK, Home, PathAt
  <1>7. IdOK => (WillPass(calls[Agent])' <=> FreshHome)
    <2>1. CASE ~Home(boundId) /\ IdOK
      <3>1. PathAt(boundId) = None
        BY <2>1 DEF Home, IdOK
      <3>2. WillPass(calls[Agent])' <=> FreshHome' /\ ~Home(boundId)'
        BY <1>3, <3>1 DEF WillPass
      <3>3. Home(boundId)' <=> Home(boundId)
        BY <1>3 DEF Home, PathAt
      <3>4. QED
        BY <1>4, <2>1, <3>2, <3>3
    <2>2. CASE Home(boundId)
      <3>1. WillPass(calls[Agent])' <=> Fresh(boundId)'
        BY <1>3, <2>2, RetryConstants, TrackerAssumption DEF WillPass, Home
      <3>2. Fresh(boundId)' <=> Fresh(boundId)
        BY <1>3 DEF Fresh, Holds
      <3>3. QED
        BY <1>1, <2>2, <3>1, <3>2, FreshAtHome
    <2>3. QED
      BY <2>1, <2>2
  <1>8. Rank' = 7 + (IF ~IdOK THEN 32 ELSE IF FreshHome THEN 0 ELSE 16)
    BY <1>3, <1>4, <1>5, <1>6, <1>7, OutlookBecomes DEF OutlookReads, StepsLeft
  <1>9. QED
    BY <1>2, <1>8 DEF Ahead, Worst

LEMMA BeginReadCounts ==
  ASSUME MeasureInv, BeginRead
  PROVE  Rank' < Rank
  <1>1. calls[Agent].pc = "idle" /\ todo = "read"
    BY DEF BeginRead, Begin, At
  <1>2. Rank = IF IdOK THEN 16 ELSE 40
    BY <1>1, OutlookIs DEF OutlookReads, StepsLeft, Ahead, Worst
  <1>3. /\ calls'[Agent] = [pc |-> "resolve", op |-> "data", sid |-> boundId,
                            bound |-> BoundPath, s |-> boundId,
                            p |-> PathAt(boundId), key |-> Target,
                            fresh |-> FALSE, source |-> None,
                            fps |-> NoFingerprints]
        /\ UNCHANGED <<live, boundId>>
    BY <1>1, OwnCallIs DEF BeginRead, Begin, Goto
  <1>4. IdOK' <=> IdOK
    BY <1>3 DEF IdOK, PathAt
  <1>5. Mismatched(calls[Agent])' <=> ~IdOK
    BY <1>3, RetryConstants DEF Mismatched, IdOK
  <1>6. IdOK => ~Overtaken(calls[Agent])'
    BY <1>3 DEF Overtaken, WillTell, IdOK, Home, PathAt
  <1>7. Rank' = 7 + (IF IdOK THEN 8 ELSE 32)
    BY <1>3, <1>4, <1>5, <1>6, OutlookBecomes DEF OutlookReads, StepsLeft
  <1>8. QED
    BY <1>2, <1>7

LEMMA BeginBindCounts ==
  ASSUME MeasureInv, BeginBind
  PROVE  Rank' < Rank
  <1>1. calls[Agent].pc = "idle" /\ todo = "bind"
    BY DEF BeginBind, Begin, At
  <1>2. Rank = 32
    BY <1>1, OutlookIs DEF OutlookReads, StepsLeft, Ahead
  <1>3. PICK t \in SessionIds :
          /\ PathAt(t) = BoundPath
          /\ calls'[Agent] = [pc |-> "resolve", op |-> "inspect", sid |-> t,
                              bound |-> Unsaved, s |-> t, p |-> PathAt(t),
                              key |-> None, fresh |-> FALSE, source |-> None,
                              fps |-> NoFingerprints]
          /\ boundId' = t /\ todo' = "edit" /\ UNCHANGED live
    BY <1>1, OwnCallIs DEF BeginBind, Begin, Goto
  <1>4. IdOK'
    BY <1>3 DEF IdOK, PathAt
  <1>5. ~Mismatched(calls[Agent])' /\ ~Overtaken(calls[Agent])'
    BY <1>3 DEF Mismatched, Overtaken, Home, PathAt
  <1>6. Rank' = 7 + 24
    BY <1>3, <1>4, <1>5, OutlookBecomes DEF OutlookReads, StepsLeft, Ahead
  <1>7. QED
    BY <1>2, <1>6

(* What the agent's own steps leave as it is.                              *)
LEMMA ServerStays ==
  ASSUME UNCHANGED <<live, boundId>>
  PROVE  /\ IdOK' <=> IdOK
         /\ \A s \in SessionIds : Home(s)' <=> Home(s)
  BY DEF IdOK, Home, PathAt

LEMMA StaysFresh ==
  ASSUME NEW s \in SessionIds, UNCHANGED <<live, doc>>, tracker'[s] = tracker[s]
  PROVE  Fresh(s)' <=> Fresh(s)
  BY DEF Fresh, Holds

(* A call that was overtaken loses a step and can get no worse.            *)
LEMMA OvertakenCounts ==
  ASSUME calls[Agent].pc \in {"resolve", "repair", "exec", "deliver", "write"},
         ~Mismatched(calls[Agent]), Overtaken(calls[Agent]),
         StepsLeft[calls'[Agent].pc] < StepsLeft[calls[Agent].pc],
         calls'[Agent].pc \in Phases
  PROVE  Rank' < Rank
  <1>1. Rank = StepsLeft[calls[Agent].pc] + 40
    BY OutlookIs DEF OutlookReads
  <1>2. Rank' = StepsLeft[calls'[Agent].pc] + Outlook(calls[Agent])'
        /\ Outlook(calls[Agent])' \in Nat /\ Outlook(calls[Agent])' <= 40
    BY OutlookBecomes DEF OutlookReads
  <1>3. StepsLeft[calls[Agent].pc] \in 0..7 /\ StepsLeft[calls'[Agent].pc] \in 0..7
    BY StepsLeftRange DEF Phases
  <1>4. QED
    BY <1>1, <1>2, <1>3

(* So does one that goes on in the notebook's session with what it had.    *)
LEMMA OnwardCounts ==
  ASSUME UNCHANGED <<live, boundId, todo>>,
         calls[Agent].pc \in {"resolve", "repair", "exec", "deliver", "write"},
         calls'[Agent].pc \in {"resolve", "repair", "exec", "deliver", "write"},
         StepsLeft[calls'[Agent].pc] < StepsLeft[calls[Agent].pc],
         calls[Agent].op \in {"edit", "data", "inspect"},
         calls'[Agent].op = calls[Agent].op,
         ~Mismatched(calls[Agent]), ~Mismatched(calls[Agent])',
         ~Overtaken(calls[Agent]), ~Overtaken(calls[Agent])',
         calls[Agent].op = "edit" /\ WillPass(calls[Agent]) => WillPass(calls[Agent])'
  PROVE  Rank' < Rank
  <1>1. StepsLeft[calls[Agent].pc] \in 0..7 /\ StepsLeft[calls'[Agent].pc] \in 0..7
    BY StepsLeftRange DEF Phases
  <1>2. IdOK' <=> IdOK
    BY ServerStays
  <1>3. CASE calls[Agent].op = "inspect"
    BY <1>1, <1>2, <1>3, OutlookIs, OutlookBecomes DEF OutlookReads, Ahead, Worst
  <1>4. CASE calls[Agent].op = "data"
    BY <1>1, <1>2, <1>4, OutlookIs, OutlookBecomes DEF OutlookReads
  <1>5. CASE calls[Agent].op = "edit"
    BY <1>1, <1>2, <1>5, OutlookIs, OutlookBecomes DEF OutlookReads
  <1>6. QED
    BY <1>3, <1>4, <1>5

(* An inspection that ends leaves the way to the next call as it was.      *)
LEMMA InspectionCounts ==
  ASSUME UNCHANGED <<live, boundId, todo>>,
         calls[Agent].pc \in {"resolve", "repair", "exec", "deliver", "write"},
         calls[Agent].op = "inspect", calls'[Agent] = Idle,
         ~Mismatched(calls[Agent]), ~Overtaken(calls[Agent])
  PROVE  Rank' < Rank
  <1>1. Rank = StepsLeft[calls[Agent].pc] + Ahead(todo, IdOK, FALSE)
    BY OutlookIs DEF OutlookReads
  <1>2. Rank' = Ahead(todo, IdOK, FreshHome')
    BY ServerStays, OutlookBecomes DEF OutlookReads, Idle, StepsLeft, Ahead, Worst
  <1>3. StepsLeft[calls[Agent].pc] \in 1..7
    BY DEF StepsLeft
  <1>4. QED
    BY <1>1, <1>2, <1>3 DEF Ahead, Worst

(* What resolution hands on to an edit or a read.                          *)
LEMMA ResolvedGoesOn ==
  ASSUME NEW call \in Call, call.op \in {"edit", "data"}
  PROVE  /\ Resolved(call).pc = "exec" /\ Resolved(call).op = call.op
         /\ Resolved(call).s = call.s /\ Resolved(call).key = call.key
         /\ Resolved(call).fresh = call.fresh
  BY DEF Resolved, Call

LEMMA ResolveCounts ==
  ASSUME MeasureInv, OneNotebook, RetryResolve
  PROVE  Rank' < Rank
  <1> DEFINE call == calls[Agent]
  <1>1. /\ call.pc = "resolve" /\ call.p # None
        /\ call \in Call /\ call.s \in SessionIds
        /\ UNCHANGED <<live, doc, boundId>>
    BY OwnCallIs DEF RetryResolve, Resolve, At
  <1> PICK s \in SessionIds : s = call.s
    BY <1>1
  <1>2. /\ IdOK' <=> IdOK
        /\ Home(s)' <=> Home(s)
    BY <1>1, ServerStays
  <1>3. CASE Mismatched(call)
    <2>1. Rank = 7 + 32
      BY <1>1, <1>3, OutlookIs DEF OutlookReads, StepsLeft
    <2>2. calls'[Agent] = Idle /\ todo' = "bind"
      BY <1>3, OwnCallIs DEF RetryResolve, Resolve, Return, Goto, Mismatched
    <2>3. Rank' = 32
      BY <2>2, OutlookBecomes DEF OutlookReads, Idle, Ahead, StepsLeft
    <2>4. QED
      BY <2>1, <2>3
  <1>4. CASE ~Mismatched(call)
    <2>1. /\ call.bound \in {Unsaved, call.p} /\ todo' = todo
          /\ calls'[Agent] = Resolved(call)
          /\ tracker' = [tracker EXCEPT ![call.s] = Adopt(@, call.p)]
      BY <1>1, <1>4, OwnCallIs DEF RetryResolve, Resolve, Goto, Mismatched
    <2>2. /\ call.op \in {"edit", "data", "inspect"}
          /\ call.op \in {"edit", "data"} => call.p = BoundPath /\ call.key = Target
      BY <1>1, <2>1, OwnCallIs, RetryConstants
    <2>3. tracker'[call.s] = Adopt(tracker[call.s], call.p)
      BY <1>1, <2>1 DEF MeasureInv, RetryInv, TypeInv, TypeOK
    <2>4. CASE Overtaken(call)
      <3>1. Resolved(call).pc \in {"idle", "exec"}
        BY <1>1, <2>2 DEF Resolved, Idle, Call
      <3>2. QED
        BY <1>1, <1>4, <2>1, <2>4, <3>1, OvertakenCounts DEF StepsLeft, Phases
    <2>5. CASE ~Overtaken(call) /\ call.op = "inspect"
      BY <1>1, <1>4, <2>1, <2>5, InspectionCounts DEF Resolved
    <2>6. CASE ~Overtaken(call) /\ call.op \in {"edit", "data"}
      <3>1. /\ calls'[Agent].pc = "exec" /\ calls'[Agent].op = call.op
            /\ calls'[Agent].s = s
        BY <1>1, <2>1, <2>6, ResolvedGoesOn
      <3>2. Home(s)'
        BY <1>1, <1>2, <2>6 DEF Overtaken
      <3>3. tracker'[s].owner = BoundPath
        BY <2>2, <2>3, <2>6 DEF Adopt, Unrecorded
      <3>4. ~Mismatched(calls[Agent])' /\ ~Overtaken(calls[Agent])'
        BY <3>1, <3>2, <3>3 DEF Mismatched, Overtaken, WillTell
      <3>5. call.op = "edit" /\ WillPass(call) => WillPass(calls[Agent])'
        <4>1. WillPass(call) => Fresh(s)
          BY <1>1 DEF WillPass
        <4>2. Fresh(s) => tracker'[s] = tracker[s]
          BY <2>2, <2>3, <2>6 DEF Adopt, Fresh
        <4>3. Fresh(s) => Fresh(s)'
          BY <1>1, <4>2, StaysFresh
        <4>4. QED
          BY <3>1, <4>1, <4>3 DEF WillPass, Fresh, Holds
      <3>6. QED
        BY <1>1, <1>4, <2>1, <2>6, <3>1, <3>4, <3>5, OnwardCounts DEF StepsLeft
    <2>7. QED
      BY <2>2, <2>4, <2>5, <2>6
  <1>5. QED
    BY <1>3, <1>4

LEMMA RecensusCounts ==
  ASSUME MeasureInv, OneNotebook, Editable, RetryOther, Recensus(Agent)
  PROVE  Rank' < Rank
  <1> DEFINE call == calls[Agent]
  <1>1. /\ call.pc = "resolve" /\ call.p = None
        /\ call \in Call /\ call.sid \in SessionIds
        /\ UNCHANGED <<live, doc, tracker, todo, boundId>>
    BY OwnCallIs DEF RetryOther, Recensus, At
  <1>2. ~Mismatched(call) /\ ~Overtaken(call)
    BY <1>1 DEF Mismatched, Overtaken, WillTell
  <1>3. CASE call.op = "inspect"
    <2>1. Rotated(Agent) = {}
      BY <1>1, <1>3, OwnCallIs DEF Rotated
    <2>2. calls'[Agent] = Idle
      BY <2>1, OwnCallIs DEF Recensus, Return, Goto
    <2>3. QED
      BY <1>1, <1>2, <1>3, <2>2, InspectionCounts
  <1>4. CASE call.op \in {"edit", "data"}
    <2>1. call.bound = BoundPath /\ call.key = Target
      BY <1>1, <1>4, OwnCallIs
    <2>2. Rotated(Agent) # {}
      BY <2>1, RetryConstants DEF Rotated, Editable
    <2>3. PICK t \in SessionIds :
            /\ Home(t)
            /\ calls'[Agent] = [call EXCEPT !.pc = "repair", !.s = t,
                                            !.p = call.bound]
      BY <2>1, <2>2, OwnCallIs DEF Recensus, Rotated, Goto, Home
    <2>4. /\ calls'[Agent].pc = "repair" /\ calls'[Agent].op = call.op
          /\ calls'[Agent].s = t /\ calls'[Agent].sid = call.sid
      BY <1>1, <2>3 DEF Call
    <2>5. ~Mismatched(calls[Agent])' /\ ~Overtaken(calls[Agent])'
      <3>1. Home(t)'
        BY <1>1, <2>3, ServerStays
      <3>2. QED
        BY <2>4, <3>1 DEF Mismatched, Overtaken, WillTell
    <2>6. call.op = "edit" /\ WillPass(call) => WillPass(calls[Agent])'
      <3>1. WillPass(call) => FreshHome /\ ~Home(call.sid)
        BY <1>1 DEF WillPass
      <3>2. WillPass(call) => Fresh(t) /\ t # call.sid
        BY <2>3, <3>1, FreshAtHome
      <3>3. Fresh(t) => Fresh(t)'
        BY <1>1, StaysFresh
      <3>4. QED
        BY <2>4, <3>2, <3>3 DEF WillPass, Fresh, Holds
    <2>7. QED
      BY <1>1, <1>2, <1>4, <2>4, <2>5, <2>6, OnwardCounts DEF StepsLeft
  <1>5. QED
    BY <1>1, <1>3, <1>4, OwnCallIs

LEMMA RepairCounts ==
  ASSUME MeasureInv, RetryOther, Repair(Agent)
  PROVE  Rank' < Rank
  <1> DEFINE call == calls[Agent]
  <1>1. /\ call.pc = "repair" /\ call \in Call
        /\ call.s \in SessionIds /\ call.sid \in SessionIds
        /\ UNCHANGED <<live, doc, todo, boundId>>
        /\ calls'[Agent] = Resolved(call)
        /\ tracker' = [[tracker EXCEPT ![call.sid] = Unrecorded]
                          EXCEPT ![call.s] = Adopt(@, call.p)]
    BY OwnCallIs DEF RetryOther, Repair, At, Goto
  <1> PICK s \in SessionIds : s = call.s
    BY <1>1
  <1>2. tracker'[s] =
          Adopt(IF s = call.sid THEN Unrecorded ELSE tracker[s], call.p)
    BY <1>1 DEF MeasureInv, RetryInv, TypeInv, TypeOK
  <1>3. /\ ~Mismatched(call)
        /\ call.op \in {"edit", "data", "inspect"}
        /\ call.op \in {"edit", "data"} => call.p = BoundPath
    BY <1>1, OwnCallIs, RetryConstants DEF Mismatched, CallOK
  <1>4. CASE Overtaken(call)
    <2>1. Resolved(call).pc \in {"idle", "exec"}
      BY <1>1, <1>3 DEF Resolved, Idle, Call
    <2>2. QED
      BY <1>1, <1>3, <1>4, <2>1, OvertakenCounts DEF StepsLeft, Phases
  <1>5. CASE ~Overtaken(call) /\ call.op = "inspect"
    BY <1>1, <1>3, <1>5, InspectionCounts DEF Resolved
  <1>6. CASE ~Overtaken(call) /\ call.op \in {"edit", "data"}
    <2>1. /\ calls'[Agent].pc = "exec" /\ calls'[Agent].op = call.op
          /\ calls'[Agent].s = s
      BY <1>1, <1>6, ResolvedGoesOn
    <2>2. Home(s)'
      BY <1>1, <1>6, ServerStays DEF Overtaken
    <2>3. tracker'[s].owner = BoundPath
      BY <1>2, <1>3, <1>6 DEF Adopt, Unrecorded
    <2>4. ~Mismatched(calls[Agent])' /\ ~Overtaken(calls[Agent])'
      BY <2>1, <2>2, <2>3 DEF Mismatched, Overtaken, WillTell
    <2>5. call.op = "edit" /\ WillPass(call) => WillPass(calls[Agent])'
      <3>1. WillPass(call) => s # call.sid /\ Fresh(s)
        BY <1>1 DEF WillPass
      <3>2. WillPass(call) => tracker'[s] = tracker[s]
        BY <1>2, <1>3, <1>6, <3>1 DEF Adopt, Fresh
      <3>3. WillPass(call) => Fresh(s)'
        BY <1>1, <3>1, <3>2, StaysFresh
      <3>4. QED
        BY <2>1, <3>3 DEF WillPass, Fresh, Holds
    <2>6. QED
      BY <1>1, <1>3, <1>6, <2>1, <2>4, <2>5, OnwardCounts DEF StepsLeft
  <1>7. QED
    BY <1>3, <1>4, <1>5, <1>6

LEMMA ExecCounts ==
  ASSUME MeasureInv, OneNotebook, Editable, RetryOther, Exec(Agent)
  PROVE  Rank' < Rank
  <1> DEFINE call == calls[Agent]
             cells == doc[live[call.s]]
  <1>1. /\ call.pc = "exec" /\ call \in Call /\ call.s \in SessionIds
        /\ call.op \in {"edit", "data", "inspect"}
        /\ UNCHANGED <<live, doc, tracker, todo, boundId>>
        /\ calls'[Agent] = [call EXCEPT !.pc = "deliver",
                              !.fps = IF call.op = "data"
                                      THEN DataOf(cells, call.key)
                                      ELSE HashesOf(cells)]
    BY OwnCallIs DEF RetryOther, Exec, At, Goto
  <1>2. /\ calls'[Agent].pc = "deliver" /\ calls'[Agent].op = call.op
        /\ calls'[Agent].s = call.s /\ calls'[Agent].key = call.key
        /\ calls'[Agent].fresh = call.fresh
        /\ calls'[Agent].fps = IF call.op = "data"
                               THEN DataOf(cells, call.key)
                               ELSE HashesOf(cells)
    BY <1>1 DEF Call
  <1> PICK s \in SessionIds : s = call.s
    BY <1>1
  <1>3. ~Mismatched(call) /\ ~Mismatched(calls[Agent])'
    BY <1>1, <1>2 DEF Mismatched
  <1>4. CASE Overtaken(call)
    BY <1>1, <1>2, <1>3, <1>4, OvertakenCounts DEF StepsLeft, Phases
  <1>5. CASE ~Overtaken(call)
    <2>1. Home(s) /\ Home(s)'
      BY <1>1, <1>5, ServerStays DEF Overtaken
    <2>2. cells \in Source /\ cells[Target] \in Cell /\ cells[Target] # None
      <3>1. live[s] # None
        BY <2>1, HomeIsServed
      <3>2. cells \in Source
        BY <3>1, ServerCells DEF MeasureInv, RetryInv
      <3>3. cells[Target] # None
        BY <2>1, HomeIsEditable
      <3>4. QED
        BY <3>2, <3>3, RetryConstants DEF Source
    <2>3. CASE call.op = "inspect"
      <3>1. ~Overtaken(calls[Agent])'
        BY <1>2, <2>1, <2>3 DEF Overtaken
      <3>2. QED
        BY <1>1, <1>2, <1>3, <1>5, <2>3, <3>1, OnwardCounts DEF StepsLeft
    <2>4. CASE call.op = "data"
      <3>1. call.key = Target
        BY <1>1, <2>4, OwnCallIs
      <3>2. calls'[Agent].fps[Target] = cells[Target]
        BY <1>2, <2>4, <3>1, RetryConstants, CoWorkAssumption DEF DataOf, Denotes
      <3>3. WillTell(calls[Agent])'
        <4>1. tracker[s].owner = BoundPath
          BY <1>1, <1>5, <2>4 DEF Overtaken, WillTell
        <4>2. QED
          BY <1>1, <1>2, <2>2, <3>2, <4>1 DEF WillTell, Holds
      <3>4. ~Overtaken(calls[Agent])'
        BY <1>2, <2>1, <2>4, <3>3 DEF Overtaken
      <3>5. QED
        BY <1>1, <1>2, <1>3, <1>5, <2>4, <3>4, OnwardCounts DEF StepsLeft
    <2>5. CASE call.op = "edit"
      <3>1. call.key = Target
        BY <1>1, <2>5, OwnCallIs
      <3>2. /\ calls'[Agent].fps[Target] # None
            /\ calls'[Agent].fps[Target].code_hash = cells[Target].code_hash
        <4>1. calls'[Agent].fps[Target] = [cells[Target] EXCEPT !.state = None]
          BY <1>2, <2>2, <2>5, RetryConstants DEF HashesOf
        <4>2. [cells[Target] EXCEPT !.state = None] \in Fingerprint
          BY <2>2 DEF Cell, Fingerprint
        <4>3. QED
          BY <2>2, <4>1, <4>2, TrackerAssumption DEF Cell
      <3>3. ~Overtaken(calls[Agent])'
        BY <1>2, <2>1, <2>5, <3>1, <3>2 DEF Overtaken, UnknownCell
      <3>4. WillPass(call) => WillPass(calls[Agent])'
        <4>1. WillPass(call) =>
                /\ tracker[s].baseline[Target] # None
                /\ tracker[s].baseline[Target].code_hash = cells[Target].code_hash
          BY <1>1 DEF WillPass, Fresh, Holds
        <4>2. QED
          BY <1>1, <1>2, <3>1, <3>2, <4>1
          DEF WillPass, UnknownCell, NeedsRead, Conflict
      <3>5. QED
        BY <1>1, <1>2, <1>3, <1>5, <2>5, <3>3, <3>4, OnwardCounts DEF StepsLeft
    <2>6. QED
      BY <1>1, <2>3, <2>4, <2>5
  <1>6. QED
    BY <1>4, <1>5

LEMMA GuardCounts ==
  ASSUME MeasureInv, RetryGuard
  PROVE  Rank' < Rank
  <1> DEFINE call == calls[Agent]
  <1>1. /\ call.pc = "deliver" /\ call.op = "edit" /\ call \in Call
        /\ call.s \in SessionIds
        /\ UNCHANGED <<live, doc, tracker, boundId>>
    BY OwnCallIs DEF RetryGuard, Guard, At
  <1>2. ~Mismatched(call)
    BY <1>1 DEF Mismatched
  <1>3. /\ IdOK' <=> IdOK
    BY <1>1, ServerStays
  <1>4. CASE UnknownCell(call) \/ NeedsRead(call) \/ Conflict(call)
    <2>1. calls'[Agent] = Idle
      BY <1>4, OwnCallIs DEF RetryGuard, Guard, Return, Goto
    <2>2. CASE Overtaken(call)
      BY <1>1, <1>2, <2>1, <2>2, OvertakenCounts DEF Idle, StepsLeft, Phases
    <2>3. CASE ~Overtaken(call)
      <3>1. ~UnknownCell(call) /\ ~WillPass(call)
        BY <1>1, <1>4, <2>3 DEF Overtaken, WillPass
      <3>2. Rank = 4 + (IF IdOK THEN 16 ELSE 40)
        BY <1>1, <1>2, <2>3, <3>1, OutlookIs DEF OutlookReads, StepsLeft
      <3>3. todo' = "read"
        BY <1>4, <3>1 DEF RetryGuard, Advice
      <3>4. Rank' = IF IdOK THEN 16 ELSE 40
        BY <1>3, <2>1, <3>3, OutlookBecomes
        DEF OutlookReads, Idle, StepsLeft, Ahead, Worst
      <3>5. QED
        BY <3>2, <3>4
    <2>4. QED
      BY <2>2, <2>3
  <1>5. CASE ~(UnknownCell(call) \/ NeedsRead(call) \/ Conflict(call))
    <2>1. /\ calls'[Agent].pc = "write" /\ calls'[Agent].op = "edit"
          /\ calls'[Agent].s = call.s /\ todo' = todo
      <3>1. calls'[Agent] = [call EXCEPT !.pc = "write",
                                         !.fps = Only(call.fps, call.key)]
        BY <1>5, OwnCallIs DEF RetryGuard, Guard, Goto
      <3>2. todo' = todo
        BY <1>5 DEF RetryGuard, Advice
      <3>3. QED
        BY <1>1, <3>1, <3>2 DEF Call
    <2>2. CASE Overtaken(call)
      BY <1>1, <1>2, <2>1, <2>2, OvertakenCounts DEF StepsLeft, Phases
    <2>3. CASE ~Overtaken(call)
      <3> PICK s \in SessionIds : s = call.s
        BY <1>1
      <3>1. Home(s)'
        BY <1>1, <2>3, ServerStays DEF Overtaken
      <3>2. ~Mismatched(calls[Agent])' /\ ~Overtaken(calls[Agent])'
            /\ WillPass(calls[Agent])'
        BY <1>1, <2>1, <3>1 DEF Mismatched, Overtaken, WillPass
      <3>3. QED
        BY <1>1, <1>2, <2>1, <2>3, <3>2, OnwardCounts DEF StepsLeft
    <2>4. QED
      BY <2>2, <2>3
  <1>6. QED
    BY <1>4, <1>5

LEMMA ReadCounts ==
  ASSUME MeasureInv, RetryRead
  PROVE  Rank' < Rank
  <1> DEFINE call == calls[Agent]
  <1>1. /\ call.pc = "deliver" /\ call.op = "data" /\ call \in Call
        /\ call.s \in SessionIds
        /\ UNCHANGED <<live, doc, boundId>> /\ todo' = "edit"
        /\ calls'[Agent] = Idle
        /\ tracker' = [tracker EXCEPT ![call.s] = RecordCells(@, call.fps)]
    BY OwnCallIs DEF RetryRead, DeliverData, At, Return, Goto
  <1>2. ~Mismatched(call)
    BY <1>1 DEF Mismatched
  <1>3. /\ IdOK' <=> IdOK
    BY <1>1, ServerStays
  <1>4. CASE Overtaken(call)
    BY <1>1, <1>2, <1>4, OvertakenCounts DEF Idle, StepsLeft, Phases
  <1>5. CASE ~Overtaken(call)
    <2> PICK s \in SessionIds : s = call.s
      BY <1>1
    <2>1. /\ tracker[s].owner = BoundPath /\ call.fps[Target] # None
          /\ Holds(s, call.fps[Target].code_hash)
      BY <1>1, <1>5 DEF Overtaken, WillTell
    <2>2. /\ tracker'[s].owner = BoundPath
          /\ tracker'[s].baseline[Target] = call.fps[Target]
      <3>1. tracker \in [SessionIds -> Entry]
        BY DEF MeasureInv, RetryInv, TypeInv, TypeOK
      <3>2. tracker'[s] = RecordCells(tracker[s], call.fps)
        BY <1>1, <3>1
      <3>3. QED
        BY <2>1, <3>1, <3>2, RetryConstants DEF RecordCells, Merge, Entry
    <2>3. FreshHome'
      <3>1. Fresh(s)'
        BY <1>1, <2>1, <2>2 DEF Fresh, Holds
      <3>2. Home(s)'
        BY <1>1, <1>5, ServerStays DEF Overtaken
      <3>3. QED
        BY <3>1, <3>2 DEF FreshHome
    <2>4. Rank = 4 + (IF IdOK THEN 8 ELSE 40)
      BY <1>1, <1>2, <1>5, OutlookIs DEF OutlookReads, StepsLeft
    <2>5. Rank' = IF IdOK THEN 8 ELSE 40
      BY <1>1, <1>3, <2>3, OutlookBecomes
      DEF OutlookReads, Idle, StepsLeft, Ahead, Worst
    <2>6. QED
      BY <2>4, <2>5
  <1>6. QED
    BY <1>4, <1>5

(* After the write: the agent is done, or the call was never to pass.      *)
LEMMA RefreshCounts ==
  ASSUME calls[Agent].pc \in {"refresh", "record"}, todo' = todo,
         \/ calls'[Agent] = Idle
         \/ calls[Agent].pc = "refresh" /\ calls'[Agent].pc = "record"
  PROVE  Rank' < Rank
  <1>1. Rank = StepsLeft[calls[Agent].pc] + (IF todo = "done" THEN 0 ELSE 40)
    BY OutlookIs DEF OutlookReads
  <1>2. /\ Outlook(calls[Agent])' \in Nat
        /\ Outlook(calls[Agent])' <= IF todo = "done" THEN 0 ELSE 40
    BY OutlookBecomes DEF OutlookReads, Idle, Ahead
  <1>3. Rank' = StepsLeft[calls'[Agent].pc] + Outlook(calls[Agent])'
    BY OutlookBecomes DEF OutlookReads
  <1>4. QED
    BY <1>1, <1>2, <1>3 DEF StepsLeft, Idle

LEMMA OtherCounts ==
  ASSUME MeasureInv, OneNotebook, Editable, RetryOther
  PROVE  Rank' < Rank
  <1>1. CASE RefreshRead(Agent)
    <2>1. PICK fps : Goto(Agent, [calls[Agent] EXCEPT !.pc = "record", !.fps = fps])
      BY <1>1 DEF RefreshRead
    <2>2. calls[Agent].pc = "refresh" /\ calls'[Agent].pc = "record"
      BY <1>1, <2>1, OwnCallIs DEF RefreshRead, At, Goto, Call
    <2>3. QED
      BY <2>2, RefreshCounts DEF RetryOther
  <1>2. CASE Record(Agent)
    BY <1>2, OwnCallIs, RefreshCounts DEF RetryOther, Record, At, Return, Goto
  <1>3. QED
    BY <1>1, <1>2, RecensusCounts, RepairCounts, ExecCounts DEF RetryOther

LEMMA RefusalCounts ==
  ASSUME MeasureInv, OneNotebook, Editable, ServerRefuses
  PROVE  Rank' < Rank
  <1> DEFINE call == calls[Agent]
  <1>1. calls'[Agent] = Idle /\ todo' = todo
    BY OwnCallIs DEF ServerRefuses, Fail, Return, Goto
  <1>2. CASE call.pc = "refresh"
    BY <1>1, <1>2, RefreshCounts
  <1>3. CASE call.pc \in {"exec", "write"}
    <2>1. call.s \in SessionIds /\ call.op \in {"edit", "data", "inspect"}
      BY <1>3, OwnCallIs
    <2>2. ~Home(call.s)
      <3>1. CASE live[call.s] = None
        BY <2>1, <3>1, HomeIsServed
      <3>2. CASE call.pc = "write" /\ doc[live[call.s]][call.key] = None
        <4>1. call.key = Target
          BY <2>1, <3>2, OwnCallIs DEF CallOK
        <4>2. QED
          BY <2>1, <3>2, <4>1, HomeIsEditable
      <3>3. QED
        BY <1>3, <3>1, <3>2 DEF ServerRefuses, Impossible, At
    <2>3. ~Mismatched(call) /\ Overtaken(call)
      BY <1>3, <2>2 DEF Mismatched, Overtaken
    <2>4. QED
      BY <1>1, <1>3, <2>3, OvertakenCounts DEF Idle, StepsLeft, Phases
  <1>4. QED
    BY <1>2, <1>3 DEF ServerRefuses, Impossible, At

LEMMA WriteCounts ==
  ASSUME MeasureInv, RetryWrite, calls'[Agent].pc = "refresh", todo' = "done"
  PROVE  Rank' < Rank
  <1>1. calls[Agent].pc = "write"
    BY DEF RetryWrite, WriteEdit, At
  <1>2. Rank \in Nat /\ Rank >= 3
    BY <1>1, OutlookIs DEF OutlookReads, StepsLeft
  <1>3. Rank' = 2
    BY OutlookBecomes DEF OutlookReads, StepsLeft
  <1>4. QED
    BY <1>2, <1>3

-----------------------------------------------------------------------------
(* What others do is paid for by the budget.                               *)
LEMMA BudgetIs ==
  ASSUME MeasureInv
  PROVE  /\ Budget \in Nat
         /\ MaxHuman \in Nat /\ MaxMoves \in Nat /\ MaxFaults \in Nat
         /\ human \in Nat /\ moves \in Nat /\ faults \in Nat
         /\ human <= MaxHuman /\ moves <= MaxMoves /\ faults <= MaxFaults
  BY CoWorkAssumption, EditRetryAssumption
  DEF MeasureInv, Bounded, RetryInv, RetryTypeOK, TypeInv, TypeOK, Budget

LEMMA InterferenceIsPaid ==
  ASSUME MeasureInv, MeasureInv',
         Interference \/ RequestLost \/ (RetryWrite /\ faults' = faults + 1)
  PROVE  Measure' < Measure
  <1>1. Budget' = Budget - 1
    <2>1. ASSUME NEW n \in Notebooks, NEW c \in Cells, HumanChange(n, c),
                 UNCHANGED faults
          PROVE  Budget' = Budget - 1
      BY <2>1, BudgetIs DEF HumanChange, Budget
    <2>2. ASSUME NEW s \in SessionIds, NEW n \in Notebooks, Open(s, n),
                 UNCHANGED faults
          PROVE  Budget' = Budget - 1
      BY <2>2, BudgetIs DEF Open, Budget
    <2>3. ASSUME NEW s \in SessionIds, Close(s), UNCHANGED faults
          PROVE  Budget' = Budget - 1
      BY <2>3, BudgetIs DEF Close, Budget
    <2>4. ASSUME NEW s \in SessionIds, NEW t \in SessionIds, Rekey(s, t),
                 UNCHANGED faults
          PROVE  Budget' = Budget - 1
      BY <2>4, BudgetIs DEF Rekey, Budget
    <2>5. CASE RequestLost
      BY <2>5, BudgetIs DEF RequestLost, Fail, Budget
    <2>6. CASE RetryWrite /\ faults' = faults + 1
      BY <2>6, BudgetIs DEF RetryWrite, WriteEdit, Budget
    <2>7. QED
      BY <2>1, <2>2, <2>3, <2>4, <2>5, <2>6 DEF Interference
  <1>2. Rank \in 0..47
    BY RankRange DEF MeasureInv
  <1>3. Rank' \in 0..47
    <2>1. StepsLeft[calls'[Agent].pc] \in 0..7
      BY StepsLeftRange, RetryConstants
      DEF MeasureInv, RetryInv, TypeInv, TypeOK, Call
    <2>2. QED
      BY <2>1, OutlookBecomes DEF OutlookReads
  <1>4. QED
    BY <1>1, <1>2, <1>3, BudgetIs DEF Measure

LEMMA AgentStepsCount ==
  ASSUME MeasureInv, OneNotebook, Editable, AgentStep,
         ~(RetryWrite /\ faults' = faults + 1)
  PROVE  Rank' < Rank /\ Budget' = Budget
  <1>1. Rank' < Rank
    <2>1. CASE RetryWrite
      BY <2>1, WriteCounts DEF RetryWrite
    <2>2. QED
      BY <2>1, BeginEditCounts, BeginReadCounts, BeginBindCounts, ResolveCounts,
         GuardCounts, ReadCounts, OtherCounts, RefusalCounts DEF AgentStep
  <1>2. Budget' = Budget
    <2>1. UNCHANGED <<human, moves>>
      <3>1. ASSUME Step(Agent) \/ Fail(Agent)
            PROVE  UNCHANGED <<human, moves>>
        BY <3>1, CallsMoveNoSession, RetryConstants
      <3>2. CASE BeginEdit \/ BeginRead \/ BeginBind
        BY <3>2 DEF BeginEdit, BeginRead, BeginBind, Begin
      <3>3. QED
        BY <3>1, <3>2 DEF AgentStep, RetryResolve, RetryGuard, RetryRead,
                          RetryWrite, RetryOther, ServerRefuses, Step
    <2>2. UNCHANGED faults
      BY DEF AgentStep, BeginEdit, BeginRead, BeginBind, RetryResolve, RetryGuard,
             RetryRead, RetryWrite, RetryOther, ServerRefuses
    <2>3. QED
      BY <2>1, <2>2 DEF Budget
  <1>3. QED
    BY <1>1, <1>2

(* Following the refusals' advice makes progress with every step: while    *)
(* the notebook is editable, no step of the agent, of a human, of the      *)
(* server or of the network leaves a bounded measure where it was, so the  *)
(* loop cannot go round in circles however the interferences fall.         *)
THEOREM EveryStepIsProgress ==
  ASSUME OneNotebook
  PROVE  RetrySpec => EveryStepCounts
  <1>1. MeasureInv /\ MeasureInv' /\ [RetryNext]_retryVars =>
          [Editable => Measure' < Measure]_retryVars
    <2> SUFFICES ASSUME MeasureInv, MeasureInv', RetryNext, Editable
                 PROVE  Measure' < Measure
      OBVIOUS
    <2>1. CASE Interference \/ RequestLost \/ (RetryWrite /\ faults' = faults + 1)
      BY <2>1, InterferenceIsPaid
    <2>2. CASE AgentStep /\ ~(RetryWrite /\ faults' = faults + 1)
      <3>1. Rank' < Rank /\ Budget' = Budget
        BY <2>2, AgentStepsCount
      <3>2. Rank \in 0..47 /\ Budget \in Nat
        BY RankRange, BudgetIs DEF MeasureInv
      <3>3. Rank' \in Nat
        <4>1. StepsLeft[calls'[Agent].pc] \in 0..7
          BY StepsLeftRange, RetryConstants
          DEF MeasureInv, RetryInv, TypeInv, TypeOK, Call
        <4>2. QED
          BY <4>1, OutlookBecomes DEF OutlookReads
      <3>4. Measure = 48 * Budget + Rank /\ Measure' = 48 * Budget + Rank'
        BY <3>1 DEF Measure
      <3>5. \A b, q, r \in Nat : q < r => 48 * b + q < 48 * b + r
        OBVIOUS
      <3>6. Budget \in Nat /\ Rank \in Nat /\ Rank' \in Nat
        BY <3>2, <3>3
      <3>7. QED
        BY <3>1, <3>4, <3>5, <3>6
    <2>3. QED
      BY <2>1, <2>2 DEF RetryNext
  <1>2. QED
    BY <1>1, MeasureInvHolds, PTL DEF RetrySpec, EveryStepCounts
=============================================================================
