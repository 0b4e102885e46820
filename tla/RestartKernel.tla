---------------------------- MODULE RestartKernel ----------------------------
(***************************************************************************)
(* tools/lifecycle.py, restart_kernel, and the requests of client.py it is *)
(* made of: a census that finds the session, the POST that only closes it, *)
(* authorised by a token scraped from the server's page, the handshake     *)
(* that brings a kernel back, a bounded poll of the census, and a second   *)
(* scrape that measures whether the server process is still the same.      *)
(* Anything may happen between two requests: other restarts, reads by      *)
(* other tool calls, browsers opening, re-keying and dropping sessions, a  *)
(* relaunch of the server.                                                 *)
(*                                                                         *)
(* Kernels are numbered as they start, server processes as they are        *)
(* launched; a process's skew-protection token is its number.              *)
(***************************************************************************)
EXTENDS Naturals

CONSTANTS
    Calls,          \* slots for restarts in flight
    SessionIds,
    Paths,
    Unsaved,        \* "", the path of a notebook without a file; no anchor
    None,
    ReuseInFlight,  \* may an id move to another notebook under a call on it?
    ReadsOverlap,   \* may a read's answer arrive after something else?
    Attempts,       \* REMATERIALIZE_POLL_ATTEMPTS
    MaxCalls,       \* bound on restarts
    MaxReads,       \* bound on reads by other tools
    MaxMoves        \* bound on what browsers and the server do by themselves

VARIABLES
    live,       \* the server's session table
    proc,       \* the server process
    checks,     \* does it check the token?
    spawned,    \* kernels started so far
    tracker,    \* of the change tracker: owner, and the kernels it has reads of
    reads,      \* answers of other tools' reads in flight
    calls,      \* restarts in flight
    begun,
    read,
    moves

vars == <<live, proc, checks, spawned, tracker, reads, calls, begun, read, moves>>

Session == [path: Paths, kernel: Nat \ {0}]
Listing == [SessionIds -> Paths \cup {None}]
Nobody == [s \in SessionIds |-> None]

NoToken == 0

(* session_census_denied stands for all that classify_denied_census says.  *)
Reasons == {"server_unreachable", "restart_failed", "session_census_denied",
            "notebook_mismatch",
            "session_not_found", "session_file_unknown",
            "skew_token_unavailable", "skew_token_invalid",
            "session_not_rematerialized", "server_sessionless"}

(* state_changed and preserved are None where the payload says null.       *)
Answer == [reason: Reasons \cup {"ok", "escaped"},
           state_changed: BOOLEAN \cup {None},
           preserved: BOOLEAN \cup {None}]

ASSUME RestartAssumption ==
    /\ Unsaved \in Paths
    /\ None \notin Paths \cup SessionIds \cup BOOLEAN
    /\ None \notin Answer /\ None \notin Session
    /\ ReuseInFlight \in BOOLEAN
    /\ ReadsOverlap \in BOOLEAN
    /\ Attempts \in Nat \ {0}
    /\ MaxCalls \in Nat
    /\ MaxReads \in Nat
    /\ MaxMoves \in Nat

Phases == {"idle", "census", "decide", "scrape", "post", "rescrape",
           "handshake", "poll", "measure", "finish", "done"}

Call == [pc: Phases,
         sid: SessionIds \cup {None},
         anchor: Paths,
         listing: Listing,          \* the census last read
         file: Paths \cup {None},
         token: Nat,                \* the token last sent
         ready: BOOLEAN,            \* kernel-ready was seen
         tries: 0..Attempts,        \* censuses polled
         live_id: SessionIds \cup {None},
         rotated: BOOLEAN \cup {None},
         answer: Answer \cup {None},
         refreshed: BOOLEAN,        \* the token was scraped again
         closed: Session \cup {None},   \* ghost: what the POST closed,
         closed_in: Nat,                \* ghost: in which process,
         verified: Session \cup {None}, \* ghost: what the poll saw live,
         measured_in: Nat]              \* ghost: the process measured

Idle == [pc |-> "idle", sid |-> None, anchor |-> Unsaved, listing |-> Nobody,
         file |-> None, token |-> NoToken, ready |-> FALSE, tries |-> 0,
         live_id |-> None, rotated |-> None, answer |-> None,
         refreshed |-> FALSE, closed |-> None, closed_in |-> 0,
         verified |-> None, measured_in |-> 0]

Entry == [owner: Paths \cup {None}, kernels: SUBSET Nat]
Unrecorded == [owner |-> None, kernels |-> {}]

TypeOK ==
    /\ live \in [SessionIds -> Session \cup {None}]
    /\ proc \in Nat \ {0}
    /\ checks \in BOOLEAN
    /\ spawned \in Nat
    /\ tracker \in [SessionIds -> Entry]
    /\ reads \subseteq [sid: SessionIds, kernel: Nat]
    /\ calls \in [Calls -> Call]
    /\ begun \in Nat
    /\ read \in Nat
    /\ moves \in Nat

Census == [s \in SessionIds |-> IF live[s] = None THEN None ELSE live[s].path]

(* A notebook has at most one session.                                     *)
Free(table, path) == \A s \in SessionIds : table[s] # None => table[s].path # path

Init ==
    /\ \E first \in SUBSET SessionIds, at \in [SessionIds -> Paths] :
         /\ live = [s \in SessionIds |->
                      IF s \in first THEN [path |-> at[s], kernel |-> 1] ELSE None]
         /\ \A s, t \in first : s # t => at[s] # at[t]
    /\ proc = 1
    /\ checks \in BOOLEAN
    /\ spawned = 1
    /\ tracker = [s \in SessionIds |-> Unrecorded]
    /\ reads = {}
    /\ calls = [k \in Calls |-> Idle]
    /\ begun = 0
    /\ read = 0
    /\ moves = 0
-----------------------------------------------------------------------------
At(k, phase) == calls[k].pc = phase

Goto(k, call) == calls' = [calls EXCEPT ![k] = call]

Server == <<live, proc, checks, spawned>>
Bounds == <<begun, read, moves>>

(* A refusal, or a payload: what the tool returns.                         *)
Answered(call, reason, changed) ==
    [call EXCEPT !.pc = "done",
        !.answer = [reason |-> reason, state_changed |-> changed,
                    preserved |-> IF reason = "ok" /\ call.rotated # None
                                  THEN ~call.rotated ELSE None]]

Begin(k, sid, anchor) ==
    /\ At(k, "idle")
    /\ begun < MaxCalls
    /\ begun' = begun + 1
    /\ Goto(k, [Idle EXCEPT !.pc = "census", !.sid = sid, !.anchor = anchor])
    /\ UNCHANGED <<Server, tracker, reads, read, moves>>

(* 1. Pre-flight.  A census that cannot be had ends the call.              *)
ReadCensus(k) ==
    LET call == calls[k] IN
    /\ At(k, "census")
    /\ \/ Goto(k, [call EXCEPT !.pc = "decide", !.listing = Census])
       \/ \E reason \in {"server_unreachable", "restart_failed",
                        "session_census_denied"} :
            Goto(k, Answered(call, reason, FALSE))
    /\ UNCHANGED <<Server, tracker, reads, Bounds>>

Target(call) == call.listing[call.sid]

(* An id-only rotation: the anchor's notebook under another id.            *)
Rotated(call) ==
    {t \in SessionIds : call.anchor # Unsaved /\ call.listing[t] = call.anchor}

FaultyMismatch(call) ==     \* only an id that is gone is checked
    FALSE

Mismatch(call) == Target(call) # None /\ call.anchor \notin {Unsaved, Target(call)}

Refusal(call) ==
    IF Mismatch(call) THEN "notebook_mismatch"
    ELSE IF Target(call) = None THEN "session_not_found"
    ELSE "session_file_unknown"

RefuseTarget(k) ==
    LET call == calls[k] IN
    /\ At(k, "decide")
    /\ \/ Mismatch(call)
       \/ Target(call) = None /\ Rotated(call) = {}
       \/ Target(call) = Unsaved
    /\ Goto(k, Answered(call, Refusal(call), FALSE))
    /\ UNCHANGED <<Server, tracker, reads, Bounds>>

AcceptTarget(k) ==
    LET call == calls[k] IN
    /\ At(k, "decide")
    /\ Target(call) \notin {None, Unsaved}
    /\ ~Mismatch(call)
    /\ Goto(k, [call EXCEPT !.pc = "scrape", !.file = Target(call),
                            !.listing = Nobody])
    /\ UNCHANGED <<Server, tracker, reads, Bounds>>

(* The abandoned id's entries go at once, whatever the restart comes to.   *)
RepairTarget(k) ==
    LET call == calls[k] IN
    /\ At(k, "decide")
    /\ Target(call) = None
    /\ \E t \in Rotated(call) :
         Goto(k, [call EXCEPT !.pc = "scrape", !.sid = t, !.file = call.anchor,
                                  !.listing = Nobody])
    /\ tracker' = [tracker EXCEPT ![call.sid] = Unrecorded]
    /\ UNCHANGED <<Server, reads, Bounds>>
-----------------------------------------------------------------------------
(* 2. The POST, with the page's token if the page gives one.               *)
Scrape(k) ==
    /\ At(k, "scrape")
    /\ \E token \in {proc, NoToken} :
         Goto(k, [calls[k] EXCEPT !.pc = "post", !.token = token])
    /\ UNCHANGED <<Server, tracker, reads, Bounds>>

Authorised(k) == ~checks \/ calls[k].token = proc

FaultyLost(call) ==         \* no answer, so nothing happened
    Answered(call, "server_unreachable", FALSE)

Lost(call) == Answered(call, "server_unreachable", None)

PostCloses(k) ==
    LET call == [calls[k] EXCEPT !.closed = live[calls[k].sid],
                                 !.closed_in = proc]
    IN
    /\ At(k, "post")
    /\ Authorised(k)
    /\ live[call.sid] # None
    /\ live' = [live EXCEPT ![call.sid] = None]
    /\ \/ Goto(k, [call EXCEPT !.pc = "handshake"])
       \/ Goto(k, Lost(call))
    /\ UNCHANGED <<proc, checks, spawned, tracker, reads, Bounds>>

(* One retry with a fresh token, and no more.                              *)
WrongToken(call) ==
    IF call.refreshed THEN Answered(call, "skew_token_invalid", FALSE)
    ELSE [call EXCEPT !.pc = "rescrape"]

(* Answers that close nothing, and no answer to a request that never       *)
(* arrived.  That a server which answers with a failure has closed nothing *)
(* is what the tool takes for granted.                                     *)
PostFails(k) ==
    LET call == calls[k] IN
    /\ At(k, "post")
    /\ \/ /\ ~Authorised(k)
          /\ Goto(k, IF call.token = NoToken
                     THEN Answered(call, "skew_token_unavailable", FALSE)
                     ELSE WrongToken(call))
       \/ /\ Authorised(k)
          /\ live[call.sid] = None
          /\ Goto(k, Answered(call, "session_not_found", FALSE))
       \/ Goto(k, Answered(call, "restart_failed", FALSE))
       \/ Goto(k, Lost(call))
    /\ UNCHANGED <<Server, tracker, reads, Bounds>>

Rescrape(k) ==
    LET call == calls[k] IN
    /\ At(k, "rescrape")
    /\ \/ Goto(k, [call EXCEPT !.pc = "post", !.token = proc, !.refreshed = TRUE])
       \/ Goto(k, Answered(call, "skew_token_unavailable", FALSE))
    /\ UNCHANGED <<Server, tracker, reads, Bounds>>
-----------------------------------------------------------------------------
(* 3. The handshake: a new kernel, or a session that is there already, or  *)
(* that of the notebook, which goes by this id from now on.                *)
Connect(call) ==
    \/ /\ live[call.sid] # None
       /\ UNCHANGED <<live, spawned>>
    \/ /\ live[call.sid] = None
       /\ Free(live, call.file)
       /\ live' = [live EXCEPT ![call.sid] = [path |-> call.file,
                                              kernel |-> spawned + 1]]
       /\ spawned' = spawned + 1
    \/ /\ live[call.sid] = None
       /\ \E t \in SessionIds :
            /\ Census[t] = call.file
            /\ live' = [live EXCEPT ![t] = None, ![call.sid] = live[t]]
       /\ UNCHANGED spawned

Handshake(k) ==
    LET call == [calls[k] EXCEPT !.pc = "poll"] IN
    /\ At(k, "handshake")
    /\ \/ /\ Connect(call)
          /\ \E ready \in BOOLEAN : Goto(k, [call EXCEPT !.ready = ready])
       \/ /\ Goto(k, call)
          /\ UNCHANGED <<live, spawned>>
    /\ UNCHANGED <<proc, checks, tracker, reads, Bounds>>

(* _poll_for_live_session.  A census that fails counts as an empty one.    *)
FaultyTried(call) ==        \* the attempts are not counted
    call

FaultyAttempts(call) ==     \* one attempt too many
    [call EXCEPT !.tries = @ + 1,
                 !.pc = IF call.tries = Attempts THEN "measure" ELSE "poll"]

Tried(call) ==
    [call EXCEPT !.tries = @ + 1,
                 !.pc = IF call.tries + 1 = Attempts THEN "measure" ELSE "poll"]

FaultyIsBack(call) ==       \* whichever session is there
    {s \in SessionIds : live[s] # None}

IsBack(call) == {s \in {call.sid} : live[s] # None}

Poll(k) ==
    LET call == [calls[k] EXCEPT !.listing = Census] IN
    /\ At(k, "poll")
    /\ \/ \E s \in IsBack(call) :
            Goto(k, [call EXCEPT !.pc = "measure", !.live_id = s,
                                 !.verified = live[s]])
       \/ /\ IsBack(call) = {}
          /\ Goto(k, Tried(call))
    /\ UNCHANGED <<Server, tracker, reads, Bounds>>

PollFails(k) ==
    LET call == [calls[k] EXCEPT !.listing = Nobody] IN
    /\ At(k, "poll")
    /\ Goto(k, Tried(call))
    /\ UNCHANGED <<Server, tracker, reads, Bounds>>

(* A census that is not the object it should be raises what the pre-flight *)
(* catches and the poll does not.                                          *)
PollEscapes(k) ==
    /\ At(k, "poll")
    /\ Goto(k, Answered(calls[k], "escaped", None))
    /\ UNCHANGED <<Server, tracker, reads, Bounds>>

FaultyMeasured(call) ==     \* the token the client still has
    {FALSE}

(* _measure_token_rotation: never inferred.                                *)
Measured(call) == IF call.token = NoToken THEN {None} ELSE {proc # call.token, None}

Measure(k) ==
    /\ At(k, "measure")
    /\ \E rotated \in Measured(calls[k]) :
         Goto(k, [calls[k] EXCEPT !.pc = "finish", !.rotated = rotated,
                                  !.measured_in = proc])
    /\ UNCHANGED <<Server, tracker, reads, Bounds>>
-----------------------------------------------------------------------------
Adopt(entry, path) ==
    IF entry.owner = path THEN entry ELSE [Unrecorded EXCEPT !.owner = path]

FaultyReset(entry, path) == Adopt(entry, path)  \* same notebook, same entries

(* 4. clear_session, then adopt_notebook.                                  *)
Reset(entry, path) == Adopt(Unrecorded, path)

FaultySucceeded(call) ==    \* the handshake was enough
    call.ready

Succeeded(call) == call.ready /\ call.live_id # None

Finish(k) ==
    LET call == calls[k] IN
    /\ At(k, "finish")
    /\ Succeeded(call)
    /\ tracker' = [tracker EXCEPT ![call.sid] = Reset(@, call.file)]
    /\ Goto(k, Answered(call, "ok", TRUE))
    /\ UNCHANGED <<Server, reads, Bounds>>

(* _closed_without_live_session.                                           *)
NotBack(k) ==
    LET call == calls[k] IN
    /\ At(k, "finish")
    /\ ~Succeeded(call)
    /\ Goto(k, Answered(call,
                        IF call.ready /\ call.listing = Nobody
                        THEN "server_sessionless"
                        ELSE "session_not_rematerialized", TRUE))
    /\ UNCHANGED <<Server, tracker, reads, Bounds>>

Return(k) ==
    /\ At(k, "done")
    /\ Goto(k, Idle)
    /\ UNCHANGED <<Server, tracker, reads, Bounds>>
-----------------------------------------------------------------------------
(* get_cell_data and the other tools that record what they read (CoWork):  *)
(* the id is attributed, the kernel read, and the answer recorded, at once *)
(* or after whatever comes in between.                                     *)
RecordRead(entry, kernel) == [entry EXCEPT !.kernels = @ \cup {kernel}]

Read(s) ==
    LET adopted == Adopt(tracker[s], live[s].path) IN
    /\ read < MaxReads
    /\ read' = read + 1
    /\ live[s] # None
    /\ IF ReadsOverlap
       THEN /\ tracker' = [tracker EXCEPT ![s] = adopted]
            /\ reads' = reads \cup {[sid |-> s, kernel |-> live[s].kernel]}
       ELSE /\ tracker' = [tracker EXCEPT ![s] =
                             RecordRead(adopted, live[s].kernel)]
            /\ UNCHANGED reads
    /\ UNCHANGED <<Server, calls, begun, moves>>

Deliver(answer) ==
    /\ reads' = reads \ {answer}
    /\ tracker' = [tracker EXCEPT ![answer.sid] = RecordRead(@, answer.kernel)]
    /\ UNCHANGED <<Server, calls, Bounds>>

(* Browsers and the server.  What a restart that is not over takes an id   *)
(* to serve, since its census.                                             *)
Claimed(call, s) ==
    IF call.pc = "decide" THEN call.listing[s]
    ELSE IF call.sid = s /\ call.pc # "done" THEN call.file ELSE None

MayServe(s, path) ==
    ReuseInFlight \/ \A k \in Calls : Claimed(calls[k], s) \in {None, path}

Move ==
    /\ moves < MaxMoves
    /\ moves' = moves + 1
    /\ UNCHANGED <<tracker, reads, calls, begun, read>>

Open(s, path) ==
    /\ live[s] = None
    /\ Free(live, path)
    /\ MayServe(s, path)
    /\ live' = [live EXCEPT ![s] = [path |-> path, kernel |-> spawned + 1]]
    /\ spawned' = spawned + 1
    /\ UNCHANGED <<proc, checks>>
    /\ Move

Drop(s) ==
    /\ live[s] # None
    /\ live' = [live EXCEPT ![s] = None]
    /\ UNCHANGED <<proc, checks, spawned>>
    /\ Move

Rekey(s, t) ==
    /\ live[s] # None
    /\ live[t] = None
    /\ MayServe(t, live[s].path)
    /\ live' = [live EXCEPT ![s] = None, ![t] = live[s]]
    /\ UNCHANGED <<proc, checks, spawned>>
    /\ Move

Relaunch ==
    /\ proc' = proc + 1
    /\ checks' \in BOOLEAN
    /\ live' = [s \in SessionIds |-> None]
    /\ UNCHANGED spawned
    /\ Move
-----------------------------------------------------------------------------
Step(k) ==
    \/ ReadCensus(k) \/ RefuseTarget(k) \/ AcceptTarget(k) \/ RepairTarget(k)
    \/ Scrape(k) \/ PostCloses(k) \/ PostFails(k) \/ Rescrape(k)
    \/ Handshake(k) \/ Poll(k) \/ PollFails(k) \/ PollEscapes(k)
    \/ Measure(k) \/ Finish(k) \/ NotBack(k) \/ Return(k)

Environment ==
    \/ \E s \in SessionIds : Read(s)
    \/ \E answer \in reads : Deliver(answer)
    \/ \E s \in SessionIds, path \in Paths : Open(s, path)
    \/ \E s \in SessionIds : Drop(s)
    \/ \E s, t \in SessionIds : Rekey(s, t)
    \/ Relaunch

Next ==
    \/ \E k \in Calls, sid \in SessionIds, anchor \in Paths : Begin(k, sid, anchor)
    \/ \E k \in Calls : Step(k)
    \/ Environment

Spec == Init /\ [][Next]_vars

(* Every request is answered, refused or times out (MarimoClient sets a    *)
(* timeout on each), and the event loop resumes whoever waited.            *)
FairSpec == Spec /\ \A k \in Calls : WF_vars(Step(k))
-----------------------------------------------------------------------------
Ended(k) == At(k, "done") /\ calls[k].answer.reason # "escaped"
Changed(k) == calls[k].answer.state_changed
Success(k) == At(k, "done") /\ calls[k].answer.reason = "ok"

(* state_changed never lies: FALSE only if this call closed no kernel, and *)
(* TRUE only if it did, whatever got lost on the way; unknown is allowed   *)
(* to be either (_failure, _restart_failure).                              *)
Truthful ==
    \A k \in Calls :
        Ended(k) => /\ Changed(k) = FALSE => calls[k].closed = None
                    /\ Changed(k) = TRUE  => calls[k].closed # None

(* "The handler never reports success it did not verify": this call closed *)
(* a kernel, the handshake was answered, and after that a younger kernel   *)
(* was live under the very same id, for the same notebook.                 *)
SuccessIsReal ==
    \A k \in Calls :
        Success(k) =>
            LET call == calls[k] IN
            /\ call.closed # None /\ call.verified # None /\ call.ready
            /\ call.live_id = call.sid
            /\ call.verified.kernel > call.closed.kernel
            /\ call.verified.path = call.file

(* Do the server and the restarts in flight agree about what an id serves? *)
Agreed(s) ==
    \A j, k \in Calls :
        Claimed(calls[k], s) # None =>
            /\ Census[s] \in {None, Claimed(calls[k], s)}
            /\ Claimed(calls[j], s) \in {None, Claimed(calls[k], s)}

(* A browser or the server, and no restart, gives an id to a notebook some *)
(* restart in flight does not take it to serve.                            *)
HandedOver(s) ==
    /\ moves' = moves + 1
    /\ \E k \in Calls : Claimed(calls[k], s) # None
                         /\ Census'[s] \notin {None, Claimed(calls[k], s)}

(* A restart closes the kernel of the notebook its census showed, which is *)
(* the one it is bound to if it is bound, whatever id it goes by in the    *)
(* end, except over an id that was handed to another notebook after a      *)
(* restart in flight read it: the window that session.py admits for any    *)
(* bound POST ("the census read and the execute POST remain separate       *)
(* requests") is the only one.                                             *)
(* However stale the binding, and whatever other restarts repair, close    *)
(* and bring back under the same id, they open none.                       *)
RightKernel ==
    [][/\ \A s \in SessionIds : Agreed(s) => Agreed(s)' \/ HandedOver(s)
       /\ \A k \in Calls :
            PostCloses(k) =>
                /\ calls[k].anchor \in {Unsaved, calls[k].file}
                /\ Agreed(calls[k].sid) =>
                     live[calls[k].sid].path = calls[k].file]_vars

(* server_process_preserved: the process that closed the kernel is the one *)
(* that was measured afterwards; a relaunch in between never goes unseen.  *)
PreservedServer ==
    \A k \in Calls :
        Success(k) /\ calls[k].answer.preserved = TRUE =>
            calls[k].closed_in = calls[k].measured_in

(* The kernel that was closed, if any, was the notebook's.                 *)
ClosedOwn(call) == call.closed # None /\ call.closed.path = call.file

Afresh(k) ==
    LET call  == calls'[k]
        entry == tracker'[call.sid]
    IN
    ClosedOwn(call) /\ entry.owner = call.file =>
        \A kernel \in entry.kernels :
            \/ kernel > call.closed.kernel
            \/ [sid |-> call.sid, kernel |-> kernel] \in reads
            \/ Success(k) /\ kernel \in tracker[call.sid].kernels

(* After a success "every cell reports needs_read again until re-read":    *)
(* if it closed the notebook's kernel, no read of a kernel from before is  *)
(* recorded for the notebook, unless one that was under way is answered    *)
(* after it.                                                               *)
StartsAfresh == [][\A k \in Calls : Success(k)' => Afresh(k)]_vars

(* Every restart ends with an answer: the poll, the one retry of the POST  *)
(* and every request are bounded.                                          *)
EveryRestartEnds == \A k \in Calls : ~At(k, "idle") ~> At(k, "done")

(* The steps a call has left until it is answered, at most: a second POST  *)
(* if the first one had the wrong token, and the censuses not yet polled.  *)
StepsLeft(call) ==
    CASE call.pc = "done"      -> 0
      [] call.pc = "finish"    -> 1
      [] call.pc = "measure"   -> 2
      [] call.pc = "poll"      -> 2 + (Attempts - call.tries)
      [] call.pc = "handshake" -> 3 + Attempts
      [] call.pc = "post"      -> (IF call.refreshed THEN 4 ELSE 6) + Attempts
      [] call.pc = "rescrape"  -> 5 + Attempts
      [] call.pc = "scrape"    -> 7 + Attempts
      [] call.pc = "decide"    -> 8 + Attempts
      [] call.pc = "census"    -> 9 + Attempts
      [] call.pc = "idle"      -> 10 + Attempts

(* No step of a restart is in vain, and nobody else's holds it up: each    *)
(* brings it nearer to its answer, which is Attempts + 9 requests away at  *)
(* most however often the session, the token and the server change.        *)
EveryStepCounts ==
    [][\A k \in Calls :
          \/ calls'[k] = calls[k]
          \/ At(k, "done")
          \/ StepsLeft(calls'[k]) < StepsLeft(calls[k])]_vars
-----------------------------------------------------------------------------
(* Why the contract is kept when no id changes hands under a call: then    *)
(* all agree about every id, and what was closed is right.                 *)
ClosedRight ==
    \A k \in Calls :
        calls[k].closed # None =>
            /\ calls[k].closed.path = calls[k].file
            /\ calls[k].anchor \in {Unsaved, calls[k].closed.path}

RightInv == (\A s \in SessionIds : Agreed(s)) /\ ClosedRight
-----------------------------------------------------------------------------
(* The restarts of RestartContract, which knows no session ids.            *)
Said(answer) ==
    CASE answer = None                              -> None
      [] answer # None /\ answer.reason = "ok"      -> "ok"
      [] answer # None /\ answer.reason # "ok"      ->
            CASE answer.state_changed = TRUE  -> "changed"
              [] answer.state_changed = FALSE -> "unchanged"
              [] answer.state_changed = None  -> "unknown"

Stage(call) ==
    CASE call.pc = "idle" -> "idle"
      [] call.pc = "done" -> "done"
      [] call.pc \notin {"idle", "done"} ->
            IF call.closed = None THEN "open" ELSE "closed"

Restart(call) ==
    [phase |-> Stage(call), anchor |-> call.anchor, closed |-> call.closed,
     seen |-> call.verified, said |-> Said(call.answer)]

Contract ==
    INSTANCE RestartContract WITH
        kernels  <- {live[s] : s \in SessionIds} \ {None},
        born     <- spawned,
        restarts <- [k \in Calls |-> Restart(calls[k])]

(* restart_kernel keeps its contract: whatever the ids, tokens and polls   *)
(* do on the way, a call closes one kernel at most, that of the notebook   *)
(* it was asked for, starts none but for that notebook, and its answer is  *)
(* true of that kernel.                                                    *)
KeepsContract == Contract!Spec
-----------------------------------------------------------------------------
(* What the sources say beyond what the code does.                         *)

(* "the local change tracker is cleared because cell ids and hashes from   *)
(* before the restart are not a valid basis for anything": whenever the    *)
(* tool says that the kernel was closed.                                   *)
ClosedMeansCleared ==
    \A k \in Calls :
        Ended(k) /\ Changed(k) = TRUE =>
            calls[k].closed.kernel \notin tracker[calls[k].sid].kernels
=============================================================================
