------------------------------ MODULE Binding ------------------------------
(***************************************************************************)
(* The active-notebook binding of tools/session.py.  A binding (session    *)
(* id, server URL, notebook path) is written to three keys of the MCP      *)
(* session's state, one await each, and then, as a whole, to a fallback    *)
(* shared by the server process.  A tool call reads it back key by key,    *)
(* again with an await before each, and turns to the fallback for a key    *)
(* its own MCP session does not have.  Over stdio the process has a single *)
(* client, whose MCP sessions may change from call to call; over HTTP the  *)
(* MCP sessions are those of different clients.                            *)
(*                                                                         *)
(* What a call does with what it read, and the adopt_notebook a bind       *)
(* begins with, are the subject of CoWork, where calls start with any      *)
(* session id and any anchor.  Every bind in the sources supplies a URL.   *)
(***************************************************************************)
EXTENDS Naturals

CONSTANTS
    Contexts,       \* MCP sessions
    Calls,          \* slots for calls in flight
    SessionIds,
    Urls,
    Paths,
    Unsaved,        \* the path of a notebook without a file, ""; no anchor
    None,           \* a key that is not set, an argument not given
    Mixed,          \* ghost: the keys are not those of one completed bind
    MaxCalls        \* bound on calls

VARIABLES
    stdio,      \* is the transport stdio?  fixed when the server is started
    keys,       \* FastMCP state of each MCP session
    fallback,   \* the process-global binding
    seen,       \* MCP sessions observed (_seen_client_sessions)
    calls,      \* binds and resolutions in flight
    begun,      \* calls so far
    writer,     \* ghost: who stored the fallback
    settled,    \* ghost: the last bind completed undisturbed in a context
    last        \* ghost: the binding last stored for everybody

vars == <<stdio, keys, fallback, seen, calls, begun, writer, settled, last>>

Triple == [sid: SessionIds, url: Urls, path: Paths]

ASSUME BindingAssumption ==
    /\ Unsaved \in Paths
    /\ MaxCalls \in Nat
    /\ None \notin SessionIds \cup Urls \cup Paths \cup Contexts
    /\ None # Mixed /\ {None, Mixed} \cap Triple = {}

NothingBound == [sid |-> None, url |-> None, path |-> None]
Keys == [sid: SessionIds \cup {None}, url: Urls \cup {None},
         path: Paths \cup {None}]

Binds == {"set_url", "set_notebook", "store"}
Reads == {"read_id", "read_url", "read_bound", "read_notebook"}

(* ask and ask_url are a call's explicit arguments; the rest of got is     *)
(* what a bind is about to write, or what a resolution has read.           *)
Call == [pc: {"idle", "done"} \cup Binds \cup Reads,
         ctx: Contexts \cup {None},
         ask: SessionIds \cup {None},
         ask_url: Urls \cup {None},
         got: Keys,
         refused: BOOLEAN,
         used: SUBSET Contexts,     \* ghost: whose binding the call was given
         clean: BOOLEAN]            \* ghost: no bind got in between

(* A bind under way has a binding; so has a resolution that succeeded.     *)
Complete ==
    {call \in Call :
        call.pc \in Binds \/ (call.pc = "done" /\ ~call.refused)
            => call.got \in Triple}

Idle == [pc |-> "idle", ctx |-> None, ask |-> None, ask_url |-> None,
         got |-> NothingBound, refused |-> FALSE, used |-> {}, clean |-> TRUE]

TypeOK ==
    /\ stdio \in BOOLEAN
    /\ keys \in [Contexts -> Keys]
    /\ fallback \in Keys
    /\ seen \subseteq Contexts
    /\ calls \in [Calls -> Complete]
    /\ begun \in Nat
    /\ writer \in Contexts \cup {None}
    /\ settled \in [Contexts -> Triple \cup {None, Mixed}]
    /\ last \in Triple \cup {None}

Init ==
    /\ stdio \in BOOLEAN
    /\ keys = [x \in Contexts |-> NothingBound]
    /\ fallback = [NothingBound EXCEPT !.path = Unsaved]
    /\ seen = {}
    /\ calls = [k \in Calls |-> Idle]
    /\ begun = 0
    /\ writer = None
    /\ settled = [x \in Contexts |-> None]
    /\ last = None
-----------------------------------------------------------------------------
(* record_client_session: over stdio nobody is counted.                    *)
Observe(x) == IF stdio THEN seen ELSE seen \cup {x}

FaultySeveral ==        \* off by one
    \E x, y, z \in seen : x # y /\ y # z /\ x # z

(* More than one client session observed: len(_seen_client_sessions) > 1.  *)
Several == \E x, y \in seen : x # y

(* fallback_decision.                                                      *)
Withheld == fallback.sid # None /\ ~stdio /\ Several
Served == fallback.sid # None /\ ~Withheld

At(k, phase) == calls[k].pc = phase

Goto(k, call) == calls' = [calls EXCEPT ![k] = call]

(* Ghost: calls that others of them get in the way of.                     *)
Disturb(k, call, whom) ==
    calls' = [j \in Calls |->
                IF j = k THEN call
                ELSE [calls[j] EXCEPT !.clean = @ /\ j \notin whom]]

InContext(x) == {j \in Calls : calls[j].ctx = x}
Resolving == {j \in Calls : calls[j].pc \in Reads \cup {"done"}}
Binding(x) == {j \in InContext(x) : calls[j].pc \in Binds}
-----------------------------------------------------------------------------
(* bind_active_session: the session id first ...                           *)
Bind(k, x, b) ==
    /\ At(k, "idle")
    /\ keys' = [keys EXCEPT ![x].sid = b.sid]
    /\ settled' = [settled EXCEPT ![x] = Mixed]
    /\ Disturb(k, [Idle EXCEPT !.pc = "set_url", !.ctx = x, !.got = b,
                               !.clean = Binding(x) = {}],
               InContext(x))
    /\ UNCHANGED <<fallback, seen, writer, last>>

BindUrl(k) ==
    LET call == calls[k] IN
    /\ At(k, "set_url")
    /\ keys' = [keys EXCEPT ![call.ctx].url = call.got.url]
    /\ Disturb(k, [call EXCEPT !.pc = "set_notebook"], InContext(call.ctx))
    /\ UNCHANGED <<fallback, seen, begun, writer, settled, last>>

FaultyBindNotebook(k) ==        \* nothing to record for an unsaved notebook
    LET call == calls[k] IN
    /\ At(k, "set_notebook")
    /\ IF call.got.path = Unsaved THEN UNCHANGED keys
       ELSE keys' = [keys EXCEPT ![call.ctx].path = call.got.path]
    /\ Disturb(k, [call EXCEPT !.pc = "store"], InContext(call.ctx))
    /\ UNCHANGED <<fallback, seen, begun, writer, settled, last>>

(* ... the path even when it is empty ...                                  *)
BindNotebook(k) ==
    LET call == calls[k] IN
    /\ At(k, "set_notebook")
    /\ keys' = [keys EXCEPT ![call.ctx].path = call.got.path]
    /\ Disturb(k, [call EXCEPT !.pc = "store"], InContext(call.ctx))
    /\ UNCHANGED <<fallback, seen, begun, writer, settled, last>>

(* ... and then the binder's own session and the fallback, in one step.    *)
BindStore(k) ==
    LET call == calls[k] IN
    /\ At(k, "store")
    /\ seen' = Observe(call.ctx)
    /\ fallback' = call.got
    /\ writer' = call.ctx
    /\ last' = call.got
    /\ settled' = [settled EXCEPT ![call.ctx] =
                     IF call.clean THEN call.got ELSE Mixed]
    /\ Disturb(k, Idle, InContext(call.ctx) \cup Resolving)
    /\ UNCHANGED <<keys, begun>>
-----------------------------------------------------------------------------
(* A tool call resolves its target; its client session is recorded first.  *)
Resolve(k, x, ask, ask_url) ==
    /\ At(k, "idle")
    /\ seen' = Observe(x)
    /\ Disturb(k, [Idle EXCEPT !.pc = "read_id", !.ctx = x, !.ask = ask,
                               !.ask_url = ask_url,
                               !.clean = Binding(x) = {}],
               IF seen' = seen THEN {} ELSE Resolving)
    /\ UNCHANGED <<keys, fallback, writer, settled, last>>

(* The value of a key: the MCP session's own, else the fallback's.         *)
Lookup(x, field) ==
    IF keys[x][field] # None THEN [val |-> keys[x][field], from |-> {x}]
    ELSE IF Served THEN [val |-> fallback[field], from |-> {writer}]
    ELSE [val |-> None, from |-> {}]

Refuse(k) == Goto(k, [calls[k] EXCEPT !.pc = "done", !.refused = TRUE])

(* resolve_session_id: refused as binding_ambiguous or session_required.   *)
ReadId(k) ==
    LET call  == calls[k]
        bound == Lookup(call.ctx, "sid")
    IN
    /\ At(k, "read_id")
    /\ CASE call.ask # None ->
              Goto(k, [call EXCEPT !.pc = "read_url", !.got.sid = call.ask])
         [] call.ask = None /\ bound.val # None ->
              Goto(k, [call EXCEPT !.pc = "read_url", !.got.sid = bound.val,
                                   !.used = @ \cup bound.from])
         [] OTHER -> Refuse(k)
    /\ UNCHANGED <<keys, fallback, seen, begun, writer, settled, last>>

(* resolve_server_url.                                                     *)
ReadUrl(k) ==
    LET call  == calls[k]
        bound == Lookup(call.ctx, "url")
    IN
    /\ At(k, "read_url")
    /\ CASE call.ask_url # None ->
              Goto(k, [call EXCEPT !.pc = "read_bound", !.got.url = call.ask_url])
         [] call.ask_url = None /\ bound.val # None ->
              Goto(k, [call EXCEPT !.pc = "read_bound", !.got.url = bound.val,
                                   !.used = @ \cup bound.from])
         [] OTHER -> Refuse(k)
    /\ UNCHANGED <<keys, fallback, seen, begun, writer, settled, last>>

(* resolve_bound_notebook_path: only the bound id, implied or restated, is *)
(* anchored; the id is looked up once more for that ...                    *)
Anchored(call, bound) == bound # None /\ call.ask \in {None, bound}

ReadBound(k) ==
    LET call == calls[k] IN
    /\ At(k, "read_bound")
    /\ IF Anchored(call, Lookup(call.ctx, "sid").val)
       THEN Goto(k, [call EXCEPT !.pc = "read_notebook"])
       ELSE Goto(k, [call EXCEPT !.pc = "done", !.got.path = Unsaved])
    /\ UNCHANGED <<keys, fallback, seen, begun, writer, settled, last>>

FaultyReadNotebook(k) ==        \* no path is handed on as None
    LET call  == calls[k]
        bound == Lookup(call.ctx, "path")
    IN
    /\ At(k, "read_notebook")
    /\ Goto(k, [call EXCEPT !.pc = "done", !.got.path = bound.val,
                            !.used = @ \cup bound.from])
    /\ UNCHANGED <<keys, fallback, seen, begun, writer, settled, last>>

(* ... and then the path, which may be empty and is never refused.         *)
ReadNotebook(k) ==
    LET call  == calls[k]
        bound == Lookup(call.ctx, "path")
    IN
    /\ At(k, "read_notebook")
    /\ Goto(k, [call EXCEPT !.pc = "done",
                            !.got.path = IF bound.val = None THEN Unsaved
                                         ELSE bound.val,
                            !.used = @ \cup bound.from])
    /\ UNCHANGED <<keys, fallback, seen, begun, writer, settled, last>>

(* The tool goes on with what it got, or returns the refusal; a cancelled  *)
(* call stops at any await, a bind between two writes included.            *)
End(k) ==
    /\ ~At(k, "idle")
    /\ Goto(k, Idle)
    /\ UNCHANGED <<keys, fallback, seen, begun, writer, settled, last>>
-----------------------------------------------------------------------------
Step(k) ==
    \/ BindUrl(k) \/ BindNotebook(k) \/ BindStore(k)
    \/ ReadId(k) \/ ReadUrl(k) \/ ReadBound(k) \/ ReadNotebook(k)
    \/ End(k)

Start(k, x) ==
    /\ begun < MaxCalls
    /\ begun' = begun + 1
    /\ \/ \E b \in Triple : Bind(k, x, b)
       \/ \E ask \in SessionIds \cup {None}, url \in Urls \cup {None} :
            Resolve(k, x, ask, url)

Next ==
    /\ \E k \in Calls : Step(k) \/ \E x \in Contexts : Start(k, x)
    /\ UNCHANGED stdio

Spec == Init /\ [][Next]_vars
-----------------------------------------------------------------------------
(* With several clients on one process, no call is ever given anything of  *)
(* a binding another MCP session made: neither its session id, nor its     *)
(* server, nor its notebook path, however the keys are read in between.    *)
Isolation ==
    ~stdio => \A k \in Calls : calls[k].used \subseteq {calls[k].ctx}

(* A resolution no bind got in the way of finds one binding, whole: its    *)
(* MCP session's own or, if that made none, the one last made on the       *)
(* process (unless that is withheld), with its anchor exactly when the     *)
(* call is on the bound id; and it is refused only when there is neither.  *)
(* An empty anchor is never replaced by the path of an earlier binding.    *)
Visible(x) ==
    IF settled[x] # None THEN settled[x] ELSE IF Withheld THEN None ELSE last

Expected(call) ==
    LET bound == Visible(call.ctx)
        field(f) == IF bound = None THEN None ELSE bound[f]
    IN  [sid  |-> IF call.ask # None THEN call.ask ELSE field("sid"),
         url  |-> IF call.ask_url # None THEN call.ask_url ELSE field("url"),
         path |-> IF bound # None /\ call.ask \in {None, field("sid")}
                  THEN field("path") ELSE Unsaved]

WholeBinding ==
    \A k \in Calls :
        LET call == calls[k]
            want == Expected(call)
        IN  At(k, "done") /\ call.clean /\ settled[call.ctx] # Mixed =>
              IF call.refused THEN None \in {want.sid, want.url}
              ELSE call.got = want
=============================================================================
