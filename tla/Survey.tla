------------------------------- MODULE Survey -------------------------------
(***************************************************************************)
(* How a session is found: list_active_notebooks, set_active_session and   *)
(* the census half of resolve_target, with discovery.py, the requests of   *)
(* client.py and the classification of denials in access.py under them.    *)
(* A call asks the servers one at a time, one request after another.       *)
(* Between two requests servers are relaunched in another mode and         *)
(* sessions come, go and are re-keyed; any request may be lost or spoiled. *)
(*                                                                         *)
(* Calls share nothing here, so one is enough.  What a bind writes is the  *)
(* subject of Binding, what a resolved target does to the change tracker   *)
(* that of CoWork.                                                         *)
(***************************************************************************)
EXTENDS Naturals, Sequences

CONSTANTS
    Urls,
    SessionIds,
    Paths,
    Unsaved,        \* "", the path of a notebook without a file; no anchor
    None,
    Registries,     \* what the registry may hold: the URL each file names
    MaxMoves        \* bound on what servers and browsers do by themselves

ASSUME SurveyAssumption ==
    /\ Unsaved \in Paths
    /\ None \notin Urls \cup SessionIds \cup Paths
    /\ Registries \subseteq Seq(Urls)
    /\ MaxMoves \in Nat

VARIABLES
    registry,   \* the registry's files, in the order they are read
    server,     \* what listens at each URL, and its session table
    call,       \* the call under way
    moves

vars == <<registry, server, call, moves>>

(* What a server answers a client without credentials: marimo's own rows,  *)
(* as access.py lists them, and a gate in front of marimo whose denials    *)
(* are not worded like marimo's.                                           *)
Kinds ==
    [edit        |-> [census |-> "ok",     version |-> "ok",    page |-> "shell"],
     run         |-> [census |-> "denied", version |-> "ok",    page |-> "shell"],
     token       |-> [census |-> "denied", version |-> "same",  page |-> "login"],
     gated_shell |-> [census |-> "denied", version |-> "other", page |-> "shell"],
     gated_login |-> [census |-> "denied", version |-> "other", page |-> "login"],
     gated       |-> [census |-> "denied", version |-> "other", page |-> "unknown"],
     down        |-> [census |-> "none",   version |-> "none",  page |-> "unknown"]]

Table == [SessionIds -> Paths \cup {None}]
Nobody == [s \in SessionIds |-> None]

Server == [kind: DOMAIN Kinds, table: Table]

Session == [url: Urls, sid: SessionIds, path: Paths]

AccessReasons == {"auth_required", "edit_scope_required", "session_census_denied"}

Failures == AccessReasons \cup {"server_unreachable", "server_query_failed"}

Refusals == Failures \cup {"invalid_session_id", "session_not_found",
                           "session_ambiguous", "notebook_mismatch",
                           "binding_context_unavailable"}

Answered == "answered"

(* _ServerQuery: the table a server answered with, or why it did not.      *)
Query == [url: Urls, reason: Failures \cup {Answered}, table: Table]

Operations == {"set_active", "list", "target"}

(* What a call ends with, and the session it found.                        *)
Result == [outcome: Refusals \cup {"found", "listed", "escaped", "pending"},
           url: Urls \cup {None},
           sid: SessionIds \cup {None},
           path: Paths \cup {None}]

Outcome(outcome) == [outcome |-> outcome, url |-> None, sid |-> None, path |-> None]

Call == [pc: {"idle", "discover", "query", "version", "page", "again", "done"},
         op: Operations \cup {None},
         ctx: BOOLEAN,              \* is there an MCP session to bind in?
         sid: SessionIds \cup {None},
         url: Urls \cup {None},     \* the explicit server, or the target's
         anchor: Paths,             \* the bound notebook of a target
         todo: Seq(Urls),           \* servers still to be asked
         found: Seq(Urls),          \* servers discovered healthy
         answers: Seq(Query),
         result: Result,
         seen: SUBSET Session,      \* ghost: sessions live during the call
         changed: SUBSET Urls,      \* ghost: servers that changed meanwhile
         troubled: SUBSET Urls]     \* ghost: servers a request to went wrong

Idle == [pc |-> "idle", op |-> None, ctx |-> FALSE, sid |-> None, url |-> None,
         anchor |-> Unsaved, todo |-> <<>>, found |-> <<>>, answers |-> <<>>,
         result |-> Outcome("pending"), seen |-> {}, changed |-> {},
         troubled |-> {}]

TypeOK ==
    /\ registry \in Registries
    /\ server \in [Urls -> Server]
    /\ call \in Call
    /\ moves \in Nat

(* A notebook has one session on a server, and only the server of an       *)
(* editor has any that a client can get at.                                *)
Possible ==
    {sv \in Server :
        /\ sv.kind # "edit" => sv.table = Nobody
        /\ \A s, t \in SessionIds :
             sv.table[s] = sv.table[t] /\ s # t => sv.table[s] \in {None, Unsaved}}

Init ==
    /\ registry \in Registries
    /\ server \in [Urls -> Possible]
    /\ call = Idle
    /\ moves = 0
-----------------------------------------------------------------------------
Live(at) == {f \in Session : at[f.url].table[f.sid] = f.path}

(* set_active_session and list_active_notebooks: of the server that is     *)
(* named, or of all that the registry leads to.                            *)
Start(op, ctx, sid, url) ==
    LET begun == [Idle EXCEPT !.op = op, !.ctx = ctx, !.sid = sid, !.url = url,
                              !.seen = Live(server)]
    IN
    /\ call.pc = "idle"
    /\ call' = CASE op = "set_active" /\ sid = None ->
                      [begun EXCEPT !.pc = "done",
                                    !.result = Outcome("invalid_session_id")]
                 [] ~(op = "set_active" /\ sid = None) /\ url # None ->
                      [begun EXCEPT !.pc = "query", !.todo = <<url>>]
                 [] OTHER ->
                      [begun EXCEPT !.pc = "discover", !.todo = registry]
    /\ UNCHANGED <<registry, server, moves>>

(* resolve_target, once Binding has said what is asked for.                *)
StartTarget(sid, url, anchor) ==
    /\ call.pc = "idle"
    /\ call' = [Idle EXCEPT !.op = "target", !.pc = "query", !.sid = sid,
                            !.url = url, !.anchor = anchor, !.todo = <<url>>,
                            !.seen = Live(server)]
    /\ UNCHANGED <<registry, server, moves>>

At(phase) == call.pc = phase

Goto(next) ==
    /\ call' = next
    /\ UNCHANGED <<registry, server, moves>>

Asking(u) == call.todo # <<>> /\ u = Head(call.todo)

(* A request gets the server's own answer, or goes wrong.                  *)
Replies(u, kind, wrong) ==
    IF server[u].kind = "down" THEN {kind} ELSE {kind} \cup wrong

CensusReplies(u) == Replies(u, Kinds[server[u].kind].census,
                            {"none", "failed", "unreadable", "odd"})

VersionReplies(u) == Replies(u, Kinds[server[u].kind].version, {"none", "other"})

PageReplies(u) == Replies(u, Kinds[server[u].kind].page, {"unknown"})

Trouble(u, reply, kind) ==
    IF reply = kind THEN call.troubled ELSE call.troubled \cup {u}

CensusTrouble(u, reply) == Trouble(u, reply, Kinds[server[u].kind].census)
VersionTrouble(u, reply) == Trouble(u, reply, Kinds[server[u].kind].version)
PageTrouble(u, reply) == Trouble(u, reply, Kinds[server[u].kind].page)
-----------------------------------------------------------------------------
Ended(outcome, troubled) ==
    [call EXCEPT !.pc = "done", !.result = Outcome(outcome),
                 !.troubled = troubled]

Among(u, urls) == \E i \in DOMAIN urls : urls[i] = u

FaultyAdded(found, u) ==        \* one query for each registry file
    Append(found, u)

(* A lookup asks a server once, however many files name it (_dedupe_urls); *)
(* a listing asks it once for each.                                        *)
Added(found, u) ==
    IF call.op = "set_active" /\ Among(u, found) THEN found ELSE Append(found, u)

(* _check_server_file: a 200 will do, whatever comes with it.              *)
Check(u) ==
    /\ At("discover")
    /\ Asking(u)
    /\ \E reply \in CensusReplies(u) :
         Goto([call EXCEPT !.todo = Tail(@),
                           !.found = IF reply \in {"ok", "unreadable", "odd"}
                                     THEN Added(@, u) ELSE @,
                           !.troubled = CensusTrouble(u, reply)])

(* A file that cannot be read, is gone or holds no JSON.                   *)
SkipFile(u) ==
    /\ At("discover")
    /\ Asking(u)
    /\ Goto([call EXCEPT !.todo = Tail(@), !.troubled = @ \cup {u}])

(* A file whose JSON is no object, or whose url is no string: nothing      *)
(* catches the exception, here or in the two tools that look around.       *)
BreakOff(u) ==
    /\ At("discover")
    /\ Asking(u)
    /\ Goto(Ended("escaped", call.troubled \cup {u}))

Discovered ==
    /\ At("discover")
    /\ call.todo = <<>>
    /\ Goto([call EXCEPT !.pc = "query", !.todo = call.found])
-----------------------------------------------------------------------------
Answer(u, reason, table) == [url |-> u, reason |-> reason, table |-> table]

(* The next server's turn.                                                 *)
Noted(u, reason, table, troubled) ==
    [call EXCEPT !.pc = "query", !.todo = Tail(@), !.troubled = troubled,
                 !.answers = Append(@, Answer(u, reason, table))]

Unanswered(reply) ==
    IF reply = "none" THEN "server_unreachable" ELSE "server_query_failed"

Found(outcome, u, sid, path) ==
    [call EXCEPT !.pc = "done",
                 !.result = [outcome |-> outcome, url |-> u, sid |-> sid,
                             path |-> path]]

(* _query_server, and the same request made by list_active_notebooks,      *)
(* which makes one sentinel row of any failure, a denial included ...      *)
QueryServer(u) ==
    /\ At("query")
    /\ call.op # "target"
    /\ Asking(u)
    /\ \E reply \in CensusReplies(u) :
         LET troubled == CensusTrouble(u, reply) IN
         \/ /\ reply = "ok"
            /\ Goto(Noted(u, Answered, server[u].table, troubled))
         \/ /\ reply = "denied"
            /\ IF call.op = "set_active"
               THEN Goto([call EXCEPT !.pc = "version"])
               ELSE Goto(Noted(u, "server_query_failed", Nobody, troubled))
         \/ /\ reply \in {"none", "failed", "unreadable"}
            /\ Goto(Noted(u, Unanswered(reply), Nobody, troubled))
         \/ /\ reply = "odd"
            /\ IF call.op = "set_active"
               THEN Goto(Noted(u, Unanswered(reply), Nobody, troubled))
               ELSE Goto(Ended("escaped", troubled))     \* ... but not of this

(* The first census of resolve_target.  An id that is not in it and a body *)
(* that cannot be read raise the same ValueError.                          *)
FaultyMismatch(path) ==         \* an id that is live is followed
    FALSE

Mismatch(path) == call.anchor \notin {Unsaved, path}

Resolve(u) ==
    LET path == server[u].table[call.sid] IN
    /\ At("query")
    /\ call.op = "target"
    /\ Asking(u)
    /\ \E reply \in CensusReplies(u) :
         LET troubled == CensusTrouble(u, reply) IN
         \/ /\ reply = "ok"
            /\ path # None
            /\ IF Mismatch(path)
               THEN Goto(Ended("notebook_mismatch", troubled))
               ELSE Goto(Found("found", u, call.sid, path))
         \/ /\ reply = "unreadable" \/ (reply = "ok" /\ path = None)
            /\ Goto([call EXCEPT !.pc = "again", !.troubled = troubled])
         \/ /\ reply = "denied"
            /\ Goto([call EXCEPT !.pc = "version"])
         \/ /\ reply \in {"none", "failed", "odd"}
            /\ Goto(Ended(Unanswered(reply), troubled))

(* _census_of: the second one decides, and may have the anchor's notebook  *)
(* under another id.                                                       *)
Recensus(u) ==
    /\ At("again")
    /\ Asking(u)
    /\ \E reply \in CensusReplies(u) :
         LET troubled == CensusTrouble(u, reply)
             rotated  == {t \in SessionIds : call.anchor # Unsaved
                             /\ server[u].table[t] = call.anchor}
         IN
         \/ /\ reply = "ok"
            /\ \E t \in rotated : Goto(Found("found", u, t, call.anchor))
         \/ /\ reply = "ok"
            /\ rotated = {}
            /\ Goto(Ended("session_not_found", troubled))
         \/ /\ reply # "ok"
            /\ Goto(Ended("server_query_failed", troubled))
-----------------------------------------------------------------------------
(* classify_denied_census: what a denial meant.                            *)
Classified(u, reason, troubled) ==
    IF call.op = "target" THEN Ended(reason, troubled)
    ELSE Noted(u, reason, Nobody, troubled)

FaultySameDenial(reply) ==      \* any denial is a gate
    reply \in {"same", "other"}

SameDenial(reply) == reply = "same"

Version(u) ==
    /\ At("version")
    /\ Asking(u)
    /\ \E reply \in VersionReplies(u) :
         LET troubled == VersionTrouble(u, reply) IN
         \/ /\ reply = "ok"
            /\ Goto(Classified(u, "edit_scope_required", troubled))
         \/ /\ SameDenial(reply)
            /\ Goto(Classified(u, "auth_required", troubled))
         \/ /\ reply # "ok" /\ ~SameDenial(reply)
            /\ Goto([call EXCEPT !.pc = "page", !.troubled = troubled])

FaultyPageReason ==             \* what the page is, for what it means
    [shell   |-> "edit_scope_required",
     login   |-> "auth_required",
     unknown |-> "unknown"]

PageReason ==
    [shell   |-> "edit_scope_required",
     login   |-> "auth_required",
     unknown |-> "session_census_denied"]

Page(u) ==
    /\ At("page")
    /\ Asking(u)
    /\ \E reply \in PageReplies(u) :
         Goto(Classified(u, PageReason[reply], PageTrouble(u, reply)))
-----------------------------------------------------------------------------
Answers == {call.answers[i] : i \in DOMAIN call.answers}

FaultyMatches ==                \* only if everyone answered
    {i \in DOMAIN call.answers :
        /\ call.answers[i].table[call.sid] # None
        /\ \A q \in Answers : q.reason = Answered}

(* Servers that reported the id, counted as often as they did.             *)
Matches == {i \in DOMAIN call.answers : call.answers[i].table[call.sid] # None}

Reasons == {q.reason : q \in Answers}

(* _failure_headline.                                                      *)
Headline ==
    IF \E r \in AccessReasons \cup {"server_unreachable"} : Reasons = {r}
    THEN CHOOSE r \in Reasons : TRUE
    ELSE "server_query_failed"

FaultyPathOf(i) ==              \* the server's first session
    CHOOSE p \in Paths : \E s \in SessionIds : call.answers[i].table[s] = p

PathOf(i) == call.answers[i].table[call.sid]

(* The end of lookup_session, and what set_active_session makes of it.     *)
BindOne ==
    /\ At("query")
    /\ call.op = "set_active"
    /\ call.todo = <<>>
    /\ \E i \in DOMAIN call.answers :
         /\ Matches = {i}
         /\ Goto(IF call.ctx
                 THEN Found("found", call.answers[i].url, call.sid, PathOf(i))
                 ELSE Ended("binding_context_unavailable", call.troubled))

RefuseLookup ==
    /\ At("query")
    /\ call.op = "set_active"
    /\ call.todo = <<>>
    /\ \A i \in DOMAIN call.answers : Matches # {i}
    /\ Goto(Ended(IF Matches # {} THEN "session_ambiguous"
                  ELSE IF call.answers # <<>> /\ Answered \notin Reasons
                       THEN Headline
                       ELSE "session_not_found",
                  call.troubled))

(* The first row of a listing, a sentinel's or a session's.                *)
HasRows(i) ==
    call.answers[i].reason # Answered \/ call.answers[i].table # Nobody

FirstRows ==
    {i \in DOMAIN call.answers :
        HasRows(i) /\ \A j \in DOMAIN call.answers : j < i => ~HasRows(j)}

FirstSession ==
    {f \in Session : \E i \in FirstRows :
        f.url = call.answers[i].url /\ call.answers[i].table[f.sid] = f.path}

List ==
    /\ At("query")
    /\ call.op = "list"
    /\ call.todo = <<>>
    /\ \/ /\ call.ctx
          /\ \E f \in FirstSession : Goto(Found("listed", f.url, f.sid, f.path))
       \/ /\ ~call.ctx \/ FirstSession = {}
          /\ Goto(Ended("listed", call.troubled))

Return ==
    /\ At("done")
    /\ Goto(Idle)
-----------------------------------------------------------------------------
(* A server is relaunched, or its sessions open, close and are re-keyed.   *)
Move(u, sv) ==
    /\ moves < MaxMoves
    /\ moves' = moves + 1
    /\ sv # server[u]
    /\ server' = [server EXCEPT ![u] = sv]
    /\ call' = IF At("idle") THEN call
               ELSE [call EXCEPT !.seen = @ \cup Live(server'),
                                 !.changed = @ \cup {u}]
    /\ UNCHANGED registry
-----------------------------------------------------------------------------
Step ==
    \/ \E u \in Urls :
         Check(u) \/ SkipFile(u) \/ BreakOff(u) \/ QueryServer(u) \/ Resolve(u)
            \/ Recensus(u) \/ Version(u) \/ Page(u)
    \/ Discovered \/ BindOne \/ RefuseLookup \/ List \/ Return

Next ==
    \/ \E op \in {"set_active", "list"}, ctx \in BOOLEAN,
          sid \in SessionIds \cup {None}, url \in Urls \cup {None} :
          /\ op = "list" => sid = None
          /\ Start(op, ctx, sid, url)
    \/ \E sid \in SessionIds, url \in Urls, anchor \in Paths :
          StartTarget(sid, url, anchor)
    \/ Step
    \/ \E u \in Urls, sv \in Possible : Move(u, sv)

Spec == Init /\ [][Next]_vars
-----------------------------------------------------------------------------
Done == At("done")

Steady == Urls \ (call.changed \cup call.troubled)

(* The servers a call was to cover.                                        *)
Covered == IF call.url # None THEN {call.url}
           ELSE {u \in Urls : Among(u, registry)}

Bound == Done /\ call.result.sid # None

(* What is bound or resolved was live, under that id and with that path,   *)
(* on that server at some moment of the call, and the server is the one    *)
(* named, or one the registry names ("never a guess").                     *)
BoundWasLive ==
    Bound => /\ [url |-> call.result.url, sid |-> call.result.sid,
                 path |-> call.result.path] \in call.seen
             /\ call.result.url \in Covered

(* A call anchored to a notebook ends at that notebook or is refused, and  *)
(* one that is given another id than it asked for is given the anchor's.   *)
StaysAnchored ==
    Bound /\ call.op = "target" =>
        /\ call.anchor \in {Unsaved, call.result.path}
        /\ call.result.sid # call.sid => call.anchor # Unsaved

(* Sessions live throughout on a server that nothing happened to.          *)
SteadySessions == {f \in Live(server) : f.url \in Steady \cap Covered}

Given(f) == call.result = [outcome |-> "found", url |-> f.url, sid |-> f.sid,
                           path |-> f.path]

(* A call that an exception ended, which only what is malformed raises.    *)
BrokenOff == call.result.outcome = "escaped" /\ call.troubled # {}

Spotted(f) ==
    /\ call.op = "set_active" /\ call.sid = f.sid =>
         \/ Given(f)
         \/ BrokenOff /\ call.url = None
         \/ call.result.outcome = "binding_context_unavailable" /\ ~call.ctx
         \/ call.result.outcome = "session_ambiguous"
    /\ call.op = "target" /\ call.sid = f.sid =>
         \/ Given(f)
         \/ /\ call.result.outcome = "notebook_mismatch"
            /\ call.anchor \notin {Unsaved, f.path}
    /\ call.op = "list" /\ ~BrokenOff =>
         \E q \in Answers : q.url = f.url /\ q.table[f.sid] = f.path

(* A session live throughout on a server nothing happened to is found: it  *)
(* is bound, or listed, or there is another server with that id, or the    *)
(* notebook is not the anchor's.  "Not found" and the failures of other    *)
(* servers never hide it ("a query failure is never treated as not         *)
(* found"), with two exceptions: a lookup or a listing over the registry   *)
(* that one malformed file of it broke off, and a listing that one         *)
(* server's malformed answer did.  Both raise, and answer nothing.         *)
FoundIfThere == Done => \A f \in SteadySessions : Spotted(f)

(* "Which server is meant is never guessed" and never asked needlessly:    *)
(* session_ambiguous means that two servers had the id during the call,    *)
(* and with two that have it all along nothing is bound.                   *)
AmbiguousIsReal ==
    Done /\ call.op = "set_active" =>
        /\ call.result.outcome = "session_ambiguous" =>
             \E f, g \in call.seen :
                f.sid = call.sid /\ g.sid = call.sid /\ f.url # g.url
        /\ Bound => \A f \in SteadySessions :
                       f.sid = call.sid => f.url = call.result.url

(* The reason given for a server that stayed what it was is true of it,    *)
(* even when some of the requests that tell were lost: edit scope is       *)
(* missing only if reads are served, auth is required only if they are     *)
(* not, and only a server nothing was lost on its way to is called down.   *)
Readable(u) ==
    Kinds[server[u].kind].version = "ok" \/ Kinds[server[u].kind].page = "shell"

Gated(u) ==
    Kinds[server[u].kind].version = "same" \/ Kinds[server[u].kind].page = "login"

TrueOf(u, reason) ==
    CASE reason = "edit_scope_required"   -> Readable(u) /\ server[u].kind # "edit"
      [] reason = "auth_required"         -> Gated(u)
      [] reason = "session_census_denied" -> server[u].kind \notin {"edit", "down"}
      [] reason = "server_unreachable"    -> server[u].kind = "down"
                                                \/ u \in call.troubled
      [] OTHER                            -> TRUE

ReasonRight ==
    /\ call.op = "set_active" =>
         \A q \in Answers : q.url \notin call.changed => TrueOf(q.url, q.reason)
    /\ Done /\ call.op # "list" /\ call.result.outcome \in Failures =>
         \A u \in Urls \ call.changed :
            u = call.url \/ (call.url = None /\ \E q \in Answers : q.url = u) =>
                TrueOf(u, call.result.outcome)
=============================================================================
