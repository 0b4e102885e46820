---------------------------- MODULE SurveyProofs ----------------------------
(***************************************************************************)
(* What a bind, a listing or a resolution finds, and what it says when it  *)
(* finds nothing, for any number of servers, sessions and registry files   *)
(* and whatever happens to them meanwhile.                                 *)
(***************************************************************************)
EXTENDS Survey, TLAPS

USE SurveyAssumption

(* What was live at any time of the call has been seen by the ghost, and   *)
(* no answer claims anything else.                                         *)
SeenInv ==
    /\ call.pc # "idle" => Live(server) \subseteq call.seen
    /\ \A q \in Answers, s \in SessionIds :
          q.table[s] # None =>
              [url |-> q.url, sid |-> s, path |-> q.table[s]] \in call.seen

(* Only servers that the call is to cover are asked.                       *)
CoverInv ==
    /\ \A u \in Urls : Among(u, call.todo) \/ Among(u, call.found) => u \in Covered
    /\ \A q \in Answers : q.url \in Covered

(* Which requests an operation makes, and of what.                         *)
PhaseInv ==
    /\ call.pc = "idle" => call.answers = <<>>
    /\ call.pc \notin {"idle", "done"} =>
          /\ call.op # "list" => call.sid # None
          /\ call.pc = "again" => call.op = "target"
          /\ call.op = "list" => call.pc \in {"discover", "query"}
          /\ call.op = "target" =>
                /\ call.pc # "discover"
                /\ call.url # None
                /\ call.todo = <<call.url>>
                /\ call.answers = <<>>
    /\ call.pc = "discover" => call.answers = <<>> /\ call.url = None

(* A lookup asks no server twice.                                          *)
Once(urls) == \A i, j \in DOMAIN urls : urls[i] = urls[j] => i = j

OnceInv ==
    call.op = "set_active" =>
        /\ Once(call.found)
        /\ call.pc \notin {"discover", "done"} => Once(call.todo)
        /\ \A i, j \in DOMAIN call.answers :
              call.answers[i].url = call.answers[j].url => i = j
        /\ call.pc # "discover" => \A q \in Answers : ~Among(q.url, call.todo)

(* Only a server whose census is denied is asked what the denial means.    *)
DenialInv ==
    call.pc \in {"version", "page"} =>
        /\ call.todo # <<>>
        /\ Head(call.todo) \notin call.changed =>
              server[Head(call.todo)].kind \notin {"edit", "down"}

(* Only an id that is not there is looked for again.                       *)
AgainInv ==
    call.pc = "again" /\ call.url \in Steady =>
        server[call.url].table[call.sid] = None

(* A steady session is found, or its server is still to be asked.          *)
FindInv ==
    \A f \in SteadySessions :
        /\ call.pc = "discover" =>
              Among(f.url, call.todo) \/ Among(f.url, call.found)
        /\ call.pc \in {"query", "version", "page"} /\ call.op # "target" =>
              \/ Among(f.url, call.todo)
              \/ \E q \in Answers : q.url = f.url /\ q.table[f.sid] = f.path

(* What is said is right.                                                  *)
Right == BoundWasLive /\ StaysAnchored /\ FoundIfThere
            /\ AmbiguousIsReal /\ ReasonRight

IInv ==
    /\ TypeOK
    /\ \A u \in Urls : server[u] \in Possible
    /\ SeenInv /\ CoverInv /\ PhaseInv /\ OnceInv /\ DenialInv /\ AgainInv
    /\ FindInv
    /\ Right
-----------------------------------------------------------------------------
LEMMA TailFacts ==
    ASSUME NEW q \in Seq(Urls), q # <<>>
    PROVE  /\ Head(q) \in Urls
           /\ Tail(q) \in Seq(Urls)
           /\ \A u \in Urls : Among(u, q) <=> u = Head(q) \/ Among(u, Tail(q))
           /\ Once(q) => Once(Tail(q)) /\ ~Among(Head(q), Tail(q))
<1>1. Len(q) \in Nat \ {0} /\ DOMAIN q = 1..Len(q) /\ Head(q) = q[1]
  OBVIOUS
<1>2. Tail(q) \in Seq(Urls) /\ Head(q) \in Urls
  OBVIOUS
<1>3. /\ DOMAIN Tail(q) = 1..(Len(q) - 1)
      /\ \A i \in 1..(Len(q) - 1) : Tail(q)[i] = q[i + 1]
  BY <1>1
<1>4. ASSUME NEW u \in Urls
      PROVE  Among(u, q) <=> u = Head(q) \/ Among(u, Tail(q))
  <2>1. ASSUME Among(u, q), u # Head(q)
        PROVE  Among(u, Tail(q))
    <3>1. PICK i \in 1..Len(q) : q[i] = u
      BY <1>1, <2>1 DEF Among
    <3>2. i - 1 \in 1..(Len(q) - 1) /\ Tail(q)[i - 1] = u
      BY <1>1, <1>3, <2>1, <3>1
    <3>3. QED
      BY <1>3, <3>2 DEF Among
  <2>2. ASSUME Among(u, Tail(q))
        PROVE  Among(u, q)
    <3>1. PICK i \in 1..(Len(q) - 1) : Tail(q)[i] = u
      BY <1>3, <2>2 DEF Among
    <3>2. i + 1 \in DOMAIN q /\ q[i + 1] = u
      BY <1>1, <1>3, <3>1
    <3>3. QED
      BY <3>2 DEF Among
  <2>3. Among(Head(q), q)
    BY <1>1 DEF Among
  <2>4. QED
    BY <2>1, <2>2, <2>3
<1>5. ASSUME Once(q)
      PROVE  Once(Tail(q)) /\ ~Among(Head(q), Tail(q))
  <2>1. Once(Tail(q))
    <3> SUFFICES ASSUME NEW i \in 1..(Len(q) - 1), NEW j \in 1..(Len(q) - 1),
                        Tail(q)[i] = Tail(q)[j]
                 PROVE  i = j
      BY <1>3 DEF Once
    <3>1. i + 1 \in DOMAIN q /\ j + 1 \in DOMAIN q /\ q[i + 1] = q[j + 1]
      BY <1>1, <1>3
    <3>2. i + 1 = j + 1
      BY <1>5, <3>1 DEF Once
    <3>3. QED
      BY <3>2
  <2>2. ASSUME NEW i \in 1..(Len(q) - 1), Tail(q)[i] = Head(q)
        PROVE  FALSE
    <3>1. i + 1 \in DOMAIN q /\ 1 \in DOMAIN q /\ q[i + 1] = q[1]
      BY <1>1, <1>3, <2>2
    <3>2. i + 1 = 1
      BY <1>5, <3>1 DEF Once
    <3>3. QED
      BY <3>2
  <2>3. QED
    BY <1>3, <2>1, <2>2 DEF Among
<1>6. QED
  BY <1>2, <1>4, <1>5

LEMMA AppendFacts ==
    ASSUME NEW S, NEW q \in Seq(S), NEW e \in S
    PROVE  /\ Append(q, e) \in Seq(S)
           /\ DOMAIN Append(q, e) = DOMAIN q \cup {Len(q) + 1}
           /\ Len(q) + 1 \notin DOMAIN q
           /\ Append(q, e)[Len(q) + 1] = e
           /\ \A i \in DOMAIN q : Append(q, e)[i] = q[i]
OBVIOUS

LEMMA AppendAmong ==
    ASSUME NEW q \in Seq(Urls), NEW v \in Urls
    PROVE  /\ \A u \in Urls : Among(u, Append(q, v)) <=> Among(u, q) \/ u = v
           /\ Once(q) /\ ~Among(v, q) => Once(Append(q, v))
BY AppendFacts DEF Among, Once

LEMMA Singles ==
    ASSUME NEW v \in Urls
    PROVE  /\ <<v>> \in Seq(Urls) /\ <<v>> # <<>>
           /\ Head(<<v>>) = v /\ Tail(<<v>>) = <<>>
           /\ Once(<<v>>)
           /\ \A u \in Urls : Among(u, <<v>>) <=> u = v
BY DEF Once, Among

LEMMA Empties ==
    /\ <<>> \in Seq(Urls) /\ <<>> \in Seq(Query)
    /\ Once(<<>>) /\ \A u : ~Among(u, <<>>)
BY DEF Once, Among
-----------------------------------------------------------------------------
(* What becomes of it when a server changes.                               *)
LEMMA LiveOf ==
    ASSUME NEW at, NEW f
    PROVE  f \in Live(at) <=> f \in Session /\ at[f.url].table[f.sid] = f.path
BY DEF Live

LEMMA AnswersTyped == call \in Call => Answers \subseteq Query
<1> SUFFICES ASSUME call \in Call PROVE Answers \subseteq Query
  OBVIOUS
<1>1. call.answers \in Seq(Query)
  BY DEF Call
<1>2. QED
  BY <1>1 DEF Answers

LEMMA Moves ==
    ASSUME IInv, NEW v \in Urls, NEW sv \in Possible, Move(v, sv)
    PROVE  IInv'
<1>1. /\ server \in [Urls -> Server] /\ server' = [server EXCEPT ![v] = sv]
      /\ sv \in Server
      /\ registry' = registry /\ registry \in Registries
      /\ call \in Call /\ moves \in Nat /\ moves' \in Nat
  BY DEF IInv, TypeOK, Move, Possible
<1>2. /\ server' \in [Urls -> Server]
      /\ \A u \in Urls : server'[u] \in Possible
      /\ \A u \in Urls \ {v} : server'[u] = server[u]
  BY <1>1 DEF IInv
<1>3. CASE call.pc = "idle"
  <2>1. call' = call
    BY <1>3 DEF Move, At
  <2>2. TypeOK'
    BY <1>1, <1>2, <2>1 DEF TypeOK
  <2>3. /\ Answers = {} /\ Answers' = {}
    BY <1>3, <2>1 DEF IInv, PhaseInv, Answers
  <2>4. CoverInv' /\ PhaseInv' /\ OnceInv'
    BY <1>1, <2>1 DEF IInv, CoverInv, PhaseInv, OnceInv, Covered, Answers
  <2>5. SeenInv' /\ DenialInv' /\ AgainInv' /\ FindInv'
    BY <1>3, <2>1, <2>3 DEF SeenInv, DenialInv, AgainInv, FindInv
  <2>6. Right'
    BY <1>3, <2>1, <2>3
       DEF Right, BoundWasLive, StaysAnchored, FoundIfThere, AmbiguousIsReal,
           ReasonRight, Bound, Done, At
  <2>7. QED
    BY <1>2, <2>2, <2>4, <2>5, <2>6 DEF IInv
<1>4. CASE call.pc # "idle"
  <2> DEFINE seen == call.seen \cup Live(server')
             changed == call.changed \cup {v}
  <2>1. call' = [call EXCEPT !.seen = seen, !.changed = changed]
    BY <1>4 DEF Move, At
  <2>2. seen \in SUBSET Session /\ changed \in SUBSET Urls
    BY <1>1 DEF Call, Live
  <2> HIDE DEF seen, changed
  <2>3. /\ call' \in Call
        /\ call'.seen = seen /\ call'.changed = changed
        /\ call'.pc = call.pc /\ call'.op = call.op /\ call'.ctx = call.ctx
        /\ call'.sid = call.sid /\ call'.url = call.url
        /\ call'.anchor = call.anchor /\ call'.todo = call.todo
        /\ call'.found = call.found /\ call'.answers = call.answers
        /\ call'.result = call.result /\ call'.troubled = call.troubled
    BY <1>1, <2>1, <2>2 DEF Call
  <2>4. Answers' = Answers /\ Covered' = Covered
    BY <1>1, <2>3 DEF Answers, Covered
  <2>5. Steady' = Steady \ {v}
    BY <2>3 DEF Steady, changed
  <2>6. SteadySessions' \subseteq SteadySessions
    <3> SUFFICES ASSUME NEW f \in Live(server)', f.url \in Steady' \cap Covered'
                 PROVE  f \in Live(server) /\ f.url \in Steady \cap Covered
      BY DEF SteadySessions
    <3>1. f \in Session /\ server'[f.url].table[f.sid] = f.path /\ f.url # v
      BY <2>5 DEF Live
    <3>2. f.url \in Urls
      BY <3>1 DEF Session
    <3>3. QED
      BY <1>2, <2>4, <2>5, <3>1, <3>2 DEF Live
  <2>7. TypeOK'
    BY <1>1, <1>2, <2>3 DEF TypeOK
  <2>8. SeenInv'
    BY <2>3, <2>4 DEF IInv, SeenInv, seen
  <2>9. CoverInv' /\ PhaseInv' /\ OnceInv'
    BY <2>3, <2>4 DEF IInv, CoverInv, PhaseInv, OnceInv
  <2>10. DenialInv'
    <3>1. call.todo # <<>> => Head(call.todo) \in Urls
      BY <1>1, TailFacts DEF Call
    <3>2. QED
      BY <1>2, <2>3, <3>1 DEF IInv, DenialInv, changed
  <2>11. AgainInv'
    BY <1>2, <2>3, <2>5 DEF IInv, AgainInv, Steady
  <2>12. FindInv'
    BY <2>3, <2>4, <2>6 DEF IInv, FindInv
  <2>13. BoundWasLive' /\ StaysAnchored'
    BY <2>3, <2>4 DEF IInv, Right, BoundWasLive, StaysAnchored, Bound, Done, At, seen
  <2>14. FoundIfThere'
    <3>1. ASSUME NEW f
          PROVE  Spotted(f)' <=> Spotted(f)
      BY <2>3, <2>4 DEF Spotted, Given, BrokenOff
    <3>2. QED
      BY <2>3, <2>6, <3>1 DEF IInv, Right, FoundIfThere, Done, At
  <2>15. AmbiguousIsReal'
    BY <2>3, <2>6 DEF IInv, Right, AmbiguousIsReal, Bound, Done, At, seen
  <2>16. ReasonRight'
    <3>1. \A u \in Urls \ changed : \A reason :
            TrueOf(u, reason)' <=> TrueOf(u, reason)
      BY <1>2, <2>3 DEF TrueOf, Readable, Gated, changed
    <3>2. \A q \in Answers : q.url \in Urls
      BY <1>1, AnswersTyped DEF Query
    <3>3. QED
      BY <2>3, <2>4, <3>1, <3>2
         DEF IInv, Right, ReasonRight, Done, At, changed
  <2>17. QED
    BY <1>2, <2>7, <2>8, <2>9, <2>10, <2>11, <2>12, <2>13, <2>14, <2>15, <2>16
       DEF IInv, Right
<1>5. QED
  BY <1>3, <1>4
-----------------------------------------------------------------------------
(* The steps of the call itself change nothing else.  More trouble makes   *)
(* fewer servers steady, and no reason given less true.                    *)
LEMMA Calmer ==
    ASSUME IInv, call' \in Call, UNCHANGED <<registry, server, moves>>,
           call'.url = call.url, call'.changed = call.changed,
           call.troubled \subseteq call'.troubled
    PROVE  /\ TypeOK'
           /\ \A u \in Urls : server'[u] \in Possible
           /\ Covered' = Covered
           /\ Steady' \subseteq Steady
           /\ SteadySessions' \subseteq SteadySessions
           /\ Live(server)' = Live(server)
           /\ \A u, reason : TrueOf(u, reason) => TrueOf(u, reason)'
<1>1. TypeOK' /\ \A u \in Urls : server'[u] \in Possible
  BY DEF IInv, TypeOK
<1>2. Covered' = Covered
  BY DEF Covered
<1>3. Steady' \subseteq Steady
  BY DEF Steady
<1>4. Live(server)' = Live(server)
  BY DEF Live
<1>5. SteadySessions' \subseteq SteadySessions
  BY <1>2, <1>3, <1>4 DEF SteadySessions
<1>6. \A u, reason : TrueOf(u, reason) => TrueOf(u, reason)'
  BY DEF TrueOf, Readable, Gated
<1>7. QED
  BY <1>1, <1>2, <1>3, <1>4, <1>5, <1>6

(* A steady session's server answers with it.                              *)
LEMMA SteadyFacts ==
    ASSUME IInv, NEW f \in SteadySessions
    PROVE  /\ f \in Session /\ f.url \in Urls /\ f.sid \in SessionIds
           /\ f.path \in Paths
           /\ f.url \in Steady /\ f.url \in Covered
           /\ f.url \notin call.changed /\ f.url \notin call.troubled
           /\ server[f.url].table[f.sid] = f.path
           /\ server[f.url].kind = "edit"
           /\ f \in Live(server)
<1>1. /\ f \in Session /\ server[f.url].table[f.sid] = f.path
      /\ f.url \in Steady /\ f.url \in Covered /\ f \in Live(server)
  BY DEF SteadySessions, Live
<1>2. f.url \in Urls /\ f.sid \in SessionIds /\ f.path \in Paths
  BY <1>1 DEF Session
<1>3. server[f.url].kind # "edit" => server[f.url].table = Nobody
  BY <1>2 DEF IInv, Possible
<1>4. server[f.url].kind = "edit"
  BY <1>1, <1>2, <1>3 DEF Nobody
<1>5. QED
  BY <1>1, <1>2, <1>4 DEF Steady

(* A server's turn is over and what it answered is noted.                  *)
LEMMA Notes ==
    ASSUME IInv, NEW u \in Urls, Asking(u),
           call.pc \in {"query", "version", "page"}, call.op # "target",
           NEW reason \in Failures \cup {Answered}, NEW table \in Table,
           NEW troubled \in SUBSET Urls, call.troubled \subseteq troubled,
           call' = Noted(u, reason, table, troubled),
           UNCHANGED <<registry, server, moves>>,
           \A s \in SessionIds : table[s] # None => server[u].table[s] = table[s],
           u \notin call.changed /\ call.op = "set_active" => TrueOf(u, reason)',
           server[u].kind = "edit" /\ u \notin call.changed \cup troubled =>
              table = server[u].table
    PROVE  IInv'
<1> DEFINE q == Answer(u, reason, table)
           answers == Append(call.answers, q)
<1>1. call \in Call
  BY DEF IInv, TypeOK
<1>2. call.todo \in Seq(Urls) /\ call.todo # <<>> /\ u = Head(call.todo)
  BY <1>1 DEF Asking, Call
<1>3. q \in Query /\ q.url = u /\ q.reason = reason /\ q.table = table
  BY DEF Query, Answer
<1>4. call.answers \in Seq(Query)
  BY <1>1 DEF Call
<1> HIDE DEF q
<1>5. /\ answers \in Seq(Query)
      /\ DOMAIN answers = DOMAIN call.answers \cup {Len(call.answers) + 1}
      /\ Len(call.answers) + 1 \notin DOMAIN call.answers
      /\ answers[Len(call.answers) + 1] = q
      /\ \A i \in DOMAIN call.answers : answers[i] = call.answers[i]
  BY <1>3, <1>4, AppendFacts
<1>6. /\ Tail(call.todo) \in Seq(Urls)
      /\ \A v \in Urls : Among(v, call.todo) <=> v = u \/ Among(v, Tail(call.todo))
      /\ Once(call.todo) => Once(Tail(call.todo)) /\ ~Among(u, Tail(call.todo))
  BY <1>2, TailFacts
<1>7. call' = [call EXCEPT !.pc = "query", !.todo = Tail(call.todo),
                           !.troubled = troubled, !.answers = answers]
  BY DEF Noted, q
<1> HIDE DEF answers
<1>8. /\ call' \in Call
      /\ call'.pc = "query" /\ call'.todo = Tail(call.todo)
      /\ call'.troubled = troubled /\ call'.answers = answers
      /\ call'.op = call.op /\ call'.ctx = call.ctx
      /\ call'.sid = call.sid /\ call'.url = call.url
      /\ call'.anchor = call.anchor /\ call'.found = call.found
      /\ call'.result = call.result /\ call'.seen = call.seen
      /\ call'.changed = call.changed
  BY <1>1, <1>5, <1>6, <1>7 DEF Call
<1>9. Answers' = Answers \cup {q}
  <2>1. Answers' = {answers[i] : i \in DOMAIN answers}
    BY <1>8 DEF Answers
  <2>2. Answers = {call.answers[i] : i \in DOMAIN call.answers}
    BY DEF Answers
  <2>3. QED
    BY <1>5, <2>1, <2>2
<1>10. Answers \subseteq Query
  BY <1>1, AnswersTyped
<1>11. /\ TypeOK'
       /\ \A v \in Urls : server'[v] \in Possible
       /\ Covered' = Covered
       /\ SteadySessions' \subseteq SteadySessions
       /\ Live(server)' = Live(server)
       /\ \A v, r : TrueOf(v, r) => TrueOf(v, r)'
  BY <1>8, Calmer
<1>12. SeenInv'
  <2>1. \A s \in SessionIds : q.table[s] # None =>
          [url |-> q.url, sid |-> s, path |-> q.table[s]] \in call.seen
    <3> SUFFICES ASSUME NEW s \in SessionIds, table[s] # None
                 PROVE  [url |-> u, sid |-> s, path |-> table[s]] \in call.seen
      BY <1>3
    <3> DEFINE f == [url |-> u, sid |-> s, path |-> table[s]]
    <3>1. f \in Session
      BY DEF Session, Table
    <3>2. f \in Live(server)
      BY <3>1 DEF Live
    <3>3. QED
      BY <3>2 DEF IInv, SeenInv
  <2>2. QED
    BY <1>8, <1>9, <1>11, <2>1 DEF IInv, SeenInv
<1>13. CoverInv'
  BY <1>2, <1>3, <1>6, <1>8, <1>9, <1>11 DEF IInv, CoverInv
<1>14. PhaseInv'
  BY <1>8 DEF IInv, PhaseInv
<1>15. OnceInv'
  <2> SUFFICES ASSUME call.op = "set_active"
               PROVE  /\ Once(call.found) /\ Once(Tail(call.todo))
                      /\ \A i, j \in DOMAIN answers :
                            answers[i].url = answers[j].url => i = j
                      /\ \A a \in Answers' : ~Among(a.url, Tail(call.todo))
    BY <1>8 DEF OnceInv
  <2>1. /\ Once(call.found) /\ Once(call.todo)
        /\ \A i, j \in DOMAIN call.answers :
              call.answers[i].url = call.answers[j].url => i = j
        /\ \A a \in Answers : ~Among(a.url, call.todo)
    BY DEF IInv, OnceInv
  <2>2. Once(Tail(call.todo)) /\ ~Among(u, Tail(call.todo))
    BY <1>6, <2>1
  <2>3. \A a \in Answers : a.url \in Urls /\ a.url # u
    BY <1>6, <1>10, <2>1 DEF Query
  <2>4. \A i \in DOMAIN call.answers : call.answers[i] \in Answers
    BY DEF Answers
  <2>5. \A i, j \in DOMAIN answers : answers[i].url = answers[j].url => i = j
    BY <1>3, <1>5, <2>1, <2>3, <2>4
  <2>6. \A a \in Answers' : ~Among(a.url, Tail(call.todo))
    BY <1>3, <1>6, <1>9, <2>1, <2>2, <2>3
  <2>7. QED
    BY <2>1, <2>2, <2>5, <2>6
<1>16. DenialInv' /\ AgainInv'
  BY <1>8 DEF DenialInv, AgainInv
<1>17. FindInv'
  <2> SUFFICES ASSUME NEW f \in SteadySessions'
               PROVE  \/ Among(f.url, Tail(call.todo))
                      \/ \E a \in Answers' : a.url = f.url /\ a.table[f.sid] = f.path
    BY <1>8 DEF FindInv
  <2>1. f \in SteadySessions /\ f.url \notin troubled
    BY <1>8, <1>11 DEF SteadySessions, Steady
  <2>2. /\ f.url \in Urls /\ f.url \notin call.changed
        /\ server[f.url].table[f.sid] = f.path /\ server[f.url].kind = "edit"
    BY <2>1, SteadyFacts
  <2>3. \/ Among(f.url, call.todo)
        \/ \E a \in Answers : a.url = f.url /\ a.table[f.sid] = f.path
    BY <2>1 DEF IInv, FindInv
  <2>4. CASE f.url = u
    <3>1. table = server[u].table
      BY <2>1, <2>2, <2>4
    <3>2. QED
      BY <1>3, <1>9, <2>2, <2>4, <3>1
  <2>5. CASE f.url # u
    BY <1>6, <1>9, <2>2, <2>3, <2>5
  <2>6. QED
    BY <2>4, <2>5
<1>18. ReasonRight'
  <2> SUFFICES ASSUME call.op = "set_active", NEW a \in Answers',
                      a.url \notin call.changed
               PROVE  TrueOf(a.url, a.reason)'
    BY <1>8 DEF ReasonRight, Done, At
  <2>1. CASE a \in Answers
    BY <1>11, <2>1 DEF IInv, Right, ReasonRight
  <2>2. CASE a = q
    BY <1>3, <2>2
  <2>3. QED
    BY <1>9, <2>1, <2>2
<1>19. Right'
  BY <1>8, <1>18 DEF Right, BoundWasLive, StaysAnchored, FoundIfThere,
                     AmbiguousIsReal, Bound, Done, At
<1>20. QED
  BY <1>11, <1>12, <1>13, <1>14, <1>15, <1>16, <1>17, <1>19 DEF IInv

(* The call is over.                                                       *)
LEMMA Ends ==
    ASSUME IInv, call.pc # "idle", NEW result \in Result,
           NEW troubled \in SUBSET Urls, call.troubled \subseteq troubled,
           call' = [call EXCEPT !.pc = "done", !.result = result,
                                !.troubled = troubled],
           UNCHANGED <<registry, server, moves>>,
           BoundWasLive', StaysAnchored', FoundIfThere', AmbiguousIsReal',
           call.op # "list" /\ result.outcome \in Failures =>
              \A u \in Urls \ call.changed :
                 u = call.url \/ (call.url = None /\ \E q \in Answers : q.url = u) =>
                    TrueOf(u, result.outcome)'
    PROVE  IInv'
<1>1. call \in Call
  BY DEF IInv, TypeOK
<1>2. /\ call' \in Call
      /\ call'.pc = "done" /\ call'.result = result
      /\ call'.troubled = troubled /\ call'.answers = call.answers
      /\ call'.todo = call.todo
      /\ call'.op = call.op /\ call'.ctx = call.ctx
      /\ call'.sid = call.sid /\ call'.url = call.url
      /\ call'.anchor = call.anchor /\ call'.found = call.found
      /\ call'.seen = call.seen /\ call'.changed = call.changed
  BY <1>1 DEF Call
<1>3. Answers' = Answers
  BY <1>2 DEF Answers
<1>4. /\ TypeOK'
      /\ \A v \in Urls : server'[v] \in Possible
      /\ Covered' = Covered
      /\ Live(server)' = Live(server)
      /\ \A v, r : TrueOf(v, r) => TrueOf(v, r)'
  BY <1>2, Calmer
<1>5. SeenInv' /\ CoverInv'
  BY <1>2, <1>3, <1>4 DEF IInv, SeenInv, CoverInv
<1>6. PhaseInv' /\ DenialInv' /\ AgainInv' /\ FindInv'
  BY <1>2 DEF PhaseInv, DenialInv, AgainInv, FindInv
<1>7. OnceInv'
  <2>1. call.pc = "discover" => Answers = {}
    BY DEF IInv, PhaseInv, Answers
  <2>2. QED
    BY <1>2, <1>3, <2>1 DEF IInv, OnceInv
<1>8. ReasonRight'
  <2>1. \A q \in Answers : call.op = "set_active" /\ q.url \notin call.changed =>
          TrueOf(q.url, q.reason)'
    BY <1>4 DEF IInv, Right, ReasonRight
  <2>2. QED
    BY <1>2, <1>3, <2>1 DEF ReasonRight, Done, At
<1>9. QED
  BY <1>4, <1>5, <1>6, <1>7, <1>8 DEF IInv, Right

LEMMA Escapes == "escaped" \notin Refusals /\ Failures \subseteq Refusals
BY DEF Refusals, Failures, AccessReasons

LEMMA Refuses ==
    ASSUME IInv, call.pc # "idle",
           NEW outcome \in Refusals \cup {"listed", "escaped"},
           NEW troubled \in SUBSET Urls, call.troubled \subseteq troubled,
           call' = Ended(outcome, troubled),
           UNCHANGED <<registry, server, moves>>,
           outcome = "escaped" => troubled # {},
           \A f \in SteadySessions : f.url \notin troubled =>
              /\ call.op = "set_active" /\ call.sid = f.sid =>
                    \/ outcome = "session_ambiguous"
                    \/ outcome = "escaped" /\ call.url = None
                    \/ outcome = "binding_context_unavailable" /\ ~call.ctx
              /\ call.op = "target" /\ call.sid = f.sid =>
                    /\ outcome = "notebook_mismatch"
                    /\ call.anchor \notin {Unsaved, f.path}
              /\ call.op = "list" /\ outcome # "escaped" =>
                    \E q \in Answers : q.url = f.url /\ q.table[f.sid] = f.path,
           call.op = "set_active" /\ outcome = "session_ambiguous" =>
              \E f, g \in call.seen :
                 f.sid = call.sid /\ g.sid = call.sid /\ f.url # g.url,
           call.op # "list" /\ outcome \in Failures =>
              \A u \in Urls \ call.changed :
                 u = call.url \/ (call.url = None /\ \E q \in Answers : q.url = u) =>
                    TrueOf(u, outcome)'
    PROVE  IInv'
<1> DEFINE result == Outcome(outcome)
<1>1. result \in Result /\ result.outcome = outcome /\ result.sid = None
  BY DEF Result, Outcome
<1> HIDE DEF result
<1>2. call' = [call EXCEPT !.pc = "done", !.result = result, !.troubled = troubled]
  BY DEF Ended, result
<1>3. call \in Call
  BY DEF IInv, TypeOK
<1>4. /\ call' \in Call /\ call'.pc = "done" /\ call'.result = result
      /\ call'.troubled = troubled /\ call'.answers = call.answers
      /\ call'.op = call.op /\ call'.ctx = call.ctx /\ call'.sid = call.sid
      /\ call'.url = call.url /\ call'.anchor = call.anchor
      /\ call'.seen = call.seen /\ call'.changed = call.changed
  BY <1>1, <1>2, <1>3 DEF Call
<1>5. ~Bound'
  BY <1>1, <1>4 DEF Bound
<1>6. BoundWasLive' /\ StaysAnchored'
  BY <1>5 DEF BoundWasLive, StaysAnchored
<1>7. FoundIfThere'
  <2> SUFFICES ASSUME NEW f \in SteadySessions'
               PROVE  Spotted(f)'
    BY DEF FoundIfThere
  <2>1. f \in SteadySessions /\ f.url \notin troubled
    <3>1. SteadySessions' \subseteq SteadySessions
      BY <1>4, Calmer
    <3>2. QED
      BY <1>4, <3>1 DEF SteadySessions, Steady
  <2>2. Answers' = Answers
    BY <1>4 DEF Answers
  <2>3. QED
    BY <1>1, <1>4, <2>1, <2>2 DEF Spotted, BrokenOff
<1>8. AmbiguousIsReal'
  BY <1>1, <1>4, <1>5 DEF AmbiguousIsReal
<1>9. QED
  BY <1>1, <1>2, <1>6, <1>7, <1>8, Ends

LEMMA Finds ==
    ASSUME IInv, call.pc \notin {"idle", "discover"},
           NEW outcome \in {"found", "listed"},
           NEW u \in Urls, NEW sid \in SessionIds, NEW path \in Paths,
           call' = Found(outcome, u, sid, path),
           UNCHANGED <<registry, server, moves>>,
           [url |-> u, sid |-> sid, path |-> path] \in call.seen, u \in Covered,
           call.op = "target" =>
              /\ call.anchor \in {Unsaved, path}
              /\ sid # call.sid => call.anchor # Unsaved,
           \A f \in SteadySessions :
              /\ call.op \in {"set_active", "target"} /\ call.sid = f.sid =>
                    outcome = "found" /\ u = f.url /\ sid = f.sid /\ path = f.path
              /\ call.op = "list" =>
                    \E q \in Answers : q.url = f.url /\ q.table[f.sid] = f.path
    PROVE  IInv'
<1> DEFINE result == [outcome |-> outcome, url |-> u, sid |-> sid, path |-> path]
<1>1. result \in Result /\ result.outcome = outcome /\ result.url = u
        /\ result.sid = sid /\ result.path = path
  BY DEF Result
<1> HIDE DEF result
<1>2. call \in Call
  BY DEF IInv, TypeOK
<1>3. call' = [call EXCEPT !.pc = "done", !.result = result]
  BY DEF Found, result
<1>4. /\ call' \in Call /\ call'.pc = "done" /\ call'.result = result
      /\ call'.troubled = call.troubled /\ call'.answers = call.answers
      /\ call'.op = call.op /\ call'.ctx = call.ctx /\ call'.sid = call.sid
      /\ call'.url = call.url /\ call'.anchor = call.anchor
      /\ call'.seen = call.seen /\ call'.changed = call.changed
  BY <1>1, <1>2, <1>3 DEF Call
<1>5. call' = [call EXCEPT !.pc = "done", !.result = result,
                           !.troubled = call.troubled]
  BY <1>2, <1>3 DEF Call
<1>6. SteadySessions' \subseteq SteadySessions /\ Covered' = Covered
  BY <1>4, Calmer
<1>7. BoundWasLive' /\ StaysAnchored'
  BY <1>1, <1>4, <1>6 DEF BoundWasLive, StaysAnchored
<1>8. FoundIfThere'
  <2> SUFFICES ASSUME NEW f \in SteadySessions
               PROVE  Spotted(f)'
    BY <1>6 DEF FoundIfThere
  <2>1. Answers' = Answers
    BY <1>4 DEF Answers
  <2>2. call.op \in {"set_active", "target"} /\ call.sid = f.sid => Given(f)'
    BY <1>4 DEF Given, result
  <2>3. QED
    BY <1>4, <2>1, <2>2 DEF Spotted
<1>9. AmbiguousIsReal'
  BY <1>1, <1>4, <1>6 DEF AmbiguousIsReal
<1>10. call.troubled \in SUBSET Urls /\ outcome \notin Failures
  BY <1>2 DEF Call, Failures, AccessReasons
<1>11. QED
  BY <1>1, <1>5, <1>7, <1>8, <1>9, <1>10, Ends
-----------------------------------------------------------------------------
(* The requests.  A reply that is not the server's own is trouble, and one *)
(* that speaks of a census, a version or a page is never made up.          *)
LEMMA Kinship ==
    ASSUME NEW k \in DOMAIN Kinds
    PROVE  /\ Kinds[k].census = "ok" <=> k = "edit"
           /\ Kinds[k].census = "none" <=> k = "down"
           /\ Kinds[k].census \in {"ok", "denied", "none"}
           /\ Kinds[k].version \in {"ok", "same", "other", "none"}
           /\ Kinds[k].page \in {"shell", "login", "unknown"}
           /\ k \in {"edit", "run", "token", "gated_shell", "gated_login",
                     "gated", "down"}
BY DEF Kinds

LEMMA CensusFacts ==
    ASSUME IInv, NEW u \in Urls, NEW reply \in CensusReplies(u)
    PROVE  /\ server[u].kind \in DOMAIN Kinds
           /\ reply \in {"ok", "denied", "none", "failed", "unreadable", "odd"}
           /\ reply = "ok" => server[u].kind = "edit"
           /\ reply = "denied" => server[u].kind \notin {"edit", "down"}
           /\ reply = "none" =>
                 server[u].kind = "down" \/ u \in CensusTrouble(u, reply)
           /\ reply # "ok" /\ server[u].kind = "edit" =>
                 u \in CensusTrouble(u, reply)
           /\ reply = "odd" => u \in CensusTrouble(u, reply)
           /\ CensusTrouble(u, reply) \in SUBSET Urls
           /\ call.troubled \subseteq CensusTrouble(u, reply)
<1>1. server[u].kind \in DOMAIN Kinds /\ call.troubled \in SUBSET Urls
  BY DEF IInv, TypeOK, Server, Call
<1>2. reply \in {Kinds[server[u].kind].census, "none", "failed", "unreadable", "odd"}
  BY DEF CensusReplies, Replies
<1>3. CensusTrouble(u, reply) =
        IF reply = Kinds[server[u].kind].census THEN call.troubled
        ELSE call.troubled \cup {u}
  BY DEF CensusTrouble, Trouble
<1>4. QED
  BY <1>1, <1>2, <1>3, Kinship

LEMMA VersionFacts ==
    ASSUME IInv, NEW u \in Urls, NEW reply \in VersionReplies(u)
    PROVE  /\ reply = "ok" => Readable(u)
           /\ reply = "same" => Gated(u)
           /\ VersionTrouble(u, reply) \in SUBSET Urls
           /\ call.troubled \subseteq VersionTrouble(u, reply)
<1>1. server[u].kind \in DOMAIN Kinds /\ call.troubled \in SUBSET Urls
  BY DEF IInv, TypeOK, Server, Call
<1>2. reply \in {Kinds[server[u].kind].version, "none", "other"}
  BY DEF VersionReplies, Replies
<1>3. QED
  BY <1>1, <1>2 DEF VersionTrouble, Trouble, Readable, Gated

LEMMA PageFacts ==
    ASSUME IInv, NEW u \in Urls, NEW reply \in PageReplies(u)
    PROVE  /\ reply = "shell" => Readable(u)
           /\ reply = "login" => Gated(u)
           /\ reply \in {"shell", "login", "unknown"}
           /\ PageTrouble(u, reply) \in SUBSET Urls
           /\ call.troubled \subseteq PageTrouble(u, reply)
<1>1. server[u].kind \in DOMAIN Kinds /\ call.troubled \in SUBSET Urls
  BY DEF IInv, TypeOK, Server, Call
<1>2. reply \in {Kinds[server[u].kind].page, "unknown"}
  BY DEF PageReplies, Replies
<1>3. QED
  BY <1>1, <1>2, Kinship DEF PageTrouble, Trouble, Readable, Gated
-----------------------------------------------------------------------------
LEMMA OnlyTarget ==
    ASSUME IInv, call.op = "target", call.pc \notin {"idle", "done"}
    PROVE  /\ call.url \in Urls /\ call.sid \in SessionIds
           /\ Covered = {call.url}
           /\ \A u : Asking(u) => u = call.url
           /\ \A q : q \notin Answers
           /\ \A f \in SteadySessions : f.url = call.url
<1>1. call \in Call
  BY DEF IInv, TypeOK
<1>2. /\ call.url # None /\ call.sid # None
      /\ call.todo = <<call.url>> /\ call.answers = <<>>
  BY DEF IInv, PhaseInv
<1>3. call.url \in Urls /\ call.sid \in SessionIds
  BY <1>1, <1>2 DEF Call
<1>4. Covered = {call.url}
  BY <1>2 DEF Covered
<1>5. \A u : Asking(u) => u = call.url
  BY <1>2, <1>3, Singles DEF Asking
<1>6. \A q : q \notin Answers
  BY <1>2 DEF Answers
<1>7. \A f \in SteadySessions : f.url = call.url
  BY <1>4, SteadyFacts
<1>8. QED
  BY <1>3, <1>4, <1>5, <1>6, <1>7

LEMMA Starts ==
    ASSUME IInv, NEW op \in {"set_active", "list"}, NEW ctx \in BOOLEAN,
           NEW sid \in SessionIds \cup {None}, NEW url \in Urls \cup {None},
           Start(op, ctx, sid, url)
    PROVE  IInv'
<1> DEFINE begun == [Idle EXCEPT !.op = op, !.ctx = ctx, !.sid = sid, !.url = url,
                                 !.seen = Live(server)]
<1>1. /\ registry \in Registries /\ registry \in Seq(Urls)
      /\ UNCHANGED <<registry, server, moves>>
      /\ server \in [Urls -> Server] /\ moves \in Nat
  BY DEF IInv, TypeOK, Start
<1>2. Live(server) \in SUBSET Session /\ Live(server)' = Live(server)
  BY <1>1 DEF Live
<1>3. Outcome("pending") \in Result /\ Outcome("invalid_session_id") \in Result
        /\ Outcome("invalid_session_id").sid = None
        /\ Outcome("invalid_session_id").outcome = "invalid_session_id"
  BY DEF Outcome, Result, Refusals
<1>4. /\ begun \in Call
      /\ begun.op = op /\ begun.ctx = ctx /\ begun.sid = sid /\ begun.url = url
      /\ begun.seen = Live(server) /\ begun.pc = "idle" /\ begun.todo = <<>>
      /\ begun.found = <<>> /\ begun.answers = <<>> /\ begun.changed = {}
      /\ begun.troubled = {} /\ begun.anchor = Unsaved
  BY <1>2, <1>3, Empties DEF Idle, Call, Operations
<1>5. call' = CASE op = "set_active" /\ sid = None ->
                      [begun EXCEPT !.pc = "done",
                                    !.result = Outcome("invalid_session_id")]
                 [] ~(op = "set_active" /\ sid = None) /\ url # None ->
                      [begun EXCEPT !.pc = "query", !.todo = <<url>>]
                 [] OTHER ->
                      [begun EXCEPT !.pc = "discover", !.todo = registry]
  BY DEF Start
<1> HIDE DEF begun
<1>6. TypeOK' /\ \A u \in Urls : server'[u] \in Possible
  <2>1. call' \in Call
    <3>1. CASE op = "set_active" /\ sid = None
      BY <1>3, <1>4, <1>5, <3>1 DEF Call
    <3>2. CASE ~(op = "set_active" /\ sid = None) /\ url # None
      <4>1. <<url>> \in Seq(Urls)
        BY <3>2
      <4>2. call' = [begun EXCEPT !.pc = "query", !.todo = <<url>>]
        BY <1>5, <3>2
      <4>3. QED
        BY <1>4, <4>1, <4>2 DEF Call
    <3>3. CASE ~(op = "set_active" /\ sid = None) /\ url = None
      <4>1. call' = [begun EXCEPT !.pc = "discover", !.todo = registry]
        BY <1>5, <3>3
      <4>2. QED
        BY <1>1, <1>4, <4>1 DEF Call
    <3>4. QED
      BY <3>1, <3>2, <3>3
  <2>2. QED
    BY <1>1, <2>1 DEF IInv, TypeOK
<1>7. CASE op = "set_active" /\ sid = None
  <2>1. call' = [begun EXCEPT !.pc = "done",
                              !.result = Outcome("invalid_session_id")]
    BY <1>5, <1>7
  <2>2. /\ call'.pc = "done" /\ call'.result = Outcome("invalid_session_id")
        /\ call'.op = op /\ call'.sid = None /\ call'.todo = <<>>
        /\ call'.found = <<>> /\ call'.answers = <<>> /\ call'.seen = Live(server)
        /\ call'.changed = {} /\ call'.url = url
    BY <1>4, <1>7, <2>1 DEF Call
  <2>3. Answers' = {}
    BY <2>2 DEF Answers
  <2>4. SeenInv' /\ CoverInv' /\ OnceInv'
    BY <1>2, <2>2, <2>3, Empties DEF SeenInv, CoverInv, OnceInv
  <2>5. PhaseInv' /\ DenialInv' /\ AgainInv' /\ FindInv'
    BY <2>2 DEF PhaseInv, DenialInv, AgainInv, FindInv
  <2>6. ~Bound'
    BY <1>3, <2>2 DEF Bound
  <2>7. FoundIfThere'
    <3>1. \A f \in SteadySessions' : f.sid # None
      BY DEF SteadySessions, Live, Session
    <3>2. QED
      BY <1>7, <2>2, <3>1 DEF FoundIfThere, Spotted
  <2>8. "invalid_session_id" \notin Failures
    BY DEF Failures, AccessReasons
  <2>9. Right'
    BY <1>3, <2>2, <2>3, <2>6, <2>7, <2>8
       DEF Right, BoundWasLive, StaysAnchored, AmbiguousIsReal, ReasonRight
  <2>10. QED
    BY <1>6, <2>4, <2>5, <2>9 DEF IInv
<1>8. CASE ~(op = "set_active" /\ sid = None)
  <2>1. /\ call'.pc = IF url # None THEN "query" ELSE "discover"
        /\ call'.todo = IF url # None THEN <<url>> ELSE registry
        /\ call'.op = op /\ call'.sid = sid
        /\ call'.found = <<>> /\ call'.answers = <<>> /\ call'.seen = Live(server)
        /\ call'.changed = {} /\ call'.url = url
    BY <1>4, <1>5, <1>8 DEF Call
  <2>2. Answers' = {}
    BY <2>1 DEF Answers
  <2>3. /\ Covered' = IF url # None THEN {url} ELSE {u \in Urls : Among(u, registry)}
        /\ \A u \in Urls : u \in Covered' => Among(u, call'.todo)
        /\ \A u \in Urls : Among(u, call'.todo) => u \in Covered'
    BY <1>1, <2>1, Singles DEF Covered
  <2>4. SeenInv' /\ CoverInv'
    BY <1>2, <2>1, <2>2, <2>3, Empties DEF SeenInv, CoverInv
  <2>5. PhaseInv'
    BY <1>8, <2>1 DEF PhaseInv
  <2>6. OnceInv'
    BY <2>1, <2>2, Empties, Singles DEF OnceInv
  <2>7. DenialInv' /\ AgainInv'
    BY <2>1 DEF DenialInv, AgainInv
  <2>8. FindInv'
    <3>1. \A f \in SteadySessions' : f.url \in Urls /\ f.url \in Covered'
      BY DEF SteadySessions, Live, Session, Steady
    <3>2. QED
      BY <2>1, <2>3, <3>1 DEF FindInv
  <2>9. Right'
    BY <2>1, <2>2 DEF Right, BoundWasLive, StaysAnchored, AmbiguousIsReal,
                      ReasonRight, FoundIfThere, Bound, Done, At
  <2>10. QED
    BY <1>6, <2>4, <2>5, <2>6, <2>7, <2>8, <2>9 DEF IInv
<1>9. QED
  BY <1>7, <1>8

LEMMA TargetStarts ==
    ASSUME IInv, NEW sid \in SessionIds, NEW url \in Urls, NEW anchor \in Paths,
           StartTarget(sid, url, anchor)
    PROVE  IInv'
<1>1. /\ UNCHANGED <<registry, server, moves>>
      /\ server \in [Urls -> Server] /\ moves \in Nat
  BY DEF IInv, TypeOK, StartTarget
<1>2. Live(server) \in SUBSET Session /\ Live(server)' = Live(server)
  BY <1>1 DEF Live
<1>3. Outcome("pending") \in Result
  BY DEF Outcome, Result
<1>4. /\ call' \in Call /\ call'.op = "target" /\ call'.pc = "query"
      /\ call'.sid = sid /\ call'.url = url /\ call'.todo = <<url>>
      /\ call'.seen = Live(server) /\ call'.found = <<>> /\ call'.answers = <<>>
  BY <1>2, <1>3, Singles, Empties DEF StartTarget, Idle, Call, Operations
<1>5. TypeOK' /\ \A u \in Urls : server'[u] \in Possible
  BY <1>1, <1>4 DEF IInv, TypeOK
<1>6. Answers' = {} /\ Covered' = {url}
  BY <1>4 DEF Answers, Covered
<1>7. SeenInv' /\ CoverInv'
  BY <1>2, <1>4, <1>6, Empties, Singles DEF SeenInv, CoverInv
<1>8. PhaseInv'
  BY <1>4 DEF PhaseInv
<1>9. OnceInv' /\ DenialInv' /\ AgainInv'
  BY <1>4 DEF OnceInv, DenialInv, AgainInv
<1>10. FindInv'
  BY <1>4 DEF FindInv
<1>11. Right'
  BY <1>4, <1>6 DEF Right, BoundWasLive, StaysAnchored, AmbiguousIsReal,
                    ReasonRight, FoundIfThere, Bound, Done, At
<1>12. QED
  BY <1>5, <1>7, <1>8, <1>9, <1>10, <1>11 DEF IInv

(* A registry file's turn is over.                                         *)
LEMMA Discovery ==
    ASSUME IInv, call.pc = "discover", NEW u \in Urls, Asking(u),
           NEW found \in {call.found, Added(call.found, u)},
           NEW troubled \in SUBSET Urls, call.troubled \subseteq troubled,
           call' = [call EXCEPT !.todo = Tail(call.todo), !.found = found,
                                !.troubled = troubled],
           UNCHANGED <<registry, server, moves>>,
           server[u].kind = "edit" /\ u \notin troubled =>
              found = Added(call.found, u)
    PROVE  IInv'
<1>1. call \in Call
  BY DEF IInv, TypeOK
<1>2. /\ call.todo \in Seq(Urls) /\ call.todo # <<>> /\ u = Head(call.todo)
      /\ call.found \in Seq(Urls)
  BY <1>1 DEF Asking, Call
<1>3. /\ Tail(call.todo) \in Seq(Urls)
      /\ \A v \in Urls : Among(v, call.todo) <=> v = u \/ Among(v, Tail(call.todo))
  BY <1>2, TailFacts
<1>4. /\ found \in Seq(Urls)
      /\ \A v \in Urls : Among(v, found) => Among(v, call.found) \/ v = u
      /\ \A v \in Urls : Among(v, call.found) => Among(v, found)
      /\ found = Added(call.found, u) => Among(u, found)
      /\ call.op = "set_active" /\ Once(call.found) => Once(found)
  <2>1. CASE found = call.found /\ found # Added(call.found, u)
    BY <1>2, <2>1
  <2>2. CASE found = Added(call.found, u) /\ call.op = "set_active"
                /\ Among(u, call.found)
    BY <1>2, <2>2 DEF Added
  <2>3. CASE found = Added(call.found, u)
                /\ ~(call.op = "set_active" /\ Among(u, call.found))
    <3>1. found = Append(call.found, u)
      BY <2>3 DEF Added
    <3>2. found \in Seq(Urls)
      BY <1>2, <3>1, AppendFacts
    <3>3. \A v \in Urls : Among(v, found) <=> Among(v, call.found) \/ v = u
      BY <1>2, <3>1, AppendAmong
    <3>4. Once(call.found) /\ ~Among(u, call.found) => Once(found)
      BY <1>2, <3>1, AppendAmong
    <3>5. QED
      BY <2>3, <3>2, <3>3, <3>4, Zenon
  <2>4. QED
    BY <2>1, <2>2, <2>3
<1>5. /\ call' \in Call /\ call'.pc = "discover" /\ call'.found = found
      /\ call'.todo = Tail(call.todo)
      /\ call'.troubled = troubled /\ call'.answers = call.answers
      /\ call'.op = call.op /\ call'.ctx = call.ctx /\ call'.sid = call.sid
      /\ call'.url = call.url /\ call'.anchor = call.anchor
      /\ call'.seen = call.seen /\ call'.changed = call.changed
  BY <1>1, <1>3, <1>4 DEF Call
<1>6. /\ TypeOK'
      /\ \A v \in Urls : server'[v] \in Possible
      /\ Covered' = Covered
      /\ SteadySessions' \subseteq SteadySessions
      /\ Live(server)' = Live(server)
      /\ \A v, r : TrueOf(v, r) => TrueOf(v, r)'
  BY <1>5, Calmer
<1>7. Answers' = Answers /\ Answers = {}
  BY <1>5 DEF IInv, PhaseInv, Answers
<1>8. SeenInv' /\ CoverInv'
  BY <1>2, <1>3, <1>4, <1>5, <1>6, <1>7 DEF IInv, SeenInv, CoverInv
<1>9. PhaseInv'
  BY <1>5 DEF IInv, PhaseInv
<1>10. OnceInv'
  BY <1>4, <1>5, <1>7 DEF IInv, OnceInv
<1>11. DenialInv' /\ AgainInv'
  BY <1>5 DEF DenialInv, AgainInv
<1>12. FindInv'
  <2> SUFFICES ASSUME NEW f \in SteadySessions'
               PROVE  Among(f.url, Tail(call.todo)) \/ Among(f.url, found)
    BY <1>5 DEF FindInv
  <2>1. f \in SteadySessions /\ f.url \notin troubled
    BY <1>5, <1>6 DEF SteadySessions, Steady
  <2>2. f.url \in Urls /\ server[f.url].kind = "edit"
    BY <2>1, SteadyFacts
  <2>3. Among(f.url, call.todo) \/ Among(f.url, call.found)
    BY <2>1 DEF IInv, FindInv
  <2>4. QED
    BY <1>3, <1>4, <2>1, <2>2, <2>3
<1>13. Right'
  BY <1>5, <1>7 DEF Right, BoundWasLive, StaysAnchored, AmbiguousIsReal,
                    ReasonRight, FoundIfThere, Bound, Done, At
<1>14. QED
  BY <1>6, <1>8, <1>9, <1>10, <1>11, <1>12, <1>13 DEF IInv

LEMMA Discoveries ==
    ASSUME IInv, NEW u \in Urls, Check(u) \/ SkipFile(u)
    PROVE  IInv'
<1>1. /\ call.pc = "discover" /\ Asking(u)
      /\ UNCHANGED <<registry, server, moves>> /\ call \in Call
  BY DEF Check, SkipFile, At, Goto, IInv, TypeOK
<1>2. CASE SkipFile(u)
  <2> DEFINE troubled == call.troubled \cup {u}
  <2>1. call' = [call EXCEPT !.todo = Tail(call.todo), !.found = call.found,
                             !.troubled = troubled]
    BY <1>1, <1>2 DEF SkipFile, Goto, Call
  <2>2. troubled \in SUBSET Urls
    BY <1>1 DEF Call
  <2>3. QED
    BY <1>1, <2>1, <2>2, Discovery
<1>3. CASE Check(u)
  <2>1. PICK reply \in CensusReplies(u) :
          call' = [call EXCEPT !.todo = Tail(call.todo),
                               !.found = IF reply \in {"ok", "unreadable", "odd"}
                                         THEN Added(call.found, u) ELSE call.found,
                               !.troubled = CensusTrouble(u, reply)]
    BY <1>3 DEF Check, Goto
  <2> DEFINE found == IF reply \in {"ok", "unreadable", "odd"}
                      THEN Added(call.found, u) ELSE call.found
             troubled == CensusTrouble(u, reply)
  <2>2. /\ troubled \in SUBSET Urls /\ call.troubled \subseteq troubled
        /\ reply # "ok" /\ server[u].kind = "edit" => u \in troubled
    BY CensusFacts
  <2>3. server[u].kind = "edit" /\ u \notin troubled =>
          found = Added(call.found, u)
    BY <2>2
  <2>4. found \in {call.found, Added(call.found, u)}
    OBVIOUS
  <2> HIDE DEF found, troubled
  <2>5. call' = [call EXCEPT !.todo = Tail(call.todo), !.found = found,
                             !.troubled = troubled]
    BY <2>1 DEF found, troubled
  <2>6. QED
    BY <1>1, <2>2, <2>3, <2>4, <2>5, Discovery
<1>4. QED
  BY <1>2, <1>3

(* A malformed file ends the call, whatever it was looking for.            *)
LEMMA Breaks ==
    ASSUME IInv, NEW u \in Urls, BreakOff(u)
    PROVE  IInv'
<1> DEFINE troubled == call.troubled \cup {u}
<1>1. /\ call.pc = "discover" /\ call' = Ended("escaped", troubled)
      /\ UNCHANGED <<registry, server, moves>> /\ call \in Call
  BY DEF BreakOff, At, Goto, IInv, TypeOK
<1>2. /\ troubled \in SUBSET Urls /\ call.troubled \subseteq troubled
      /\ troubled # {}
  BY <1>1 DEF Call
<1> HIDE DEF troubled
<1>3. call.op # "target" /\ (call.op = "set_active" => call.url = None)
  BY <1>1 DEF IInv, PhaseInv
<1>4. "escaped" \notin Failures /\ "escaped" # "session_ambiguous"
  BY DEF Failures, AccessReasons
<1>5. QED
  BY <1>1, <1>2, <1>3, <1>4, Refuses

LEMMA Discovers ==
    ASSUME IInv, Discovered
    PROVE  IInv'
<1>1. /\ call.pc = "discover" /\ call.todo = <<>>
      /\ UNCHANGED <<registry, server, moves>> /\ call \in Call
      /\ call' = [call EXCEPT !.pc = "query", !.todo = call.found]
  BY DEF Discovered, At, Goto, IInv, TypeOK
<1>2. /\ call' \in Call /\ call'.pc = "query" /\ call'.found = call.found
      /\ call'.todo = call.found
      /\ call'.troubled = call.troubled /\ call'.answers = call.answers
      /\ call'.op = call.op /\ call'.ctx = call.ctx /\ call'.sid = call.sid
      /\ call'.url = call.url /\ call'.anchor = call.anchor
      /\ call'.seen = call.seen /\ call'.changed = call.changed
  BY <1>1 DEF Call
<1>3. /\ TypeOK'
      /\ \A v \in Urls : server'[v] \in Possible
      /\ Covered' = Covered
      /\ SteadySessions' \subseteq SteadySessions
      /\ Live(server)' = Live(server)
  BY <1>1, <1>2, Calmer
<1>4. Answers' = Answers /\ Answers = {} /\ call.answers = <<>>
  BY <1>1, <1>2 DEF IInv, PhaseInv, Answers
<1>5. SeenInv' /\ CoverInv'
  BY <1>1, <1>2, <1>3, <1>4 DEF IInv, SeenInv, CoverInv
<1>6. PhaseInv'
  BY <1>1, <1>2 DEF IInv, PhaseInv
<1>7. OnceInv'
  BY <1>1, <1>2, <1>4 DEF IInv, OnceInv
<1>8. DenialInv' /\ AgainInv'
  BY <1>2 DEF DenialInv, AgainInv
<1>9. FindInv'
  BY <1>1, <1>2, <1>3, Empties DEF IInv, FindInv
<1>10. Right'
  BY <1>2, <1>4 DEF Right, BoundWasLive, StaysAnchored, AmbiguousIsReal,
                    ReasonRight, FoundIfThere, Bound, Done, At
<1>11. QED
  BY <1>3, <1>5, <1>6, <1>7, <1>8, <1>9, <1>10 DEF IInv
-----------------------------------------------------------------------------
LEMMA Queries ==
    ASSUME IInv, NEW u \in Urls, QueryServer(u)
    PROVE  IInv'
<1>1. /\ call.pc = "query" /\ call.op # "target" /\ Asking(u)
      /\ UNCHANGED <<registry, server, moves>> /\ call \in Call
      /\ server[u].table \in Table /\ Nobody \in Table
  BY DEF QueryServer, At, Goto, IInv, TypeOK, Server, Nobody, Table
<1>2. PICK reply \in CensusReplies(u) :
        LET troubled == CensusTrouble(u, reply) IN
         \/ /\ reply = "ok"
            /\ call' = Noted(u, Answered, server[u].table, troubled)
         \/ /\ reply = "denied"
            /\ call' = IF call.op = "set_active"
                       THEN [call EXCEPT !.pc = "version"]
                       ELSE Noted(u, "server_query_failed", Nobody, troubled)
         \/ /\ reply \in {"none", "failed", "unreadable"}
            /\ call' = Noted(u, Unanswered(reply), Nobody, troubled)
         \/ /\ reply = "odd"
            /\ call' = IF call.op = "set_active"
                       THEN Noted(u, Unanswered(reply), Nobody, troubled)
                       ELSE Ended("escaped", troubled)
  BY DEF QueryServer, Goto
<1> DEFINE troubled == CensusTrouble(u, reply)
<1>3. /\ reply = "denied" => server[u].kind \notin {"edit", "down"}
      /\ reply = "none" => server[u].kind = "down" \/ u \in troubled
      /\ reply # "ok" /\ server[u].kind = "edit" => u \in troubled
      /\ reply = "odd" => troubled # {}
      /\ troubled \in SUBSET Urls /\ call.troubled \subseteq troubled
  BY CensusFacts
<1> HIDE DEF troubled
<1>4. \A s \in SessionIds : Nobody[s] = None
  BY DEF Nobody
<1>5. ASSUME NEW reason \in {Answered, "server_unreachable", "server_query_failed"},
             NEW table \in {server[u].table, Nobody},
             call' = Noted(u, reason, table, troubled),
             reason = "server_unreachable" => server[u].kind = "down" \/ u \in troubled,
             table = Nobody \/ reply = "ok",
             reply = "ok" => table = server[u].table
      PROVE  IInv'
  <2>1. reason \in Failures \cup {Answered} /\ table \in Table
    BY <1>1 DEF Failures
  <2>2. call'.troubled = troubled
    BY <1>1, <1>5 DEF Noted, Call
  <2>3. TrueOf(u, reason)'
    BY <1>1, <1>5, <2>2 DEF TrueOf, Answered
  <2>4. \A s \in SessionIds : table[s] # None => server[u].table[s] = table[s]
    BY <1>4, <1>5
  <2>5. server[u].kind = "edit" /\ u \notin call.changed \cup troubled =>
          table = server[u].table
    BY <1>3, <1>5
  <2>6. QED
    BY <1>1, <1>3, <1>5, <2>1, <2>3, <2>4, <2>5, Notes
<1>6. CASE reply = "denied" /\ call.op = "set_active"
  <2>1. call' = [call EXCEPT !.pc = "version"]
    BY <1>2, <1>6
  <2>2. /\ call' \in Call /\ call'.pc = "version" /\ call'.found = call.found
        /\ call'.todo = call.todo
        /\ call'.troubled = call.troubled /\ call'.answers = call.answers
        /\ call'.op = call.op /\ call'.ctx = call.ctx /\ call'.sid = call.sid
        /\ call'.url = call.url /\ call'.anchor = call.anchor
        /\ call'.seen = call.seen /\ call'.changed = call.changed
    BY <1>1, <2>1 DEF Call
  <2>3. /\ TypeOK'
        /\ \A v \in Urls : server'[v] \in Possible
        /\ Covered' = Covered
        /\ SteadySessions' \subseteq SteadySessions
        /\ Live(server)' = Live(server)
        /\ \A v, r : TrueOf(v, r) => TrueOf(v, r)'
    BY <1>1, <2>2, Calmer
  <2>4. Answers' = Answers
    BY <2>2 DEF Answers
  <2>5. SeenInv' /\ CoverInv'
    BY <1>1, <2>2, <2>3, <2>4 DEF IInv, SeenInv, CoverInv
  <2>6. PhaseInv' /\ OnceInv' /\ AgainInv'
    BY <1>1, <1>6, <2>2, <2>4 DEF IInv, PhaseInv, OnceInv, AgainInv
  <2>7. DenialInv'
    BY <1>1, <1>3, <1>6, <2>2 DEF DenialInv, Asking
  <2>8. FindInv'
    BY <1>1, <2>2, <2>3, <2>4 DEF IInv, FindInv
  <2>9. ReasonRight'
    BY <2>2, <2>3, <2>4 DEF IInv, Right, ReasonRight, Done, At
  <2>10. Right'
    BY <2>2, <2>9 DEF Right, BoundWasLive, StaysAnchored, AmbiguousIsReal,
                      FoundIfThere, Bound, Done, At
  <2>11. QED
    BY <2>3, <2>5, <2>6, <2>7, <2>8, <2>10 DEF IInv
<1>7. CASE reply = "odd" /\ call.op # "set_active"
  <2>1. call' = Ended("escaped", troubled)
    BY <1>2, <1>7 DEF troubled
  <2>2. call.pc # "idle"
    BY <1>1
  <2>3. "escaped" \notin Failures /\ "escaped" # "session_ambiguous"
    BY DEF Failures, AccessReasons
  <2>4. QED
    BY <1>1, <1>3, <1>7, <2>1, <2>2, <2>3, Refuses
<1>8. CASE reply = "ok"
  BY <1>2, <1>5, <1>8 DEF troubled, Answered
<1>9. CASE reply = "denied" /\ call.op # "set_active"
  BY <1>2, <1>5, <1>9 DEF troubled
<1>10. CASE reply \in {"none", "failed", "unreadable"}
  <2>1. call' = Noted(u, Unanswered(reply), Nobody, troubled)
    BY <1>2, <1>10 DEF troubled
  <2>2. Unanswered(reply) = IF reply = "none" THEN "server_unreachable"
                            ELSE "server_query_failed"
    BY DEF Unanswered
  <2>3. QED
    BY <1>3, <1>5, <1>10, <2>1, <2>2
<1>11. CASE reply = "odd" /\ call.op = "set_active"
  <2>1. call' = Noted(u, "server_query_failed", Nobody, troubled)
    BY <1>2, <1>11 DEF troubled, Unanswered
  <2>2. QED
    BY <1>5, <1>11, <2>1
<1>12. QED
  BY <1>2, <1>6, <1>7, <1>8, <1>9, <1>10, <1>11

(* A denial of u's has been classified.                                    *)
LEMMA Classifies ==
    ASSUME IInv, call.pc \in {"version", "page"}, NEW u \in Urls, Asking(u),
           NEW reason \in AccessReasons,
           NEW troubled \in SUBSET Urls, call.troubled \subseteq troubled,
           call' = Classified(u, reason, troubled),
           UNCHANGED <<registry, server, moves>>,
           u \notin call.changed => TrueOf(u, reason)'
    PROVE  IInv'
<1>1. u \notin call.changed => server[u].kind \notin {"edit", "down"}
  BY DEF IInv, DenialInv, Asking
<1>2. reason \in Failures /\ reason \in Refusals
        /\ reason # "session_ambiguous"
  BY DEF Refusals, Failures, AccessReasons
<1>3. CASE call.op = "target"
  <2>1. call' = Ended(reason, troubled)
    BY <1>3 DEF Classified
  <2>2. /\ call.pc \notin {"idle", "discover"} /\ call.pc \notin {"idle", "done"}
        /\ call.op # "set_active"
    BY <1>3
  <2>3. /\ call.url \in Urls /\ u = call.url
        /\ \A q : q \notin Answers
        /\ \A f \in SteadySessions : f.url = call.url
    BY <1>3, <2>2, OnlyTarget
  <2>4. \A f \in SteadySessions : FALSE
    BY <1>1, <2>3, SteadyFacts
  <2>5. QED
    BY <1>2, <1>3, <2>1, <2>2, <2>3, <2>4, Escapes, Refuses
<1>4. CASE call.op # "target"
  <2>1. call' = Noted(u, reason, Nobody, troubled)
    BY <1>4 DEF Classified
  <2>2. Nobody \in Table /\ \A s \in SessionIds : Nobody[s] = None
    BY DEF Nobody, Table
  <2>3. call.pc \in {"query", "version", "page"}
    OBVIOUS
  <2>4. QED
    BY <1>1, <1>2, <1>4, <2>1, <2>2, <2>3, Notes
<1>5. QED
  BY <1>3, <1>4

LEMMA Versions ==
    ASSUME IInv, NEW u \in Urls, Version(u)
    PROVE  IInv'
<1>1. /\ call.pc = "version" /\ Asking(u)
      /\ UNCHANGED <<registry, server, moves>> /\ call \in Call
  BY DEF Version, At, Goto, IInv, TypeOK
<1>2. PICK reply \in VersionReplies(u) :
        LET troubled == VersionTrouble(u, reply) IN
         \/ /\ reply = "ok"
            /\ call' = Classified(u, "edit_scope_required", troubled)
         \/ /\ reply = "same"
            /\ call' = Classified(u, "auth_required", troubled)
         \/ call' = [call EXCEPT !.pc = "page", !.troubled = troubled]
  BY DEF Version, Goto, SameDenial
<1> DEFINE troubled == VersionTrouble(u, reply)
<1>3. /\ reply = "ok" => Readable(u)
      /\ reply = "same" => Gated(u)
      /\ troubled \in SUBSET Urls /\ call.troubled \subseteq troubled
  BY VersionFacts
<1> HIDE DEF troubled
<1>4. u \notin call.changed => server[u].kind \notin {"edit", "down"}
  BY <1>1 DEF IInv, DenialInv, Asking
<1>5. (Readable(u) => Readable(u)') /\ (Gated(u) => Gated(u)')
  BY <1>1 DEF Readable, Gated
<1>6. CASE reply = "ok" /\ call' = Classified(u, "edit_scope_required", troubled)
  <2>1. u \notin call.changed => TrueOf(u, "edit_scope_required")'
    BY <1>1, <1>3, <1>4, <1>5, <1>6 DEF TrueOf
  <2>2. "edit_scope_required" \in AccessReasons
    BY DEF AccessReasons
  <2>3. QED
    BY <1>1, <1>3, <1>6, <2>1, <2>2, Classifies
<1>7. CASE reply = "same" /\ call' = Classified(u, "auth_required", troubled)
  <2>1. u \notin call.changed => TrueOf(u, "auth_required")'
    BY <1>1, <1>3, <1>5, <1>7 DEF TrueOf
  <2>2. "auth_required" \in AccessReasons
    BY DEF AccessReasons
  <2>3. QED
    BY <1>1, <1>3, <1>7, <2>1, <2>2, Classifies
<1>8. CASE call' = [call EXCEPT !.pc = "page", !.troubled = troubled]
  <2>1. /\ call' \in Call /\ call'.pc = "page" /\ call'.found = call.found
        /\ call'.todo = call.todo
        /\ call'.troubled = troubled /\ call'.answers = call.answers
        /\ call'.op = call.op /\ call'.ctx = call.ctx /\ call'.sid = call.sid
        /\ call'.url = call.url /\ call'.anchor = call.anchor
        /\ call'.seen = call.seen /\ call'.changed = call.changed
    BY <1>1, <1>3, <1>8 DEF Call
  <2>2. /\ TypeOK'
        /\ \A v \in Urls : server'[v] \in Possible
        /\ Covered' = Covered
        /\ SteadySessions' \subseteq SteadySessions
        /\ Live(server)' = Live(server)
        /\ \A v, r : TrueOf(v, r) => TrueOf(v, r)'
    BY <1>1, <1>3, <2>1, Calmer
  <2>3. Answers' = Answers
    BY <2>1 DEF Answers
  <2>4. SeenInv' /\ CoverInv'
    BY <1>1, <2>1, <2>2, <2>3 DEF IInv, SeenInv, CoverInv
  <2>5. PhaseInv' /\ OnceInv' /\ AgainInv'
    BY <1>1, <2>1, <2>3 DEF IInv, PhaseInv, OnceInv, AgainInv
  <2>6. DenialInv'
    BY <1>1, <1>4, <2>1 DEF DenialInv, Asking
  <2>7. FindInv'
    BY <1>1, <2>1, <2>2, <2>3 DEF IInv, FindInv
  <2>8. ReasonRight'
    BY <2>1, <2>2, <2>3 DEF IInv, Right, ReasonRight, Done, At
  <2>9. Right'
    BY <2>1, <2>8 DEF Right, BoundWasLive, StaysAnchored, AmbiguousIsReal,
                      FoundIfThere, Bound, Done, At
  <2>10. QED
    BY <2>2, <2>4, <2>5, <2>6, <2>7, <2>9 DEF IInv
<1>9. QED
  BY <1>2, <1>6, <1>7, <1>8 DEF troubled

LEMMA Pages ==
    ASSUME IInv, NEW u \in Urls, Page(u)
    PROVE  IInv'
<1>1. /\ call.pc = "page" /\ Asking(u)
      /\ UNCHANGED <<registry, server, moves>> /\ call \in Call
  BY DEF Page, At, Goto, IInv, TypeOK
<1>2. PICK reply \in PageReplies(u) :
        call' = Classified(u, PageReason[reply], PageTrouble(u, reply))
  BY DEF Page, Goto
<1> DEFINE troubled == PageTrouble(u, reply)
           reason == PageReason[reply]
<1>3. /\ reply = "shell" => Readable(u)
      /\ reply = "login" => Gated(u)
      /\ reply \in {"shell", "login", "unknown"}
      /\ troubled \in SUBSET Urls /\ call.troubled \subseteq troubled
  BY PageFacts
<1>4. u \notin call.changed => server[u].kind \notin {"edit", "down"}
  BY <1>1 DEF IInv, DenialInv, Asking
<1>5. (Readable(u) => Readable(u)') /\ (Gated(u) => Gated(u)')
  BY <1>1 DEF Readable, Gated
<1>6. /\ reply = "shell" => reason = "edit_scope_required"
      /\ reply = "login" => reason = "auth_required"
      /\ reply = "unknown" => reason = "session_census_denied"
  BY DEF PageReason
<1> HIDE DEF troubled, reason
<1>7. reason \in AccessReasons
  BY <1>3, <1>6 DEF AccessReasons
<1>8. u \notin call.changed => TrueOf(u, reason)'
  <2>1. CASE reply = "shell"
    BY <1>1, <1>3, <1>4, <1>5, <1>6, <2>1 DEF TrueOf
  <2>2. CASE reply = "login"
    BY <1>1, <1>3, <1>4, <1>5, <1>6, <2>2 DEF TrueOf
  <2>3. CASE reply = "unknown"
    BY <1>1, <1>4, <1>6, <2>3 DEF TrueOf
  <2>4. QED
    BY <1>3, <2>1, <2>2, <2>3
<1>9. call' = Classified(u, reason, troubled)
  BY <1>2 DEF reason, troubled
<1>10. QED
  BY <1>1, <1>3, <1>7, <1>8, <1>9, Classifies
-----------------------------------------------------------------------------
LEMMA LiveSeen ==
    ASSUME IInv, call.pc # "idle", NEW u \in Urls, NEW s \in SessionIds,
           NEW path \in Paths, server[u].table[s] = path
    PROVE  [url |-> u, sid |-> s, path |-> path] \in call.seen
<1> DEFINE f == [url |-> u, sid |-> s, path |-> path]
<1>1. f \in Session
  BY DEF Session
<1>2. f \in Live(server)
  BY <1>1 DEF Live
<1>3. QED
  BY <1>2 DEF IInv, SeenInv

LEMMA Resolves ==
    ASSUME IInv, NEW u \in Urls, Resolve(u)
    PROVE  IInv'
<1> DEFINE path == server[u].table[call.sid]
<1>1. /\ call.pc = "query" /\ call.op = "target" /\ Asking(u)
      /\ UNCHANGED <<registry, server, moves>> /\ call \in Call
      /\ server[u].table \in Table
  BY DEF Resolve, At, Goto, IInv, TypeOK, Server
<1>2. /\ call.pc \notin {"idle", "done"} /\ call.pc \notin {"idle", "discover"}
      /\ call.op \notin {"set_active", "list"}
  BY <1>1
<1>3. /\ u = call.url /\ call.sid \in SessionIds /\ Covered = {u}
      /\ \A q : q \notin Answers
      /\ \A f \in SteadySessions : f.url = u
  BY <1>1, <1>2, OnlyTarget
<1>4. path \in Paths \cup {None}
  BY <1>1, <1>3 DEF Table
<1>5. PICK reply \in CensusReplies(u) :
        LET troubled == CensusTrouble(u, reply) IN
         \/ /\ reply = "ok"
            /\ path # None
            /\ call' = IF Mismatch(path)
                       THEN Ended("notebook_mismatch", troubled)
                       ELSE Found("found", u, call.sid, path)
         \/ /\ reply = "unreadable" \/ (reply = "ok" /\ path = None)
            /\ call' = [call EXCEPT !.pc = "again", !.troubled = troubled]
         \/ /\ reply = "denied"
            /\ call' = [call EXCEPT !.pc = "version"]
         \/ /\ reply \in {"none", "failed", "odd"}
            /\ call' = Ended(Unanswered(reply), troubled)
  BY DEF Resolve, Goto
<1> DEFINE troubled == CensusTrouble(u, reply)
<1>6. /\ reply = "denied" => server[u].kind \notin {"edit", "down"}
      /\ reply = "none" => server[u].kind = "down" \/ u \in troubled
      /\ reply # "ok" /\ server[u].kind = "edit" => u \in troubled
      /\ troubled \in SUBSET Urls /\ call.troubled \subseteq troubled
  BY CensusFacts
<1> HIDE DEF troubled
<1>7. \A f \in SteadySessions :
        /\ f.url = u /\ f.sid \in SessionIds /\ f.path \in Paths
        /\ server[u].table[f.sid] = f.path /\ server[u].kind = "edit"
        /\ u \in Steady
  BY <1>3, SteadyFacts
<1> HIDE DEF path
<1>8. \A f \in SteadySessions : call.sid = f.sid => path = f.path
  BY <1>7 DEF path
<1>9. CASE reply = "ok" /\ path # None /\ Mismatch(path)
             /\ call' = Ended("notebook_mismatch", troubled)
  <2>1. "notebook_mismatch" \in Refusals /\ "notebook_mismatch" \notin Failures
    BY DEF Refusals, Failures, AccessReasons
  <2>2. \A f \in SteadySessions : call.sid = f.sid =>
          call.anchor \notin {Unsaved, f.path}
    BY <1>8, <1>9 DEF Mismatch
  <2>3. QED
    BY <1>1, <1>2, <1>6, <1>9, <2>1, <2>2, Refuses
<1>10. CASE reply = "ok" /\ path # None /\ ~Mismatch(path)
              /\ call' = Found("found", u, call.sid, path)
  <2>1. path \in Paths /\ call.anchor \in {Unsaved, path}
    BY <1>4, <1>10 DEF Mismatch
  <2>2. [url |-> u, sid |-> call.sid, path |-> path] \in call.seen
    BY <1>1, <1>3, <2>1, LiveSeen DEF path
  <2>3. QED
    BY <1>1, <1>2, <1>3, <1>7, <1>8, <1>10, <2>1, <2>2, Finds
<1>11. CASE reply \in {"none", "failed", "odd"}
              /\ call' = Ended(Unanswered(reply), troubled)
  <2> DEFINE outcome == Unanswered(reply)
  <2>1. /\ outcome \in {"server_unreachable", "server_query_failed"}
        /\ outcome = "server_unreachable" => reply = "none"
    BY DEF Unanswered
  <2> HIDE DEF outcome
  <2>2. outcome \in Refusals /\ outcome # "session_ambiguous"
    BY <2>1 DEF Refusals, Failures
  <2>3. call' = Ended(outcome, troubled)
    BY <1>11 DEF outcome
  <2>4. call'.troubled = troubled
    BY <1>1, <2>3 DEF Ended, Call
  <2>5. TrueOf(u, outcome)'
    BY <1>1, <1>6, <2>1, <2>4 DEF TrueOf
  <2>6. \A f \in SteadySessions : f.url \in troubled
    BY <1>6, <1>7, <1>11
  <2>7. QED
    BY <1>1, <1>2, <1>3, <1>6, <2>2, <2>3, <2>5, <2>6, Escapes, Refuses
<1>12. ASSUME NEW pc \in {"again", "version"}, NEW trouble \in SUBSET Urls,
              call.troubled \subseteq trouble,
              call' = [call EXCEPT !.pc = pc, !.troubled = trouble],
              pc = "version" => server[u].kind \notin {"edit", "down"},
              pc = "again" => path = None \/ u \in trouble
                                \/ server[u].kind # "edit"
       PROVE  IInv'
  <2>1. /\ call' \in Call /\ call'.pc = pc /\ call'.found = call.found
        /\ call'.todo = call.todo
        /\ call'.troubled = trouble /\ call'.answers = call.answers
        /\ call'.op = call.op /\ call'.ctx = call.ctx /\ call'.sid = call.sid
        /\ call'.url = call.url /\ call'.anchor = call.anchor
        /\ call'.seen = call.seen /\ call'.changed = call.changed
    BY <1>1, <1>12 DEF Call
  <2>2. /\ TypeOK'
        /\ \A v \in Urls : server'[v] \in Possible
        /\ Covered' = Covered
        /\ Live(server)' = Live(server)
    BY <1>1, <1>12, <2>1, Calmer
  <2>3. Answers' = Answers
    BY <2>1 DEF Answers
  <2>4. SeenInv' /\ CoverInv'
    BY <1>1, <2>1, <2>2, <2>3 DEF IInv, SeenInv, CoverInv
  <2>5. PhaseInv' /\ OnceInv'
    BY <1>1, <1>2, <2>1, <2>3 DEF IInv, PhaseInv, OnceInv
  <2>6. DenialInv'
    BY <1>1, <1>12, <2>1 DEF DenialInv, Asking
  <2>7. AgainInv'
    <3>1. server[u].kind # "edit" => server[u].table[call.sid] = None
      BY <1>3 DEF IInv, Possible, Nobody
    <3>2. u \in Steady' => u \notin trouble
      BY <2>1 DEF Steady
    <3>3. QED
      BY <1>1, <1>3, <1>12, <2>1, <3>1, <3>2 DEF AgainInv, path
  <2>8. FindInv'
    BY <1>1, <2>1 DEF FindInv
  <2>9. Right'
    BY <1>1, <2>1 DEF Right, ReasonRight, BoundWasLive, StaysAnchored,
                      AmbiguousIsReal, FoundIfThere, Bound, Done, At
  <2>10. QED
    BY <2>2, <2>4, <2>5, <2>6, <2>7, <2>8, <2>9 DEF IInv
<1>13. CASE (reply = "unreadable" \/ (reply = "ok" /\ path = None))
              /\ call' = [call EXCEPT !.pc = "again", !.troubled = troubled]
  BY <1>6, <1>12, <1>13
<1>14. CASE reply = "denied" /\ call' = [call EXCEPT !.pc = "version"]
  <2>1. call' = [call EXCEPT !.pc = "version", !.troubled = call.troubled]
    BY <1>1, <1>14 DEF Call
  <2>2. call.troubled \in SUBSET Urls
    BY <1>1 DEF Call
  <2>3. QED
    BY <1>6, <1>12, <1>14, <2>1, <2>2
<1>15. QED
  BY <1>5, <1>9, <1>10, <1>11, <1>13, <1>14 DEF troubled

LEMMA Recenses ==
    ASSUME IInv, NEW u \in Urls, Recensus(u)
    PROVE  IInv'
<1>1. /\ call.pc = "again" /\ Asking(u)
      /\ UNCHANGED <<registry, server, moves>> /\ call \in Call
      /\ server[u].table \in Table
  BY DEF Recensus, At, Goto, IInv, TypeOK, Server
<1>2. /\ call.pc \notin {"idle", "done"} /\ call.pc \notin {"idle", "discover"}
      /\ call.op = "target"
  BY <1>1 DEF IInv, PhaseInv
<1>3. /\ u = call.url /\ call.sid \in SessionIds /\ Covered = {u}
      /\ \A q : q \notin Answers
      /\ \A f \in SteadySessions : f.url = u
  BY <1>1, <1>2, OnlyTarget
<1>4. \A f \in SteadySessions : call.sid # f.sid
  <2> SUFFICES ASSUME NEW f \in SteadySessions, call.sid = f.sid
               PROVE  FALSE
    OBVIOUS
  <2>1. /\ f.url = u /\ f.path \in Paths /\ f.url \in Steady
        /\ server[f.url].table[f.sid] = f.path
    BY <1>3, SteadyFacts
  <2>2. server[u].table[call.sid] = None
    BY <1>1, <1>3, <2>1 DEF IInv, AgainInv
  <2>3. QED
    BY <2>1, <2>2
<1>5. PICK reply \in CensusReplies(u) :
        LET troubled == CensusTrouble(u, reply)
            rotated  == {t \in SessionIds : call.anchor # Unsaved
                            /\ server[u].table[t] = call.anchor}
        IN
         \/ /\ reply = "ok"
            /\ \E t \in rotated : call' = Found("found", u, t, call.anchor)
         \/ call' = Ended("session_not_found", troubled)
         \/ call' = Ended("server_query_failed", troubled)
  BY DEF Recensus, Goto
<1> DEFINE troubled == CensusTrouble(u, reply)
<1>6. troubled \in SUBSET Urls /\ call.troubled \subseteq troubled
  BY CensusFacts
<1> HIDE DEF troubled
<1>7. ASSUME NEW t \in SessionIds, call.anchor # Unsaved,
             server[u].table[t] = call.anchor,
             call' = Found("found", u, t, call.anchor)
      PROVE  IInv'
  <2>1. call.anchor \in Paths
    BY <1>1 DEF Call
  <2>2. [url |-> u, sid |-> t, path |-> call.anchor] \in call.seen
    BY <1>1, <1>7, <2>1, LiveSeen
  <2>3. QED
    BY <1>1, <1>2, <1>3, <1>4, <1>7, <2>1, <2>2, Finds
<1>8. ASSUME NEW outcome \in {"session_not_found", "server_query_failed"},
             call' = Ended(outcome, troubled)
      PROVE  IInv'
  <2>1. /\ outcome \in Refusals /\ outcome # "session_ambiguous"
        /\ outcome \in Failures => outcome = "server_query_failed"
    BY DEF Refusals, Failures, AccessReasons
  <2>2. TrueOf(u, "server_query_failed")'
    BY DEF TrueOf
  <2>3. QED
    BY <1>1, <1>2, <1>3, <1>4, <1>6, <1>8, <2>1, <2>2, Refuses
<1>9. QED
  BY <1>5, <1>7, <1>8 DEF troubled
-----------------------------------------------------------------------------
(* All have been asked.                                                    *)
LEMMA AllAnswered ==
    ASSUME IInv, call.pc = "query", call.todo = <<>>, call.op # "target",
           NEW f \in SteadySessions
    PROVE  \E i \in DOMAIN call.answers :
              call.answers[i].url = f.url /\ call.answers[i].table[f.sid] = f.path
<1>1. \E q \in Answers : q.url = f.url /\ q.table[f.sid] = f.path
  BY Empties DEF IInv, FindInv
<1>2. QED
  BY <1>1 DEF Answers

LEMMA AnswerFacts ==
    ASSUME IInv, NEW i \in DOMAIN call.answers
    PROVE  /\ call.answers[i] \in Answers /\ call.answers[i] \in Query
           /\ call.answers[i].url \in Urls /\ call.answers[i].url \in Covered
           /\ \A s \in SessionIds : call.answers[i].table[s] # None =>
                 /\ call.answers[i].table[s] \in Paths
                 /\ [url |-> call.answers[i].url, sid |-> s,
                     path |-> call.answers[i].table[s]] \in call.seen
<1>1. call.answers[i] \in Answers
  BY DEF Answers
<1>2. call.answers[i] \in Query
  BY <1>1, AnswersTyped DEF IInv, TypeOK
<1>3. call.answers[i].url \in Urls /\ call.answers[i].table \in Table
  BY <1>2 DEF Query
<1>4. QED
  BY <1>1, <1>2, <1>3 DEF IInv, CoverInv, SeenInv, Table

LEMMA Binds ==
    ASSUME IInv, BindOne
    PROVE  IInv'
<1>1. /\ call.pc = "query" /\ call.op = "set_active" /\ call.todo = <<>>
      /\ UNCHANGED <<registry, server, moves>> /\ call \in Call
      /\ call.pc \notin {"idle", "discover"}
  BY DEF BindOne, At, Goto, IInv, TypeOK
<1>2. call.sid \in SessionIds
  BY <1>1 DEF IInv, PhaseInv, Call
<1>3. PICK i \in DOMAIN call.answers :
        /\ Matches = {i}
        /\ call' = IF call.ctx
                   THEN Found("found", call.answers[i].url, call.sid, PathOf(i))
                   ELSE Ended("binding_context_unavailable", call.troubled)
  BY DEF BindOne, Goto
<1>4. call.answers[i].table[call.sid] # None
  BY <1>3 DEF Matches
<1>5. /\ call.answers[i].url \in Urls /\ call.answers[i].url \in Covered
      /\ PathOf(i) \in Paths
      /\ [url |-> call.answers[i].url, sid |-> call.sid, path |-> PathOf(i)]
            \in call.seen
  BY <1>2, <1>4, AnswerFacts DEF PathOf
<1>6. \A f \in SteadySessions : call.sid = f.sid =>
        f.url = call.answers[i].url /\ f.path = PathOf(i)
  <2> SUFFICES ASSUME NEW f \in SteadySessions, call.sid = f.sid
               PROVE  f.url = call.answers[i].url /\ f.path = PathOf(i)
    OBVIOUS
  <2>1. PICK j \in DOMAIN call.answers :
          call.answers[j].url = f.url /\ call.answers[j].table[f.sid] = f.path
    BY <1>1, AllAnswered
  <2>2. f.path \in Paths
    BY SteadyFacts
  <2>3. j \in Matches
    BY <2>1, <2>2 DEF Matches
  <2>4. QED
    BY <1>3, <2>1, <2>3 DEF PathOf
<1>7. CASE call.ctx
  <2>1. call' = Found("found", call.answers[i].url, call.sid, PathOf(i))
    BY <1>3, <1>7
  <2> DEFINE url == call.answers[i].url
             path == PathOf(i)
  <2> HIDE DEF url, path
  <2>2. QED
    BY <1>1, <1>2, <1>5, <1>6, <2>1, Finds DEF url, path
<1>8. CASE ~call.ctx
  <2>1. call' = Ended("binding_context_unavailable", call.troubled)
    BY <1>3, <1>8
  <2>2. /\ "binding_context_unavailable" \in Refusals
        /\ "binding_context_unavailable" \notin Failures
    BY DEF Refusals, Failures, AccessReasons
  <2>3. call.troubled \in SUBSET Urls
    BY <1>1 DEF Call
  <2>4. QED
    BY <1>1, <1>8, <2>1, <2>2, <2>3, Refuses
<1>9. QED
  BY <1>7, <1>8

LEMMA LookupRefuses ==
    ASSUME IInv, RefuseLookup
    PROVE  IInv'
<1>1. /\ call.pc = "query" /\ call.op = "set_active" /\ call.todo = <<>>
      /\ UNCHANGED <<registry, server, moves>> /\ call \in Call
      /\ call.pc \notin {"idle", "discover"}
      /\ \A i \in DOMAIN call.answers : Matches # {i}
  BY DEF RefuseLookup, At, Goto, IInv, TypeOK
<1>2. call.sid \in SessionIds /\ call.troubled \in SUBSET Urls
  BY <1>1 DEF IInv, PhaseInv, Call
<1> DEFINE outcome == IF Matches # {} THEN "session_ambiguous"
                      ELSE IF call.answers # <<>> /\ Answered \notin Reasons
                           THEN Headline
                           ELSE "session_not_found"
<1>3. outcome \in Refusals /\ Headline \in Failures
  BY DEF Headline, Refusals, Failures, AccessReasons
<1>4. PICK r \in Refusals : r = outcome
  BY <1>3
<1>5. /\ call' = Ended(r, call.troubled)
      /\ r = "session_ambiguous" => Matches # {}
      /\ Matches # {} => r = "session_ambiguous"
      /\ r \in Failures => r = Headline /\ call.answers # <<>>
  BY <1>3, <1>4 DEF RefuseLookup, Goto, Failures, AccessReasons
<1> HIDE DEF outcome
<1>6. Matches = {} => \A f \in SteadySessions : call.sid # f.sid
  <2> SUFFICES ASSUME NEW f \in SteadySessions, call.sid = f.sid
               PROVE  Matches # {}
    OBVIOUS
  <2>1. PICK j \in DOMAIN call.answers :
          call.answers[j].url = f.url /\ call.answers[j].table[f.sid] = f.path
    BY <1>1, AllAnswered
  <2>2. f.path \in Paths
    BY SteadyFacts
  <2>3. QED
    BY <2>1, <2>2 DEF Matches
<1>7. ASSUME Matches # {}
      PROVE  \E f, g \in call.seen :
                f.sid = call.sid /\ g.sid = call.sid /\ f.url # g.url
  <2>1. PICK i \in Matches, j \in Matches : i # j
    BY <1>1, <1>7 DEF Matches
  <2>2. /\ i \in DOMAIN call.answers /\ call.answers[i].table[call.sid] # None
        /\ j \in DOMAIN call.answers /\ call.answers[j].table[call.sid] # None
    BY DEF Matches
  <2> DEFINE f == [url |-> call.answers[i].url, sid |-> call.sid,
                   path |-> call.answers[i].table[call.sid]]
             g == [url |-> call.answers[j].url, sid |-> call.sid,
                   path |-> call.answers[j].table[call.sid]]
  <2>3. f \in call.seen /\ g \in call.seen
    BY <1>2, <2>2, AnswerFacts
  <2>4. f.url # g.url
    BY <1>1, <2>1, <2>2 DEF IInv, OnceInv
  <2>5. QED
    BY <2>3, <2>4
<1>8. ASSUME r \in Failures, NEW u \in Urls \ call.changed,
             u = call.url \/ (call.url = None /\ \E q \in Answers : q.url = u)
      PROVE  TrueOf(u, r)'
  <2>1. r = Headline /\ call.answers # <<>>
    BY <1>5, <1>8
  <2>2. PICK q \in Answers : q.url = u
    <3>1. CASE u = call.url
      <4>1. 1 \in DOMAIN call.answers
        BY <1>1, <2>1 DEF Call
      <4>2. call.answers[1] \in Answers /\ call.answers[1].url \in Covered
        BY <4>1, AnswerFacts
      <4>3. Covered = {u}
        BY <3>1 DEF Covered
      <4>4. QED
        BY <4>2, <4>3
    <3>2. QED
      BY <1>8, <3>1
  <2>3. TrueOf(u, q.reason)
    BY <1>1, <1>8, <2>2 DEF IInv, Right, ReasonRight
  <2>4. q.reason \in Reasons
    BY DEF Reasons
  <2>5. Headline = q.reason \/ Headline = "server_query_failed"
    BY <2>4 DEF Headline
  <2>6. TrueOf(u, r)
    BY <2>1, <2>3, <2>5 DEF TrueOf
  <2>7. call'.troubled = call.troubled
    BY <1>1, <1>5 DEF Ended, Call
  <2>8. QED
    BY <1>1, <2>6, <2>7 DEF TrueOf, Readable, Gated
<1>9. QED
  BY <1>1, <1>2, <1>5, <1>6, <1>7, <1>8, Escapes, Refuses

LEMMA Lists ==
    ASSUME IInv, List
    PROVE  IInv'
<1>1. /\ call.pc = "query" /\ call.op = "list" /\ call.todo = <<>>
      /\ UNCHANGED <<registry, server, moves>> /\ call \in Call
      /\ call.pc \notin {"idle", "discover"}
      /\ call.troubled \in SUBSET Urls
  BY DEF List, At, Goto, IInv, TypeOK, Call
<1>2. \A f \in SteadySessions :
        \E q \in Answers : q.url = f.url /\ q.table[f.sid] = f.path
  <2>1. call.op # "target"
    BY <1>1
  <2>2. QED
    BY <1>1, <2>1, AllAnswered DEF Answers
<1>3. \/ \E f \in FirstSession : call' = Found("listed", f.url, f.sid, f.path)
      \/ call' = Ended("listed", call.troubled)
  BY DEF List, Goto
<1>4. ASSUME NEW f \in FirstSession,
             call' = Found("listed", f.url, f.sid, f.path)
      PROVE  IInv'
  <2>1. PICK i \in DOMAIN call.answers :
          f \in Session /\ f.url = call.answers[i].url
            /\ call.answers[i].table[f.sid] = f.path
    BY DEF FirstSession, FirstRows
  <2>2. f.url \in Urls /\ f.sid \in SessionIds /\ f.path \in Paths
    BY <2>1 DEF Session
  <2>3. f.url \in Covered
          /\ [url |-> f.url, sid |-> f.sid, path |-> f.path] \in call.seen
    BY <2>1, <2>2, AnswerFacts
  <2>4. QED
    BY <1>1, <1>2, <1>4, <2>2, <2>3, Finds
<1>5. CASE call' = Ended("listed", call.troubled)
  <2>1. "listed" \notin Failures
    BY DEF Failures, AccessReasons
  <2>2. QED
    BY <1>1, <1>2, <1>5, <2>1, Refuses
<1>6. QED
  BY <1>3, <1>4, <1>5

AtRest ==
    /\ server \in [Urls -> Server]
    /\ \A u \in Urls : server[u] \in Possible
    /\ registry \in Registries
    /\ moves \in Nat
    /\ call = Idle

LEMMA Rest == AtRest => IInv
<1> SUFFICES ASSUME AtRest PROVE IInv
  OBVIOUS
<1> USE DEF AtRest
<1>1. Outcome("pending") \in Result
  BY DEF Outcome, Result
<1>2. call \in Call
  BY <1>1, Empties DEF Idle, Call
<1>3. /\ call.pc = "idle" /\ call.todo = <<>> /\ call.found = <<>>
      /\ call.answers = <<>>
  BY DEF Idle
<1>4. Answers = {}
  BY <1>3 DEF Answers
<1>5. SeenInv /\ CoverInv /\ PhaseInv /\ OnceInv
  BY <1>3, <1>4, Empties DEF SeenInv, CoverInv, PhaseInv, OnceInv
<1>6. DenialInv /\ AgainInv /\ FindInv
  BY <1>3 DEF DenialInv, AgainInv, FindInv
<1>7. Right
  BY <1>3, <1>4 DEF Right, ReasonRight, BoundWasLive, StaysAnchored,
                    AmbiguousIsReal, FoundIfThere, Bound, Done, At
<1>8. QED
  BY <1>2, <1>5, <1>6, <1>7 DEF IInv, TypeOK

LEMMA RestNext == AtRest' => IInv'
<1>1. AtRest => IInv
  BY Rest
<1>2. QED
  BY <1>1, PTL

LEMMA Returns ==
    ASSUME IInv, Return
    PROVE  IInv'
<1>1. UNCHANGED <<registry, server, moves>> /\ call' = Idle
  BY DEF Return, Goto
<1>2. /\ server' \in [Urls -> Server] /\ \A u \in Urls : server'[u] \in Possible
      /\ registry' \in Registries /\ moves' \in Nat
  BY <1>1 DEF IInv, TypeOK
<1>3. AtRest'
  BY <1>1, <1>2 DEF AtRest, Idle, Outcome
<1>4. QED
  BY <1>3, RestNext

LEMMA Stutters ==
    ASSUME IInv, UNCHANGED vars
    PROVE  IInv'
<1>1. call' = call /\ server' = server /\ registry' = registry /\ moves' = moves
  BY DEF vars
<1>2. TypeOK' /\ \A u \in Urls : server'[u] \in Possible
  BY <1>1 DEF IInv, TypeOK
<1>3. /\ Answers' = Answers /\ Covered' = Covered
      /\ Steady' = Steady /\ Live(server)' = Live(server)
  BY <1>1 DEF Answers, Covered, Steady, Live
<1>4. SteadySessions' = SteadySessions
  BY <1>3 DEF SteadySessions
<1>5. SeenInv' /\ CoverInv' /\ PhaseInv' /\ OnceInv'
  BY <1>1, <1>3 DEF IInv, SeenInv, CoverInv, PhaseInv, OnceInv
<1>6. DenialInv' /\ AgainInv' /\ FindInv'
  BY <1>1, <1>3, <1>4 DEF IInv, DenialInv, AgainInv, FindInv
<1>7. Bound' = Bound /\ Done' = Done
  BY <1>1 DEF Bound, Done, At
<1>8. BoundWasLive' /\ StaysAnchored'
  BY <1>1, <1>3, <1>7 DEF IInv, Right, BoundWasLive, StaysAnchored
<1>9. FoundIfThere'
  <2>1. \A f : Spotted(f)' = Spotted(f)
    BY <1>1, <1>3 DEF Spotted, Given, BrokenOff
  <2>2. QED
    BY <1>4, <1>7, <2>1 DEF IInv, Right, FoundIfThere
<1>10. AmbiguousIsReal'
  BY <1>1, <1>4, <1>7 DEF IInv, Right, AmbiguousIsReal
<1>11. ReasonRight'
  <2>1. \A u, reason : TrueOf(u, reason)' = TrueOf(u, reason)
    BY <1>1 DEF TrueOf, Readable, Gated
  <2>2. QED
    BY <1>1, <1>3, <1>7, <2>1 DEF IInv, Right, ReasonRight
<1>12. QED
  BY <1>2, <1>5, <1>6, <1>8, <1>9, <1>10, <1>11 DEF IInv, Right
-----------------------------------------------------------------------------
THEOREM Invariance == Spec => []IInv
<1>1. Init => IInv
  <2> SUFFICES ASSUME Init PROVE IInv
    OBVIOUS
  <2>1. server \in [Urls -> Possible] /\ Possible \subseteq Server /\ moves \in Nat
    BY DEF Init, Possible
  <2>2. server \in [Urls -> Server] /\ \A u \in Urls : server[u] \in Possible
    BY <2>1
  <2>3. QED
    BY <2>1, <2>2, Rest DEF Init, AtRest
<1>2. IInv /\ [Next]_vars => IInv'
  <2> SUFFICES ASSUME IInv, [Next]_vars PROVE IInv'
    OBVIOUS
  <2>1. CASE UNCHANGED vars
    BY <2>1, Stutters
  <2>2. CASE Step
    BY <2>2, Discoveries, Breaks, Queries, Resolves, Recenses, Versions, Pages, Discovers,
       Binds, LookupRefuses, Lists, Returns DEF Step
  <2>3. QED
    BY <2>1, <2>2, Starts, TargetStarts, Moves DEF Next
<1>3. QED
  BY <1>1, <1>2, PTL DEF Spec
-----------------------------------------------------------------------------
(* Types: among them that a call ends with a reason from the list that the *)
(* sources give and nothing else.                                          *)
THEOREM TypeCorrect == Spec => []TypeOK
<1>1. IInv => TypeOK
  BY DEF IInv
<1>2. QED
  BY <1>1, Invariance, PTL

(* What is bound was live during the call, under the id and the path it is *)
(* bound with, at a server the call was to look at.                        *)
THEOREM BindsAreOfLiveSessions == Spec => []BoundWasLive
<1>1. IInv => BoundWasLive
  BY DEF IInv, Right
<1>2. QED
  BY <1>1, Invariance, PTL

(* resolve_target never leads to a notebook other than the bound one.      *)
THEOREM TargetsStayAnchored == Spec => []StaysAnchored
<1>1. IInv => StaysAnchored
  BY DEF IInv, Right
<1>2. QED
  BY <1>1, Invariance, PTL

(* The failures of any number of other servers never hide a session from a *)
(* lookup, a listing or a resolution that answers; exceptions end only a   *)
(* call that met a malformed registry file, or a listing that met a        *)
(* malformed census.                                                       *)
THEOREM FailuresHideNothing == Spec => []FoundIfThere
<1>1. IInv => FoundIfThere
  BY DEF IInv, Right
<1>2. QED
  BY <1>1, Invariance, PTL

(* A lookup that calls an id ambiguous has seen it on two servers, and one *)
(* that binds has not been given a choice.                                 *)
THEOREM NothingIsGuessed == Spec => []AmbiguousIsReal
<1>1. IInv => AmbiguousIsReal
  BY DEF IInv, Right
<1>2. QED
  BY <1>1, Invariance, PTL

(* A reason given for a server that stayed what it was is true of it.      *)
THEOREM ReasonsAreTrue == Spec => []ReasonRight
<1>1. IInv => ReasonRight
  BY DEF IInv, Right
<1>2. QED
  BY <1>1, Invariance, PTL
=============================================================================
