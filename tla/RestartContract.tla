--------------------------- MODULE RestartContract ---------------------------
(***************************************************************************)
(* What restart_kernel promises its caller, and nothing of how it is done: *)
(* no session ids, censuses, tokens or polls.  There are kernels, numbered *)
(* as they start, each with its notebook.  A call closes at most one of    *)
(* them, the one it was asked for, and what it says in the end is true of  *)
(* that one kernel, whatever other calls, browsers and the server do.      *)
(***************************************************************************)
EXTENDS Naturals

CONSTANTS Calls, Paths, Unsaved, None

VARIABLES
    kernels,    \* those alive
    born,       \* how many there were so far
    restarts    \* the calls

vars == <<kernels, born, restarts>>

Kernel == [path: Paths, kernel: Nat \ {0}]

(* What is said: success, that the kernel was closed and is not back, that *)
(* nothing was changed, or that this is not known.                         *)
Said == {"ok", "changed", "unchanged", "unknown"}

Restart == [phase: {"idle", "open", "closed", "done"},
            anchor: Paths,
            closed: Kernel \cup {None},
            seen: Kernel \cup {None},
            said: Said \cup {None}]

NoRestart == [phase |-> "idle", anchor |-> Unsaved, closed |-> None,
              seen |-> None, said |-> None]

Init ==
    /\ kernels \in SUBSET [path: Paths, kernel: {1}]
    /\ born = 1
    /\ restarts = [k \in Calls |-> NoRestart]
-----------------------------------------------------------------------------
In(k, phase) == restarts[k].phase = phase

Becomes(k, restart) == restarts' = [restarts EXCEPT ![k] = restart]

Ends(k, said) == Becomes(k, [restarts[k] EXCEPT !.phase = "done", !.said = said])

Ask(k, anchor) ==
    /\ In(k, "idle")
    /\ Becomes(k, [NoRestart EXCEPT !.phase = "open", !.anchor = anchor])
    /\ UNCHANGED <<kernels, born>>

(* The answer to the request that closes it may be lost.                   *)
Close(k, kernel) ==
    LET restart == [restarts[k] EXCEPT !.phase = "closed", !.closed = kernel] IN
    /\ In(k, "open")
    /\ restart.anchor \in {Unsaved, kernel.path}
    /\ kernels' = kernels \ {kernel}
    /\ \/ Becomes(k, restart)
       \/ Becomes(k, [restart EXCEPT !.phase = "done", !.said = "unknown"])
    /\ UNCHANGED born

Born(path) ==
    /\ \A kernel \in kernels : kernel.path # path
    /\ born' = born + 1
    /\ kernels' = kernels \cup {[path |-> path, kernel |-> born + 1]}

Renew(k) ==
    /\ In(k, "closed")
    /\ Born(restarts[k].closed.path)
    /\ UNCHANGED restarts

(* A younger kernel of the same notebook.                                  *)
See(k, kernel) ==
    /\ In(k, "closed")
    /\ kernel.path = restarts[k].closed.path
    /\ kernel.kernel > restarts[k].closed.kernel
    /\ Becomes(k, [restarts[k] EXCEPT !.seen = kernel])
    /\ UNCHANGED <<kernels, born>>

MaySay(restart) ==
    {"unknown"}
        \cup (IF restart.phase = "open" THEN {"unchanged"} ELSE {"changed"})
        \cup (IF restart.seen # None THEN {"ok"} ELSE {})

Say(k) ==
    /\ In(k, "open") \/ In(k, "closed")
    /\ \E said \in MaySay(restarts[k]) : Ends(k, said)
    /\ UNCHANGED <<kernels, born>>

Return(k) ==
    /\ In(k, "done")
    /\ Becomes(k, NoRestart)
    /\ UNCHANGED <<kernels, born>>

(* Others start kernels, and kernels stop.                                 *)
Start(path) ==
    /\ Born(path)
    /\ UNCHANGED restarts

Stop ==
    /\ kernels' \in SUBSET kernels
    /\ UNCHANGED <<born, restarts>>

Next ==
    \/ \E k \in Calls, anchor \in Paths : Ask(k, anchor)
    \/ \E k \in Calls, kernel \in kernels : Close(k, kernel) \/ See(k, kernel)
    \/ \E k \in Calls : Renew(k) \/ Say(k) \/ Return(k)
    \/ \E path \in Paths : Start(path)
    \/ Stop

Spec == Init /\ [][Next]_vars
=============================================================================
