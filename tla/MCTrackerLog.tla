---------------------------- MODULE MCTrackerLog ----------------------------
(* Two cells, one of them observed with both sources and states.           *)
EXTENDS TrackerLog

CONSTANTS c1, c2, h1, h2, idle, stale

Of(a, b) == [key \in {c1, c2} |-> IF key = c1 THEN a ELSE b]
Fp(hash, state) == [code_hash |-> hash, state |-> state]

MCObservations == {
    Of(Fp(h1, idle), None), Of(Fp(h2, None), None), Of(None, Fp(h1, idle)),
    Of(Fp(h1, stale), Fp(h1, idle)), Of(Fp(h1, idle), Fp(h2, idle)),
    Of(None, None) }
=============================================================================
