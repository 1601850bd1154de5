---------------------------- MODULE MCController ----------------------------
(* Controller with two callers of Start, one of which listens for certain, *)
(* and two callers of Wait.                                                *)
EXTENDS Controller

CONSTANTS s1, s2, w1, w2, e1, e2

MCStarters  == {s1, s2}
MCListeners == {s1}
MCWaiters   == {w1, w2}
MCErrors    == {e1, e2}
=============================================================================
