---------------------------- MODULE MC_EventWait ----------------------------
(* Instances of EventWait for TLC. *)
EXTENDS EventWait, TLC

CONSTANTS w1, w2, s1, e1, e2

MCWaiters1 == {w1}
MCWaiters2 == {w1, w2}
MCSetters == {s1}
MCEvents1 == {e1}
MCEvents2 == {e1, e2}
=============================================================================
