-------------------------- MODULE MC_InterruptFifo --------------------------
(* Instances of InterruptFifo for TLC. *)
EXTENDS InterruptFifo, TLC

CONSTANTS a, b, c

(* Two entries of the first node, one of the second. *)
NodeOfTwo == a :> 1 @@ b :> 1 @@ c :> 2
=============================================================================
