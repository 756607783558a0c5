--------------------------- MODULE MC_KernelQueue ---------------------------
(* Instances of KernelQueue for TLC: a ring of 8 dwords, packets of 2 and 3. *)
EXTENDS KernelQueue

CONSTANTS p2, p3

MCPackets == {p2, p3}
MCPacketSize == [p \in MCPackets |-> IF p = p2 THEN 2 ELSE 3]
=============================================================================
