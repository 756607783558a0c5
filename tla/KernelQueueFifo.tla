-------------------------- MODULE KernelQueueFifo --------------------------
(***************************************************************************)
(* What a kernel queue promises (kfd_kernel_queue.h): packets reach the    *)
(* command processor whole and in the order they were acquired; nothing is *)
(* read before it is submitted; a rollback drops exactly what was acquired *)
(* since the last submit.                                                  *)
(***************************************************************************)
EXTENDS Integers, Sequences

CONSTANTS Packets, PacketSize

VARIABLES
    given,    \* dwords submitted and not yet read
    pending   \* dwords acquired and not yet submitted

fifoVars == <<given, pending>>

Dwords(p) == [i \in 1 .. PacketSize[p] |-> <<"packet", p, i - 1>>]

Init == given = <<>> /\ pending = <<>>

Acquire(p) == pending' = pending \o Dwords(p) /\ UNCHANGED given

Submit == given' = given \o pending /\ pending' = <<>>

Rollback == pending' = <<>> /\ UNCHANGED given

Read == given # <<>> /\ given' = Tail(given) /\ UNCHANGED pending

Next == (\E p \in Packets : Acquire(p)) \/ Submit \/ Rollback \/ Read

Spec == Init /\ [][Next]_fifoVars
=============================================================================
