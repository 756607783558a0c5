-------------------------- MODULE MC_ProcessTable --------------------------
(* Instances of ProcessTable for TLC. *)
EXTENDS ProcessTable, TLC

CONSTANTS m1, m2, o1, o2, l1, l2

MCProcs == 1 .. 2
MCMms == {m1, m2}
MCOpeners == {o1, o2}
MCLookers == {l1, l2}

Setup(m, o, l, e) == [mms |-> m, openers |-> o, lookers |-> l, events |-> e]

(* Two threads that race to create a process and may fail, while KFD is locked;
   the same with lookups; lookups against the end of two address spaces; evictions
   of a process that ends; most with the unloading of the driver. *)
MCSetups == {
    Setup({m1, m2}, {o1, o2}, {}, {"fail", "unload", "lock", "suspend"}),
    Setup({m1}, {o1, o2}, {l1}, {"fail", "evict"}),
    Setup({m1, m2}, {o1, o2}, {l1}, {"unload"}),
    Setup({m1}, {o1}, {l1, l2}, {"evict", "unload"})}
=============================================================================
