------------------------------- MODULE MC_Dqm -------------------------------
(* Instances of Dqm for TLC. *)
EXTENDS Dqm, TLC

CONSTANTS p1, p2, p3, q1, q2, q3

(* Two queues of one process, queues of two processes, and two processes of
   which one has two queues. *)
One == [procs |-> {p1}, owner |-> q1 :> p1 @@ q2 :> p1 @@ q3 :> p3]
Two == [procs |-> {p1, p2}, owner |-> q1 :> p1 @@ q2 :> p2 @@ q3 :> p3]
Three == [procs |-> {p1, p2}, owner |-> q1 :> p1 @@ q2 :> p2 @@ q3 :> p1]

Device(fw, layout, dbg, max, bad, ev, n, d) ==
    [sched |-> fw, procs |-> layout.procs, owner |-> layout.owner, debugged |-> dbg, max |-> max,
     faults |-> bad, evict |-> ev, nodes |-> n, destroyers |-> d]

AllSetups ==
    { \* hangs and failing runlists while the debugger suspends queues and evictions nest
      Device("hws", One, {p1}, 2, {"hang", "runlist"}, 2, 1, 1),
      Device("mes", One, {p1}, 2, {"hang"}, 1, 1, 1),
      \* two threads that destroy one queue, and destroys that fail
      Device("hws", One, {p1}, 2, {"runlist", "memory"}, 1, 1, 2),
      Device("mes", One, {p1}, 2, {"memory"}, 1, 2, 2),
      \* processes that are not registered, or twice
      Device("hws", Three, {}, 2, {"runlist"}, 1, 2, 1),
      Device("mes", One, {}, 2, {"hang", "memory"}, 2, 2, 1),
      \* two processes that compete for the only place on the device
      Device("hws", Two, {}, 1, {"hang", "runlist", "memory"}, 1, 1, 1),
      Device("mes", Two, {}, 1, {"hang"}, 1, 1, 1) }

=============================================================================
