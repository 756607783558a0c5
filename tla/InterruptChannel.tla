-------------------------- MODULE InterruptChannel --------------------------
(***************************************************************************)
(* What the interrupt path of the KFD promises for each node: the entries  *)
(* that the node wants are handled one at a time in the order in which     *)
(* they came.  An entry may be dropped, as there is no back-pressure to    *)
(* the hardware, but only while the queue is full.                         *)
(***************************************************************************)
EXTENDS Integers, Sequences

CONSTANTS
    Nodes,     \* the nodes of the device
    Entries,   \* interrupt ring entries
    Capacity   \* the number of entries a queue holds

VARIABLES
    queue,     \* for each node: the entries to be handled
    handling   \* for each node: the sequence of at most one entry in its handler

Init ==
    /\ queue = [n \in Nodes |-> <<>>]
    /\ handling = [n \in Nodes |-> <<>>]

Accept(n, e) ==
    /\ Len(queue[n]) < Capacity
    /\ queue' = [queue EXCEPT ![n] = Append(@, e)]
    /\ UNCHANGED handling

Drop(n, e) ==
    /\ Len(queue[n]) = Capacity
    /\ UNCHANGED <<queue, handling>>

Take(n) ==
    /\ queue[n] # <<>> /\ handling[n] = <<>>
    /\ handling' = [handling EXCEPT ![n] = <<Head(queue[n])>>]
    /\ queue' = [queue EXCEPT ![n] = Tail(@)]

Handled(n) ==
    /\ handling[n] # <<>>
    /\ handling' = [handling EXCEPT ![n] = <<>>]
    /\ UNCHANGED queue

Next ==
    \E n \in Nodes : Take(n) \/ Handled(n) \/ \E e \in Entries : Accept(n, e) \/ Drop(n, e)

Spec == Init /\ [][Next]_<<queue, handling>>
=============================================================================
