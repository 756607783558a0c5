--------------------------- MODULE InterruptFifo ---------------------------
(***************************************************************************)
(* The software interrupt ring between the interrupt handler of amdgpu and *)
(* the KFD's interrupt workers (kfd_interrupt.c, kgd2kfd_interrupt).       *)
(*                                                                         *)
(* Handlers put an entry into the kfifo of a node under its interrupt_lock *)
(* and then queue the node's work; the worker takes entries without the    *)
(* lock.  The kfifo holds words, not entries.                              *)
(*                                                                         *)
(* kgd2kfd_device_exit does not itself stop the handlers.  A behaviour     *)
(* ends when one of them is late: it queues work after the work queue was  *)
(* destroyed, or uses a node or a device that was freed.                   *)
(***************************************************************************)
EXTENDS Integers, Sequences, FiniteSetsExt

CONSTANTS
    NumNodes,     \* kfd->num_nodes
    ISRs,         \* contexts that run kgd2kfd_interrupt (one per IH ring)
    Works,        \* those that are works (IH rings 1 and 2), which free_irq does not wait for
    Entries,      \* contents of ring entries
    NodeOf,       \* the node that wants an entry
    EntrySize,    \* ih_ring_entry_size in words
    NumEntries,   \* KFD_IH_NUM_ENTRIES
    NULL,
    MaxInterrupts \* bound of this model on the calls of kgd2kfd_interrupt

Nodes == 1 .. NumNodes

ASSUME InterruptFifoAssumption ==
    /\ NumNodes \in Nat \ {0}
    /\ NodeOf \in [Entries -> Nodes]
    /\ EntrySize \in Nat \ {0} /\ NumEntries \in Nat \ {0}
    /\ Works \subseteq ISRs
    /\ NULL \notin Entries \cup ISRs /\ NULL \notin Seq(Entries \X Nat)

VARIABLES
    exists,      \* kfd->nodes[i] is not NULL
    active,      \* interrupts_active
    fifo,        \* ih_fifo: a sequence of words <<entry, index>>; NULL once freed
    lock,        \* interrupt_lock of each node: the ISR that holds it, or NULL
    work,        \* interrupt_work: is it pending
    wpc,         \* its worker: "idle", "dequeue", "handle"
    ring_entry,  \* the words the worker took
    ipc, entry, node, \* each ISR: where it is, its entry and the node it is at
    enabled,     \* adev->irq.installed: amdgpu's interrupt handler is
    exiting,     \* kgd2kfd_device_exit: "no", "flush", "nodes", and "freed" after kfree(kfd)
    calls,       \* calls of kgd2kfd_interrupt so far
    late         \* history: the ISR that was late for the exit, or NULL

isrVars == <<ipc, entry, node, lock, calls, late>>
workVars == <<work, wpc, ring_entry>>
exitVars == <<exists, active, enabled, exiting>>
vars == <<isrVars, workVars, exitVars, fifo>>

Words(e) == [k \in 1 .. EntrySize |-> <<e, k>>]

(* The size of the kfifo that kfd_interrupt_init asks for. *)
FifoSize == NumEntries * EntrySize

(* External: kfifo_in copies what fits, kfifo_out what there is. *)
FirstOf(s, k) == SubSeq(s, 1, Min({k, Len(s)}))
kfifo_in(f, words) == f \o FirstOf(words, FifoSize - Len(f))
kfifo_out(f) == FirstOf(f, EntrySize)

(* kfd_interrupt_init of every node. *)
Init ==
    /\ exists = [n \in Nodes |-> TRUE]
    /\ active = [n \in Nodes |-> TRUE]
    /\ fifo = [n \in Nodes |-> <<>>]
    /\ lock = [n \in Nodes |-> NULL]
    /\ work = [n \in Nodes |-> FALSE]
    /\ wpc = [n \in Nodes |-> "idle"]
    /\ ring_entry = [n \in Nodes |-> <<>>]
    /\ ipc = [i \in ISRs |-> "idle"]
    /\ entry = [i \in ISRs |-> NULL]
    /\ node = [i \in ISRs |-> 1]
    /\ enabled = TRUE
    /\ exiting = "no"
    /\ calls = 0
    /\ late = NULL

-----------------------------------------------------------------------------
(* The handler i is late if it uses freed memory, or a work queue that is gone. *)
LateIf(i, gone) == late' = IF gone THEN i ELSE late

(* amdgpu calls kgd2kfd_interrupt for an entry, while adev->kfd.dev is set. *)
kgd2kfd_interrupt(i, e) ==
    /\ enabled \/ i \in Works
    /\ ipc[i] = "idle" /\ calls < MaxInterrupts
    /\ entry' = [entry EXCEPT ![i] = e]
    /\ node' = [node EXCEPT ![i] = 1]
    /\ ipc' = [ipc EXCEPT ![i] = "node"]
    /\ calls' = calls + 1
    /\ LateIf(i, exiting = "freed")
    /\ UNCHANGED <<lock, workVars, exitVars, fifo>>

(* The head of the loop over the nodes: the end, or a node that is gone ... *)
IsrNode(i) ==
    /\ ipc[i] = "node"
    /\ ipc' = [ipc EXCEPT ![i] = IF node[i] \in Nodes /\ exists[node[i]] THEN "lock" ELSE "idle"]
    /\ LateIf(i, exiting = "freed")
    /\ UNCHANGED <<entry, node, lock, calls, workVars, exitVars, fifo>>

(* ... or one whose lock is taken, as it was there when the loop looked. *)
IsrLock(i) ==
    /\ ipc[i] = "lock"
    /\ lock[node[i]] = NULL
    /\ lock' = [lock EXCEPT ![node[i]] = i]
    /\ ipc' = [ipc EXCEPT ![i] = "enqueue"]
    /\ LateIf(i, ~ exists[node[i]])
    /\ UNCHANGED <<entry, node, calls, workVars, exitVars, fifo>>

(* Mutant: a new entry overwrites the oldest ones. *)
enqueue_ih_ring_entry_Overwrites(i) ==
    LET n == node[i]
        wanted == active[n] /\ NodeOf[entry[i]] = n
    IN
    /\ ipc[i] = "enqueue" /\ wanted
    /\ fifo' = [fifo EXCEPT ![n] =
                   IF Len(@) = FifoSize THEN SubSeq(@, EntrySize + 1, FifoSize) \o Words(entry[i])
                                        ELSE @ \o Words(entry[i])]
    /\ ipc' = [ipc EXCEPT ![i] = "queue"]
    /\ UNCHANGED <<entry, node, lock, calls, late, workVars, exitVars>>

(* Under the lock: interrupts_active, interrupt_is_wanted and
   enqueue_ih_ring_entry, which fails if not all words fit. *)
enqueue_ih_ring_entry(i) ==
    LET n == node[i]
        wanted == active[n] /\ NodeOf[entry[i]] = n
        stored == wanted /\ Len(fifo[n]) + EntrySize <= FifoSize
    IN
    /\ ipc[i] = "enqueue"
    /\ fifo' = IF wanted THEN [fifo EXCEPT ![n] = kfifo_in(@, Words(entry[i]))] ELSE fifo
    /\ IF stored
         THEN ipc' = [ipc EXCEPT ![i] = "queue"] /\ UNCHANGED <<node, lock>>
         ELSE /\ lock' = [lock EXCEPT ![n] = NULL]
              /\ node' = [node EXCEPT ![i] = n + 1]
              /\ ipc' = [ipc EXCEPT ![i] = "node"]
    /\ UNCHANGED <<entry, calls, late, workVars, exitVars>>

(* queue_work, then the lock is released. *)
IsrQueueWork(i) ==
    /\ ipc[i] = "queue"
    /\ work' = [work EXCEPT ![node[i]] = TRUE]
    /\ lock' = [lock EXCEPT ![node[i]] = NULL]
    /\ ipc' = [ipc EXCEPT ![i] = "idle"]
    /\ LateIf(i, exiting \in {"nodes", "freed"})
    /\ UNCHANGED <<entry, node, calls, wpc, ring_entry, exitVars, fifo>>

-----------------------------------------------------------------------------
(* External: the work queue starts a pending work unless it is running. *)
StartWork(n) ==
    /\ work[n] /\ wpc[n] = "idle"
    /\ work' = [work EXCEPT ![n] = FALSE]
    /\ wpc' = [wpc EXCEPT ![n] = "dequeue"]
    /\ UNCHANGED <<ring_entry, isrVars, exitVars, fifo>>

(* Mutant: a worker that finds entries queues itself again and takes none. *)
dequeue_ih_ring_entry_Defers(n) ==
    /\ wpc[n] = "dequeue" /\ fifo[n] # NULL
    /\ wpc' = [wpc EXCEPT ![n] = "idle"]
    /\ work' = [work EXCEPT ![n] = @ \/ fifo[n] # <<>>]
    /\ UNCHANGED <<ring_entry, isrVars, exitVars, fifo>>

(* dequeue_ih_ring_entry: with less than an entry the worker ends. *)
dequeue_ih_ring_entry(n) ==
    LET words == kfifo_out(fifo[n]) IN
    /\ wpc[n] = "dequeue" /\ fifo[n] # NULL
    /\ fifo' = [fifo EXCEPT ![n] = SubSeq(@, Len(words) + 1, Len(@))]
    /\ IF Len(words) = EntrySize
         THEN /\ ring_entry' = [ring_entry EXCEPT ![n] = words]
              /\ wpc' = [wpc EXCEPT ![n] = "handle"]
         ELSE wpc' = [wpc EXCEPT ![n] = "idle"] /\ UNCHANGED ring_entry
    /\ UNCHANGED <<work, isrVars, exitVars>>

(* Mutant: a worker that ran for a second just ends. *)
EndOfHandling_NoRequeue(n, over) ==
    /\ wpc[n] = "handle"
    /\ ring_entry' = [ring_entry EXCEPT ![n] = <<>>]
    /\ wpc' = [wpc EXCEPT ![n] = IF over THEN "idle" ELSE "dequeue"]
    /\ UNCHANGED <<work, isrVars, exitVars, fifo>>

(* The entry has been handled; after a second the worker queues itself again
   and ends. *)
EndOfHandling(n, over) ==
    /\ wpc[n] = "handle"
    /\ ring_entry' = [ring_entry EXCEPT ![n] = <<>>]
    /\ wpc' = [wpc EXCEPT ![n] = IF over THEN "idle" ELSE "dequeue"]
    /\ work' = [work EXCEPT ![n] = @ \/ over]
    /\ UNCHANGED <<isrVars, exitVars, fifo>>

-----------------------------------------------------------------------------
(* free_irq waits for the handler that runs, but not for works.  When the driver
   is unloaded this comes before kgd2kfd_device_exit. *)
amdgpu_irq_fini_hw ==
    /\ enabled /\ exiting = "no"
    /\ \A i \in ISRs \ Works : ipc[i] = "idle"
    /\ enabled' = FALSE
    /\ UNCHANGED <<exists, active, exiting, isrVars, workVars, fifo>>

(* kgd2kfd_device_exit, at unload and, with interrupts, for a partition switch. *)
kgd2kfd_device_exit ==
    /\ exiting = "no"
    /\ exiting' = "flush"
    /\ UNCHANGED <<exists, active, enabled, isrVars, workVars, fifo>>

(* Mutant: flush_workqueue waits for running works only. *)
flush_workqueue_Running ==
    /\ exiting = "flush"
    /\ \A n \in Nodes : wpc[n] = "idle"
    /\ exiting' = "nodes"
    /\ UNCHANGED <<exists, active, enabled, isrVars, workVars, fifo>>

(* kfd_cleanup_nodes: the work queue is flushed and destroyed first ... *)
flush_workqueue ==
    /\ exiting = "flush"
    /\ \A n \in Nodes : ~ work[n] /\ wpc[n] = "idle"
    /\ exiting' = "nodes"
    /\ UNCHANGED <<exists, active, enabled, isrVars, workVars, fifo>>

(* ... then, node after node, kfd_interrupt_exit stops the handlers and frees
   the kfifo, *)
kfd_interrupt_exit(n) ==
    /\ exiting = "nodes"
    /\ fifo[n] # NULL /\ \A m \in 1 .. n - 1 : ~ exists[m]
    /\ lock[n] = NULL
    /\ active' = [active EXCEPT ![n] = FALSE]
    /\ fifo' = [fifo EXCEPT ![n] = NULL]
    /\ UNCHANGED <<exists, enabled, exiting, isrVars, workVars>>

(* the node is freed, while a handler may hold its lock, *)
FreeNode(n) ==
    /\ exiting = "nodes" /\ exists[n] /\ fifo[n] = NULL
    /\ exists' = [exists EXCEPT ![n] = FALSE]
    /\ late' = IF lock[n] # NULL THEN lock[n] ELSE late
    /\ UNCHANGED <<active, enabled, exiting, ipc, entry, node, lock, calls, workVars, fifo>>

(* and at last the device. *)
FreeDevice ==
    /\ exiting = "nodes" /\ \A n \in Nodes : ~ exists[n]
    /\ exiting' = "freed"
    /\ UNCHANGED <<exists, active, enabled, isrVars, workVars, fifo>>

interrupt_wq(n) ==
    \/ StartWork(n)
    \/ dequeue_ih_ring_entry(n)
    \/ \E over \in BOOLEAN : EndOfHandling(n, over)

IsrStep(i) == IsrNode(i) \/ IsrLock(i) \/ enqueue_ih_ring_entry(i) \/ IsrQueueWork(i)

Step ==
    \/ \E i \in ISRs : IsrStep(i) \/ \E e \in Entries : kgd2kfd_interrupt(i, e)
    \/ \E n \in Nodes : interrupt_wq(n) \/ kfd_interrupt_exit(n) \/ FreeNode(n)
    \/ amdgpu_irq_fini_hw \/ kgd2kfd_device_exit
    \/ flush_workqueue \/ FreeDevice

Next == late = NULL /\ Step

Spec == Init /\ [][Next]_vars

(* Interrupt handlers run to their end, and so do queued works. *)
FairSpec ==
    /\ Spec
    /\ \A i \in ISRs : WF_vars(IsrStep(i))
    /\ \A n \in Nodes : WF_vars(interrupt_wq(n))
-----------------------------------------------------------------------------
(* No entry is left in a kfifo with nobody to take it: a worker is running or
   will be started, or an interrupt handler is about to queue it. *)
NothingStranded ==
    \A n \in Nodes : fifo[n] \notin {NULL, <<>>} =>
        work[n] \/ wpc[n] # "idle" \/ \E i \in ISRs : ipc[i] = "queue" /\ node[i] = n

(* kfd_cleanup_nodes: "flush_work ensures that there are no outstanding
   work-queue items that will access interrupt_ring", until a handler is late;
   and no handler that free_irq waits for is late when the driver is unloaded. *)
NoWorkAfterFree ==
    /\ late = NULL => \A n \in Nodes : fifo[n] = NULL => ~ work[n] /\ wpc[n] = "idle"
    /\ late \in ISRs \ Works => enabled

(* Every kfifo is emptied again and again: the entries stored are handled. *)
EntriesAreHandled == \A n \in Nodes : []<>(fifo[n] \in {NULL, <<>>} \/ late # NULL)

-----------------------------------------------------------------------------
(* The entry that a worker sees in some words: "WARN_ON(count && count !=
   ih_ring_entry_size)", and more, words of two entries are none. *)
EntryOf(words) == IF words = Words(words[1][1]) THEN words[1][1] ELSE NULL

(* The queue of InterruptChannel: the kfifo cut into entries. *)
EntriesOf(f) ==
    IF f = NULL THEN <<>>
    ELSE [k \in 1 .. Len(f) \div EntrySize |-> EntryOf(SubSeq(f, (k - 1) * EntrySize + 1, k * EntrySize))]

Channel == INSTANCE InterruptChannel WITH
    Capacity <- NumEntries,
    queue <- [n \in Nodes |-> EntriesOf(fifo[n])],
    handling <- [n \in Nodes |-> IF ring_entry[n] = <<>> THEN <<>> ELSE <<EntryOf(ring_entry[n])>>]

(* The kfifo of words, filled under interrupt_lock by several interrupt
   handlers and emptied without it, is for each node a bounded queue of whole
   entries, handled one at a time and in order.  Dropping an entry changes no
   queue, so this does not say when entries are dropped. *)
IsChannel == Channel!Spec
=============================================================================
