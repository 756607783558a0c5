---------------------------- MODULE KernelQueue ----------------------------
(***************************************************************************)
(* The kernel queue: the ring of dwords through which the driver sends     *)
(* PM4 packets (runlists, unmap requests, fences) to the command           *)
(* processor.  kfd_kernel_queue.c holds the producer; the command          *)
(* processor (CP) is hardware, modelled from how the producer uses it: it  *)
(* reads from its own read pointer up to the published write pointer and   *)
(* reports its read pointer to memory at a time of its own choosing.       *)
(*                                                                         *)
(* All pointers count dwords.  The callers (kfd_packet_manager.c) hold     *)
(* pm->lock from the acquire to the submit or the rollback, so there is    *)
(* one producer.                                                           *)
(***************************************************************************)
EXTENDS Integers, Sequences

CONSTANTS
    QueueDwords,   \* queue_size / 4
    WordSpan,      \* number of values of the low word of the 64-bit pointer (2^32)
    DoorbellSize,  \* device_info.doorbell_size: 4 or 8 bytes
    Packets,       \* the packets the callers build
    NoPacket,      \* none of them: no packet is being built
    PacketSize,    \* their lengths in dwords
    MaxWptr        \* bound of this model on the free-running write pointer

(* The ring has a power-of-two size, so it divides the span of the low word
   of the 64-bit write pointer. *)
ASSUME QueueAssumption ==
    /\ QueueDwords \in Nat /\ QueueDwords > 1
    /\ WordSpan \in Nat /\ WordSpan > 0
    /\ WordSpan % QueueDwords = 0
    /\ DoorbellSize \in {4, 8}
    /\ NoPacket \notin Packets
    /\ PacketSize \in [Packets -> Nat \ {0}]
    /\ MaxWptr \in Nat

VARIABLES
    ring,            \* the dwords of the ring, pq_kernel_addr
    pending_wptr,    \* ring index of the next free dword
    pending_wptr64,  \* free-running count of dwords acquired
    wptr_mem,        \* the published pointer, *wptr64_kernel or *wptr_kernel
    rptr_mem,        \* the read pointer the CP last reported, *rptr_kernel
    cp_rptr,         \* the CP's own read pointer
    buffer           \* the packet acquired and not yet built: its start and name

vars == <<ring, pending_wptr, pending_wptr64, wptr_mem, rptr_mem, cp_rptr, buffer>>

Index == 0 .. QueueDwords - 1

Nop == <<"nop", 0>>
Blank == <<"blank", 0>>
Dword == ({"packet"} \X Packets \X Nat) \cup {Nop, Blank}

NoBuffer == [start |-> 0, packet |-> NoPacket]

(* The ring index the CP takes from the write pointer it was given: 64-bit
   doorbells carry the free-running count. *)
PublishedIndex == wptr_mem % QueueDwords

(* The indices from r up to, and without, w, going round the ring. *)
Span(r, w) ==
    IF r <= w THEN r .. (w - 1)
              ELSE (r .. QueueDwords - 1) \cup (0 .. (w - 1))

(* What the CP has been given and has not read. *)
Unread == Span(cp_rptr, PublishedIndex)

-----------------------------------------------------------------------------
Init ==
    /\ ring = [i \in Index |-> Blank]
    /\ pending_wptr = 0
    /\ pending_wptr64 = 0
    /\ wptr_mem = 0
    /\ rptr_mem = 0
    /\ cp_rptr = 0
    /\ buffer = NoBuffer

(* Mutant: an empty ring looks full. *)
Available_EmptyIsFull == (rptr_mem + QueueDwords - pending_wptr) % QueueDwords

Available == (rptr_mem + QueueDwords - 1 - pending_wptr) % QueueDwords

Wraps(n) == pending_wptr + n >= QueueDwords

(* Mutant: the second test of kq_acquire_packet_buffer is missing. *)
HasSpace_NoWrapTest(n) == n <= Available

(* The two tests of kq_acquire_packet_buffer: enough room in all, and, when
   the packet does not fit before the end of the ring, enough room from
   position 0 to the reported read pointer. *)
HasSpace(n) ==
    /\ n <= Available
    /\ Wraps(n) => n < rptr_mem

Start(n) == IF Wraps(n) THEN 0 ELSE pending_wptr

(* Mutant: the ring wraps without filling the tail with nops. *)
NopFill_None(n) == {}

(* Mutant: the nops start one dword too early. *)
NopFill_OneEarly(n) == IF Wraps(n) THEN (pending_wptr - 1) .. (QueueDwords - 1) ELSE {}

(* The dwords filled with nops before wrapping. *)
NopFill(n) == IF Wraps(n) THEN pending_wptr .. (QueueDwords - 1) ELSE {}

Pad(n) == IF Wraps(n) THEN QueueDwords - pending_wptr ELSE 0

(* kq_acquire_packet_buffer, success: nops up to the end if the packet
   wraps, and both pending pointers moved past the packet. *)
kq_acquire_packet_buffer(p) ==
    LET n == PacketSize[p] IN
    /\ buffer = NoBuffer
    /\ HasSpace(n)
    /\ pending_wptr64 + Pad(n) + n <= MaxWptr
    /\ ring' = [i \in Index |-> IF i \in NopFill(n) THEN Nop ELSE ring[i]]
    /\ buffer' = [start |-> Start(n), packet |-> p]
    /\ pending_wptr' = Start(n) + n
    /\ pending_wptr64' = pending_wptr64 + Pad(n) + n
    /\ UNCHANGED <<wptr_mem, rptr_mem, cp_rptr>>

(* The caller writes the packet through the pointer it was given
   (pmf->runlist, pmf->unmap_queues, ... of kfd_packet_manager.c). *)
BuildPacket ==
    /\ buffer # NoBuffer
    /\ ring' = [i \in Index |->
                  IF i \in buffer.start .. (buffer.start + PacketSize[buffer.packet] - 1)
                  THEN <<"packet", buffer.packet, i - buffer.start>>
                  ELSE ring[i]]
    /\ buffer' = NoBuffer
    /\ UNCHANGED <<pending_wptr, pending_wptr64, wptr_mem, rptr_mem, cp_rptr>>

(* kq_submit_packet: publish the pending pointer and ring the doorbell. *)
kq_submit_packet ==
    /\ buffer = NoBuffer
    /\ wptr_mem' = IF DoorbellSize = 8 THEN pending_wptr64 ELSE pending_wptr
    /\ UNCHANGED <<ring, pending_wptr, pending_wptr64, rptr_mem, cp_rptr, buffer>>

(* kq_rollback_packet: the packet could not be built.  With 64-bit doorbells
   the ring index is recomputed from the LOW WORD of the published pointer. *)
kq_rollback_packet ==
    /\ IF DoorbellSize = 8
       THEN /\ pending_wptr64' = wptr_mem
            /\ pending_wptr' = (wptr_mem % WordSpan) % QueueDwords
       ELSE /\ pending_wptr' = wptr_mem
            /\ UNCHANGED pending_wptr64
    /\ buffer' = NoBuffer
    /\ UNCHANGED <<ring, wptr_mem, rptr_mem, cp_rptr>>

(* External: the CP reads one dword. *)
CPRead ==
    /\ cp_rptr # PublishedIndex
    /\ cp_rptr' = (cp_rptr + 1) % QueueDwords
    /\ UNCHANGED <<ring, pending_wptr, pending_wptr64, wptr_mem, rptr_mem, buffer>>

(* External: the CP writes its read pointer to memory. *)
CPReport ==
    /\ rptr_mem # cp_rptr
    /\ rptr_mem' = cp_rptr
    /\ UNCHANGED <<ring, pending_wptr, pending_wptr64, wptr_mem, cp_rptr, buffer>>

Next ==
    \/ \E p \in Packets : kq_acquire_packet_buffer(p)
    \/ BuildPacket
    \/ kq_submit_packet
    \/ kq_rollback_packet
    \/ CPRead
    \/ CPReport

Spec == Init /\ [][Next]_vars
-----------------------------------------------------------------------------
(* Every variable has its type: ring indices stay inside the ring, although
   kq_acquire_packet_buffer adds the packet size without a modulo. *)
TypeOK ==
    /\ ring \in [Index -> Dword]
    /\ pending_wptr \in Index
    /\ pending_wptr64 \in Nat
    /\ wptr_mem \in Nat
    /\ DoorbellSize = 4 => wptr_mem \in Index
    /\ rptr_mem \in Index
    /\ cp_rptr \in Index
    /\ buffer \in [start : Index, packet : Packets] \cup {NoBuffer}

(* The ring index and the 64-bit count are kept separately by
   kq_acquire_packet_buffer (the nops are counted one by one) and recomputed
   by kq_rollback_packet: they never disagree, also after the low word of the
   count has wrapped. *)
PointersAgree ==
    DoorbellSize = 8 =>
        /\ pending_wptr = pending_wptr64 % QueueDwords
        /\ wptr_mem <= pending_wptr64

(* "It is Guaranteed that there is enough space for that packet": the buffer
   handed out lies inside the ring and touches no dword the CP has still to
   read, although the producer only sees a stale read pointer. *)
BufferIsFree ==
    buffer # NoBuffer =>
        LET cells == buffer.start .. (buffer.start + PacketSize[buffer.packet] - 1)
        IN  cells \subseteq Index /\ cells \cap Unread = {}

(* No step changes a dword that was submitted and not yet read: neither the
   nops written when the ring wraps nor the packet itself. *)
UnreadIsIntact == [][\A i \in Unread : ring'[i] = ring[i]]_vars

(* A ring that the CP has drained accepts every packet shorter than half of
   it, wherever the write pointer stands: the rule "n < rptr" for a packet
   that wraps can never make an empty ring refuse such a packet for good. *)
DrainedRingAccepts ==
    rptr_mem = pending_wptr =>
        \A p \in Packets : 2 * PacketSize[p] < QueueDwords => HasSpace(PacketSize[p])

-----------------------------------------------------------------------------
(* The abstraction: ring content, with the packet being built in place. *)
Content(i) ==
    IF /\ buffer # NoBuffer
       /\ i \in buffer.start .. (buffer.start + PacketSize[buffer.packet] - 1)
    THEN <<"packet", buffer.packet, i - buffer.start>>
    ELSE ring[i]

(* The packet dwords from index r up to index w, nops skipped. *)
Stream(r, w) ==
    LET len == (w + QueueDwords - r) % QueueDwords
    IN  SelectSeq([k \in 1 .. len |-> Content((r + k - 1) % QueueDwords)],
                  LAMBDA d : d # Nop)

Fifo == INSTANCE KernelQueueFifo WITH
            given   <- Stream(cp_rptr, PublishedIndex),
            pending <- Stream(PublishedIndex, pending_wptr)

(* The ring implements the packet FIFO: what the CP reads is the sequence of
   submitted packets, whole and in order, whatever wraps, rollbacks and late
   read-pointer reports happen in between. *)
ImplementsFifo == Fifo!Spec
=============================================================================
