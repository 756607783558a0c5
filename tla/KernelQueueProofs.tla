------------------------- MODULE KernelQueueProofs -------------------------
(***************************************************************************)
(* Proofs about KernelQueue, for any ring size, packets and doorbell size. *)
(*                                                                         *)
(* KQInv is the inductive invariant.  The positions are compared by their  *)
(* distance (Off) from the read pointer in memory: going round from there  *)
(* one meets the read pointer of the CP, the published write pointer, the  *)
(* start of the packet being built and the pending write pointer, in this  *)
(* order.  The tests of kq_acquire_packet_buffer keep the last one from    *)
(* coming round.                                                           *)
(***************************************************************************)
EXTENDS KernelQueue, TLAPS

(* A number below q is its own remainder. *)
LEMMA ModSmall ==
    ASSUME NEW x \in Int, NEW q \in Nat, q > 0, 0 <= x, x < q
    PROVE  x % q = x
  OBVIOUS

(* A number from q up to 2q loses q once. *)
LEMMA ModOnce ==
    ASSUME NEW x \in Int, NEW q \in Nat, q > 0, q <= x, x < 2 * q
    PROVE  x % q = x - q
  OBVIOUS

(* A positive multiple of q is at least q. *)
LEMMA MulGE ==
    ASSUME NEW q \in Nat, NEW k \in Int, k >= 1
    PROVE  q * k >= q
  OBVIOUS

(* Division with remainder. *)
LEMMA DivMod ==
    ASSUME NEW x \in Int, NEW q \in Nat, q > 0
    PROVE  /\ x \div q \in Int
           /\ x % q \in 0 .. (q - 1)
           /\ x = q * (x \div q) + (x % q)
  OBVIOUS

(* Multiplication distributes over sums and differences. *)
LEMMA Dist ==
    ASSUME NEW q \in Int, NEW a \in Int, NEW b \in Int
    PROVE  /\ q * (a - b) = q * a - q * b
           /\ q * (a + b) = q * a + q * b
  OBVIOUS

(* Multiplication is associative. *)
LEMMA Assoc ==
    ASSUME NEW q \in Int, NEW a \in Int, NEW b \in Int
    PROVE  (q * a) * b = q * (a * b)
  OBVIOUS

(* The remainder is the only number below q that differs by a multiple of q. *)
LEMMA ModUnique ==
    ASSUME NEW x \in Int, NEW q \in Nat, q > 0, NEW a \in Int, NEW b \in 0 .. (q - 1),
           x = q * a + b
    PROVE  x % q = b
<1> DEFINE d == x \div q
           r == x % q
<1>1. d \in Int /\ r \in 0 .. (q - 1) /\ x = q * d + r
  BY DivMod
<1>2. q * (a - d) = r - b /\ q * (d - a) = b - r
  <2>1. q * (a - d) = q * a - q * d /\ q * (d - a) = q * d - q * a
    BY <1>1, Dist
  <2> HIDE DEF d, r
  <2> QED BY <1>1, <2>1
<1> HIDE DEF d, r
<1>3. ~(a - d >= 1)
  BY <1>1, <1>2, MulGE
<1>4. ~(d - a >= 1)
  BY <1>1, <1>2, MulGE
<1>5. a = d
  BY <1>1, <1>3, <1>4
<1>6. r = b
  BY <1>1, <1>5
<1> QED BY <1>6 DEF r

(* A remainder by w, a multiple of q, has the same remainder by q: the index
   kq_rollback_packet takes from the low word is the one of the full count. *)
LEMMA ModMultiple ==
    ASSUME NEW x \in Nat, NEW q \in Nat, q > 0, NEW w \in Nat, w > 0, w % q = 0
    PROVE  (x % w) % q = x % q
<1> DEFINE k == w \div q
           d == x \div w
           r == x % w
           e == r \div q
           s == r % q
<1>1. k \in Int /\ w = q * k
  BY DivMod
<1>2. d \in Int /\ r \in Int /\ x = w * d + r
  BY DivMod
<1>3. e \in Int /\ s \in 0 .. (q - 1) /\ r = q * e + s
  BY <1>2, DivMod
<1> HIDE DEF k, d, e, s
<1>4. x = q * (k * d + e) + s
  <2>1. k * d \in Int
    BY <1>1, <1>2
  <2>2. w * d = q * (k * d)
    BY <1>1, <1>2, Assoc
  <2>3. q * (k * d + e) = q * (k * d) + q * e
    BY <2>1, <1>3, Dist
  <2>4. q * (k * d) \in Int /\ q * e \in Int
    BY <2>1, <1>3
  <2> QED BY <1>2, <1>3, <2>2, <2>3, <2>4
<1> DEFINE m == k * d + e
<1>5. m \in Int /\ x = q * m + s
  BY <1>1, <1>2, <1>3, <1>4
<1> HIDE DEF m
<1>6. x % q = s
  BY <1>3, <1>5, ModUnique
<1> QED BY <1>6 DEF s

-----------------------------------------------------------------------------
(* The distance of ring index x from ring index r. *)
Off(r, x) == IF r <= x THEN x - r ELSE x + QueueDwords - r

(* Going round the ring from the reported read pointer one meets the CP's
   read pointer, then the published and then the pending write pointer. *)
PointerOrder ==
    /\ Off(rptr_mem, cp_rptr) <= Off(rptr_mem, PublishedIndex)
    /\ Off(rptr_mem, PublishedIndex) <= Off(rptr_mem, pending_wptr)

(* The packet being built ends at the pending write pointer and starts no
   earlier than the published one. *)
BufferIsPending ==
    buffer # NoBuffer =>
        /\ buffer.start + PacketSize[buffer.packet] = pending_wptr
        /\ Off(rptr_mem, PublishedIndex) <= Off(rptr_mem, buffer.start)
        /\ Off(rptr_mem, buffer.start) <= Off(rptr_mem, pending_wptr)

KQInv == TypeOK /\ PointersAgree /\ PointerOrder /\ BufferIsPending

(* The free dwords kq_acquire_packet_buffer computes, without the modulo. *)
LEMMA AvailableIs ==
    ASSUME TypeOK
    PROVE  Available = IF rptr_mem > pending_wptr
                       THEN rptr_mem - 1 - pending_wptr
                       ELSE rptr_mem + QueueDwords - 1 - pending_wptr
<1> USE QueueAssumption
<1> DEFINE x == rptr_mem + QueueDwords - 1 - pending_wptr
<1>1. x \in Int /\ rptr_mem \in Int /\ pending_wptr \in Int
  BY DEF TypeOK, Index
<1>2. CASE rptr_mem > pending_wptr
  <2>1. QueueDwords <= x /\ x < 2 * QueueDwords
    BY <1>1, <1>2 DEF TypeOK, Index
  <2>2. x % QueueDwords = x - QueueDwords
    BY <1>1, <2>1, ModOnce
  <2> QED BY <1>1, <1>2, <2>2 DEF Available
<1>3. CASE rptr_mem <= pending_wptr
  <2>1. 0 <= x /\ x < QueueDwords
    BY <1>1, <1>3 DEF TypeOK, Index
  <2>2. x % QueueDwords = x
    BY <1>1, <2>1, ModSmall
  <2> QED BY <1>1, <1>3, <2>2 DEF Available
<1> QED BY <1>1, <1>2, <1>3

(* The published pointer names a dword of the ring. *)
LEMMA PublishedInRing ==
    ASSUME TypeOK
    PROVE  /\ PublishedIndex \in Index
           /\ DoorbellSize = 4 => PublishedIndex = wptr_mem
  BY QueueAssumption, DivMod, ModSmall DEF TypeOK, PublishedIndex, Index

(* The invariant holds of a new ring. *)
LEMMA KQInit == Init => KQInv
<1> SUFFICES ASSUME Init PROVE KQInv
  OBVIOUS
<1> USE QueueAssumption DEF Init
<1>1. 0 % QueueDwords = 0
  BY ModSmall
<1>2. TypeOK
  BY DEF TypeOK, Index, Dword
<1>3. PointersAgree
  BY <1>1 DEF PointersAgree
<1>4. PointerOrder
  BY <1>1 DEF PointerOrder, Off, PublishedIndex
<1>5. BufferIsPending
  BY DEF BufferIsPending
<1> QED BY <1>2, <1>3, <1>4, <1>5 DEF KQInv

(* kq_acquire_packet_buffer: a packet, with or without nops before it, stays
   behind the reported read pointer. *)
LEMMA AcquireKeepsInv ==
    ASSUME KQInv, NEW p \in Packets, kq_acquire_packet_buffer(p)
    PROVE  KQInv'
<1> DEFINE n == PacketSize[p]
<1> USE QueueAssumption
<1>0. n \in Nat /\ n > 0
  OBVIOUS
<1>t. /\ TypeOK /\ PointersAgree /\ PointerOrder
      /\ pending_wptr \in 0 .. QueueDwords - 1
      /\ rptr_mem \in 0 .. QueueDwords - 1
      /\ PublishedIndex \in 0 .. QueueDwords - 1
      /\ pending_wptr64 \in Nat
  BY PublishedInRing DEF KQInv, TypeOK, Index
<1>a. /\ buffer = NoBuffer
      /\ HasSpace(n)
      /\ ring' = [i \in Index |-> IF i \in NopFill(n) THEN Nop ELSE ring[i]]
      /\ buffer' = [start |-> Start(n), packet |-> p]
      /\ pending_wptr' = Start(n) + n
      /\ pending_wptr64' = pending_wptr64 + Pad(n) + n
      /\ UNCHANGED <<wptr_mem, rptr_mem, cp_rptr>>
  BY DEF kq_acquire_packet_buffer
<1> HIDE DEF n
<1>b. /\ n <= IF rptr_mem > pending_wptr
              THEN rptr_mem - 1 - pending_wptr
              ELSE rptr_mem + QueueDwords - 1 - pending_wptr
      /\ pending_wptr + n >= QueueDwords => n < rptr_mem
  BY <1>a, <1>t, AvailableIs DEF HasSpace, Wraps
<1>c. /\ Start(n) \in 0 .. QueueDwords - 1
      /\ Start(n) + n \in 0 .. QueueDwords - 1
      /\ Pad(n) \in Nat
  BY <1>0, <1>b, <1>t DEF Start, Pad, Wraps
<1>d. PublishedIndex' = PublishedIndex
  BY <1>a DEF PublishedIndex
<1>1. TypeOK'
  <2>1. ring' \in [Index -> Dword]
    BY <1>a, <1>t DEF TypeOK, Dword
  <2>2. buffer' \in [start : Index, packet : Packets]
    BY <1>a, <1>c DEF Index
  <2> QED BY <2>1, <2>2, <1>0, <1>a, <1>c, <1>t DEF TypeOK, Index
<1>2. PointersAgree'
  <2> SUFFICES ASSUME DoorbellSize = 8
               PROVE  /\ pending_wptr' = pending_wptr64' % QueueDwords
                      /\ wptr_mem' <= pending_wptr64'
    BY DEF PointersAgree
  <2>1. wptr_mem' <= pending_wptr64'
    BY <1>0, <1>a, <1>c, <1>t DEF PointersAgree, TypeOK
  <2> DEFINE d == pending_wptr64 \div QueueDwords
             x == pending_wptr64 + Pad(n) + n
             y == Start(n) + n
  <2>2. d \in Int /\ pending_wptr64 = QueueDwords * d + pending_wptr
    BY <1>t, DivMod DEF PointersAgree
  <2> HIDE DEF d
  <2>3. \E a \in Int : x = QueueDwords * a + y
    <3>1. CASE Wraps(n)
      <4>1. QueueDwords * (d + 1) = QueueDwords * d + QueueDwords * 1
        BY <2>2, Dist
      <4>2. x = QueueDwords * (d + 1) + y
        BY <3>1, <4>1, <1>0, <1>t, <2>2 DEF Pad, Start
      <4>3. d + 1 \in Int
        BY <2>2
      <4> WITNESS d + 1 \in Int
      <4> QED BY <4>2
    <3>2. CASE ~ Wraps(n)
      BY <3>2, <1>0, <1>t, <2>2 DEF Pad, Start
    <3> QED BY <3>1, <3>2
  <2>4. x \in Int /\ y \in 0 .. QueueDwords - 1
    BY <1>0, <1>c, <1>t
  <2>5. x % QueueDwords = y
    <3> HIDE DEF x, y
    <3> QED BY <2>3, <2>4, ModUnique
  <2> QED BY <1>a, <2>1, <2>5
<1>3. PointerOrder'
  BY <1>0, <1>a, <1>b, <1>d, <1>t DEF PointerOrder, Off, Start, Wraps, TypeOK, Index
<1>4. BufferIsPending'
  <2>1. buffer'.start = Start(n) /\ PacketSize[buffer'.packet] = n
    BY <1>a DEF n
  <2>2. /\ Off(rptr_mem, PublishedIndex) <= Off(rptr_mem, Start(n))
        /\ Off(rptr_mem, Start(n)) <= Off(rptr_mem, Start(n) + n)
    BY <1>0, <1>b, <1>t DEF PointerOrder, Off, Start, Wraps, TypeOK, Index
  <2> QED BY <1>a, <1>d, <2>1, <2>2 DEF BufferIsPending
<1> QED BY <1>1, <1>2, <1>3, <1>4 DEF KQInv

(* Building the packet moves no pointer. *)
LEMMA BuildKeepsInv ==
    ASSUME KQInv, BuildPacket
    PROVE  KQInv'
<1> USE QueueAssumption
<1>1. TypeOK'
  <2>1. buffer.packet \in Packets
    BY DEF KQInv, TypeOK, BuildPacket, NoBuffer
  <2>2. \A i \in buffer.start .. (buffer.start + PacketSize[buffer.packet] - 1) :
            i - buffer.start \in Nat
    BY <2>1 DEF KQInv, TypeOK, Index, BuildPacket, NoBuffer
  <2>3. ring' \in [Index -> Dword]
    BY <2>1, <2>2 DEF BuildPacket, KQInv, TypeOK, Dword
  <2> QED BY <2>3 DEF BuildPacket, KQInv, TypeOK
<1>2. PointersAgree' /\ PointerOrder'
  BY DEF BuildPacket, KQInv, PointersAgree, PointerOrder, Off, PublishedIndex
<1>3. BufferIsPending'
  BY DEF BuildPacket, BufferIsPending
<1> QED BY <1>1, <1>2, <1>3 DEF KQInv

(* kq_submit_packet publishes the pending pointer. *)
LEMMA SubmitKeepsInv ==
    ASSUME KQInv, kq_submit_packet
    PROVE  KQInv'
<1> USE QueueAssumption
<1>1. TypeOK'
  BY DEF kq_submit_packet, KQInv, TypeOK, Index
<1>2. PointersAgree'
  BY DEF kq_submit_packet, KQInv, TypeOK, PointersAgree
<1>3. PublishedIndex' = pending_wptr
  BY ModSmall DEF kq_submit_packet, KQInv, TypeOK, PointersAgree, PublishedIndex, Index
<1>4. PointerOrder'
  BY <1>3, PublishedInRing DEF kq_submit_packet, KQInv, TypeOK, PointerOrder, Off, Index
<1>5. BufferIsPending'
  BY DEF kq_submit_packet, BufferIsPending
<1> QED BY <1>1, <1>2, <1>4, <1>5 DEF KQInv

(* kq_rollback_packet goes back to the published pointer. *)
LEMMA RollbackKeepsInv ==
    ASSUME KQInv, kq_rollback_packet
    PROVE  KQInv'
<1> USE QueueAssumption
<1>1. pending_wptr' = PublishedIndex /\ PublishedIndex \in Index
  <2>1. (wptr_mem % WordSpan) % QueueDwords = PublishedIndex
    <3>1. /\ wptr_mem \in Nat /\ QueueDwords \in Nat /\ QueueDwords > 0
          /\ WordSpan \in Nat /\ WordSpan > 0 /\ WordSpan % QueueDwords = 0
      BY DEF KQInv, TypeOK
    <3> QED BY <3>1, ModMultiple, Zenon DEF PublishedIndex
  <2>2. /\ PublishedIndex \in Index
        /\ DoorbellSize = 4 => PublishedIndex = wptr_mem
    BY PublishedInRing DEF KQInv
  <2> QED BY <2>1, <2>2 DEF kq_rollback_packet
<1>2. TypeOK'
  BY <1>1 DEF kq_rollback_packet, KQInv, TypeOK
<1>3. PointersAgree'
  BY <1>1 DEF kq_rollback_packet, KQInv, TypeOK, PointersAgree, PublishedIndex
<1>4. PointerOrder'
  BY <1>1 DEF kq_rollback_packet, KQInv, TypeOK, PointerOrder, Off, PublishedIndex, Index
<1>5. BufferIsPending'
  BY DEF kq_rollback_packet, BufferIsPending
<1> QED BY <1>2, <1>3, <1>4, <1>5 DEF KQInv

(* The CP reads no further than the published pointer. *)
LEMMA CPReadKeepsInv ==
    ASSUME KQInv, CPRead
    PROVE  KQInv'
<1> USE QueueAssumption
<1>1. cp_rptr' = IF cp_rptr = QueueDwords - 1 THEN 0 ELSE cp_rptr + 1
  BY ModSmall, ModOnce DEF CPRead, KQInv, TypeOK, Index
<1>2. TypeOK'
  BY <1>1 DEF CPRead, KQInv, TypeOK, Index
<1>3. PointersAgree' /\ BufferIsPending'
  BY DEF CPRead, KQInv, PointersAgree, BufferIsPending, Off, PublishedIndex
<1>4. PublishedIndex \in Index
  BY PublishedInRing DEF KQInv
<1>5. PointerOrder'
  BY <1>1, <1>4 DEF CPRead, KQInv, TypeOK, PointerOrder, Off, PublishedIndex, Index
<1> QED BY <1>2, <1>3, <1>5 DEF KQInv

(* Moving the origin forward keeps the order of the points after it. *)
LEMMA OffShift ==
    ASSUME NEW r \in Index, NEW c \in Index, NEW x \in Index, NEW y \in Index,
           Off(r, c) <= Off(r, x), Off(r, x) <= Off(r, y)
    PROVE  Off(c, x) <= Off(c, y)
  BY QueueAssumption DEF Off, Index

(* The CP reports a pointer between the last report and the published one. *)
LEMMA CPReportKeepsInv ==
    ASSUME KQInv, CPReport
    PROVE  KQInv'
<1> USE QueueAssumption
<1>1. TypeOK' /\ PointersAgree'
  BY DEF CPReport, KQInv, TypeOK, PointersAgree
<1>2. PublishedIndex \in Index /\ PublishedIndex' = PublishedIndex
  BY PublishedInRing DEF KQInv, CPReport, PublishedIndex
<1>3. PointerOrder'
  BY <1>2 DEF CPReport, KQInv, TypeOK, PointerOrder, Off, Index
<1>4. BufferIsPending'
  <2> SUFFICES ASSUME buffer # NoBuffer
               PROVE  /\ Off(cp_rptr, PublishedIndex) <= Off(cp_rptr, buffer.start)
                      /\ Off(cp_rptr, buffer.start) <= Off(cp_rptr, pending_wptr)
    BY <1>2 DEF CPReport, KQInv, BufferIsPending
  <2>1. /\ buffer.start \in Index /\ buffer.packet \in Packets
        /\ buffer.start + PacketSize[buffer.packet] = pending_wptr
        /\ Off(rptr_mem, PublishedIndex) <= Off(rptr_mem, buffer.start)
        /\ Off(rptr_mem, buffer.start) <= Off(rptr_mem, pending_wptr)
    BY DEF KQInv, TypeOK, BufferIsPending, NoBuffer
  <2>2. /\ Off(rptr_mem, cp_rptr) <= Off(rptr_mem, PublishedIndex)
        /\ Off(rptr_mem, PublishedIndex) <= Off(rptr_mem, pending_wptr)
        /\ rptr_mem \in Index /\ cp_rptr \in Index /\ pending_wptr \in Index
    BY DEF KQInv, TypeOK, PointerOrder
  <2> DEFINE b == buffer.start
  <2>3. /\ b \in Index
        /\ Off(rptr_mem, PublishedIndex) <= Off(rptr_mem, b)
        /\ Off(rptr_mem, b) <= Off(rptr_mem, pending_wptr)
    BY <2>1
  <2> HIDE DEF b
  <2>4. Off(cp_rptr, PublishedIndex) <= Off(cp_rptr, b)
    BY <1>2, <2>2, <2>3, OffShift
  <2>5. Off(rptr_mem, cp_rptr) <= Off(rptr_mem, b)
    BY <1>2, <2>2, <2>3 DEF Off, Index
  <2>6. Off(cp_rptr, b) <= Off(cp_rptr, pending_wptr)
    BY <2>2, <2>3, <2>5, OffShift
  <2> QED BY <2>4, <2>6 DEF b
<1> QED BY <1>1, <1>3, <1>4 DEF KQInv

(* The inductive invariant of the ring, in particular TypeOK: for every ring
   size, packet sizes, doorbell size and every number of wraps. *)
THEOREM KQInvariant == Spec => []KQInv
<1>1. KQInv /\ [Next]_vars => KQInv'
  <2> SUFFICES ASSUME KQInv, [Next]_vars
               PROVE  KQInv'
    OBVIOUS
  <2>1. ASSUME NEW p \in Packets, kq_acquire_packet_buffer(p) PROVE KQInv'
    BY <2>1, AcquireKeepsInv
  <2>2. CASE BuildPacket
    BY <2>2, BuildKeepsInv
  <2>3. CASE kq_submit_packet
    BY <2>3, SubmitKeepsInv
  <2>4. CASE kq_rollback_packet
    BY <2>4, RollbackKeepsInv
  <2>5. CASE CPRead
    BY <2>5, CPReadKeepsInv
  <2>6. CASE CPReport
    BY <2>6, CPReportKeepsInv
  <2>7. CASE UNCHANGED vars
    BY <2>7 DEF vars, KQInv, TypeOK, PointersAgree, PointerOrder, BufferIsPending,
                Off, PublishedIndex
  <2> QED BY <2>1, <2>2, <2>3, <2>4, <2>5, <2>6, <2>7 DEF Next
<1> QED BY KQInit, <1>1, PTL DEF Spec

(* The buffer handed to a caller never overlaps what the CP has to read. *)
THEOREM BufferAlwaysFree == Spec => []BufferIsFree
<1>1. KQInv => BufferIsFree
  <2> SUFFICES ASSUME KQInv, buffer # NoBuffer
               PROVE  LET cells == buffer.start .. (buffer.start + PacketSize[buffer.packet] - 1)
                      IN  cells \subseteq Index /\ cells \cap Unread = {}
    BY DEF BufferIsFree
  <2> USE QueueAssumption
  <2>1. /\ buffer.start \in Index /\ buffer.packet \in Packets
        /\ buffer.start + PacketSize[buffer.packet] = pending_wptr
        /\ Off(rptr_mem, PublishedIndex) <= Off(rptr_mem, buffer.start)
        /\ Off(rptr_mem, buffer.start) <= Off(rptr_mem, pending_wptr)
    BY DEF KQInv, TypeOK, BufferIsPending, NoBuffer
  <2>2. PublishedIndex \in Index
    BY PublishedInRing DEF KQInv
  <2> DEFINE b == buffer.start
  <2>3. b \in Index /\ Off(rptr_mem, PublishedIndex) <= Off(rptr_mem, b)
        /\ Off(rptr_mem, b) <= Off(rptr_mem, pending_wptr) /\ b < pending_wptr
    BY <2>1 DEF KQInv, TypeOK, Index
  <2> HIDE DEF b
  <2>4. \A j \in b .. (pending_wptr - 1) : j \in Index /\ j \notin Unread
    BY <2>2, <2>3 DEF KQInv, TypeOK, PointerOrder, Off, Unread, Span, Index
  <2>5. buffer.start + PacketSize[buffer.packet] - 1 = pending_wptr - 1
    BY <2>1 DEF Index
  <2> QED BY <2>4, <2>5, Zenon DEF b
<1> QED BY <1>1, KQInvariant, PTL

(* The dwords filled with nops and the packet written by the caller lie
   outside what the CP has to read, so unread dwords never change. *)
THEOREM UnreadNeverChanges == Spec => UnreadIsIntact
<1>1. KQInv /\ BufferIsFree /\ [Next]_vars => [\A i \in Unread : ring'[i] = ring[i]]_vars
  <2> SUFFICES ASSUME KQInv, BufferIsFree, Next, NEW i \in Unread
               PROVE  ring'[i] = ring[i]
    OBVIOUS
  <2> USE QueueAssumption
  <2>0. PublishedIndex \in Index
    BY PublishedInRing DEF KQInv
  <2>1. i \in Index
    BY <2>0 DEF Unread, Span, KQInv, TypeOK, Index
  <2>2. ASSUME NEW p \in Packets, kq_acquire_packet_buffer(p) PROVE ring'[i] = ring[i]
    <3> DEFINE n == PacketSize[p]
    <3>1. ring' = [j \in Index |-> IF j \in NopFill(n) THEN Nop ELSE ring[j]]
      BY <2>2 DEF kq_acquire_packet_buffer
    <3>2. n \in Nat /\ HasSpace(n)
      BY <2>2 DEF kq_acquire_packet_buffer
    <3> HIDE DEF n
    <3>3. /\ n <= IF rptr_mem > pending_wptr
                  THEN rptr_mem - 1 - pending_wptr
                  ELSE rptr_mem + QueueDwords - 1 - pending_wptr
          /\ pending_wptr + n >= QueueDwords => n < rptr_mem
      BY <3>2, AvailableIs DEF HasSpace, Wraps, KQInv
    <3>4. i \notin NopFill(n)
      BY <2>0, <2>1, <3>2, <3>3
      DEF NopFill, Wraps, KQInv, TypeOK, PointerOrder, Off, Unread, Span, Index
    <3> QED BY <2>1, <3>1, <3>4
  <2>3. CASE BuildPacket
    BY <2>1, <2>3 DEF BuildPacket, BufferIsFree
  <2>4. CASE kq_submit_packet \/ kq_rollback_packet \/ CPRead \/ CPReport
    BY <2>4 DEF kq_submit_packet, kq_rollback_packet, CPRead, CPReport
  <2> QED BY <2>2, <2>3, <2>4 DEF Next
<1> QED BY <1>1, KQInvariant, BufferAlwaysFree, PTL DEF Spec, UnreadIsIntact

(* The space rule never locks a packet out of a drained ring. *)
THEOREM DrainedAlwaysAccepts == Spec => []DrainedRingAccepts
<1>1. KQInv => DrainedRingAccepts
  BY QueueAssumption, AvailableIs
  DEF KQInv, TypeOK, DrainedRingAccepts, HasSpace, Wraps, Index
<1> QED BY <1>1, KQInvariant, PTL

(* Type correctness and agreement of the two write pointers. *)
THEOREM PointersAlwaysAgree == Spec => [](TypeOK /\ PointersAgree)
  BY KQInvariant, PTL DEF KQInv
=============================================================================
