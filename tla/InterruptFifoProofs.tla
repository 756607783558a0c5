------------------------ MODULE InterruptFifoProofs ------------------------
(***************************************************************************)
(* Proofs about the interrupt ring, for any number of nodes, handlers,     *)
(* entries, words in an entry and entries in a ring.                       *)
(*                                                                         *)
(* IFInv is the inductive invariant.  Its centre is WholeEntries: a kfifo  *)
(* of words is always a number of whole entries, so that kfifo_in stores   *)
(* all words of an entry or none, and kfifo_out takes one entry or finds   *)
(* the kfifo empty.  From it follows that the kfifo implements the queue   *)
(* of InterruptChannel.                                                    *)
(***************************************************************************)
EXTENDS InterruptFifo, TLAPS

(* A word of the kfifo. *)
Word == Entries \X Nat

(* f holds the words of the entries es, one entry after the other. *)
IsCut(f, es) ==
    /\ f \in Seq(Word) /\ es \in Seq(Entries)
    /\ Len(f) = Len(es) * EntrySize
    /\ \A k \in 1 .. Len(es) : \A j \in 1 .. EntrySize : f[(k - 1) * EntrySize + j] = <<es[k], j>>

(* The types of what the proofs look at. *)
TypeOK ==
    /\ exists \in [Nodes -> BOOLEAN] /\ active \in [Nodes -> BOOLEAN]
    /\ fifo \in [Nodes -> Seq(Word) \cup {NULL}]
    /\ work \in [Nodes -> BOOLEAN]
    /\ wpc \in [Nodes -> {"idle", "dequeue", "handle"}]
    /\ ring_entry \in [Nodes -> Seq(Word)]
    /\ ipc \in [ISRs -> {"idle", "node", "lock", "enqueue", "queue"}]
    /\ entry \in [ISRs -> Entries \cup {NULL}]
    /\ node \in [ISRs -> Nat]
    /\ lock \in [Nodes -> ISRs \cup {NULL}]
    /\ enabled \in BOOLEAN /\ exiting \in {"no", "flush", "nodes", "freed"}
    /\ late \in ISRs \cup {NULL}

(* A handler that is past the head of the loop is at a node with its entry. *)
IsrHasEntry ==
    \A i \in ISRs :
        /\ ipc[i] # "idle" => entry[i] \in Entries
        /\ ipc[i] \in {"lock", "enqueue", "queue"} => node[i] \in Nodes

(* A handler holds the lock of its node while it looks at the kfifo and until it
   has queued the work. *)
LocksAreHeld ==
    \A n \in Nodes, i \in ISRs : lock[n] = i <=> ipc[i] \in {"enqueue", "queue"} /\ node[i] = n

(* Without interrupts only works call kgd2kfd_interrupt; once the work queue was
   flushed nothing is queued unless a handler was late; and only inactive nodes
   have lost their kfifo. *)
ExitIsQuiet ==
    /\ ~ enabled => \A i \in ISRs \ Works : ipc[i] = "idle"
    /\ late \in ISRs \ Works => enabled
    /\ exiting \in {"nodes", "freed"} /\ late = NULL => \A n \in Nodes : ~ work[n] /\ wpc[n] = "idle"
    /\ \A n \in Nodes : fifo[n] = NULL => exiting \in {"nodes", "freed"} /\ ~ active[n]

(* The kfifo of a node is a number of whole entries. *)
WholeEntries ==
    \A n \in Nodes : fifo[n] # NULL =>
        \E es \in Seq(Entries) : IsCut(fifo[n], es) /\ Len(es) <= NumEntries

(* The worker has an entry exactly while it handles one. *)
OneIsHandled ==
    \A n \in Nodes :
        IF wpc[n] = "handle" THEN \E e \in Entries : ring_entry[n] = Words(e)
                             ELSE ring_entry[n] = <<>>

IFInv ==
    TypeOK /\ IsrHasEntry /\ LocksAreHeld /\ ExitIsQuiet /\ WholeEntries /\ OneIsHandled /\ NothingStranded
-----------------------------------------------------------------------------
USE InterruptFifoAssumption

(* The smaller of two numbers. *)
LEMMA MinOfTwo ==
    ASSUME NEW a \in Int, NEW b \in Int
    PROVE  Min({a, b}) = IF a <= b THEN a ELSE b
<1> DEFINE m == IF a <= b THEN a ELSE b
<1>1. m \in {a, b} /\ \A y \in {a, b} : m <= y
  BY SMT
<1>2. \A x \in {a, b} : (\A y \in {a, b} : x <= y) => x = m
  BY SMT
<1> QED BY Zenon, <1>1, <1>2 DEF Min

(* Products with the size of an entry. *)
LEMMA Times ==
    ASSUME NEW m \in Int
    PROVE  /\ m * EntrySize \in Int
           /\ (m + 1) * EntrySize = m * EntrySize + EntrySize
           /\ (m - 1) * EntrySize = m * EntrySize - EntrySize
BY SMT

(* More entries have no fewer words. *)
LEMMA TimesOrder ==
    ASSUME NEW m \in Int, NEW k \in Int, m <= k
    PROVE  m * EntrySize <= k * EntrySize
BY SMT

(* The number of entries of so many words. *)
LEMMA TimesDiv ==
    ASSUME NEW m \in Nat
    PROVE  (m * EntrySize) \div EntrySize = m
BY SMT

(* The words of an entry show which entry it is. *)
LEMMA WordsType ==
    ASSUME NEW e \in Entries
    PROVE  /\ Words(e) \in Seq(Word) /\ Len(Words(e)) = EntrySize /\ Words(e) # <<>>
           /\ EntryOf(Words(e)) = e
BY SMT DEF Words, Word, EntryOf

(* The empty sequence. *)
LEMMA EmptySeqLen == Len(<<>>) = 0
BY SMT

(* The empty kfifo. *)
LEMMA CutEmpty == IsCut(<<>>, <<>>)
BY SMT DEF IsCut

(* Cutting the words of entries gives the entries. *)
LEMMA CutEntries ==
    ASSUME NEW f \in Seq(Word), NEW es \in Seq(Entries), IsCut(f, es)
    PROVE  EntriesOf(f) = es
<1>1. f # NULL
  BY Zenon DEF Word
<1>2. Len(f) \div EntrySize = Len(es)
  BY SMT, TimesDiv DEF IsCut
<1>3. ASSUME NEW k \in 1 .. Len(es)
      PROVE  EntryOf(SubSeq(f, (k - 1) * EntrySize + 1, k * EntrySize)) = es[k]
  <2> DEFINE lo == (k - 1) * EntrySize
             t == SubSeq(f, lo + 1, k * EntrySize)
  <2>1. lo \in Nat /\ k * EntrySize = lo + EntrySize /\ lo + EntrySize <= Len(f)
    <3>1. lo \in Int /\ k * EntrySize = lo + EntrySize
      BY SMT, Times
    <3>2. 0 * EntrySize <= lo
      BY TimesOrder
    <3>3. k * EntrySize <= Len(es) * EntrySize
      BY TimesOrder
    <3> QED BY SMT, <3>1, <3>2, <3>3 DEF IsCut
  <2>2. t = [j \in 1 .. EntrySize |-> f[lo + j]]
    <3> HIDE DEF lo
    <3> QED BY SMT, <2>1
  <2>3. \A j \in 1 .. EntrySize : f[lo + j] = <<es[k], j>>
    BY Zenon, <1>3 DEF IsCut
  <2>4. t = Words(es[k])
    <3> HIDE DEF lo
    <3> QED BY Zenon, <2>2, <2>3 DEF Words
  <2>5. es[k] \in Entries
    BY SMT
  <2> QED BY Zenon, <2>4, <2>5, WordsType
<1>4. EntriesOf(f) = [k \in 1 .. Len(es) |-> es[k]]
  <2>1. EntriesOf(f) = [k \in 1 .. Len(es) |-> EntryOf(SubSeq(f, (k - 1) * EntrySize + 1, k * EntrySize))]
    BY Zenon, <1>1, <1>2 DEF EntriesOf
  <2> QED BY Zenon, <2>1, <1>3
<1> QED BY SMT, <1>4

(* An entry is put behind the others. *)
LEMMA CutAppend ==
    ASSUME NEW f \in Seq(Word), NEW es \in Seq(Entries), IsCut(f, es), NEW e \in Entries
    PROVE  IsCut(f \o Words(e), Append(es, e))
<1> DEFINE g == f \o Words(e)
           n == Len(es)
<1>1. g \in Seq(Word) /\ Len(g) = Len(f) + EntrySize
  <2> DEFINE w == Words(e)
  <2>1. w \in Seq(Word) /\ Len(w) = EntrySize
    BY Zenon, WordsType
  <2> HIDE DEF w
  <2>2. f \o w \in Seq(Word) /\ Len(f \o w) = Len(f) + Len(w)
    BY SMTT(30), <2>1
  <2> QED BY Zenon, <2>1, <2>2 DEF w
<1>2. Append(es, e) \in Seq(Entries) /\ Len(Append(es, e)) = n + 1 /\ n \in Nat
  BY SMT
<1>3. Len(f) = n * EntrySize /\ Len(f) \in Nat
  BY SMT DEF IsCut
<1>4. Len(g) = (n + 1) * EntrySize
  BY SMT, <1>1, <1>2, <1>3, Times
<1>5. ASSUME NEW k \in 1 .. n + 1, NEW j \in 1 .. EntrySize
      PROVE  g[(k - 1) * EntrySize + j] = <<Append(es, e)[k], j>>
  <2> DEFINE lo == (k - 1) * EntrySize
  <2>0. lo \in Nat
    <3>1. 0 * EntrySize <= lo
      BY <1>2, TimesOrder
    <3>2. lo \in Int
      BY <1>2, Times
    <3> QED BY SMT, <3>1, <3>2
  <2>1. CASE k = n + 1
    <3>1. lo = Len(f)
      BY SMT, <2>1, <1>2, <1>3
    <3>2. Words(e)[j] = <<e, j>>
      BY Zenon DEF Words
    <3>3. g[Len(f) + j] = Words(e)[j]
      BY SMT, <1>3, WordsType
    <3>4. Append(es, e)[k] = e
      BY SMT, <2>1
    <3> QED BY Zenon, <3>1, <3>2, <3>3, <3>4
  <2>2. CASE k \in 1 .. n
    <3>1. lo + EntrySize <= Len(f)
      <4>1. k * EntrySize <= n * EntrySize
        BY SMTT(30), <1>2, <2>2, TimesOrder
      <4>2. k * EntrySize = lo + EntrySize
        BY SMT, <1>2, <2>2, Times
      <4> QED BY SMT, <4>1, <4>2, <1>3
    <3>2. g[lo + j] = f[lo + j]
      <4> HIDE DEF lo
      <4> QED BY SMT, <2>0, <3>1, WordsType
    <3>3. Append(es, e)[k] = es[k]
      BY SMT, <2>2
    <3>4. f[lo + j] = <<es[k], j>>
      BY Zenon, <2>2 DEF IsCut
    <3> QED BY Zenon, <3>2, <3>3, <3>4
  <2>3. k = n + 1 \/ k \in 1 .. n
    <3> HIDE DEF n
    <3> QED BY SMT, <1>2
  <2> QED BY Zenon, <2>1, <2>2, <2>3
<1> QED BY Zenon, <1>1, <1>2, <1>4, <1>5 DEF IsCut

(* The first entry is taken off. *)
LEMMA CutTail ==
    ASSUME NEW f \in Seq(Word), NEW es \in Seq(Entries), IsCut(f, es), es # <<>>
    PROVE  /\ Len(f) >= EntrySize
           /\ SubSeq(f, 1, EntrySize) = Words(Head(es))
           /\ Head(es) \in Entries
           /\ IsCut(SubSeq(f, EntrySize + 1, Len(f)), Tail(es))
<1> DEFINE g == SubSeq(f, EntrySize + 1, Len(f))
           n == Len(es)
<1>1. n \in Nat /\ n >= 1 /\ Head(es) = es[1] /\ Head(es) \in Entries
  BY SMT
<1>2. Tail(es) \in Seq(Entries) /\ Len(Tail(es)) = n - 1
      /\ \A k \in 1 .. n - 1 : Tail(es)[k] = es[k + 1]
  BY SMT, <1>1
<1>3. Len(f) = n * EntrySize /\ Len(f) \in Nat
  BY SMT DEF IsCut
<1>4. Len(f) >= EntrySize
  <2>1. 1 * EntrySize <= n * EntrySize
    BY <1>1, TimesOrder
  <2> QED BY SMT, <2>1, <1>3
<1>5. SubSeq(f, 1, EntrySize) = Words(Head(es))
  <2>1. SubSeq(f, 1, EntrySize) = [j \in 1 .. EntrySize |-> f[j]]
    BY SMT, <1>3, <1>4
  <2>2. \A j \in 1 .. EntrySize : f[(1 - 1) * EntrySize + j] = <<es[1], j>>
    <3>1. 1 \in 1 .. Len(es)
      BY SMT, <1>1
    <3> QED BY Zenon, <3>1 DEF IsCut
  <2>3. \A j \in 1 .. EntrySize : (1 - 1) * EntrySize + j = j
    BY SMT
  <2> QED BY Zenon, <2>1, <2>2, <2>3, <1>1 DEF Words
<1>6. /\ g \in Seq(Word) /\ Len(g) = Len(f) - EntrySize
      /\ \A x \in 1 .. Len(f) - EntrySize : g[x] = f[x + EntrySize]
  BY SMT, <1>3, <1>4
<1>7. Len(g) = (n - 1) * EntrySize
  BY SMT, <1>1, <1>3, <1>6, Times
<1>8. ASSUME NEW k \in 1 .. n - 1, NEW j \in 1 .. EntrySize
      PROVE  g[(k - 1) * EntrySize + j] = <<Tail(es)[k], j>>
  <2> DEFINE lo == (k - 1) * EntrySize
  <2>1. k \in Int /\ k + 1 \in 1 .. n /\ k >= 1
    BY SMT, <1>1
  <2>2. lo \in Int /\ k * EntrySize = lo + EntrySize
    BY SMT, <2>1, Times
  <2>3. lo >= 0
    <3>1. 0 * EntrySize <= lo
      BY <2>1, TimesOrder
    <3> QED BY SMT, <3>1, <2>2
  <2>4. lo + EntrySize <= Len(f) - EntrySize
    <3>1. k * EntrySize <= (n - 1) * EntrySize
      <4>1. n - 1 \in Int /\ k <= n - 1
        BY SMT, <1>1
      <4> QED BY Zenon, <4>1, <2>1, TimesOrder
    <3> HIDE DEF lo
    <3> QED BY SMT, <3>1, <2>2, <1>6, <1>7
  <2>5. g[lo + j] = f[(lo + j) + EntrySize]
    <3>1. lo + j \in 1 .. Len(f) - EntrySize
      <4> HIDE DEF lo
      <4> QED BY SMT, <2>2, <2>3, <2>4, <1>3
    <3> QED BY Zenon, <3>1, <1>6
  <2>6. (lo + j) + EntrySize = ((k + 1) - 1) * EntrySize + j
    <3>1. (k + 1) - 1 = k
      BY SMT, <2>1
    <3>2. (lo + j) + EntrySize = k * EntrySize + j
      <4> HIDE DEF lo
      <4> QED BY SMT, <2>2
    <3> QED BY Zenon, <3>1, <3>2
  <2>7. f[((k + 1) - 1) * EntrySize + j] = <<es[k + 1], j>>
    BY Zenon, <2>1 DEF IsCut
  <2> QED BY Zenon, <2>5, <2>6, <2>7, <1>2
<1> QED BY Zenon, <1>1, <1>2, <1>4, <1>5, <1>6, <1>7, <1>8 DEF IsCut

(* kfifo_in stores all words if there is room, and none if the kfifo is full. *)
LEMMA PutsAllOrNothing ==
    ASSUME NEW f \in Seq(Word), NEW es \in Seq(Entries), IsCut(f, es), Len(es) <= NumEntries,
           NEW e \in Entries
    PROVE  /\ Len(f) + EntrySize <= FifoSize <=> Len(es) < NumEntries
           /\ Len(es) < NumEntries => kfifo_in(f, Words(e)) = f \o Words(e)
           /\ Len(es) = NumEntries => kfifo_in(f, Words(e)) = f
<1>1. Words(e) \in Seq(Word) /\ Len(Words(e)) = EntrySize
  BY Zenon, WordsType
<1>2. /\ Len(f) = Len(es) * EntrySize /\ Len(f) \in Nat /\ Len(es) \in Nat
      /\ FifoSize \in Int /\ FifoSize = NumEntries * EntrySize
  BY SMT, Times DEF IsCut, FifoSize
<1>3. ASSUME Len(es) < NumEntries
      PROVE  Len(f) + EntrySize <= FifoSize /\ kfifo_in(f, Words(e)) = f \o Words(e)
  <2>1. (Len(es) + 1) * EntrySize <= NumEntries * EntrySize
    <3>1. Len(es) + 1 \in Int /\ NumEntries \in Int /\ Len(es) + 1 <= NumEntries
      BY SMT, <1>2, <1>3
    <3> QED BY Zenon, <3>1, TimesOrder
  <2>2. Len(f) + EntrySize <= FifoSize
    BY SMT, <2>1, <1>2, Times
  <2>3. Min({FifoSize - Len(f), EntrySize}) = EntrySize
    <3>1. FifoSize - Len(f) \in Int /\ FifoSize - Len(f) >= EntrySize
      BY SMT, <1>2, <2>2
    <3> QED BY SMT, <3>1, MinOfTwo
  <2>4. SubSeq(Words(e), 1, EntrySize) = Words(e)
    BY SMT, <1>1
  <2> QED BY Zenon, <1>1, <2>2, <2>3, <2>4 DEF kfifo_in, FirstOf
<1>4. ASSUME Len(es) = NumEntries
      PROVE  ~ (Len(f) + EntrySize <= FifoSize) /\ kfifo_in(f, Words(e)) = f
  <2>1. Len(f) = FifoSize
    BY Zenon, <1>2, <1>4
  <2>2. FifoSize - Len(f) = 0 /\ ~ (Len(f) + EntrySize <= FifoSize)
    BY SMT, <2>1, <1>2
  <2>3. Min({0, EntrySize}) = 0
    BY SMT, MinOfTwo
  <2>4. SubSeq(Words(e), 1, 0) = <<>>
    BY SMT, <1>1
  <2>5. f \o <<>> = f
    BY SMT
  <2> QED BY Zenon, <1>1, <2>2, <2>3, <2>4, <2>5 DEF kfifo_in, FirstOf
<1>5. Len(es) < NumEntries \/ Len(es) = NumEntries
  BY SMT, <1>2
<1>6. ~ (Len(es) < NumEntries /\ Len(es) = NumEntries)
  BY SMT, <1>2
<1> QED BY Zenon, <1>3, <1>4, <1>5, <1>6

(* kfifo_out takes one whole entry, or there is none and the kfifo is empty. *)
LEMMA TakesOneOrNone ==
    ASSUME NEW f \in Seq(Word), NEW es \in Seq(Entries), IsCut(f, es)
    PROVE  /\ es = <<>> => f = <<>> /\ kfifo_out(f) = <<>>
           /\ es # <<>> => kfifo_out(f) = Words(Head(es))
<1>1. ASSUME es = <<>> PROVE f = <<>> /\ kfifo_out(f) = <<>>
  <2>1. Len(f) = 0 * EntrySize
    BY Zenon, <1>1, EmptySeqLen DEF IsCut
  <2>2. f = <<>>
    BY SMT, <2>1
  <2>3. Min({EntrySize, 0}) = 0
    BY SMT, MinOfTwo
  <2>4. Len(<<>>) = 0 /\ SubSeq(<<>>, 1, 0) = <<>>
    BY SMT
  <2> QED BY Zenon, <2>2, <2>3, <2>4 DEF kfifo_out, FirstOf
<1>2. ASSUME es # <<>> PROVE kfifo_out(f) = Words(Head(es))
  <2>1. Len(f) >= EntrySize /\ SubSeq(f, 1, EntrySize) = Words(Head(es))
    BY Zenon, <1>2, CutTail
  <2>2. Min({EntrySize, Len(f)}) = EntrySize
    BY SMT, <2>1, MinOfTwo
  <2> QED BY Zenon, <2>1, <2>2 DEF kfifo_out, FirstOf
<1> QED BY Zenon, <1>1, <1>2
-----------------------------------------------------------------------------
(* A freed kfifo is told from every other. *)
LEMMA NullIsNoFifo == NULL \notin Seq(Word)
BY Zenon DEF Word

(* kfd_interrupt_init establishes the invariant. *)
LEMMA InitHolds == Init => IFInv
<1> SUFFICES ASSUME Init PROVE IFInv
  OBVIOUS
<1>1. \A S : <<>> \in Seq(S)
  BY SMT
<1>2. TypeOK
  <2>1. 1 \in Nat
    BY SMT
  <2> QED BY Zenon, <1>1, <2>1 DEF Init, TypeOK
<1>3. IsrHasEntry
  BY Zenon DEF Init, IsrHasEntry
<1>4. ExitIsQuiet
  BY Zenon, <1>1, NullIsNoFifo DEF Init, ExitIsQuiet
<1>5. WholeEntries
  <2>1. Len(<<>>) <= NumEntries
    BY SMT, EmptySeqLen
  <2> QED BY Zenon, <1>1, <2>1, CutEmpty DEF Init, WholeEntries
<1>6. OneIsHandled
  BY Zenon DEF Init, OneIsHandled
<1>7. NothingStranded
  BY Zenon DEF Init, NothingStranded
<1>8. LocksAreHeld
  BY Zenon DEF Init, LocksAreHeld
<1> QED BY Zenon, <1>2, <1>3, <1>4, <1>5, <1>6, <1>7, <1>8 DEF IFInv

(* Steps that touch neither a kfifo nor a worker. *)
LEMMA RingsUnchanged ==
    ASSUME IFInv, UNCHANGED <<fifo, wpc, ring_entry>>
    PROVE  WholeEntries' /\ OneIsHandled'
BY Zenon DEF IFInv, WholeEntries, OneIsHandled

(* Handlers that are about to queue the work still are. *)
LEMMA StillQueued ==
    ASSUME NothingStranded, UNCHANGED <<fifo, work, wpc>>,
           \A j \in ISRs : ipc[j] = "queue" => ipc'[j] = "queue" /\ node'[j] = node[j]
    PROVE  NothingStranded'
<1> SUFFICES ASSUME NEW n \in Nodes, fifo'[n] \notin {NULL, <<>>}
             PROVE  work'[n] \/ wpc'[n] # "idle" \/ \E j \in ISRs : ipc'[j] = "queue" /\ node'[j] = n
  BY Zenon DEF NothingStranded
<1>1. work[n] \/ wpc[n] # "idle" \/ \E j \in ISRs : ipc[j] = "queue" /\ node[j] = n
  BY Zenon DEF NothingStranded
<1>2. work' = work /\ wpc' = wpc
  BY Zenon
<1>3. CASE \E j \in ISRs : ipc[j] = "queue" /\ node[j] = n
  BY Zenon, <1>3
<1> QED BY Zenon, <1>1, <1>2, <1>3

(* Steps that leave locks and handlers alone. *)
LEMMA LocksUnchanged ==
    ASSUME IFInv, UNCHANGED <<lock, ipc, node>>
    PROVE  LocksAreHeld'
BY Zenon DEF IFInv, LocksAreHeld

(* Steps of a handler that neither take nor release a lock. *)
LEMMA LocksKept ==
    ASSUME IFInv, lock' = lock,
           \A j \in ISRs : ipc[j] \notin {"enqueue", "queue"} => ipc'[j] \notin {"enqueue", "queue"},
           \A j \in ISRs : ipc[j] \in {"enqueue", "queue"} => ipc'[j] \in {"enqueue", "queue"},
           \A j \in ISRs : ipc[j] \in {"enqueue", "queue"} => node'[j] = node[j]
    PROVE  LocksAreHeld'
<1> SUFFICES ASSUME NEW n \in Nodes, NEW j \in ISRs
             PROVE  lock'[n] = j <=> ipc'[j] \in {"enqueue", "queue"} /\ node'[j] = n
  BY Zenon DEF LocksAreHeld
<1>1. lock[n] = j <=> ipc[j] \in {"enqueue", "queue"} /\ node[j] = n
  BY Zenon DEF IFInv, LocksAreHeld
<1>2. CASE ipc[j] \in {"enqueue", "queue"}
  <2>1. ipc'[j] \in {"enqueue", "queue"} /\ node'[j] = node[j]
    BY Zenon, <1>2
  <2> QED BY Zenon, <1>1, <1>2, <2>1
<1>3. CASE ipc[j] \notin {"enqueue", "queue"}
  <2>1. ipc'[j] \notin {"enqueue", "queue"}
    BY Zenon, <1>3
  <2> QED BY Zenon, <1>1, <1>3, <2>1
<1> QED BY Zenon, <1>2, <1>3

(* A handler that free_irq waits for is late only with interrupts. *)
LEMMA LateStep ==
    ASSUME IFInv, NEW i \in ISRs, NEW gone \in BOOLEAN, late = NULL, LateIf(i, gone),
           enabled \/ i \in Works, UNCHANGED enabled
    PROVE  late' \in ISRs \cup {NULL} /\ (late' \in ISRs \ Works => enabled') /\ (late' = NULL => late = NULL)
BY Zenon DEF LateIf

(* An interrupt handler that runs is a work, or interrupts are enabled. *)
LEMMA RunsAreAllowed ==
    ASSUME IFInv, NEW i \in ISRs, ipc[i] # "idle"
    PROVE  enabled \/ i \in Works
BY Zenon DEF IFInv, ExitIsQuiet

(* kgd2kfd_interrupt is called. *)
LEMMA InterruptStep ==
    ASSUME IFInv, late = NULL, NEW i \in ISRs, NEW e \in Entries, kgd2kfd_interrupt(i, e)
    PROVE  IFInv'
<1>0. /\ late' \in ISRs \cup {NULL}
      /\ late' \in ISRs \ Works => enabled'
  BY Zenon, LateStep DEF kgd2kfd_interrupt, exitVars
<1> USE DEF kgd2kfd_interrupt, workVars, exitVars
<1>1. TypeOK'
  <2>1. 1 \in Nat
    BY SMT
  <2> QED BY Zenon, <2>1, <1>0 DEF IFInv, TypeOK
<1>2. IsrHasEntry'
  BY Zenon DEF IFInv, TypeOK, IsrHasEntry
<1>3. ExitIsQuiet'
  <2>1. ~ enabled' => \A j \in ISRs \ Works : ipc'[j] = "idle"
    BY Zenon DEF IFInv, TypeOK, ExitIsQuiet
  <2> QED BY Zenon, <2>1, <1>0 DEF IFInv, ExitIsQuiet
<1>4. NothingStranded'
  BY Zenon DEF IFInv, TypeOK, NothingStranded
<1>5. LocksAreHeld'
  <2>1. ipc[i] = "idle" /\ ipc'[i] = "node" /\ \A j \in ISRs \ {i} : ipc'[j] = ipc[j] /\ node'[j] = node[j]
    BY Zenon DEF IFInv, TypeOK
  <2>2. \A j \in ISRs : /\ ipc'[j] \in {"enqueue", "queue"} <=> ipc[j] \in {"enqueue", "queue"}
                        /\ ipc[j] \in {"enqueue", "queue"} => node'[j] = node[j]
    BY Zenon, <2>1
  <2> QED BY Zenon, <2>2, LocksKept
<1> QED BY Zenon, <1>1, <1>2, <1>3, <1>4, <1>5, RingsUnchanged DEF IFInv

(* The head of the loop of kgd2kfd_interrupt. *)
LEMMA LoopStep ==
    ASSUME IFInv, late = NULL, NEW i \in ISRs, IsrNode(i) \/ IsrLock(i)
    PROVE  IFInv'
<1>0. /\ late' \in ISRs \cup {NULL}
      /\ late' \in ISRs \ Works => enabled'
      /\ UNCHANGED <<enabled, entry, node, workVars, exitVars, fifo>>
  BY Zenon, LateStep, RunsAreAllowed DEF IsrNode, IsrLock, exitVars
<1>1. /\ ipc[i] \in {"node", "lock"}
      /\ ipc'[i] \in {"idle", "lock", "enqueue"}
      /\ ipc'[i] # "idle" => node[i] \in Nodes
      /\ ipc' \in [ISRs -> {"idle", "node", "lock", "enqueue", "queue"}]
      /\ \A j \in ISRs \ {i} : ipc'[j] = ipc[j]
  <2>1. CASE IsrNode(i)
    BY Zenon, <2>1 DEF IsrNode, IFInv, TypeOK
  <2>2. CASE IsrLock(i)
    BY Zenon, <2>2 DEF IsrLock, IFInv, TypeOK, IsrHasEntry
  <2> QED BY Zenon, <2>1, <2>2
<1>2. lock' \in [Nodes -> ISRs \cup {NULL}] /\ LocksAreHeld'
  <2>1. CASE IsrNode(i)
    <3>1. ipc'[i] \in {"idle", "lock"}
      BY Zenon, <2>1 DEF IsrNode, IFInv, TypeOK
    <3>2. lock' = lock
      BY Zenon, <2>1 DEF IsrNode
    <3>3. \A j \in ISRs : /\ ipc'[j] \in {"enqueue", "queue"} <=> ipc[j] \in {"enqueue", "queue"}
                          /\ ipc[j] \in {"enqueue", "queue"} => node'[j] = node[j]
      BY Zenon, <3>1, <1>0, <1>1
    <3> QED BY Zenon, <3>2, <3>3, LocksKept DEF IFInv, TypeOK
  <2>2. CASE IsrLock(i)
    <3>1. /\ node[i] \in Nodes /\ lock[node[i]] = NULL /\ lock'[node[i]] = i
          /\ \A n \in Nodes \ {node[i]} : lock'[n] = lock[n]
          /\ ipc'[i] = "enqueue"
      BY Zenon, <2>2 DEF IsrLock, IFInv, TypeOK, IsrHasEntry
    <3>2. lock' \in [Nodes -> ISRs \cup {NULL}]
      BY Zenon, <2>2 DEF IsrLock, IFInv, TypeOK
    <3>3. ASSUME NEW n \in Nodes, NEW j \in ISRs
          PROVE  lock'[n] = j <=> ipc'[j] \in {"enqueue", "queue"} /\ node'[j] = n
      <4>1. lock[n] = j <=> ipc[j] \in {"enqueue", "queue"} /\ node[j] = n
        BY Zenon DEF IFInv, LocksAreHeld
      <4>2. CASE j = i
        BY Zenon, <4>1, <4>2, <3>1, <1>0, <1>1
      <4>3. CASE j # i
        BY Zenon, <4>1, <4>3, <3>1, <1>0, <1>1
      <4> QED BY Zenon, <4>2, <4>3
    <3> QED BY Zenon, <3>2, <3>3 DEF LocksAreHeld
  <2> QED BY Zenon, <2>1, <2>2
<1>3. TypeOK'
  BY Zenon, <1>0, <1>1, <1>2 DEF IFInv, TypeOK, workVars, exitVars
<1>4. IsrHasEntry'
  BY Zenon, <1>0, <1>1 DEF IFInv, IsrHasEntry
<1>5. ExitIsQuiet'
  <2>1. ~ enabled' => \A j \in ISRs \ Works : ipc'[j] = "idle"
    BY Zenon, <1>0, <1>1 DEF IFInv, ExitIsQuiet
  <2> QED BY Zenon, <2>1, <1>0 DEF IFInv, ExitIsQuiet, exitVars, workVars
<1>6. NothingStranded'
  <2>1. \A j \in ISRs : ipc[j] = "queue" => ipc'[j] = "queue" /\ node'[j] = node[j]
    BY Zenon, <1>0, <1>1
  <2>2. UNCHANGED <<fifo, work, wpc>>
    BY Zenon, <1>0 DEF workVars
  <2> QED BY Zenon, <2>1, <2>2, StillQueued DEF IFInv
<1>7. UNCHANGED <<fifo, wpc, ring_entry>>
  BY Zenon, <1>0 DEF workVars
<1> QED BY Zenon, <1>2, <1>3, <1>4, <1>5, <1>6, <1>7, RingsUnchanged DEF IFInv

(* What enqueue_ih_ring_entry does to the entries es of the kfifo: it adds the
   entry or, if it is not wanted or the kfifo is full, changes nothing. *)
LEMMA EnqueueEffect ==
    ASSUME IFInv, NEW i \in ISRs, enqueue_ih_ring_entry(i)
    PROVE  /\ node[i] \in Nodes /\ entry[i] \in Entries
           /\ \E es \in Seq(Entries) :
                /\ active[node[i]] => fifo[node[i]] \in Seq(Word) /\ IsCut(fifo[node[i]], es)
                /\ \/ /\ active[node[i]] /\ Len(es) < NumEntries
                      /\ fifo' = [fifo EXCEPT ![node[i]] = @ \o Words(entry[i])]
                      /\ ipc' = [ipc EXCEPT ![i] = "queue"] /\ UNCHANGED <<node, lock>>
                   \/ /\ fifo' = fifo
                      /\ ipc' = [ipc EXCEPT ![i] = "node"]
                      /\ node' = [node EXCEPT ![i] = node[i] + 1]
                      /\ lock' = [lock EXCEPT ![node[i]] = NULL]
                      /\ active[node[i]] /\ NodeOf[entry[i]] = node[i] => Len(es) = NumEntries
<1> DEFINE n == node[i]
           e == entry[i]
<1>1. n \in Nodes /\ e \in Entries
  BY Zenon DEF IFInv, IsrHasEntry, TypeOK, enqueue_ih_ring_entry
<1>2. CASE ~ active[n]
  <2>1. /\ fifo' = fifo
        /\ ipc' = [ipc EXCEPT ![i] = "node"] /\ node' = [node EXCEPT ![i] = n + 1]
        /\ lock' = [lock EXCEPT ![n] = NULL]
    BY Zenon, <1>2 DEF enqueue_ih_ring_entry
  <2>2. <<>> \in Seq(Entries)
    BY SMT
  <2> QED BY Zenon, <2>1, <2>2, <1>1, <1>2
<1>3. CASE active[n]
  <2>2. fifo[n] # NULL
    BY Zenon, <1>1, <1>3 DEF IFInv, ExitIsQuiet
  <2>3. PICK es \in Seq(Entries) : IsCut(fifo[n], es) /\ Len(es) <= NumEntries
    BY Zenon, <1>1, <2>2 DEF IFInv, WholeEntries
  <2>4. fifo[n] \in Seq(Word)
    BY Zenon, <2>3 DEF IsCut
  <2>5. /\ Len(fifo[n]) + EntrySize <= FifoSize <=> Len(es) < NumEntries
        /\ Len(es) < NumEntries => kfifo_in(fifo[n], Words(e)) = fifo[n] \o Words(e)
        /\ Len(es) = NumEntries => kfifo_in(fifo[n], Words(e)) = fifo[n]
    BY Zenon, <1>1, <2>3, <2>4, PutsAllOrNothing
  <2>6. Len(es) < NumEntries \/ Len(es) = NumEntries
    BY SMT, <2>3
  <2>7. fifo \in [Nodes -> Seq(Word) \cup {NULL}]
    BY Zenon DEF IFInv, TypeOK
  <2>8. [fifo EXCEPT ![n] = fifo[n]] = fifo
    BY Zenon, <2>7
  <2>9. CASE NodeOf[e] = n /\ Len(es) < NumEntries
    <3>1. /\ fifo' = [fifo EXCEPT ![n] = fifo[n] \o Words(e)]
          /\ ipc' = [ipc EXCEPT ![i] = "queue"] /\ UNCHANGED <<node, lock>>
      BY Zenon, <1>3, <2>5, <2>9 DEF enqueue_ih_ring_entry
    <3> QED BY Zenon, <3>1, <1>1, <1>3, <2>3, <2>4, <2>9
  <2>10. CASE ~ (NodeOf[e] = n /\ Len(es) < NumEntries)
    <3>1. /\ ipc' = [ipc EXCEPT ![i] = "node"] /\ node' = [node EXCEPT ![i] = n + 1]
          /\ lock' = [lock EXCEPT ![n] = NULL]
      BY Zenon, <2>5, <2>10 DEF enqueue_ih_ring_entry
    <3>2. fifo' = fifo
      BY Zenon, <2>5, <2>6, <2>8, <2>10 DEF enqueue_ih_ring_entry
    <3> QED BY Zenon, <3>1, <3>2, <1>1, <1>3, <2>3, <2>4, <2>6, <2>10
  <2> QED BY Zenon, <2>9, <2>10
<1> QED BY Zenon, <1>2, <1>3

(* A handler gives up the lock of its node. *)
LEMMA UnlockKeepsLocks ==
    ASSUME IFInv, NEW i \in ISRs, ipc[i] \in {"enqueue", "queue"}, node[i] \in Nodes, NEW m,
           \/ ipc' = [ipc EXCEPT ![i] = "idle"] /\ node' = node
           \/ ipc' = [ipc EXCEPT ![i] = "node"] /\ node' = [node EXCEPT ![i] = m],
           lock' = [lock EXCEPT ![node[i]] = NULL]
    PROVE  LocksAreHeld'
<1>1. /\ ipc'[i] \notin {"enqueue", "queue"}
      /\ \A j \in ISRs \ {i} : ipc'[j] = ipc[j] /\ node'[j] = node[j]
  <2>1. ipc \in [ISRs -> {"idle", "node", "lock", "enqueue", "queue"}] /\ node \in [ISRs -> Nat]
    BY Zenon DEF IFInv, TypeOK
  <2>2. CASE ipc' = [ipc EXCEPT ![i] = "idle"] /\ node' = node
    BY Zenon, <2>1, <2>2
  <2>3. CASE ipc' = [ipc EXCEPT ![i] = "node"] /\ node' = [node EXCEPT ![i] = m]
    BY Zenon, <2>1, <2>3
  <2> QED BY Zenon, <2>2, <2>3
<1>2. /\ lock[node[i]] = i /\ lock'[node[i]] = NULL
      /\ \A n \in Nodes \ {node[i]} : lock'[n] = lock[n]
  <2>1. lock[node[i]] = i
    BY Zenon DEF IFInv, LocksAreHeld
  <2>2. lock \in [Nodes -> ISRs \cup {NULL}]
    BY Zenon DEF IFInv, TypeOK
  <2> DEFINE k == node[i]
  <2> HIDE DEF k
  <2>3. k \in Nodes /\ lock' = [lock EXCEPT ![k] = NULL]
    BY Zenon DEF k
  <2>4. lock'[k] = NULL /\ \A n \in Nodes \ {k} : lock'[n] = lock[n]
    BY Zenon, <2>2, <2>3
  <2> QED BY Zenon, <2>1, <2>4 DEF k
<1>3. ASSUME NEW n \in Nodes, NEW j \in ISRs
      PROVE  lock'[n] = j <=> ipc'[j] \in {"enqueue", "queue"} /\ node'[j] = n
  <2>1. lock[n] = j <=> ipc[j] \in {"enqueue", "queue"} /\ node[j] = n
    BY Zenon DEF IFInv, LocksAreHeld
  <2>2. lock[n] = i <=> node[i] = n
    BY Zenon DEF IFInv, LocksAreHeld
  <2>3. NULL # j
    BY Zenon
  <2>4. CASE j = i
    <3>1. CASE n = node[i]
      BY Zenon, <2>3, <2>4, <3>1, <1>1, <1>2
    <3>2. CASE n # node[i]
      BY Zenon, <2>2, <2>4, <3>2, <1>1, <1>2
    <3> QED BY Zenon, <3>1, <3>2
  <2>5. CASE j # i
    <3>1. CASE n = node[i]
      BY Zenon, <2>1, <2>3, <2>5, <3>1, <1>1, <1>2
    <3>2. CASE n # node[i]
      BY Zenon, <2>1, <2>5, <3>2, <1>1, <1>2
    <3> QED BY Zenon, <3>1, <3>2
  <2> QED BY Zenon, <2>4, <2>5
<1> QED BY Zenon, <1>3 DEF LocksAreHeld

(* enqueue_ih_ring_entry keeps the invariant: only a handler that goes on to
   queue_work puts words into an empty kfifo. *)
LEMMA EnqueueStep ==
    ASSUME IFInv, late = NULL, NEW i \in ISRs, enqueue_ih_ring_entry(i)
    PROVE  IFInv'
<1> DEFINE n == node[i]
           e == entry[i]
<1>0. n \in Nodes /\ e \in Entries /\ ipc[i] = "enqueue"
  BY Zenon, EnqueueEffect DEF enqueue_ih_ring_entry
<1>1. UNCHANGED <<entry, work, wpc, ring_entry, exists, active, enabled, exiting, late>>
  BY Zenon DEF enqueue_ih_ring_entry, workVars, exitVars
<1>2. OneIsHandled'
  BY Zenon, <1>1 DEF IFInv, OneIsHandled
<1>3. PICK es \in Seq(Entries) :
        /\ active[n] => fifo[n] \in Seq(Word) /\ IsCut(fifo[n], es)
        /\ \/ /\ active[n] /\ Len(es) < NumEntries
              /\ fifo' = [fifo EXCEPT ![n] = @ \o Words(e)]
              /\ ipc' = [ipc EXCEPT ![i] = "queue"] /\ UNCHANGED <<node, lock>>
           \/ /\ fifo' = fifo
              /\ ipc' = [ipc EXCEPT ![i] = "node"]
              /\ node' = [node EXCEPT ![i] = n + 1]
              /\ lock' = [lock EXCEPT ![n] = NULL]
  BY Zenon, EnqueueEffect
<1>4. CASE /\ active[n] /\ Len(es) < NumEntries
           /\ fifo' = [fifo EXCEPT ![n] = @ \o Words(e)]
           /\ ipc' = [ipc EXCEPT ![i] = "queue"] /\ UNCHANGED <<node, lock>>
  <2>1. IsCut(fifo[n] \o Words(e), Append(es, e))
    BY Zenon, <1>0, <1>3, <1>4, CutAppend
  <2>2. /\ fifo[n] \o Words(e) \in Seq(Word) /\ Append(es, e) \in Seq(Entries)
        /\ Len(Append(es, e)) <= NumEntries
    <3>1. Len(Append(es, e)) = Len(es) + 1
      BY SMT, <1>0
    <3> QED BY SMT, <2>1, <3>1, <1>4 DEF IsCut
  <2>3. TypeOK'
    BY Zenon, <1>0, <1>1, <1>4, <2>2 DEF IFInv, TypeOK
  <2>4. IsrHasEntry'
    BY Zenon, <1>0, <1>1, <1>4 DEF IFInv, TypeOK, IsrHasEntry
  <2>5. ExitIsQuiet'
    <3>1. ~ enabled' => \A j \in ISRs \ Works : ipc'[j] = "idle"
      BY Zenon, <1>0, <1>1, <1>4 DEF IFInv, TypeOK, ExitIsQuiet
    <3>2. \A m \in Nodes : fifo'[m] = NULL => fifo[m] = NULL
      BY Zenon, <1>4, <2>2, NullIsNoFifo DEF IFInv, TypeOK
    <3> QED BY Zenon, <3>1, <3>2, <1>1 DEF IFInv, ExitIsQuiet
  <2>6. WholeEntries'
    BY Zenon, <1>0, <1>4, <2>1, <2>2 DEF IFInv, TypeOK, WholeEntries
  <2>7. NothingStranded'
    BY ZenonT(60), <1>0, <1>1, <1>4 DEF IFInv, TypeOK, NothingStranded
  <2>8. LocksAreHeld'
    <3>1. ipc'[i] = "queue" /\ \A j \in ISRs \ {i} : ipc'[j] = ipc[j]
      BY Zenon, <1>4 DEF IFInv, TypeOK
    <3>2. \A j \in ISRs : /\ ipc'[j] \in {"enqueue", "queue"} <=> ipc[j] \in {"enqueue", "queue"}
                          /\ ipc[j] \in {"enqueue", "queue"} => node'[j] = node[j]
      BY Zenon, <3>1, <1>0, <1>4
    <3> QED BY Zenon, <3>2, <1>4, LocksKept
  <2> QED BY Zenon, <1>2, <2>3, <2>4, <2>5, <2>6, <2>7, <2>8 DEF IFInv
<1>5. CASE /\ fifo' = fifo /\ ipc' = [ipc EXCEPT ![i] = "node"]
           /\ node' = [node EXCEPT ![i] = n + 1] /\ lock' = [lock EXCEPT ![n] = NULL]
  <2>1. n + 1 \in Nat
    BY SMT DEF IFInv, TypeOK
  <2>2. TypeOK'
    BY Zenon, <1>1, <1>5, <2>1 DEF IFInv, TypeOK
  <2>3. IsrHasEntry'
    BY Zenon, <1>0, <1>1, <1>5 DEF IFInv, TypeOK, IsrHasEntry
  <2>4. ExitIsQuiet'
    <3>1. ~ enabled' => \A j \in ISRs \ Works : ipc'[j] = "idle"
      BY Zenon, <1>0, <1>1, <1>5 DEF IFInv, TypeOK, ExitIsQuiet
    <3> QED BY Zenon, <3>1, <1>1, <1>5 DEF IFInv, ExitIsQuiet
  <2>5. WholeEntries'
    BY Zenon, <1>5 DEF IFInv, WholeEntries
  <2>6. NothingStranded'
    BY Zenon, <1>0, <1>1, <1>5 DEF IFInv, TypeOK, NothingStranded
  <2>7. LocksAreHeld'
    BY Zenon, <1>0, <1>5, UnlockKeepsLocks
  <2> QED BY Zenon, <1>2, <2>2, <2>3, <2>4, <2>5, <2>6, <2>7 DEF IFInv
<1> QED BY Zenon, <1>3, <1>4, <1>5

(* queue_work: from here on the work is pending. *)
LEMMA QueueWorkStep ==
    ASSUME IFInv, late = NULL, NEW i \in ISRs, IsrQueueWork(i)
    PROVE  IFInv'
<1>0. /\ late' \in ISRs \cup {NULL}
      /\ late' \in ISRs \ Works => enabled'
      /\ node[i] \in Nodes
      /\ exiting \in {"nodes", "freed"} => late' # NULL
  BY Zenon, LateStep, RunsAreAllowed DEF IsrQueueWork, exitVars, LateIf, IFInv, IsrHasEntry
<1> USE DEF IsrQueueWork, exitVars
<1>1. TypeOK'
  BY Zenon, <1>0 DEF IFInv, TypeOK
<1>2. IsrHasEntry'
  BY Zenon DEF IFInv, TypeOK, IsrHasEntry
<1>3. ExitIsQuiet'
  <2>1. ~ enabled' => \A j \in ISRs \ Works : ipc'[j] = "idle"
    BY Zenon DEF IFInv, TypeOK, ExitIsQuiet
  <2> QED BY Zenon, <2>1, <1>0 DEF IFInv, ExitIsQuiet
<1>4. NothingStranded'
  <2> SUFFICES ASSUME NEW n \in Nodes, fifo'[n] \notin {NULL, <<>>}
               PROVE  work'[n] \/ wpc'[n] # "idle" \/ \E j \in ISRs : ipc'[j] = "queue" /\ node'[j] = n
    BY Zenon DEF NothingStranded
  <2>1. CASE n = node[i]
    BY Zenon, <2>1 DEF IFInv, TypeOK
  <2>2. CASE n # node[i]
    <3>1. work[n] \/ wpc[n] # "idle" \/ \E j \in ISRs : ipc[j] = "queue" /\ node[j] = n
      BY Zenon DEF IFInv, NothingStranded
    <3> QED BY Zenon, <2>2, <3>1 DEF IFInv, TypeOK
  <2> QED BY Zenon, <2>1, <2>2
<1>5. LocksAreHeld'
  <2>1. /\ ipc' = [ipc EXCEPT ![i] = "idle"] /\ node' = node /\ ipc[i] = "queue"
        /\ lock' = [lock EXCEPT ![node[i]] = NULL]
    BY Zenon
  <2> QED BY Zenon, <2>1, <1>0, UnlockKeepsLocks
<1> QED BY Zenon, <1>1, <1>2, <1>3, <1>4, <1>5, RingsUnchanged DEF IFInv

(* A worker runs only before the exit has flushed the work queue. *)
LEMMA WorkerIsEarly ==
    ASSUME IFInv, late = NULL, NEW n \in Nodes, work[n] \/ wpc[n] # "idle"
    PROVE  exiting \notin {"nodes", "freed"} /\ fifo[n] # NULL
BY Zenon DEF IFInv, ExitIsQuiet

(* The steps of the worker of node n leave the other nodes alone. *)
LEMMA StartStep ==
    ASSUME IFInv, late = NULL, NEW n \in Nodes, StartWork(n)
    PROVE  IFInv'
<1> USE DEF StartWork, isrVars, exitVars
<1>0. exiting \notin {"nodes", "freed"}
  BY Zenon, WorkerIsEarly
<1>1. TypeOK'
  BY Zenon DEF IFInv, TypeOK
<1>2. IsrHasEntry'
  BY Zenon DEF IFInv, IsrHasEntry
<1>3. ExitIsQuiet'
  BY Zenon, <1>0 DEF IFInv, ExitIsQuiet
<1>4. WholeEntries'
  BY Zenon DEF IFInv, WholeEntries
<1>5. OneIsHandled'
  BY Zenon DEF IFInv, TypeOK, OneIsHandled
<1>6. NothingStranded'
  BY Zenon DEF IFInv, TypeOK, NothingStranded
<1> QED BY Zenon, <1>1, <1>2, <1>3, <1>4, <1>5, <1>6, LocksUnchanged DEF IFInv

(* The worker goes on, or queues itself again after a second. *)
LEMMA HandledStep ==
    ASSUME IFInv, late = NULL, NEW n \in Nodes, NEW over \in BOOLEAN, EndOfHandling(n, over)
    PROVE  IFInv'
<1> USE DEF EndOfHandling, isrVars, exitVars
<1>0. exiting \notin {"nodes", "freed"} /\ <<>> \in Seq(Word)
  <2>1. <<>> \in Seq(Word)
    BY SMT
  <2> QED BY Zenon, <2>1, WorkerIsEarly
<1>1. TypeOK'
  BY Zenon, <1>0 DEF IFInv, TypeOK
<1>2. IsrHasEntry'
  BY Zenon DEF IFInv, IsrHasEntry
<1>3. ExitIsQuiet'
  BY Zenon, <1>0 DEF IFInv, ExitIsQuiet
<1>4. WholeEntries'
  BY Zenon DEF IFInv, WholeEntries
<1>5. OneIsHandled'
  BY Zenon DEF IFInv, TypeOK, OneIsHandled
<1>6. NothingStranded'
  BY Zenon DEF IFInv, TypeOK, NothingStranded
<1> QED BY Zenon, <1>1, <1>2, <1>3, <1>4, <1>5, <1>6, LocksUnchanged DEF IFInv

(* What dequeue_ih_ring_entry does to the entries es of the kfifo: it takes the
   first, or the kfifo is empty and the worker ends. *)
LEMMA DequeueEffect ==
    ASSUME IFInv, NEW n \in Nodes, dequeue_ih_ring_entry(n)
    PROVE  \E es \in Seq(Entries) :
             /\ fifo[n] \in Seq(Word) /\ IsCut(fifo[n], es) /\ Len(es) <= NumEntries
             /\ \/ /\ es # <<>>
                   /\ fifo' = [fifo EXCEPT ![n] = SubSeq(@, EntrySize + 1, Len(@))]
                   /\ ring_entry' = [ring_entry EXCEPT ![n] = Words(Head(es))]
                   /\ wpc' = [wpc EXCEPT ![n] = "handle"]
                \/ /\ es = <<>> /\ fifo[n] = <<>> /\ fifo' = fifo
                   /\ wpc' = [wpc EXCEPT ![n] = "idle"] /\ ring_entry' = ring_entry
<1>1. PICK es \in Seq(Entries) : IsCut(fifo[n], es) /\ Len(es) <= NumEntries
  BY Zenon DEF IFInv, WholeEntries, dequeue_ih_ring_entry
<1>2. fifo[n] \in Seq(Word)
  BY Zenon, <1>1 DEF IsCut
<1>3. CASE es # <<>>
  <2>1. kfifo_out(fifo[n]) = Words(Head(es))
    BY Zenon, <1>1, <1>2, <1>3, TakesOneOrNone
  <2>2. Len(kfifo_out(fifo[n])) = EntrySize
    BY Zenon, <2>1, <1>1, <1>2, <1>3, CutTail, WordsType
  <2> QED BY Zenon, <1>1, <1>2, <1>3, <2>1, <2>2 DEF dequeue_ih_ring_entry
<1>4. CASE es = <<>>
  <2>1. fifo[n] = <<>> /\ kfifo_out(fifo[n]) = <<>>
    BY Zenon, <1>1, <1>2, <1>4, TakesOneOrNone
  <2>2. Len(kfifo_out(fifo[n])) # EntrySize
    BY SMT, <2>1, EmptySeqLen
  <2>3. SubSeq(fifo[n], Len(kfifo_out(fifo[n])) + 1, Len(fifo[n])) = fifo[n]
    <3>1. SubSeq(<<>>, Len(<<>>) + 1, Len(<<>>)) = <<>>
      BY SMT
    <3> QED BY Zenon, <2>1, <3>1
  <2>4. fifo' = fifo
    <3>1. fifo' = [fifo EXCEPT ![n] = fifo[n]]
      BY Zenon, <2>3 DEF dequeue_ih_ring_entry
    <3> QED BY Zenon, <3>1 DEF IFInv, TypeOK
  <2> QED BY Zenon, <1>1, <1>2, <1>4, <2>1, <2>2, <2>4 DEF dequeue_ih_ring_entry
<1> QED BY Zenon, <1>3, <1>4

(* dequeue_ih_ring_entry keeps the invariant: the worker ends only if the kfifo
   is empty. *)
LEMMA DequeueStep ==
    ASSUME IFInv, late = NULL, NEW n \in Nodes, dequeue_ih_ring_entry(n)
    PROVE  IFInv'
<1>0. /\ exiting \notin {"nodes", "freed"} /\ wpc[n] = "dequeue" /\ fifo[n] # NULL
      /\ UNCHANGED <<work, ipc, entry, node, lock, late, exists, active, enabled, exiting>>
  BY Zenon, WorkerIsEarly DEF dequeue_ih_ring_entry, isrVars, exitVars
<1>1. IsrHasEntry'
  BY Zenon, <1>0 DEF IFInv, IsrHasEntry
<1> LocksAreHeld'
  BY Zenon, <1>0, LocksUnchanged
<1>2. PICK es \in Seq(Entries) :
        /\ fifo[n] \in Seq(Word) /\ IsCut(fifo[n], es) /\ Len(es) <= NumEntries
        /\ \/ /\ es # <<>>
              /\ fifo' = [fifo EXCEPT ![n] = SubSeq(@, EntrySize + 1, Len(@))]
              /\ ring_entry' = [ring_entry EXCEPT ![n] = Words(Head(es))]
              /\ wpc' = [wpc EXCEPT ![n] = "handle"]
           \/ /\ es = <<>> /\ fifo[n] = <<>> /\ fifo' = fifo
              /\ wpc' = [wpc EXCEPT ![n] = "idle"] /\ ring_entry' = ring_entry
  BY Zenon, DequeueEffect
<1>3. CASE /\ es # <<>>
           /\ fifo' = [fifo EXCEPT ![n] = SubSeq(@, EntrySize + 1, Len(@))]
           /\ ring_entry' = [ring_entry EXCEPT ![n] = Words(Head(es))]
           /\ wpc' = [wpc EXCEPT ![n] = "handle"]
  <2> DEFINE g == SubSeq(fifo[n], EntrySize + 1, Len(fifo[n]))
  <2>1. Head(es) \in Entries /\ IsCut(g, Tail(es))
    BY Zenon, <1>2, <1>3, CutTail
  <2>2. g \in Seq(Word) /\ Tail(es) \in Seq(Entries) /\ Words(Head(es)) \in Seq(Word)
    BY Zenon, <2>1, WordsType DEF IsCut
  <2>3. Len(Tail(es)) <= NumEntries
    BY SMT, <1>2, <1>3
  <2>4. TypeOK'
    BY Zenon, <1>0, <1>3, <2>2 DEF IFInv, TypeOK
  <2>5. ExitIsQuiet'
    BY Zenon, <1>0, <1>3, <2>2, NullIsNoFifo DEF IFInv, TypeOK, ExitIsQuiet
  <2>6. WholeEntries'
    BY Zenon, <1>3, <2>1, <2>2, <2>3 DEF IFInv, TypeOK, WholeEntries
  <2>7. OneIsHandled'
    BY Zenon, <1>3, <2>1 DEF IFInv, TypeOK, OneIsHandled
  <2>8. NothingStranded'
    BY Zenon, <1>0, <1>3 DEF IFInv, TypeOK, NothingStranded
  <2> QED BY Zenon, <1>1, <2>4, <2>5, <2>6, <2>7, <2>8 DEF IFInv
<1>4. CASE /\ fifo[n] = <<>> /\ fifo' = fifo
           /\ wpc' = [wpc EXCEPT ![n] = "idle"] /\ ring_entry' = ring_entry
  <2>1. TypeOK'
    BY Zenon, <1>0, <1>4 DEF IFInv, TypeOK
  <2>2. ExitIsQuiet'
    BY Zenon, <1>0, <1>4 DEF IFInv, ExitIsQuiet
  <2>3. WholeEntries'
    BY Zenon, <1>4 DEF IFInv, WholeEntries
  <2>4. OneIsHandled'
    BY Zenon, <1>0, <1>4 DEF IFInv, TypeOK, OneIsHandled
  <2>5. NothingStranded'
    BY Zenon, <1>0, <1>4 DEF IFInv, TypeOK, NothingStranded
  <2> QED BY Zenon, <1>1, <2>1, <2>2, <2>3, <2>4, <2>5 DEF IFInv
<1> QED BY Zenon, <1>2, <1>3, <1>4

(* The steps of the exit before kfd_cleanup_nodes frees anything. *)
LEMMA DeviceExitStep ==
    ASSUME IFInv, late = NULL, amdgpu_irq_fini_hw \/ kgd2kfd_device_exit \/ flush_workqueue \/ FreeDevice
    PROVE  IFInv'
<1> USE DEF amdgpu_irq_fini_hw, kgd2kfd_device_exit, flush_workqueue, FreeDevice, isrVars, workVars
<1>0. UNCHANGED <<fifo, work, wpc, ring_entry, ipc, node, entry, lock, late, exists, active>>
  BY Zenon
<1>1. TypeOK'
  BY Zenon DEF IFInv, TypeOK
<1>2. IsrHasEntry'
  BY Zenon DEF IFInv, IsrHasEntry
<1>3. ExitIsQuiet'
  <2>1. CASE amdgpu_irq_fini_hw
    <3>1. late \notin ISRs \ Works
      BY Zenon, <2>1
    <3> QED BY Zenon, <2>1, <3>1 DEF IFInv, ExitIsQuiet
  <2>2. CASE kgd2kfd_device_exit
    BY Zenon, <2>2 DEF IFInv, ExitIsQuiet
  <2>3. CASE flush_workqueue
    BY Zenon, <2>3 DEF IFInv, ExitIsQuiet
  <2>4. CASE FreeDevice
    BY Zenon, <2>4 DEF IFInv, ExitIsQuiet
  <2> QED BY Zenon, <2>1, <2>2, <2>3, <2>4
<1>4. NothingStranded'
  BY Zenon, <1>0, StillQueued DEF IFInv
<1> QED BY Zenon, <1>0, <1>1, <1>2, <1>3, <1>4, RingsUnchanged, LocksUnchanged DEF IFInv

(* kfd_interrupt_exit frees only kfifos that are empty: the lock is free, so no
   handler is between the kfifo and queue_work. *)
LEMMA FreedIsEmpty ==
    ASSUME IFInv, late = NULL, NEW n \in Nodes, exiting = "nodes", lock[n] = NULL
    PROVE  fifo[n] \in {NULL, <<>>}
<1>1. ~ work[n] /\ wpc[n] = "idle"
  BY Zenon DEF IFInv, ExitIsQuiet
<1>2. ASSUME NEW i \in ISRs, ipc[i] = "queue", node[i] = n PROVE FALSE
  <2>1. lock[n] = i
    BY Zenon, <1>2 DEF IFInv, LocksAreHeld
  <2> QED BY Zenon, <2>1
<1> QED BY Zenon, <1>1, <1>2 DEF IFInv, NothingStranded

(* kfd_interrupt_exit frees the kfifo of a node, and kfd_cleanup_nodes the node. *)
LEMMA InterruptExitStep ==
    ASSUME IFInv, late = NULL, NEW n \in Nodes, kfd_interrupt_exit(n)
    PROVE  IFInv'
<1> USE DEF kfd_interrupt_exit, isrVars, workVars
<1>1. TypeOK'
  BY Zenon DEF IFInv, TypeOK
<1>2. IsrHasEntry'
  BY Zenon DEF IFInv, IsrHasEntry
<1>3. ExitIsQuiet'
  <2>1. \A m \in Nodes : fifo'[m] = NULL => exiting' \in {"nodes", "freed"} /\ ~ active'[m]
    BY Zenon DEF IFInv, TypeOK, ExitIsQuiet
  <2> QED BY Zenon, <2>1 DEF IFInv, ExitIsQuiet
<1>4. WholeEntries'
  BY Zenon DEF IFInv, TypeOK, WholeEntries
<1>5. OneIsHandled'
  BY Zenon DEF IFInv, OneIsHandled
<1>6. NothingStranded'
  BY Zenon DEF IFInv, TypeOK, NothingStranded
<1>7. LocksAreHeld'
  BY Zenon, LocksUnchanged
<1> QED BY Zenon, <1>1, <1>2, <1>3, <1>4, <1>5, <1>6, <1>7 DEF IFInv

(* A handler that holds the lock of a node that is freed is late. *)
LEMMA FreeNodeStep ==
    ASSUME IFInv, late = NULL, NEW n \in Nodes, FreeNode(n)
    PROVE  IFInv'
<1> USE DEF FreeNode, workVars
<1>1. late' \in ISRs \cup {NULL} /\ (late' \in ISRs \ Works => enabled)
  <2>1. CASE lock[n] = NULL
    BY Zenon, <2>1
  <2>2. CASE lock[n] # NULL
    <3>1. lock[n] \in ISRs /\ late' = lock[n]
      BY Zenon, <2>2 DEF IFInv, TypeOK
    <3>2. ipc[lock[n]] # "idle"
      BY Zenon, <3>1 DEF IFInv, LocksAreHeld
    <3> QED BY Zenon, <3>1, <3>2, RunsAreAllowed
  <2> QED BY Zenon, <2>1, <2>2
<1>2. TypeOK'
  BY Zenon, <1>1 DEF IFInv, TypeOK
<1>3. IsrHasEntry'
  BY Zenon DEF IFInv, IsrHasEntry
<1>4. ExitIsQuiet'
  BY Zenon, <1>1 DEF IFInv, ExitIsQuiet
<1>5. NothingStranded'
  BY Zenon, StillQueued DEF IFInv
<1> QED BY Zenon, <1>2, <1>3, <1>4, <1>5, RingsUnchanged, LocksUnchanged DEF IFInv

(* IFInv is inductive. *)
LEMMA NextKeepsInv == IFInv /\ [Next]_vars => IFInv'
<1> SUFFICES ASSUME IFInv, [Next]_vars PROVE IFInv'
  OBVIOUS
<1>1. CASE UNCHANGED vars
  <2>1. TypeOK'
    BY Zenon, <1>1 DEF IFInv, TypeOK, vars, isrVars, workVars, exitVars
  <2>2. IsrHasEntry'
    BY Zenon, <1>1 DEF IFInv, IsrHasEntry, vars, isrVars
  <2>3. ExitIsQuiet'
    BY Zenon, <1>1 DEF IFInv, ExitIsQuiet, vars, isrVars, workVars, exitVars
  <2>4. NothingStranded'
    BY Zenon, <1>1 DEF IFInv, NothingStranded, vars, isrVars, workVars
  <2>5. UNCHANGED <<fifo, wpc, ring_entry>>
    BY Zenon, <1>1 DEF vars, workVars
  <2>6. UNCHANGED <<lock, ipc, node>>
    BY Zenon, <1>1 DEF vars, isrVars
  <2> QED BY Zenon, <2>1, <2>2, <2>3, <2>4, <2>5, <2>6, RingsUnchanged, LocksUnchanged DEF IFInv
<1>2. ASSUME late = NULL, NEW i \in ISRs, IsrStep(i) \/ \E e \in Entries : kgd2kfd_interrupt(i, e)
      PROVE  IFInv'
  BY Zenon, <1>2, InterruptStep, LoopStep, EnqueueStep, QueueWorkStep DEF IsrStep
<1>3. ASSUME late = NULL, NEW n \in Nodes, interrupt_wq(n) \/ kfd_interrupt_exit(n) \/ FreeNode(n)
      PROVE  IFInv'
  BY Zenon, <1>3, StartStep, DequeueStep, HandledStep, InterruptExitStep, FreeNodeStep DEF interrupt_wq
<1>4. CASE late = NULL /\ (amdgpu_irq_fini_hw \/ kgd2kfd_device_exit \/ flush_workqueue \/ FreeDevice)
  BY Zenon, <1>4, DeviceExitStep
<1> QED BY Zenon, <1>1, <1>2, <1>3, <1>4 DEF Next, Step

(* IFInv holds in every behaviour of kgd2kfd_interrupt, interrupt_wq and
   kfd_cleanup_nodes. *)
THEOREM IFInvariant == Spec => []IFInv
BY InitHolds, NextKeepsInv, PTL DEF Spec

(* No entry stays in a kfifo without a worker that runs or is going to, however
   enqueue_ih_ring_entry, queue_work and the end of interrupt_wq interleave. *)
THEOREM NothingIsStranded == Spec => []NothingStranded
<1>1. IFInv => NothingStranded
  BY Zenon DEF IFInv
<1> QED BY IFInvariant, <1>1, PTL

(* kfd_cleanup_nodes frees a kfifo only when no work that uses it is pending or
   running, and none is queued later unless a handler runs into the exit (late):
   when the driver is unloaded, only one that amdgpu_irq_fini_hw does not wait for. *)
THEOREM NoWorkOnFreedRing == Spec => []NoWorkAfterFree
<1>1. IFInv => NoWorkAfterFree
  BY Zenon DEF IFInv, ExitIsQuiet, NoWorkAfterFree
<1> QED BY IFInvariant, <1>1, PTL

-----------------------------------------------------------------------------
(* The refinement: what the state shows as queues and entries in handlers. *)
QueueOf == [n \in Nodes |-> EntriesOf(fifo[n])]
HandlingOf == [n \in Nodes |-> IF ring_entry[n] = <<>> THEN <<>> ELSE <<EntryOf(ring_entry[n])>>]

(* At first all queues are empty. *)
LEMMA InitIsChannel == Init => Channel!Init
<1> SUFFICES ASSUME Init PROVE Channel!Init
  OBVIOUS
<1>1. <<>> \in Seq(Word) /\ <<>> \in Seq(Entries)
  BY SMT
<1>2. EntriesOf(<<>>) = <<>>
  BY Zenon, <1>1, CutEmpty, CutEntries
<1>3. QueueOf = [n \in Nodes |-> <<>>]
  BY Zenon, <1>2 DEF Init, QueueOf
<1>4. HandlingOf = [n \in Nodes |-> <<>>]
  BY Zenon DEF Init, HandlingOf
<1> QED BY Zenon, <1>3, <1>4 DEF Channel!Init, QueueOf, HandlingOf

(* Storing an entry is Accept. *)
LEMMA EnqueueIsAccept ==
    ASSUME IFInv, NEW i \in ISRs, enqueue_ih_ring_entry(i)
    PROVE  \/ Channel!Accept(node[i], entry[i])
           \/ UNCHANGED <<QueueOf, HandlingOf>>
<1> DEFINE n == node[i]
           e == entry[i]
<1>0. n \in Nodes /\ e \in Entries
  BY Zenon, EnqueueEffect
<1>1. ring_entry' = ring_entry
  BY Zenon DEF enqueue_ih_ring_entry, workVars
<1>2. HandlingOf' = HandlingOf
  BY Zenon, <1>1 DEF HandlingOf
<1>3. PICK es \in Seq(Entries) :
        /\ active[n] => fifo[n] \in Seq(Word) /\ IsCut(fifo[n], es)
        /\ \/ active[n] /\ Len(es) < NumEntries /\ fifo' = [fifo EXCEPT ![n] = @ \o Words(e)]
           \/ fifo' = fifo
  BY Zenon, EnqueueEffect
<1>4. CASE fifo' = fifo
  BY Zenon, <1>2, <1>4 DEF QueueOf
<1>5. CASE active[n] /\ Len(es) < NumEntries /\ fifo' = [fifo EXCEPT ![n] = @ \o Words(e)]
  <2>1. EntriesOf(fifo[n]) = es
    BY Zenon, <1>3, <1>5, CutEntries
  <2>2. IsCut(fifo[n] \o Words(e), Append(es, e))
    BY Zenon, <1>0, <1>3, <1>5, CutAppend
  <2>3. EntriesOf(fifo[n] \o Words(e)) = Append(es, e)
    BY Zenon, <2>2, CutEntries DEF IsCut
  <2>4. QueueOf[n] = es
    BY Zenon, <1>0, <2>1 DEF QueueOf
  <2>5. QueueOf' = [QueueOf EXCEPT ![n] = Append(es, e)]
    BY Zenon, <1>0, <1>5, <2>3 DEF QueueOf, IFInv, TypeOK
  <2>6. Len(QueueOf[n]) < NumEntries /\ QueueOf' = [QueueOf EXCEPT ![n] = Append(QueueOf[n], e)]
    BY Zenon, <1>5, <2>4, <2>5
  <2> QED BY Zenon, <1>2, <2>6 DEF Channel!Accept, QueueOf, HandlingOf
<1> QED BY Zenon, <1>3, <1>4, <1>5

(* An entry that the node wants is stored or, if the kfifo is full, dropped. *)
LEMMA WantedIsStored ==
    ASSUME IFInv, NEW i \in ISRs, enqueue_ih_ring_entry(i),
           active[node[i]], NodeOf[entry[i]] = node[i]
    PROVE  Channel!Accept(node[i], entry[i]) \/ Channel!Drop(node[i], entry[i])
<1> DEFINE n == node[i]
<1>0. n \in Nodes
  BY Zenon, EnqueueEffect
<1>1. PICK es \in Seq(Entries) :
        /\ fifo[n] \in Seq(Word) /\ IsCut(fifo[n], es)
        /\ \/ Len(es) < NumEntries /\ ipc' = [ipc EXCEPT ![i] = "queue"]
           \/ Len(es) = NumEntries /\ fifo' = fifo
  BY Zenon, EnqueueEffect
<1>2. QueueOf[n] = es
  BY Zenon, <1>0, <1>1, CutEntries DEF QueueOf
<1>3. CASE Len(es) = NumEntries /\ fifo' = fifo
  <2>1. UNCHANGED <<QueueOf, HandlingOf>>
    BY Zenon, <1>3 DEF QueueOf, HandlingOf, enqueue_ih_ring_entry, workVars
  <2> QED BY Zenon, <1>2, <1>3, <2>1 DEF Channel!Drop, QueueOf, HandlingOf
<1>4. CASE Len(es) < NumEntries /\ ipc' = [ipc EXCEPT ![i] = "queue"]
  <2>1. \/ Channel!Accept(n, entry[i])
        \/ UNCHANGED <<QueueOf, HandlingOf>>
    BY Zenon, EnqueueIsAccept
  <2>2. ~ UNCHANGED <<QueueOf, HandlingOf>>
    <3>1. PICK fs \in Seq(Entries) :
            \/ fifo' = [fifo EXCEPT ![n] = @ \o Words(entry[i])]
            \/ ipc' = [ipc EXCEPT ![i] = "node"]
      BY Zenon, EnqueueEffect
    <3>2. fifo' = [fifo EXCEPT ![n] = @ \o Words(entry[i])]
      BY Zenon, <3>1, <1>4 DEF IFInv, TypeOK
    <3>3. EntriesOf(fifo'[n]) = Append(es, entry[i])
      <4>1. entry[i] \in Entries
        BY Zenon, EnqueueEffect
      <4>2. IsCut(fifo[n] \o Words(entry[i]), Append(es, entry[i]))
        BY Zenon, <4>1, <1>1, CutAppend
      <4>3. fifo'[n] = fifo[n] \o Words(entry[i])
        BY Zenon, <3>2, <1>0 DEF IFInv, TypeOK
      <4>4. EntriesOf(fifo[n] \o Words(entry[i])) = Append(es, entry[i])
        BY Zenon, <4>2, CutEntries DEF IsCut
      <4> QED BY Zenon, <4>3, <4>4
    <3>4. QueueOf'[n] = Append(es, entry[i])
      BY Zenon, <1>0, <3>3 DEF QueueOf
    <3>5. \A x : Append(es, x) # es
      BY SMT
    <3> QED BY Zenon, <1>2, <3>4, <3>5
  <2> QED BY Zenon, <2>1, <2>2
<1> QED BY Zenon, <1>1, <1>3, <1>4

(* Taking one out is Take. *)
LEMMA DequeueIsTake ==
    ASSUME IFInv, NEW n \in Nodes, dequeue_ih_ring_entry(n)
    PROVE  Channel!Take(n) \/ UNCHANGED <<QueueOf, HandlingOf>>
<1>1. PICK es \in Seq(Entries) :
        /\ fifo[n] \in Seq(Word) /\ IsCut(fifo[n], es)
        /\ \/ /\ es # <<>>
              /\ fifo' = [fifo EXCEPT ![n] = SubSeq(@, EntrySize + 1, Len(@))]
              /\ ring_entry' = [ring_entry EXCEPT ![n] = Words(Head(es))]
           \/ fifo' = fifo /\ ring_entry' = ring_entry
  BY Zenon, DequeueEffect
<1>2. CASE fifo' = fifo /\ ring_entry' = ring_entry
  BY Zenon, <1>2 DEF QueueOf, HandlingOf
<1>3. CASE /\ es # <<>>
           /\ fifo' = [fifo EXCEPT ![n] = SubSeq(@, EntrySize + 1, Len(@))]
           /\ ring_entry' = [ring_entry EXCEPT ![n] = Words(Head(es))]
  <2> DEFINE g == SubSeq(fifo[n], EntrySize + 1, Len(fifo[n]))
  <2>1. Head(es) \in Entries /\ IsCut(g, Tail(es))
    BY Zenon, <1>1, <1>3, CutTail
  <2>2. EntriesOf(fifo[n]) = es /\ EntriesOf(g) = Tail(es)
    BY Zenon, <1>1, <2>1, CutEntries DEF IsCut
  <2>3. Words(Head(es)) # <<>> /\ EntryOf(Words(Head(es))) = Head(es)
    BY Zenon, <2>1, WordsType
  <2>4. ring_entry[n] = <<>>
    BY Zenon DEF dequeue_ih_ring_entry, IFInv, OneIsHandled
  <2>5. QueueOf[n] = es /\ HandlingOf[n] = <<>>
    BY Zenon, <2>2, <2>4 DEF QueueOf, HandlingOf
  <2>6. QueueOf' = [QueueOf EXCEPT ![n] = Tail(es)]
    BY Zenon, <1>3, <2>2 DEF QueueOf, IFInv, TypeOK
  <2>7. HandlingOf' = [HandlingOf EXCEPT ![n] = <<Head(es)>>]
    BY Zenon, <1>3, <2>3 DEF HandlingOf, IFInv, TypeOK
  <2>8. /\ QueueOf[n] # <<>> /\ HandlingOf[n] = <<>>
        /\ HandlingOf' = [HandlingOf EXCEPT ![n] = <<Head(QueueOf[n])>>]
        /\ QueueOf' = [QueueOf EXCEPT ![n] = Tail(QueueOf[n])]
    BY Zenon, <1>3, <2>5, <2>6, <2>7
  <2> QED BY Zenon, <2>8 DEF Channel!Take, QueueOf, HandlingOf
<1> QED BY Zenon, <1>1, <1>2, <1>3

(* The end of the handler is Handled. *)
LEMMA EndIsHandled ==
    ASSUME IFInv, NEW n \in Nodes, NEW over \in BOOLEAN, EndOfHandling(n, over)
    PROVE  Channel!Handled(n)
<1>1. PICK e \in Entries : ring_entry[n] = Words(e)
  BY Zenon DEF EndOfHandling, IFInv, OneIsHandled
<1>2. ring_entry[n] # <<>>
  BY Zenon, <1>1, WordsType
<1>3. HandlingOf[n] = <<EntryOf(ring_entry[n])>>
  BY Zenon, <1>2 DEF HandlingOf
<1>4. HandlingOf[n] # <<>>
  <2>1. \A x : <<x>> # <<>>
    BY SMT
  <2> QED BY Zenon, <1>3, <2>1
<1>5. HandlingOf' = [HandlingOf EXCEPT ![n] = <<>>]
  BY Zenon DEF EndOfHandling, HandlingOf, IFInv, TypeOK
<1>6. QueueOf' = QueueOf
  BY Zenon DEF EndOfHandling, QueueOf
<1> QED BY Zenon, <1>4, <1>5, <1>6 DEF Channel!Handled, QueueOf, HandlingOf

(* An empty kfifo is freed, which changes no queue. *)
LEMMA ExitIsStutter ==
    ASSUME IFInv, late = NULL, NEW n \in Nodes, kfd_interrupt_exit(n)
    PROVE  UNCHANGED <<QueueOf, HandlingOf>>
<1>1. fifo[n] \in {NULL, <<>>}
  BY Zenon, FreedIsEmpty DEF kfd_interrupt_exit
<1>2. EntriesOf(<<>>) = <<>>
  <2>1. <<>> \in Seq(Word) /\ <<>> \in Seq(Entries)
    BY SMT
  <2> QED BY Zenon, <2>1, CutEmpty, CutEntries
<1>3. EntriesOf(fifo[n]) = EntriesOf(NULL)
  BY Zenon, <1>1, <1>2 DEF EntriesOf
<1>4. \A m \in Nodes : EntriesOf(fifo'[m]) = EntriesOf(fifo[m])
  BY Zenon, <1>3 DEF kfd_interrupt_exit, IFInv, TypeOK
<1>5. QueueOf' = QueueOf
  BY Zenon, <1>4 DEF QueueOf
<1>6. HandlingOf' = HandlingOf
  BY Zenon DEF kfd_interrupt_exit, workVars, HandlingOf
<1> QED BY Zenon, <1>5, <1>6

(* Every step is one of InterruptChannel, or shows nothing. *)
LEMMA NextIsChannel == IFInv /\ [Next]_vars => [Channel!Next]_<<QueueOf, HandlingOf>>
<1> SUFFICES ASSUME IFInv, [Next]_vars PROVE Channel!Next \/ UNCHANGED <<QueueOf, HandlingOf>>
  BY Zenon
<1>0. ASSUME fifo' = fifo, ring_entry' = ring_entry
      PROVE  UNCHANGED <<QueueOf, HandlingOf>>
  BY Zenon, <1>0 DEF QueueOf, HandlingOf
<1>1. CASE UNCHANGED vars
  BY Zenon, <1>0, <1>1 DEF vars, workVars
<1>2. ASSUME NEW i \in ISRs, IsrStep(i) \/ \E e \in Entries : kgd2kfd_interrupt(i, e)
      PROVE  Channel!Next \/ UNCHANGED <<QueueOf, HandlingOf>>
  <2>1. CASE enqueue_ih_ring_entry(i)
    <3>1. node[i] \in Nodes /\ entry[i] \in Entries
      BY Zenon, <2>1, EnqueueEffect
    <3> QED BY Zenon, <2>1, <3>1, EnqueueIsAccept DEF Channel!Next
  <2>2. CASE ~ enqueue_ih_ring_entry(i)
    BY Zenon, <1>0, <1>2, <2>2 DEF IsrStep, kgd2kfd_interrupt, IsrNode, IsrLock, IsrQueueWork, workVars
  <2> QED BY Zenon, <2>1, <2>2
<1>3. ASSUME late = NULL, NEW n \in Nodes, interrupt_wq(n) \/ kfd_interrupt_exit(n) \/ FreeNode(n)
      PROVE  Channel!Next \/ UNCHANGED <<QueueOf, HandlingOf>>
  <2>1. CASE StartWork(n)
    BY Zenon, <1>0, <2>1 DEF StartWork
  <2>2. CASE dequeue_ih_ring_entry(n)
    BY Zenon, <2>2, DequeueIsTake DEF Channel!Next
  <2>3. ASSUME NEW over \in BOOLEAN, EndOfHandling(n, over)
        PROVE  Channel!Next
    BY Zenon, <2>3, EndIsHandled DEF Channel!Next
  <2>4. CASE kfd_interrupt_exit(n)
    BY Zenon, <1>3, <2>4, ExitIsStutter
  <2>5. CASE FreeNode(n)
    BY Zenon, <1>0, <2>5 DEF FreeNode, workVars
  <2> QED BY Zenon, <1>3, <2>1, <2>2, <2>3, <2>4, <2>5 DEF interrupt_wq
<1>4. CASE amdgpu_irq_fini_hw \/ kgd2kfd_device_exit \/ flush_workqueue \/ FreeDevice
  BY Zenon, <1>0, <1>4 DEF amdgpu_irq_fini_hw, kgd2kfd_device_exit, flush_workqueue, FreeDevice, workVars
<1> QED BY Zenon, <1>1, <1>2, <1>3, <1>4 DEF Next, Step

(* The kfifo of words that enqueue_ih_ring_entry fills and dequeue_ih_ring_entry
   empties implements, for each node, a bounded queue of whole entries that are
   handled one at a time and in order.  It leaves open when entries are dropped,
   as that changes no queue: WantedEntriesAreKept is about that. *)
THEOREM FifoIsChannel == Spec => IsChannel
<1>1. IFInv /\ [Next]_vars =>
        [Channel!Next]_<<[n \in Nodes |-> EntriesOf(fifo[n])],
                         [n \in Nodes |-> IF ring_entry[n] = <<>> THEN <<>> ELSE <<EntryOf(ring_entry[n])>>]>>
  BY Zenon, NextIsChannel DEF QueueOf, HandlingOf
<1> QED BY IFInvariant, InitIsChannel, <1>1, PTL DEF Spec, IsChannel, Channel!Spec

(* What enqueue_ih_ring_entry may do with an entry that its node wants. *)
DropsOnlyWhenFull ==
    [][\A i \in ISRs :
         enqueue_ih_ring_entry(i) /\ active[node[i]] /\ NodeOf[entry[i]] = node[i] =>
             Channel!Accept(node[i], entry[i]) \/ Channel!Drop(node[i], entry[i])]_vars

(* enqueue_ih_ring_entry stores every entry that its node wants while interrupts
   are active, unless the kfifo has no room for a whole entry. *)
THEOREM WantedEntriesAreKept == Spec => DropsOnlyWhenFull
<1>1. IFInv /\ [Next]_vars =>
        [\A i \in ISRs :
           enqueue_ih_ring_entry(i) /\ active[node[i]] /\ NodeOf[entry[i]] = node[i] =>
               Channel!Accept(node[i], entry[i]) \/ Channel!Drop(node[i], entry[i])]_vars
  BY Zenon, WantedIsStored
<1> QED BY IFInvariant, <1>1, PTL DEF Spec, DropsOnlyWhenFull
=============================================================================
