---------------------------- MODULE GttSaProofs ----------------------------
(***************************************************************************)
(* Proofs about the GTT sub-allocator, for every number and size of chunks *)
(* and any set of objects and sizes.  The inductive invariant is IInv: the *)
(* three invariants callers care about, and SearchIsComplete, which says   *)
(* what a search in progress has ruled out.                                *)
(***************************************************************************)
EXTENDS GttSa, TLAPS

USE GttSaAssumption

IInv == TypeOK /\ ObjectsPartitionBitmap /\ ObjectsFit /\ SearchIsComplete

(* One more chunk adds ChunkSize bytes. *)
LEMMA OneMoreChunk ==
    ASSUME NEW n \in Int
    PROVE  (n + 1) * ChunkSize = n * ChunkSize + ChunkSize
BY SMT

(* Fewer chunks hold no more bytes. *)
LEMMA FewerChunks ==
    ASSUME NEW m \in Int, NEW n \in Int, m <= n
    PROVE  m * ChunkSize <= n * ChunkSize
BY SMT

(* A chunk that is taken is not the start of a free run. *)
LEMMA TakenDoesNotFit ==
    ASSUME NEW b \in bitmap, b \in Nat, NEW s
    PROVE  ~ Fits(b, s)
BY SMT DEF Fits

(* Nothing fits at a chunk that the search has passed when it ends at f. *)
LEMMA PassedInSearch ==
    ASSUME TypeOK, SearchIsComplete, pc = "search",
           NEW f \in Nat, IsNextZeroBit(f, start_search)
    PROVE  \A b \in 0 .. f - 1 : ~ Fits(b, size[obj])
<1> SUFFICES ASSUME NEW b \in 0 .. f - 1 PROVE ~ Fits(b, size[obj])
    OBVIOUS
<1>1. CASE b < start_search
    BY <1>1, SMT DEF SearchIsComplete, TypeOK
<1>2. CASE b >= start_search
    <2>1. b \in bitmap
        BY <1>2, SMT DEF IsNextZeroBit, TypeOK
    <2> QED BY <2>1, TakenDoesNotFit, SMT
<1> QED BY <1>1, <1>2, SMT DEF TypeOK

(* A run from b that stays in the chunks from range_start to found is shorter
   than what is asked for. *)
LEMMA ShortRun ==
    ASSUME TypeOK, SearchIsComplete, pc = "extend",
           NEW b \in Int, b >= range_start[obj], NEW e \in Int, e <= found
    PROVE  ~ ((e - b + 1) * ChunkSize >= size[obj])
<1> DEFINE r == range_start[obj]
<1>1. r \in Nat /\ size[obj] \in Nat /\ cur_size \in Nat /\ found \in Nat
    BY SMT DEF TypeOK
<1>2. cur_size > 0 /\ (found - r + 1) * ChunkSize = size[obj] - cur_size
    BY SMT DEF SearchIsComplete
<1>3. e - b + 1 \in Int /\ found - r + 1 \in Int /\ e - b + 1 <= found - r + 1
    BY <1>1, SMT
<1>4. (e - b + 1) * ChunkSize <= (found - r + 1) * ChunkSize
    BY <1>3, FewerChunks
<1>5. (e - b + 1) * ChunkSize \in Int
    BY <1>3, SMT
<1> QED BY <1>1, <1>2, <1>4, <1>5, SMT

(* Nothing fits up to found when the run cannot be extended. *)
LEMMA PassedInExtend ==
    ASSUME TypeOK, SearchIsComplete, pc = "extend",
           found + 1 \in bitmap \/ found + 1 = NumOfChunks
    PROVE  \A b \in 0 .. found : ~ Fits(b, size[obj])
<1> SUFFICES ASSUME NEW b \in 0 .. found,
                    NEW e \in b .. NumOfChunks - 1,
                    (e - b + 1) * ChunkSize >= size[obj],
                    (b .. e) \cap bitmap = {}
             PROVE  FALSE
    BY DEF Fits
<1>0. found \in Nat /\ range_start[obj] \in Nat
    BY SMT DEF TypeOK
<1>1. CASE b < range_start[obj]
    <2>1. b \in 0 .. range_start[obj] - 1
        BY <1>0, <1>1, SMT
    <2>2. ~ Fits(b, size[obj])
        BY <2>1, SMT DEF SearchIsComplete
    <2> QED BY <2>2 DEF Fits
<1>2. CASE b >= range_start[obj]
    <2>1. e <= found
        BY <1>0, SMT
    <2> QED BY <1>0, <1>2, <2>1, ShortRun, SMT
<1> QED BY <1>0, <1>1, <1>2, SMT

-----------------------------------------------------------------------------
(* The initial state satisfies the invariant. *)
LEMMA InitIInv == Init => IInv
BY SMT DEF Init, IInv, TypeOK, ObjectsPartitionBitmap, ObjectsFit, SearchIsComplete, Range, Chunks

(* Starting an allocation preserves the invariant. *)
LEMMA AllocatePreserves ==
    ASSUME IInv, NEW o \in Objs, NEW s \in Sizes, kfd_gtt_sa_allocate(o, s)
    PROVE  IInv'
<1> USE DEF IInv, kfd_gtt_sa_allocate
<1>1. TypeOK'
    BY SMT DEF TypeOK
<1>2. ObjectsPartitionBitmap'
    BY SMT DEF ObjectsPartitionBitmap, Range
<1>3. ObjectsFit'
    BY SMT DEF ObjectsFit, TypeOK
<1>4. SearchIsComplete'
    BY SMT DEF SearchIsComplete, TypeOK
<1> QED BY <1>1, <1>2, <1>3, <1>4

(* A search that fails preserves the invariant. *)
LEMMA NoFreeChunkPreserves ==
    ASSUME IInv, pc # "idle", NoFreeChunk
    PROVE  IInv'
<1> USE DEF IInv, NoFreeChunk, Return, Forget
<1>0. obj \in Objs \ live
    BY DEF TypeOK
<1>1. TypeOK'
    BY SMT DEF TypeOK
<1>2. ObjectsPartitionBitmap'
    <2>1. \A o \in live : range_start'[o] = range_start[o] /\ range_end'[o] = range_end[o]
        BY <1>0, SMT DEF TypeOK
    <2> QED BY <2>1, SMT DEF ObjectsPartitionBitmap, Range
<1>3. ObjectsFit'
    BY <1>0, SMT DEF ObjectsFit, TypeOK
<1>4. SearchIsComplete'
    BY SMT DEF SearchIsComplete
<1> QED BY <1>1, <1>2, <1>3, <1>4

(* Handing out a free range of the right size preserves the invariant. *)
LEMMA TakeRangePreserves ==
    ASSUME IInv, pc # "idle",
           NEW a \in Chunks, NEW z \in Chunks, a <= z,
           (a .. z) \cap bitmap = {},
           (z - a + 1) * ChunkSize >= size[obj],
           (z - a) * ChunkSize < size[obj],
           TakeRange(a, z)
    PROVE  IInv'
<1> USE DEF IInv, TakeRange, Return
<1>0. obj \in Objs \ live
    BY DEF TypeOK
<1>q. PICK q \in Objs : q = obj
    BY <1>0
<1>a. a \in Nat /\ z \in Nat /\ a .. z \subseteq Chunks
    BY SMT DEF Chunks
<1>b. \A o \in live : range_start'[o] = range_start[o] /\ range_end'[o] = range_end[o]
    BY <1>0, SMT DEF TypeOK
<1>c. range_start'[q] = a /\ range_end'[q] = z
    BY <1>0, <1>q, SMT DEF TypeOK
<1>1. TypeOK'
    BY <1>0, <1>a, SMT DEF TypeOK
<1>2. ObjectsPartitionBitmap'
    <2>1. \A o \in live : Range(o)' = Range(o)
        BY <1>b DEF Range
    <2>2. Range(q)' = a .. z
        BY <1>c DEF Range
    <2>3. (\A o \in live : Range(o) \subseteq bitmap) /\ bitmap = UNION {Range(o) : o \in live}
        BY DEF ObjectsPartitionBitmap
    <2> DEFINE new(o) == Range(o)'  old(o) == Range(o)
    <2>l. live' = live \cup {q} /\ bitmap' = bitmap \cup (a .. z) /\ q \notin live
        BY <1>0, <1>q
    <2>n. new(q) = a .. z /\ \A o \in live : new(o) = old(o)
        BY <2>1, <2>2
    <2>o. bitmap = UNION {old(o) : o \in live} /\ \A o \in live : old(o) \subseteq bitmap
        BY <2>3
    <2>d. \A o, p \in live : o # p => old(o) \cap old(p) = {}
        BY DEF ObjectsPartitionBitmap
    <2> HIDE DEF new, old
    <2>4. bitmap' = UNION {new(o) : o \in live'}
        <3>1. ASSUME NEW x \in bitmap' PROVE \E o \in live' : x \in new(o)
            <4>1. CASE x \in a .. z
                BY <4>1, <2>l, <2>n
            <4>2. CASE x \in bitmap
                <5>1. PICK o \in live : x \in old(o)
                    BY <4>2, <2>o
                <5> QED BY <5>1, <2>l, <2>n
            <4> QED BY <3>1, <4>1, <4>2, <2>l
        <3>2. ASSUME NEW o \in live' PROVE new(o) \subseteq bitmap'
            <4>1. CASE o = q
                BY <4>1, <2>l, <2>n
            <4>2. CASE o \in live
                BY <4>2, <2>l, <2>n, <2>o
            <4> QED BY <2>l, <4>1, <4>2
        <3> QED BY <3>1, <3>2
    <2>5. \A o, p \in live' : o # p => new(o) \cap new(p) = {}
        <3> SUFFICES ASSUME NEW o \in live', NEW p \in live', o # p
                     PROVE  new(o) \cap new(p) = {}
            OBVIOUS
        <3>1. CASE o = q
            BY <3>1, <2>l, <2>n, <2>o, SMT
        <3>2. CASE p = q
            BY <3>2, <2>l, <2>n, <2>o, SMT
        <3>3. CASE o \in live /\ p \in live
            BY <3>3, <2>n, <2>d, SMT
        <3> QED BY <2>l, <3>1, <3>2, <3>3
    <2>6. \A o \in live' : Range(o)' \subseteq Chunks
        BY <1>a, <1>q, <2>1, <2>2 DEF ObjectsPartitionBitmap
    <2> QED BY <2>4, <2>5, <2>6 DEF ObjectsPartitionBitmap, new
<1>3. ObjectsFit'
    <2>u. size' = size /\ live' = live \cup {q}
        BY <1>q
    <2> SUFFICES ASSUME NEW o \in live'
                 PROVE  /\ (range_end'[o] - range_start'[o] + 1) * ChunkSize >= size[o]
                        /\ (range_end'[o] - range_start'[o]) * ChunkSize < size[o]
        BY <2>u, Zenon DEF ObjectsFit
    <2>1. CASE o = q
        BY <2>1, <1>c, <1>q
    <2>2. CASE o \in live
        BY <2>2, <1>b, Zenon DEF ObjectsFit
    <2> QED BY <2>u, <2>1, <2>2
<1>4. SearchIsComplete'
    BY SMT DEF SearchIsComplete
<1> QED BY <1>1, <1>2, <1>3, <1>4

(* A turn of the search for a first chunk preserves the invariant. *)
LEMMA RestartPreserves ==
    ASSUME IInv, NEW f \in 0 .. NumOfChunks, RestartSearch(f)
    PROVE  IInv'
<1> USE DEF IInv
<1>0. pc = "search" /\ obj \in Objs \ live /\ size[obj] \in Nat /\ size[obj] > 0
    BY SMT DEF RestartSearch, TypeOK, SearchIsComplete
<1>p. \A b \in 0 .. f - 1 : ~ Fits(b, size[obj])
    BY PassedInSearch, SMT DEF RestartSearch
<1>f. f \in Nat /\ f \notin bitmap
    BY SMT DEF RestartSearch, IsNextZeroBit
<1>1. CASE f = NumOfChunks /\ NoFreeChunk
    BY <1>0, <1>1, NoFreeChunkPreserves
<1>2. CASE f # NumOfChunks /\ size[obj] <= ChunkSize /\ TakeRange(f, f)
    <2>1. f \in Chunks /\ (f .. f) \cap bitmap = {}
        BY <1>2, <1>f, SMT DEF Chunks
    <2>2. f - f + 1 = 1 /\ f - f = 0
        BY <1>f, SMT
    <2>3. (f - f + 1) * ChunkSize >= size[obj] /\ (f - f) * ChunkSize < size[obj]
        BY <1>0, <1>2, <2>2, SMT
    <2>4. f <= f
        BY <1>f, SMT
    <2> QED BY <1>0, <1>2, <2>1, <2>3, <2>4, TakeRangePreserves
<1>3. CASE /\ f # NumOfChunks /\ size[obj] > ChunkSize
           /\ range_start' = [range_start EXCEPT ![obj] = f]
           /\ range_end' = [range_end EXCEPT ![obj] = f]
           /\ found' = f
           /\ cur_size' = size[obj] - ChunkSize
           /\ pc' = "extend"
           /\ UNCHANGED <<bitmap, live, size, obj, start_search>>
    <2>1. TypeOK'
        BY <1>0, <1>3, <1>f, SMT DEF TypeOK
    <2>b. \A o \in live : range_start'[o] = range_start[o] /\ range_end'[o] = range_end[o]
        BY <1>0, <1>3, SMT DEF TypeOK
    <2>2. ObjectsPartitionBitmap'
        BY <1>3, <2>b, SMT DEF ObjectsPartitionBitmap, Range
    <2>3. ObjectsFit'
        BY <1>3, <2>b DEF ObjectsFit
    <2>4. SearchIsComplete'
        <3>1. range_start'[obj] = f
            BY <1>0, <1>3 DEF TypeOK
        <3>2. (f - f + 1) * ChunkSize = size[obj] - (size[obj] - ChunkSize)
            BY <1>0, <1>f, SMT
        <3>3. f < NumOfChunks /\ f <= f /\ size[obj] - ChunkSize > 0
            BY <1>0, <1>3, SMT
        <3>4. (f .. f) \cap bitmap = {}
            BY <1>f, SMT
        <3>5. (\A b \in 0 .. f - 1 : ~ Fits(b, size[obj]))'
            BY <1>p, <1>3 DEF Fits
        <3> QED BY <1>0, <1>3, <3>1, <3>2, <3>3, <3>4, <3>5 DEF SearchIsComplete
    <2> QED BY <2>1, <2>2, <2>3, <2>4
<1> QED BY <1>1, <1>2, <1>3 DEF RestartSearch

(* A turn of the loop that extends the run preserves the invariant. *)
LEMMA ExtendPreserves ==
    ASSUME IInv, NEW f \in 0 .. NumOfChunks, ExtendRange(f)
    PROVE  IInv'
<1> USE DEF IInv
<1> DEFINE r == range_start[obj]
<1>0. /\ pc = "extend" /\ obj \in Objs \ live /\ size[obj] \in Nat /\ size[obj] > 0
      /\ r \in Nat /\ found \in Nat /\ cur_size \in Nat
    BY SMT DEF ExtendRange, TypeOK, SearchIsComplete
<1>e. /\ r <= found /\ found < NumOfChunks
      /\ (r .. found) \cap bitmap = {}
      /\ cur_size > 0
      /\ (found - r + 1) * ChunkSize = size[obj] - cur_size
      /\ \A b \in 0 .. r - 1 : ~ Fits(b, size[obj])
    BY <1>0 DEF SearchIsComplete
<1>f. f \in Nat /\ f \in found + 1 .. NumOfChunks /\ f \notin bitmap /\ found + 1 .. f - 1 \subseteq bitmap
    BY SMT DEF ExtendRange, IsNextZeroBit
<1>1. CASE f # found + 1 /\ GapAt(f)
    <2>0. found + 1 \in bitmap
        BY <1>0, <1>1, <1>f, SMT
    <2>p. \A b \in 0 .. found : ~ Fits(b, size[obj])
        BY <1>0, <2>0, PassedInExtend
    <2>1. TypeOK'
        BY <1>0, <1>1, <1>e, <1>f, SMT DEF TypeOK, GapAt
    <2>b. \A o \in live : range_start'[o] = range_start[o] /\ range_end'[o] = range_end[o]
        BY <1>0, <1>1, SMT DEF TypeOK, GapAt
    <2>2. ObjectsPartitionBitmap'
        BY <1>1, <2>b, SMT DEF ObjectsPartitionBitmap, Range, GapAt
    <2>3. ObjectsFit'
        BY <1>1, <2>b DEF ObjectsFit, GapAt
    <2>4. SearchIsComplete'
        <3>1. \A b \in 0 .. (found + 1) - 1 : ~ Fits(b, size[obj])
            BY <2>p, <1>0, SMT
        <3>2. (\A b \in 0 .. start_search - 1 : ~ Fits(b, size[obj]))'
            BY <3>1, <1>1 DEF Fits, GapAt
        <3> QED BY <1>0, <1>1, <3>2 DEF SearchIsComplete, GapAt
    <2> QED BY <2>1, <2>2, <2>3, <2>4
<1>2. CASE f = found + 1 /\ f = NumOfChunks /\ NoFreeChunk
    BY <1>0, <1>2, NoFreeChunkPreserves
<1>r. f = found + 1 => (r .. f) \cap bitmap = {}
    BY <1>0, <1>e, <1>f, SMT
<1>m. f = found + 1 => (f - r + 1) * ChunkSize = (found - r + 1) * ChunkSize + ChunkSize
    <2>1. found - r + 1 \in Int
        BY <1>0, SMT
    <2>2. f = found + 1 => f - r + 1 = (found - r + 1) + 1
        BY <1>0, <1>f, SMT
    <2> QED BY <2>1, <2>2, OneMoreChunk
<1>3. CASE /\ f = found + 1 /\ f # NumOfChunks
           /\ cur_size <= ChunkSize
           /\ TakeRange(range_start[obj], f)
    <2>1. f \in Chunks /\ r \in Chunks /\ r <= f
        BY <1>0, <1>3, <1>e, <1>f, SMT DEF Chunks
    <2>2. (f - r + 1) * ChunkSize >= size[obj]
        BY <1>0, <1>3, <1>e, <1>m, SMT
    <2>3. f - r = found - r + 1
        BY <1>0, <1>3, SMT
    <2>4. (f - r) * ChunkSize < size[obj]
        BY <1>0, <1>e, <2>3, SMT
    <2> QED BY <1>0, <1>3, <1>r, <2>1, <2>2, <2>4, TakeRangePreserves
<1>4. CASE /\ f = found + 1 /\ f # NumOfChunks
           /\ cur_size > ChunkSize
           /\ cur_size' = cur_size - ChunkSize
           /\ found' = f
           /\ range_end' = [range_end EXCEPT ![obj] = f]
           /\ UNCHANGED <<bitmap, live, range_start, size, pc, obj, start_search>>
    <2>1. TypeOK'
        BY <1>0, <1>4, <1>f, SMT DEF TypeOK
    <2>b. \A o \in live : range_start'[o] = range_start[o] /\ range_end'[o] = range_end[o]
        BY <1>0, <1>4, SMT DEF TypeOK
    <2>2. ObjectsPartitionBitmap'
        BY <1>4, <2>b, SMT DEF ObjectsPartitionBitmap, Range
    <2>3. ObjectsFit'
        BY <1>4, <2>b DEF ObjectsFit
    <2>4. SearchIsComplete'
        <3>1. (f - r + 1) * ChunkSize = size[obj] - (cur_size - ChunkSize)
            BY <1>0, <1>4, <1>e, <1>m, SMT
        <3>2. r <= f /\ f < NumOfChunks /\ cur_size - ChunkSize > 0
            BY <1>0, <1>4, <1>e, <1>f, SMT
        <3>3. (\A b \in 0 .. range_start[obj] - 1 : ~ Fits(b, size[obj]))'
            BY <1>e, <1>4 DEF Fits
        <3> QED BY <1>0, <1>4, <1>r, <3>1, <3>2, <3>3 DEF SearchIsComplete
    <2> QED BY <2>1, <2>2, <2>3, <2>4
<1> QED BY <1>1, <1>2, <1>3, <1>4 DEF ExtendRange

(* Freeing an object preserves the invariant. *)
LEMMA FreePreserves ==
    ASSUME IInv, NEW o \in Objs, kfd_gtt_sa_free(o)
    PROVE  IInv'
<1> USE DEF IInv, kfd_gtt_sa_free, Forget
<1>b. \A q \in live' : q \in live /\ q # o /\ range_start'[q] = range_start[q]
                       /\ range_end'[q] = range_end[q] /\ size'[q] = size[q]
    BY SMT DEF TypeOK
<1>1. TypeOK'
    BY SMT DEF TypeOK, searchVars
<1>2. ObjectsPartitionBitmap'
    <2>1. \A q \in live' : Range(q)' = Range(q)
        BY <1>b DEF Range
    <2>2. bitmap = UNION {Range(q) : q \in live} /\ bitmap' = bitmap \ Range(o)
        BY DEF ObjectsPartitionBitmap, Range
    <2>3. \A q \in live : q # o => Range(q) \cap Range(o) = {}
        BY DEF ObjectsPartitionBitmap
    <2>4. bitmap' = UNION {Range(q)' : q \in live'}
        BY <1>b, <2>1, <2>2, <2>3, SMT
    <2>5. \A q, p \in live' : q # p => Range(q)' \cap Range(p)' = {}
        BY <1>b, <2>1 DEF ObjectsPartitionBitmap
    <2>6. \A q \in live' : Range(q)' \subseteq Chunks
        BY <1>b, <2>1 DEF ObjectsPartitionBitmap
    <2> QED BY <2>4, <2>5, <2>6 DEF ObjectsPartitionBitmap
<1>3. ObjectsFit'
    BY <1>b DEF ObjectsFit
<1>4. SearchIsComplete'
    BY SMT DEF SearchIsComplete, searchVars
<1> QED BY <1>1, <1>2, <1>3, <1>4

(* Every step preserves the invariant. *)
LEMMA NextIInv == IInv /\ [Next]_vars => IInv'
<1> SUFFICES ASSUME IInv, [Next]_vars PROVE IInv'
    OBVIOUS
<1>1. ASSUME NEW o \in Objs, kfd_gtt_sa_free(o) PROVE IInv'
    BY <1>1, FreePreserves
<1>2. ASSUME NEW o \in Objs, NEW s \in Sizes, kfd_gtt_sa_allocate(o, s) PROVE IInv'
    BY <1>2, AllocatePreserves
<1>3. ASSUME NEW f \in 0 .. NumOfChunks, RestartSearch(f) PROVE IInv'
    BY <1>3, RestartPreserves
<1>4. ASSUME NEW f \in 0 .. NumOfChunks, ExtendRange(f) PROVE IInv'
    BY <1>4, ExtendPreserves
<1>5. CASE UNCHANGED vars
    BY <1>5 DEF vars, searchVars, IInv, TypeOK, ObjectsPartitionBitmap, ObjectsFit,
                SearchIsComplete, Range, Fits
<1> QED BY <1>1, <1>2, <1>3, <1>4, <1>5 DEF Next, Search

(* The inductive invariant holds in every reachable state. *)
THEOREM GttInvariant == Spec => []IInv
BY InitIInv, NextIInv, PTL DEF Spec

(* For every buffer: the objects that callers of kfd_gtt_sa_allocate hold are
   disjoint, lie in the buffer and are exactly what the bitmap has marked. *)
THEOREM ObjectsAlwaysPartition == Spec => []ObjectsPartitionBitmap
<1>1. IInv => ObjectsPartitionBitmap
    BY DEF IInv
<1> QED BY <1>1, GttInvariant, PTL

(* For every buffer: an object has room for what was asked, and less than a
   chunk too much. *)
THEOREM ObjectsAlwaysFit == Spec => []ObjectsFit
<1>1. IInv => ObjectsFit
    BY DEF IInv
<1> QED BY <1>1, GttInvariant, PTL

(* A search ends without an object only after it has ruled out every chunk. *)
LEMMA FailingStep ==
    ASSUME IInv, Next, pc # "idle", pc' = "idle", live' = live
    PROVE  \A b \in Chunks : ~ Fits(b, size[obj])
<1> USE DEF IInv
<1>0. obj \in Objs \ live
    BY DEF TypeOK
<1>t. ~ \E a, z : TakeRange(a, z)
    BY <1>0 DEF TakeRange
<1>1. ASSUME NEW f \in 0 .. NumOfChunks, RestartSearch(f)
      PROVE  \A b \in Chunks : ~ Fits(b, size[obj])
    <2>1. f = NumOfChunks /\ pc = "search" /\ IsNextZeroBit(f, start_search)
        BY <1>1, <1>t DEF RestartSearch
    <2>2. \A b \in 0 .. f - 1 : ~ Fits(b, size[obj])
        BY <2>1, PassedInSearch
    <2> QED BY <2>1, <2>2 DEF Chunks
<1>2. ASSUME NEW f \in 0 .. NumOfChunks, ExtendRange(f)
      PROVE  \A b \in Chunks : ~ Fits(b, size[obj])
    <2>1. f = found + 1 /\ f = NumOfChunks /\ pc = "extend"
        BY <1>2, <1>t DEF ExtendRange, GapAt
    <2>2. \A b \in 0 .. found : ~ Fits(b, size[obj])
        BY <2>1, PassedInExtend
    <2>3. found = NumOfChunks - 1
        BY <2>1, SMT DEF TypeOK
    <2> QED BY <2>2, <2>3 DEF Chunks
<1>3. \E f \in 0 .. NumOfChunks : RestartSearch(f) \/ ExtendRange(f)
    BY DEF Next, Search, kfd_gtt_sa_free, kfd_gtt_sa_allocate
<1> QED BY <1>1, <1>2, <1>3

(* For every buffer: kfd_gtt_sa_allocate fails only if no run of free chunks
   is long enough. *)
THEOREM FailureMeansFull == Spec => FailsOnlyWhenFull
<1>1. IInv /\ [Next]_vars =>
        [pc # "idle" /\ pc' = "idle" /\ live' = live =>
           \A b \in Chunks : ~ Fits(b, size[obj])]_vars
    BY FailingStep
<1> QED BY <1>1, GttInvariant, PTL DEF Spec, FailsOnlyWhenFull

(* An object is handed out where the search found room, and not before. *)
LEMMA TakingStep ==
    ASSUME IInv, Next, NEW o \in Objs, o \in live' \ live
    PROVE  /\ Fits(range_start'[o], size[o])
           /\ \A b \in 0 .. range_start'[o] - 1 : ~ Fits(b, size[o])
<1> USE DEF IInv
<1> DEFINE Goal == /\ Fits(range_start'[o], size[o])
                   /\ \A b \in 0 .. range_start'[o] - 1 : ~ Fits(b, size[o])
<1>1. ASSUME NEW f \in 0 .. NumOfChunks, RestartSearch(f) PROVE Goal
    <2>1. /\ f # NumOfChunks /\ size[obj] <= ChunkSize /\ TakeRange(f, f)
          /\ pc = "search" /\ IsNextZeroBit(f, start_search)
        BY <1>1 DEF RestartSearch, NoFreeChunk
    <2>2. o = obj /\ range_start'[o] = f
        BY <2>1 DEF TakeRange, TypeOK
    <2>3. \A b \in 0 .. f - 1 : ~ Fits(b, size[obj])
        BY <2>1, PassedInSearch
    <2>4. f \in Nat /\ f <= NumOfChunks - 1 /\ (f .. f) \cap bitmap = {}
        BY <2>1, SMT DEF IsNextZeroBit
    <2>5. (f - f + 1) * ChunkSize >= size[obj]
        <3>1. size[obj] \in Nat /\ f - f + 1 = 1
            BY <2>2, <2>4, SMT DEF TypeOK
        <3> QED BY <2>1, <3>1, SMT
    <2>6. Fits(f, size[obj])
        BY <2>4, <2>5, SMT DEF Fits
    <2> QED BY <2>2, <2>3, <2>6
<1>2. ASSUME NEW f \in 0 .. NumOfChunks, ExtendRange(f) PROVE Goal
    <2> DEFINE r == range_start[obj]
    <2>1. /\ f = found + 1 /\ f # NumOfChunks /\ cur_size <= ChunkSize
          /\ TakeRange(r, f) /\ pc = "extend" /\ f \notin bitmap
        BY <1>2 DEF ExtendRange, NoFreeChunk, GapAt, IsNextZeroBit
    <2>2. o = obj /\ range_start'[o] = r
        BY <2>1 DEF TakeRange, TypeOK
    <2>0. r \in Nat /\ found \in Nat /\ cur_size \in Nat /\ size[obj] \in Nat
        BY <2>2, SMT DEF TypeOK
    <2>3. /\ r <= found
          /\ (r .. found) \cap bitmap = {}
          /\ (found - r + 1) * ChunkSize = size[obj] - cur_size
          /\ \A b \in 0 .. r - 1 : ~ Fits(b, size[obj])
        BY <2>1 DEF SearchIsComplete
    <2>4. r <= f /\ f <= NumOfChunks - 1 /\ (r .. f) \cap bitmap = {}
        BY <2>0, <2>1, <2>3, SMT
    <2>5. (f - r + 1) * ChunkSize >= size[obj]
        <3>1. found - r + 1 \in Int /\ f - r + 1 = (found - r + 1) + 1
            BY <2>0, <2>1, SMT
        <3>2. (f - r + 1) * ChunkSize = (found - r + 1) * ChunkSize + ChunkSize
            BY <3>1, OneMoreChunk
        <3> QED BY <2>0, <2>1, <2>3, <3>2, SMT
    <2>6. Fits(r, size[obj])
        BY <2>0, <2>4, <2>5, SMT DEF Fits
    <2> QED BY <2>2, <2>3, <2>6
<1>3. \E f \in 0 .. NumOfChunks : RestartSearch(f) \/ ExtendRange(f)
    BY DEF Next, Search, kfd_gtt_sa_free, kfd_gtt_sa_allocate
<1> QED BY <1>1, <1>2, <1>3

(* For every buffer: an object starts at the first chunk where it fits. *)
THEOREM AlwaysFirstFit == Spec => TakesFirstFit
<1>1. IInv /\ [Next]_vars =>
        [\A o \in Objs : o \in live' \ live =>
           /\ Fits(range_start'[o], size[o])
           /\ \A b \in 0 .. range_start'[o] - 1 : ~ Fits(b, size[o])]_vars
    BY TakingStep
<1> QED BY <1>1, GttInvariant, PTL DEF Spec, TakesFirstFit
=============================================================================
