------------------------------- MODULE GttSa -------------------------------
(***************************************************************************)
(* The sub-allocator of the KFD's GTT buffer (kfd_gtt_sa_allocate and      *)
(* kfd_gtt_sa_free of kfd_device.c).  The buffer is cut into chunks with a *)
(* bitmap; an object is a run of chunks.  The search for a run is modelled *)
(* one turn of its loops at a time.  gtt_sa_lock is held for the whole     *)
(* search, so at most one search is under way and no object is freed       *)
(* meanwhile.                                                              *)
(***************************************************************************)
EXTENDS Integers, FiniteSets

CONSTANTS
    Objs,        \* struct kfd_mem_obj
    NULL,
    NumOfChunks, \* gtt_sa_num_of_chunks
    ChunkSize,   \* gtt_sa_chunk_size, in bytes
    Sizes        \* the sizes that callers ask for

ASSUME GttSaAssumption ==
    /\ NULL \notin Objs
    /\ NumOfChunks \in Nat \ {0}
    /\ ChunkSize \in Nat \ {0}
    /\ Sizes \subseteq Nat

VARIABLES
    bitmap,      \* gtt_sa_bitmap: the set of the chunks that are taken
    live,        \* the objects that callers hold
    range_start, range_end, \* these fields of each object
    size,        \* the size that was asked for, for each object
    pc,          \* of the holder of gtt_sa_lock: "idle", "search", "extend"
    obj,         \* its object, or NULL
    start_search, found, cur_size \* its local variables

searchVars == <<start_search, found, cur_size>>
vars == <<bitmap, live, range_start, range_end, size, pc, obj, searchVars>>

Chunks == 0 .. NumOfChunks - 1

(* External: find_next_zero_bit returns f when it starts at bit b. *)
IsNextZeroBit(f, b) ==
    /\ f \in b .. NumOfChunks
    /\ f \notin bitmap
    /\ b .. f - 1 \subseteq bitmap

(* kfd_gtt_sa_init *)
Init ==
    /\ bitmap = {}
    /\ live = {}
    /\ range_start = [o \in Objs |-> 0]
    /\ range_end = [o \in Objs |-> 0]
    /\ size = [o \in Objs |-> 0]
    /\ pc = "idle"
    /\ obj = NULL
    /\ start_search = 0 /\ found = 0 /\ cur_size = 0

(* kfd_gtt_sa_allocate up to the first search; it refuses a size of zero, and
   one larger than the buffer. *)
kfd_gtt_sa_allocate(o, s) ==
    /\ pc = "idle" /\ o \notin live
    /\ s # 0
    /\ s <= NumOfChunks * ChunkSize
    /\ obj' = o
    /\ size' = [size EXCEPT ![o] = s]
    /\ start_search' = 0
    /\ pc' = "search"
    /\ UNCHANGED <<bitmap, live, range_start, range_end, found, cur_size>>

(* The call returns; its locals are gone. *)
Return ==
    /\ pc' = "idle"
    /\ obj' = NULL
    /\ start_search' = 0 /\ found' = 0 /\ cur_size' = 0

(* kfree: what the fields of the object were no longer matters. *)
Forget(o) ==
    /\ range_start' = [range_start EXCEPT ![o] = 0]
    /\ range_end' = [range_end EXCEPT ![o] = 0]
    /\ size' = [size EXCEPT ![o] = 0]

(* kfd_gtt_no_free_chunk *)
NoFreeChunk ==
    /\ Forget(obj)
    /\ Return
    /\ UNCHANGED <<bitmap, live>>

(* The chunks first to last become the object's, and are marked. *)
TakeRange(first, last) ==
    /\ range_start' = [range_start EXCEPT ![obj] = first]
    /\ range_end' = [range_end EXCEPT ![obj] = last]
    /\ bitmap' = bitmap \cup (first .. last)
    /\ live' = live \cup {obj}
    /\ Return
    /\ UNCHANGED size

(* Mutant: the last free chunk is taken instead of the first. *)
RestartSearch_Last(f) ==
    /\ pc = "search" /\ f \notin bitmap
    /\ \/ f = NumOfChunks /\ Chunks \subseteq bitmap /\ NoFreeChunk
       \/ /\ f # NumOfChunks /\ size[obj] <= ChunkSize
          /\ f + 1 .. NumOfChunks - 1 \subseteq bitmap
          /\ TakeRange(f, f)
       \/ /\ f # NumOfChunks /\ size[obj] > ChunkSize
          /\ IsNextZeroBit(f, start_search)
          /\ range_start' = [range_start EXCEPT ![obj] = f]
          /\ range_end' = [range_end EXCEPT ![obj] = f]
          /\ found' = f
          /\ cur_size' = size[obj] - ChunkSize
          /\ pc' = "extend"
          /\ UNCHANGED <<bitmap, live, size, obj, start_search>>

(* kfd_gtt_restart_search: the first free chunk. *)
RestartSearch(f) ==
    /\ pc = "search" /\ IsNextZeroBit(f, start_search)
    /\ \/ f = NumOfChunks /\ NoFreeChunk
       \/ f # NumOfChunks /\ size[obj] <= ChunkSize /\ TakeRange(f, f)
       \/ /\ f # NumOfChunks /\ size[obj] > ChunkSize
          /\ range_start' = [range_start EXCEPT ![obj] = f]
          /\ range_end' = [range_end EXCEPT ![obj] = f]
          /\ found' = f
          /\ cur_size' = size[obj] - ChunkSize
          /\ pc' = "extend"
          /\ UNCHANGED <<bitmap, live, size, obj, start_search>>

(* Mutant: a search that meets a gap ends. *)
GapAt_NoRestart(f) == NoFreeChunk

(* Mutant: the gap is not skipped. *)
GapAt_Again(f) ==
    /\ range_end' = [range_end EXCEPT ![obj] = f]
    /\ found' = found + 1
    /\ pc' = "search"
    /\ UNCHANGED <<bitmap, live, range_start, size, obj, cur_size, start_search>>

(* The next free chunk, f, is not found + 1: the search goes on behind the gap. *)
GapAt(f) ==
    /\ range_end' = [range_end EXCEPT ![obj] = f]
    /\ found' = found + 1
    /\ start_search' = found + 1
    /\ pc' = "search"
    /\ UNCHANGED <<bitmap, live, range_start, size, obj, cur_size>>

(* A turn of the loop that looks for contiguous chunks. *)
ExtendRange(f) ==
    /\ pc = "extend" /\ IsNextZeroBit(f, found + 1)
    /\ \/ f # found + 1 /\ GapAt(f)
       \/ f = found + 1 /\ f = NumOfChunks /\ NoFreeChunk
       \/ /\ f = found + 1 /\ f # NumOfChunks
          /\ cur_size <= ChunkSize
          /\ TakeRange(range_start[obj], f)
       \/ /\ f = found + 1 /\ f # NumOfChunks
          /\ cur_size > ChunkSize
          /\ cur_size' = cur_size - ChunkSize
          /\ found' = f
          /\ range_end' = [range_end EXCEPT ![obj] = f]
          /\ UNCHANGED <<bitmap, live, range_start, size, pc, obj, start_search>>

(* Mutant: the first chunk only. *)
kfd_gtt_sa_free_OneChunk(o) ==
    /\ pc = "idle" /\ o \in live
    /\ bitmap' = bitmap \ {range_start[o]}
    /\ live' = live \ {o}
    /\ Forget(o)
    /\ UNCHANGED <<pc, obj, searchVars>>

(* kfd_gtt_sa_free *)
kfd_gtt_sa_free(o) ==
    /\ pc = "idle" /\ o \in live
    /\ bitmap' = bitmap \ (range_start[o] .. range_end[o])
    /\ live' = live \ {o}
    /\ Forget(o)
    /\ UNCHANGED <<pc, obj, searchVars>>

Search == \E f \in 0 .. NumOfChunks : RestartSearch(f) \/ ExtendRange(f)

Next ==
    \/ \E o \in Objs : kfd_gtt_sa_free(o) \/ \E s \in Sizes : kfd_gtt_sa_allocate(o, s)
    \/ Search

Spec == Init /\ [][Next]_vars

(* The holder of the lock goes on. *)
FairSpec == Spec /\ WF_vars(Search)
-----------------------------------------------------------------------------
Range(o) == range_start[o] .. range_end[o]

(* Every variable has its type; the lock holder has an object. *)
TypeOK ==
    /\ bitmap \subseteq Chunks
    /\ live \subseteq Objs
    /\ range_start \in [Objs -> Nat]
    /\ range_end \in [Objs -> Nat]
    /\ size \in [Objs -> Nat]
    /\ pc \in {"idle", "search", "extend"}
    /\ obj \in Objs \cup {NULL}
    /\ start_search \in 0 .. NumOfChunks
    /\ found \in 0 .. NumOfChunks
    /\ cur_size \in Nat
    /\ pc # "idle" => obj \in Objs \ live

(* The objects that callers hold share no chunk, lie inside the buffer, and
   are exactly what the bitmap has marked: nothing leaks and nothing is handed
   out twice. *)
ObjectsPartitionBitmap ==
    /\ bitmap = UNION {Range(o) : o \in live}
    /\ \A o, p \in live : o # p => Range(o) \cap Range(p) = {}
    /\ \A o \in live : Range(o) \subseteq Chunks

(* An object is large enough for what was asked, by less than a chunk. *)
ObjectsFit ==
    \A o \in live :
        /\ (range_end[o] - range_start[o] + 1) * ChunkSize >= size[o]
        /\ (range_end[o] - range_start[o]) * ChunkSize < size[o]

(* A run of free chunks that holds s bytes and starts at chunk b. *)
Fits(b, s) ==
    \E e \in b .. NumOfChunks - 1 : (e - b + 1) * ChunkSize >= s /\ (b .. e) \cap bitmap = {}

(* What a search has established: nothing fits at a chunk it has passed, and
   the run it is extending is free and still cur_size bytes short. *)
SearchIsComplete ==
    /\ pc # "idle" => size[obj] > 0
    /\ pc = "search" => \A b \in 0 .. start_search - 1 : ~ Fits(b, size[obj])
    /\ pc = "extend" =>
         LET r == range_start[obj] IN
         /\ r <= found /\ found < NumOfChunks
         /\ (r .. found) \cap bitmap = {}
         /\ cur_size > 0
         /\ (found - r + 1) * ChunkSize = size[obj] - cur_size
         /\ \A b \in 0 .. r - 1 : ~ Fits(b, size[obj])

(* kfd_gtt_sa_allocate fails only if no run of free chunks is long enough,
   however the free chunks are scattered. *)
FailsOnlyWhenFull ==
    [][pc # "idle" /\ pc' = "idle" /\ live' = live =>
         \A b \in Chunks : ~ Fits(b, size[obj])]_vars

(* The object starts at the first chunk where it fits. *)
TakesFirstFit ==
    [][\A o \in Objs : o \in live' \ live =>
         /\ Fits(range_start'[o], size[o])
         /\ \A b \in 0 .. range_start'[o] - 1 : ~ Fits(b, size[o])]_vars

(* The restarts of the search end. *)
SearchEnds == pc # "idle" ~> pc = "idle"
=============================================================================
