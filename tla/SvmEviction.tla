---------------------------- MODULE SvmEviction ----------------------------
(***************************************************************************)
(* Shared virtual memory without retry faults (kfd_svm.c): the MMU         *)
(* notifier of a range stops the queues before its pages change, and       *)
(* svm_range_restore_work maps the ranges again and starts the queues.     *)
(* There is no common lock: a callback holds the lock of its range, and    *)
(* the counters are atomic.  The ranges are mapped from the start; setting *)
(* attributes, splitting, unmapping and migration are left out.            *)
(***************************************************************************)
EXTENDS EvictQueues

VARIABLES
    rver, rinv,      \* external: pages of each range; ranges whose pages are being changed
    rpte,            \* what the GPU page table maps
    rinvalid,        \* prange->invalid
    callback,        \* where the notifier of each range is
    evicted_ranges,
    svm_queued,      \* svms->restore_work is pending
    svm              \* the worker

svms == <<rver, rinv, rpte, rinvalid, callback, evicted_ranges, svm_queued, svm>>

Ranges == UNION {s.ranges : s \in Setups}
First(s) == CHOOSE x \in s : \A y \in s : x <= y
SvmIdle == [pc |-> "idle"]

InitSvm ==
    /\ rver = [r \in Ranges |-> 0] /\ rpte = [r \in Ranges |-> 0] /\ rinv = {}
    /\ rinvalid = [r \in Ranges |-> 0] /\ callback = [r \in Ranges |-> "none"]
    /\ evicted_ranges = 0 /\ svm_queued = FALSE /\ svm = SvmIdle

(* svm_range_evict counts the range as invalid, *)
svm_range_evict(r) ==
    /\ callback[r] = "none" /\ r \notin rinv /\ rver[r] < setup.maxver
    /\ rinv' = rinv \cup {r}
    /\ rinvalid' = [rinvalid EXCEPT ![r] = @ + 1]
    /\ callback' = [callback EXCEPT ![r] = "count"]
    /\ UNCHANGED <<shared, rver, rpte, evicted_ranges, svm_queued, svm>>

(* then counts the eviction; only the first one goes on, *)
EvictCounts(r) ==
    /\ callback[r] = "count"
    /\ evicted_ranges' = evicted_ranges + 1
    /\ callback' = [callback EXCEPT ![r] = IF evicted_ranges = 0 THEN "quiesce" ELSE "none"]
    /\ UNCHANGED <<shared, rver, rinv, rpte, rinvalid, svm_queued, svm>>

(* to stop the queues *)
EvictQuiesces(r) ==
    /\ callback[r] = "quiesce"
    /\ evict_queues
    /\ callback' = [callback EXCEPT ![r] = "queue"]
    /\ UNCHANGED <<setup, lock, fails, rver, rinv, rpte, rinvalid, evicted_ranges, svm_queued, svm>>

(* Mutant: the restore is left to the next eviction. *)
EvictSchedules_NotQueued(r) ==
    /\ callback[r] = "queue"
    /\ callback' = [callback EXCEPT ![r] = "none"]
    /\ UNCHANGED <<shared, rver, rinv, rpte, rinvalid, evicted_ranges, svm_queued, svm>>

(* and to schedule the restore. *)
EvictSchedules(r) ==
    /\ callback[r] = "queue"
    /\ svm_queued' = TRUE
    /\ callback' = [callback EXCEPT ![r] = "none"]
    /\ UNCHANGED <<shared, rver, rinv, rpte, rinvalid, evicted_ranges, svm>>

(* The callback has returned: the kernel changes the pages. *)
RangeChanges(r) ==
    /\ r \in rinv /\ callback[r] = "none"
    /\ rver' = [rver EXCEPT ![r] = @ + 1] /\ rinv' = rinv \ {r}
    /\ UNCHANGED <<shared, rpte, rinvalid, callback, evicted_ranges, svm_queued, svm>>

-----------------------------------------------------------------------------
(* svm_range_restore_work *)
SvmStart ==
    /\ svm.pc = "idle" /\ svm_queued
    /\ svm_queued' = FALSE
    /\ svm' = IF evicted_ranges = 0 THEN SvmIdle ELSE [pc |-> "lock"]
    /\ UNCHANGED <<shared, rver, rinv, rpte, rinvalid, callback, evicted_ranges>>

(* takes process_info->lock and reads the count, *)
SvmLocks ==
    /\ svm.pc = "lock" /\ lock = Free
    /\ lock' = [by |-> "svm"]
    /\ svm' = [pc |-> "scan", n |-> evicted_ranges, todo |-> setup.ranges]
    /\ UNCHANGED <<setup, evicted, fails, rver, rinv, rpte, rinvalid, callback, evicted_ranges,
                   svm_queued>>

SvmLater == svm' = SvmIdle /\ svm_queued' = TRUE /\ lock' = Free

(* looks at each range, *)
SvmScans ==
    LET r == First(svm.todo) IN
    /\ svm.pc = "scan" /\ svm.todo # {}
    /\ svm' = IF rinvalid[r] = 0 THEN [svm EXCEPT !.todo = @ \ {r}]
              ELSE [pc |-> "pages", n |-> svm.n, todo |-> svm.todo \ {r}, r |-> r,
                    invalid |-> rinvalid[r]]
    /\ UNCHANGED <<shared, rver, rinv, rpte, rinvalid, callback, evicted_ranges, svm_queued>>

(* gets the pages of an invalid one (svm_range_validate_and_map), *)
SvmGetsPages ==
    /\ svm.pc = "pages"
    /\ \/ /\ svm.r \notin rinv
          /\ svm' = [pc |-> "map", n |-> svm.n, todo |-> svm.todo, r |-> svm.r,
                     invalid |-> svm.invalid, got |-> rver[svm.r]]
          /\ UNCHANGED <<fails, lock, svm_queued>>
       \/ Fail /\ SvmLater
    /\ UNCHANGED <<setup, evicted, rver, rinv, rpte, rinvalid, callback, evicted_ranges>>

(* maps them under the lock of the range if they are still valid, *)
SvmMaps ==
    /\ svm.pc = "map" /\ callback[svm.r] = "none"
    /\ IF svm.r \in rinv \/ rver[svm.r] # svm.got THEN SvmLater /\ UNCHANGED rpte
       ELSE /\ rpte' = [rpte EXCEPT ![svm.r] = svm.got]
            /\ svm' = [svm EXCEPT !.pc = "clear"]
            /\ UNCHANGED <<lock, svm_queued>>
    /\ UNCHANGED <<setup, evicted, fails, rver, rinv, rinvalid, callback, evicted_ranges>>

(* Mutant: the range is valid whatever happened meanwhile. *)
SvmClears_Unchecked ==
    /\ svm.pc = "clear"
    /\ rinvalid' = [rinvalid EXCEPT ![svm.r] = 0]
    /\ svm' = [pc |-> "scan", n |-> svm.n, todo |-> svm.todo]
    /\ UNCHANGED <<shared, svm_queued, rver, rinv, rpte, callback, evicted_ranges>>

(* clears prange->invalid unless it was counted again, *)
SvmClears ==
    /\ svm.pc = "clear"
    /\ IF rinvalid[svm.r] # svm.invalid THEN SvmLater /\ UNCHANGED rinvalid
       ELSE /\ rinvalid' = [rinvalid EXCEPT ![svm.r] = 0]
            /\ svm' = [pc |-> "scan", n |-> svm.n, todo |-> svm.todo]
            /\ UNCHANGED <<lock, svm_queued>>
    /\ UNCHANGED <<setup, evicted, fails, rver, rinv, rpte, callback, evicted_ranges>>

(* resets the count unless there were evictions, *)
SvmFinishes ==
    /\ svm.pc = "scan" /\ svm.todo = {}
    /\ IF evicted_ranges # svm.n THEN SvmLater /\ UNCHANGED evicted_ranges
       ELSE /\ evicted_ranges' = 0
            /\ svm' = [pc |-> "resume"]
            /\ UNCHANGED <<lock, svm_queued>>
    /\ UNCHANGED <<setup, evicted, fails, rver, rinv, rpte, rinvalid, callback>>

(* and starts the queues. *)
SvmResumes ==
    /\ svm.pc = "resume"
    /\ restore_queues
    /\ svm' = SvmIdle /\ lock' = Free
    /\ UNCHANGED <<setup, fails, rver, rinv, rpte, rinvalid, callback, evicted_ranges, svm_queued>>

SvmWorker ==
    \/ SvmStart \/ SvmLocks \/ SvmScans \/ SvmGetsPages \/ SvmMaps \/ SvmClears \/ SvmFinishes
    \/ SvmResumes

SvmCallback(r) == EvictCounts(r) \/ EvictQuiesces(r) \/ EvictSchedules(r) \/ RangeChanges(r)

SvmNext == SvmWorker \/ \E r \in setup.ranges : svm_range_evict(r) \/ SvmCallback(r)
=============================================================================
