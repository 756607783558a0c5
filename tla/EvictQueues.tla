---------------------------- MODULE EvictQueues ----------------------------
(***************************************************************************)
(* What the evictors of a process share: the nesting count of evictions of *)
(* its queues (kfd_process_evict_queues, kfd_process_restore_queues, here  *)
(* on one device) and process_info->lock of its memory.  An eviction       *)
(* counts even if the scheduler fails (Dqm has what happens to the queues  *)
(* then); only evict_process_worker of TtmEviction heeds the error.        *)
(***************************************************************************)
EXTENDS Integers, FiniteSets

CONSTANTS
    Setups,   \* what the process has: its userptr BOs and its SVM ranges, both sets of
              \* numbers, and, as bounds of this model, how many of its fences TTM evicts
              \* (with 0, neither TTM nor the system does) and how often the pages of a
              \* BO or a range change
    MaxFails  \* bound of this model on evictions, restores and mappings that fail

ASSUME EvictAssumption ==
    /\ \A s \in Setups : /\ s.bos \subseteq Nat /\ s.ranges \subseteq Nat
                         /\ s.fences \in Nat /\ s.maxver \in Nat
    /\ MaxFails \in Nat

VARIABLES
    setup,    \* the process, which never changes
    evicted,  \* qpd->evicted: the queues may run when it is 0
    lock,     \* who holds process_info->lock
    fails     \* how many evictions, restores and mappings have failed

shared == <<setup, evicted, lock, fails>>

(* No address: a page table entry that is not valid. *)
None == -1

Free == [by |-> "nobody"]

InitShared ==
    /\ setup \in Setups
    /\ evicted = 0 /\ lock = Free /\ fails = 0

(* With one device, a failure leaves nothing to roll back. *)
evict_queues == evicted' = evicted + 1

(* "already restored, do nothing" *)
restore_queues == evicted' = IF evicted = 0 THEN 0 ELSE evicted - 1

Fail == fails < MaxFails /\ fails' = fails + 1
=============================================================================
