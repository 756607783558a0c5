------------------------------ MODULE Eviction ------------------------------
(***************************************************************************)
(* All evictors of a process together: TTM and suspend, the notifiers of   *)
(* its userptr BOs, and the notifiers of its SVM ranges.                   *)
(***************************************************************************)
EXTENDS TtmEviction, UserptrEviction, SvmEviction

vars == <<shared, ttm, userptr, svms>>

Init == InitShared /\ InitTtm /\ InitUserptr /\ InitSvm

Next ==
    \/ TtmNext /\ UNCHANGED <<userptr, svms>>
    \/ UserptrNext /\ UNCHANGED <<ttm, svms>>
    \/ SvmNext /\ UNCHANGED <<ttm, userptr>>

Spec == Init /\ [][Next]_vars

(* Workers run, callbacks return, pages are changed, a thread that holds the
   lock goes on, whoever waits for it gets it, and a suspended system resumes. *)
FairSpec ==
    /\ Spec
    /\ WF_vars(EvictWorker /\ UNCHANGED <<userptr, svms>>)
    /\ SF_vars(RestoreWorker /\ UNCHANGED <<userptr, svms>>)
    /\ SF_vars(System /\ UNCHANGED <<userptr, svms>>)
    /\ WF_vars(/\ InitGetsPages \/ InitValidated \/ MapUpdates \/ MapFails
               /\ UNCHANGED <<ttm, svms>>)
    /\ WF_vars(FreeUnregisters /\ UNCHANGED <<ttm, svms>>)
    /\ SF_vars(UserWorker /\ UNCHANGED <<ttm, svms>>)
    /\ SF_vars(SvmWorker /\ UNCHANGED <<ttm, userptr>>)
    /\ \A b \in Bos : WF_vars(PagesChange(b) /\ UNCHANGED <<ttm, svms>>)
    /\ \A r \in Ranges : WF_vars(SvmCallback(r) /\ UNCHANGED <<ttm, userptr>>)

-----------------------------------------------------------------------------
Count(P) == IF P THEN 1 ELSE 0

(* "multiple evictions from different sources can be nested safely": the count
   of evictions is that of the evictors that still have to restore the queues,
   and of the eviction, at most one, that failed and that nobody will undo. *)
HoldsAreCounted ==
    evicted =
        Count(lost) + Count(evict_pc # "idle") + Count(restore_queued)
        + Count(restore_pc # "idle")
        + Count(kfd_locked > 0 \/ system_pc # "idle")
        + Count(evicted_bos > 0)
        + Count(evicted_ranges > 0 /\ \A r \in Ranges : callback[r] # "quiesce")
        + Count(svm.pc = "resume")

(* While the queues may run, the GPU maps the pages a userptr BO has, and nobody
   is changing them. *)
UserPagesAreCurrent ==
    evicted = 0 => \A b \in mapped : b \notin inv /\ pte[b] = ver[b]

(* "User pages unexpectedly invalid" is never reported: whenever the count of
   evictions has not changed, the pages the worker got are valid. *)
PagesNeverUnexpected == ~ warned

(* While the queues may run, and no callback is on its way to stop them, the GPU
   maps the pages an SVM range has. *)
RangesAreCurrent ==
    evicted = 0 /\ (\A r \in Ranges : callback[r] \notin {"count", "quiesce"})
        => \A r \in Ranges : r \notin rinv /\ rpte[r] = rver[r]

(* "Anyone signaling an eviction fence must stop the queues first and schedule
   another restore worker": while the queues are not counted as evicted the fence
   is not signaled, and TTM has not moved memory of the process. *)
SignaledMeansStopped == evicted = 0 => ~ signaled /\ ~ moved

(* When memory is no longer invalidated and restores no longer fail, the queues
   of a process that was evicted, by whomever, run again, unless stopping them
   failed for evict_process_worker. *)
QueuesComeBack == (evicted > 0) ~> (evicted = Count(lost))

(* What TTM asked for happens: the fence is signaled, unless the eviction fails. *)
EvictionIsServed ==
    (last_seqno = seqno /\ ~ signaled) ~> (signaled \/ last_seqno # seqno \/ lost)

(* svm_range_evict: "Stop all queues of the process to ensure GPU doesn't access
   the memory, then return to let CPU evict the buffer and proceed CPU pagetable
   update": when a callback has returned, the queues are stopped. *)
StoppedOnReturn ==
    \A r \in Ranges : r \in rinv /\ callback[r] = "none" => evicted > 0
=============================================================================
