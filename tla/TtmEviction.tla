---------------------------- MODULE TtmEviction ----------------------------
(***************************************************************************)
(* The eviction of a whole process: TTM asks for its memory by enabling    *)
(* the signal of its eviction fence, and suspend stops all processes       *)
(* (kfd_process.c, kfd_device.c, amdgpu_amdkfd_fence.c, and restoring the  *)
(* BOs from amdgpu_amdkfd_gpuvm.c).  Reset, which never restores the       *)
(* process, is left out, and so is its end.                                *)
(***************************************************************************)
EXTENDS EvictQueues

CONSTANTS
    MaxDevices, \* devices that suspend and resume the process
    MaxSuspends \* bound of this model on suspends

ASSUME TtmAssumption == MaxDevices \in Nat /\ MaxSuspends \in Nat

VARIABLES
    seqno, signaled,    \* the fence of the process
    last_seqno,         \* last_eviction_seqno
    moved,              \* external: TTM has moved BOs of the process
    evict_queued, evict_pc,       \* eviction_work is pending; its worker
    restore_queued, restore_pc,   \* restore_work is pending; its worker
    kfd_locked, suspends,         \* devices that are suspended; suspends so far
    lost,               \* history: an eviction failed, and nobody will undo it
    system_pc           \* the thread that suspends or resumes, under kfd_processes_mutex

fence == <<seqno, signaled, last_seqno, moved>>
works == <<evict_queued, evict_pc, restore_queued, restore_pc, lost>>
system_vars == <<kfd_locked, suspends, system_pc>>
ttm == <<fence, works, system_vars>>

InitTtm ==
    /\ seqno = 1 /\ signaled = FALSE /\ last_seqno = 0 /\ moved = FALSE
    /\ evict_queued = FALSE /\ evict_pc = "idle"
    /\ restore_queued = FALSE /\ restore_pc = "idle"
    /\ lost = FALSE
    /\ kfd_locked = 0 /\ suspends = 0 /\ system_pc = "idle"

(* Mutant: a running worker is taken for the eviction of the new fence. *)
schedule_evict_and_restore_process_UnlessRunning ==
    /\ ~ signaled /\ seqno # last_seqno /\ seqno <= setup.fences
    /\ last_seqno' = seqno
    /\ evict_queued' = (evict_queued \/ evict_pc = "idle")
    /\ UNCHANGED <<shared, seqno, signaled, moved, evict_pc, restore_queued, restore_pc, lost,
                   system_vars>>

(* amdkfd_fence_enable_signaling and kgd2kfd_schedule_evict_and_restore_process:
   one eviction for each fence. *)
schedule_evict_and_restore_process ==
    /\ ~ signaled /\ seqno # last_seqno /\ seqno <= setup.fences
    /\ last_seqno' = seqno
    /\ evict_queued' = TRUE
    /\ UNCHANGED <<shared, seqno, signaled, moved, evict_pc, restore_queued, restore_pc, lost,
                   system_vars>>

(* TTM moves a BO once its fences are signaled. *)
TtmMoves ==
    /\ signaled /\ ~ moved /\ lock = Free
    /\ moved' = TRUE
    /\ UNCHANGED <<shared, seqno, signaled, last_seqno, works, system_vars>>

-----------------------------------------------------------------------------
(* evict_process_worker stops the queues, *)
EvictStops ==
    /\ evict_pc = "idle" /\ evict_queued
    /\ evict_queued' = FALSE /\ evict_pc' = "signal"
    /\ evict_queues
    /\ UNCHANGED <<setup, lock, fails, fence, restore_queued, restore_pc, lost, system_vars>>

(* which may fail if they were running: it is counted, but the fence is not
   signaled and the restore is not scheduled, *)
EvictFails ==
    /\ evict_pc = "idle" /\ evict_queued
    /\ evicted = 0 /\ Fail
    /\ evict_queued' = FALSE /\ lost' = TRUE
    /\ evict_queues
    /\ UNCHANGED <<setup, lock, fence, evict_pc, restore_queued, restore_pc, system_vars>>

(* signals the fence; whoever signaled it before is responsible for the rest, *)
EvictSignals ==
    /\ evict_pc = "signal"
    /\ signaled' = TRUE
    /\ evict_pc' = IF signaled THEN "undo" ELSE "schedule"
    /\ UNCHANGED <<shared, seqno, last_seqno, moved, evict_queued, restore_queued, restore_pc,
                   lost, system_vars>>

(* Mutant: a restore that is pending already is not noticed. *)
EvictSchedulesRestore_Anyway ==
    /\ evict_pc = "schedule"
    /\ restore_queued' = TRUE
    /\ evict_pc' = "idle"
    /\ UNCHANGED <<shared, fence, evict_queued, restore_pc, lost, system_vars>>

(* schedules the restore (mod_delayed_work); one that is pending already does
   for both evictions, *)
EvictSchedulesRestore ==
    /\ evict_pc = "schedule"
    /\ restore_queued' = TRUE
    /\ evict_pc' = IF restore_queued THEN "undo" ELSE "idle"
    /\ UNCHANGED <<shared, fence, evict_queued, restore_pc, lost, system_vars>>

(* and then this one is undone. *)
EvictUndoes ==
    /\ evict_pc = "undo"
    /\ restore_queues /\ evict_pc' = "idle"
    /\ UNCHANGED <<setup, lock, fails, fence, evict_queued, restore_queued, restore_pc, lost,
                   system_vars>>

EvictWorker == EvictStops \/ EvictFails \/ EvictSignals \/ EvictSchedulesRestore \/ EvictUndoes

-----------------------------------------------------------------------------
(* Mutant: the old fence stays. *)
restore_process_bos_OldFence ==
    /\ lock = Free
    /\ moved' = FALSE
    /\ UNCHANGED <<seqno, signaled>>

(* amdgpu_amdkfd_gpuvm_restore_process_bos: the BOs are moved back, with a new
   fence if the old one is signaled. *)
restore_process_bos ==
    /\ lock = Free
    /\ moved' = FALSE
    /\ signaled' = FALSE
    /\ seqno' = IF signaled THEN seqno + 1 ELSE seqno

(* restore_process_worker *)
RestoreStarts ==
    /\ restore_pc = "idle" /\ restore_queued
    /\ restore_queued' = FALSE /\ restore_pc' = "bos"
    /\ UNCHANGED <<shared, fence, evict_queued, evict_pc, lost, system_vars>>

(* restores the BOs, or tries again later; a restore that is pending already
   does for both. *)
RestoreBos ==
    /\ restore_pc = "bos"
    /\ \/ /\ restore_process_bos /\ restore_pc' = "queues"
          /\ UNCHANGED <<fails, last_seqno, restore_queued>>
       \/ /\ Fail /\ lock = Free
          /\ restore_queued' = TRUE
          /\ restore_pc' = IF restore_queued THEN "queues" ELSE "idle"
          /\ UNCHANGED fence
    /\ UNCHANGED <<setup, evicted, lock, evict_queued, evict_pc, lost, system_vars>>

RestoreQueues ==
    /\ restore_pc = "queues"
    /\ restore_queues /\ restore_pc' = "idle"
    /\ UNCHANGED <<setup, lock, fails, fence, evict_queued, evict_pc, restore_queued, lost,
                   system_vars>>

RestoreWorker == RestoreStarts \/ RestoreBos \/ RestoreQueues

-----------------------------------------------------------------------------
(* kgd2kfd_suspend: the first device stops all processes
   (kfd_suspend_all_processes) ... *)
kgd2kfd_suspend ==
    /\ system_pc = "idle" /\ kfd_locked < MaxDevices /\ suspends < MaxSuspends
    /\ kfd_locked' = kfd_locked + 1 /\ suspends' = suspends + 1
    /\ IF kfd_locked = 0 THEN evict_queues /\ system_pc' = "signal"
       ELSE UNCHANGED <<evicted, system_pc>>
    /\ UNCHANGED <<setup, lock, fails, fence, works>>

(* ... and signals their fences. *)
SuspendSignals ==
    /\ system_pc = "signal"
    /\ signaled' = TRUE /\ system_pc' = "idle"
    /\ UNCHANGED <<shared, seqno, last_seqno, moved, works, kfd_locked, suspends>>

(* kgd2kfd_resume: the last device starts them (kfd_resume_all_processes). *)
kgd2kfd_resume ==
    /\ system_pc = "idle" /\ kfd_locked > 0
    /\ kfd_locked' = kfd_locked - 1
    /\ system_pc' = IF kfd_locked = 1 THEN "bos" ELSE "idle"
    /\ UNCHANGED <<shared, fence, works, suspends>>

ResumeBos ==
    /\ system_pc = "bos"
    /\ restore_process_bos /\ system_pc' = "queues"
    /\ UNCHANGED <<shared, last_seqno, works, kfd_locked, suspends>>

ResumeQueues ==
    /\ system_pc = "queues"
    /\ restore_queues /\ system_pc' = "idle"
    /\ UNCHANGED <<setup, lock, fails, fence, works, kfd_locked, suspends>>

System == SuspendSignals \/ kgd2kfd_resume \/ ResumeBos \/ ResumeQueues

TtmNext ==
    /\ setup.fences > 0
    /\ \/ schedule_evict_and_restore_process \/ TtmMoves \/ EvictWorker \/ RestoreWorker
       \/ kgd2kfd_suspend \/ System
=============================================================================
