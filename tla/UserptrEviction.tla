-------------------------- MODULE UserptrEviction --------------------------
(***************************************************************************)
(* Buffer objects in user memory (amdgpu_amdkfd_gpuvm.c): the MMU notifier *)
(* stops the queues before the pages of a BO change, and a worker gets the *)
(* new pages, updates the GPU page tables and starts the queues.           *)
(*                                                                         *)
(* The pages behind a BO are a version number.  Sections under             *)
(* notifier_lock are single steps; process_info->lock is lock.  The ioctls *)
(* hold p->mutex throughout.  An address that is not mapped any more       *)
(* (EFAULT) and CRIU are left out.                                         *)
(***************************************************************************)
EXTENDS EvictQueues

VARIABLES
    ver, inv,      \* external: pages of each BO; BOs whose pages are being changed
    live, mapped,  \* BOs on the lists of the process; BOs that count as mapped
    freeing,       \* the BO, or None, whose notifier is being unregistered
    pages, pte,    \* ttm->pages; what the GPU page table maps
    invalid,       \* mem->invalid
    range,         \* mem->range: pages that are to be confirmed
    inval_list,    \* userptr_inval_list; the other live BOs are on userptr_valid_list
    system,        \* BOs on the lists that are in TTM_PL_SYSTEM
    evicted_bos,
    user_queued,   \* restore_userptr_work is pending
    user,          \* the worker
    warned         \* history: "User pages unexpectedly invalid"

mm == <<ver, inv>>
bo == <<live, mapped, freeing, pages, pte, invalid, range, inval_list, system>>
userWork == <<evicted_bos, user_queued, user, warned>>
userptr == <<mm, bo, userWork>>

Bos == UNION {s.bos : s \in Setups}
Least(s) == CHOOSE x \in s : \A y \in s : x <= y
UserIdle == [pc |-> "idle"]

InitUserptr ==
    /\ ver = [b \in Bos |-> 0] /\ inv = {} /\ live = {} /\ mapped = {} /\ freeing = None
    /\ pages = [b \in Bos |-> None] /\ pte = [b \in Bos |-> None]
    /\ invalid = [b \in Bos |-> 0] /\ range = [b \in Bos |-> None]
    /\ inval_list = {} /\ system = {} /\ evicted_bos = 0
    /\ user_queued = FALSE /\ user = UserIdle /\ warned = FALSE

-----------------------------------------------------------------------------
(* p->mutex is free. *)
NoIoctl == freeing = None /\ lock.by \notin {"init", "validate", "map"}

(* init_user_pages registers the notifier, *)
init_user_pages(b) ==
    /\ NoIoctl /\ lock = Free /\ b \in setup.bos \ (live \cup inv)
    /\ live' = live \cup {b}
    /\ lock' = [by |-> "init", bo |-> b]
    /\ UNCHANGED <<setup, evicted, fails, mm, mapped, freeing, pages, pte, invalid, range,
                   inval_list, system, userWork>>

(* gets the pages, *)
InitGetsPages ==
    /\ lock.by = "init" /\ lock.bo \notin inv
    /\ pages' = [pages EXCEPT ![lock.bo] = ver[lock.bo]]
    /\ lock' = [lock EXCEPT !.by = "validate"]
    /\ UNCHANGED <<setup, evicted, fails, mm, live, mapped, freeing, pte, invalid, range,
                   inval_list, system, userWork>>

(* and validates the BO; the pages may change before it releases the lock. *)
InitValidated ==
    /\ lock.by = "validate"
    /\ lock' = Free
    /\ UNCHANGED <<setup, evicted, fails, userptr>>

(* amdgpu_amdkfd_gpuvm_map_memory_to_gpu: invalid BOs, and BOs that are not
   validated yet, are left to the worker ... *)
MapLooks(b) ==
    /\ NoIoctl /\ lock = Free /\ b \in live \ mapped
    /\ lock' = [by |-> "map", bo |-> b, no_update |-> invalid[b] > 0 \/ b \in system]
    /\ UNCHANGED <<setup, evicted, fails, userptr>>

(* ... the others are mapped to the pages they have. *)
MapUpdates ==
    /\ lock.by = "map"
    /\ mapped' = mapped \cup {lock.bo}
    /\ pte' = IF lock.no_update THEN pte ELSE [pte EXCEPT ![lock.bo] = pages[lock.bo]]
    /\ lock' = Free
    /\ UNCHANGED <<setup, evicted, fails, mm, live, freeing, pages, invalid, range, inval_list,
                   system, userWork>>

(* A mapping that fails is undone, except when the entry is written and only
   the page directories cannot be updated. *)
MapFails ==
    /\ lock.by = "map" /\ Fail
    /\ pte' \in {pte} \cup
         IF lock.no_update THEN {} ELSE {[pte EXCEPT ![lock.bo] = v] : v \in {None, pages[lock.bo]}}
    /\ lock' = Free
    /\ UNCHANGED <<setup, evicted, mm, live, mapped, freeing, pages, invalid, range,
                   inval_list, system, userWork>>

(* amdgpu_amdkfd_gpuvm_unmap_memory_from_gpu does not take the lock. *)
unmap_memory_from_gpu(b) ==
    /\ NoIoctl /\ b \in mapped
    /\ mapped' = mapped \ {b}
    /\ pte' = [pte EXCEPT ![b] = None]
    /\ UNCHANGED <<shared, mm, live, freeing, pages, invalid, range, inval_list, system,
                   userWork>>

(* amdgpu_amdkfd_gpuvm_free_memory_of_gpu hides the BO from the workers; *)
free_memory_of_gpu(b) ==
    /\ NoIoctl /\ lock = Free /\ b \in live \ mapped
    /\ freeing' = b
    /\ live' = live \ {b} /\ inval_list' = inval_list \ {b} /\ system' = system \ {b}
    /\ UNCHANGED <<shared, mm, mapped, pages, pte, range, invalid, userWork>>

(* then, without the lock, amdgpu_hmm_unregister waits for the notifier, which
   may have stopped the queues for this BO, and the pages and the entry go.
   evicted_bos keeps counting the BO. *)
FreeUnregisters ==
    /\ freeing # None /\ freeing \notin inv
    /\ freeing' = None
    /\ pages' = [pages EXCEPT ![freeing] = None] /\ range' = [range EXCEPT ![freeing] = None]
    /\ invalid' = [invalid EXCEPT ![freeing] = 0] /\ pte' = [pte EXCEPT ![freeing] = None]
    /\ UNCHANGED <<shared, mm, live, mapped, inval_list, system, userWork>>

-----------------------------------------------------------------------------
(* amdgpu_amdkfd_evict_userptr, called before the pages of b change. *)
evict_userptr(b) ==
    /\ b \in (live \cup {freeing}) \ inv /\ ver[b] < setup.maxver
    /\ inv' = inv \cup {b}
    /\ invalid' = [invalid EXCEPT ![b] = @ + 1]
    /\ evicted_bos' = evicted_bos + 1
    /\ IF evicted_bos = 0 THEN evict_queues /\ user_queued' = TRUE
       ELSE UNCHANGED <<evicted, user_queued>>
    /\ UNCHANGED <<setup, lock, fails, ver, live, mapped, freeing, pages, pte, range,
                   inval_list, system, user, warned>>

(* The kernel changes the pages; whoever waits in mmu_interval_read_begin goes on. *)
PagesChange(b) ==
    /\ b \in inv
    /\ ver' = [ver EXCEPT ![b] = @ + 1] /\ inv' = inv \ {b}
    /\ UNCHANGED <<shared, bo, userWork>>

-----------------------------------------------------------------------------
(* amdgpu_amdkfd_restore_userptr_worker remembers evicted_bos, *)
UserStart ==
    /\ user.pc = "idle" /\ user_queued
    /\ user_queued' = FALSE
    /\ user' = IF evicted_bos = 0 THEN UserIdle ELSE [pc |-> "lock", n |-> evicted_bos]
    /\ UNCHANGED <<shared, mm, bo, evicted_bos, warned>>

(* goes on, in update_invalid_user_pages, to the next invalid BO of todo, *)
NextInvalid(n, todo, isInvalid, list) ==
    LET cand == {b \in todo : isInvalid[b] > 0}
        b    == Least(cand)
    IN IF cand # {}
       THEN [pc |-> "pages", n |-> n, bo |-> b, invalid |-> isInvalid[b],
             todo |-> {x \in todo : x > b}]
       ELSE [pc |-> IF list = {} THEN "confirm" ELSE "validate", n |-> n]

UserLocks ==
    /\ user.pc = "lock" /\ lock = Free
    /\ lock' = [by |-> "userptr"]
    /\ inval_list' = inval_list \cup {b \in live : invalid[b] > 0}
    /\ user' = NextInvalid(user.n, inval_list', invalid, inval_list')
    /\ UNCHANGED <<setup, evicted, fails, mm, live, mapped, freeing, pages, pte, invalid,
                   range, system, evicted_bos, user_queued, warned>>

(* gives up for now, *)
UserLater == user' = UserIdle /\ user_queued' = TRUE /\ lock' = Free

(* moves the BO to the system domain and gets its pages (either may fail), *)
UserGetsPages ==
    /\ user.pc = "pages"
    /\ \/ /\ user.bo \notin inv
          /\ system' = system \cup {user.bo}
          /\ pages' = [pages EXCEPT ![user.bo] = ver[user.bo]]
          /\ range' = [range EXCEPT ![user.bo] = ver[user.bo]]
          /\ user' = [user EXCEPT !.pc = "mark"]
          /\ UNCHANGED <<fails, lock, user_queued>>
       \/ /\ Fail /\ UserLater
          /\ system' \in {system, system \cup {user.bo}}
          /\ range' = [range EXCEPT ![user.bo] = None] /\ UNCHANGED pages
    /\ UNCHANGED <<setup, evicted, mm, live, mapped, freeing, pte, invalid, inval_list,
                   evicted_bos, warned>>

(* marks it valid "unless it was invalidated again concurrently", *)
UserMarksValid ==
    /\ user.pc = "mark"
    /\ IF invalid[user.bo] # user.invalid THEN UserLater /\ UNCHANGED invalid
       ELSE /\ invalid' = [invalid EXCEPT ![user.bo] = 0]
            /\ user' = NextInvalid(user.n, user.todo, invalid', inval_list)
            /\ UNCHANGED <<lock, user_queued>>
    /\ UNCHANGED <<setup, evicted, fails, mm, live, mapped, freeing, pages, pte, range,
                   inval_list, system, evicted_bos, warned>>

(* Mutant: the page table entries stay as they are. *)
Validates_NoUpdate(done) ==
    /\ system' = system \ done
    /\ UNCHANGED pte

(* validates the BOs done and updates their page table entries; *)
Validates(done) ==
    /\ system' = system \ done
    /\ pte' = [b \in Bos |-> IF b \in done \cap mapped THEN pages[b] ELSE pte[b]]

(* one whose entry cannot be written is invalid again, *)
UserValidates ==
    /\ user.pc = "validate"
    /\ \/ /\ Validates(inval_list)
          /\ user' = [pc |-> "confirm", n |-> user.n]
          /\ UNCHANGED <<fails, lock, user_queued, invalid>>
       \/ /\ Fail /\ UserLater
          /\ \E done \in SUBSET inval_list :
               /\ Validates(done)
               /\ \/ UNCHANGED invalid
                  \/ \E b \in inval_list \ done : invalid' = [invalid EXCEPT ![b] = @ + 1]
    /\ UNCHANGED <<setup, evicted, mm, live, mapped, freeing, pages, range, inval_list,
                   evicted_bos, warned>>

(* Mutant: the count is not compared. *)
UserConfirms_NotCompared ==
    LET has == {b \in inval_list : range[b] # None}
        bad == {b \in has : b \in inv \/ range[b] # ver[b] \/ invalid[b] > 0}
    IN
    /\ user.pc = "confirm"
    /\ range' = [b \in Bos |-> IF b \in has THEN None ELSE range[b]]
    /\ inval_list' = inval_list \ (has \ bad)
    /\ IF bad # {} THEN warned' = TRUE /\ UserLater /\ UNCHANGED <<evicted, evicted_bos>>
       ELSE /\ evicted_bos' = 0 /\ restore_queues
            /\ user' = UserIdle /\ lock' = Free /\ UNCHANGED <<warned, user_queued>>
    /\ UNCHANGED <<setup, fails, mm, live, mapped, freeing, pages, pte, invalid, system>>

(* and, when no eviction came in between, confirms the pages it has
   (confirm_valid_user_pages_locked) and starts the queues. *)
UserConfirms ==
    LET has == {b \in inval_list : range[b] # None}
        bad == {b \in has : b \in inv \/ range[b] # ver[b] \/ invalid[b] > 0}
    IN
    /\ user.pc = "confirm"
    /\ IF evicted_bos # user.n
         THEN UserLater /\ UNCHANGED <<range, inval_list, warned, evicted, evicted_bos>>
       ELSE /\ range' = [b \in Bos |-> IF b \in has THEN None ELSE range[b]]
            /\ inval_list' = inval_list \ (has \ bad)
            /\ IF bad # {}
                 THEN warned' = TRUE /\ UserLater /\ UNCHANGED <<evicted, evicted_bos>>
               ELSE /\ evicted_bos' = 0 /\ restore_queues
                    /\ user' = UserIdle /\ lock' = Free /\ UNCHANGED <<warned, user_queued>>
    /\ UNCHANGED <<setup, fails, mm, live, mapped, freeing, pages, pte, invalid, system>>

UserWorker ==
    \/ UserStart \/ UserLocks \/ UserGetsPages \/ UserMarksValid \/ UserValidates \/ UserConfirms

UserptrNext ==
    \/ UserWorker \/ InitGetsPages \/ InitValidated \/ MapUpdates \/ MapFails \/ FreeUnregisters
    \/ \E b \in setup.bos :
         \/ init_user_pages(b) \/ MapLooks(b) \/ unmap_memory_from_gpu(b) \/ free_memory_of_gpu(b)
         \/ evict_userptr(b) \/ PagesChange(b)
=============================================================================
