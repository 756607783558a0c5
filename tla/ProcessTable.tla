---------------------------- MODULE ProcessTable ----------------------------
(***************************************************************************)
(* The life of a kfd_process: kfd_create_process, the lookups, the files    *)
(* and the MMU notifier that hold references to it, the end of its address *)
(* space, the unloading of the driver, and the work that frees it.         *)
(***************************************************************************)
EXTENDS Naturals, FiniteSets

CONSTANTS
    Procs,      \* places for kfd_process structures, of which kzalloc takes the first
    Mms,        \* address spaces; each lives once
    Openers,    \* threads that open /dev/kfd, or debug a process, and their file
    Lookers,    \* interrupt workers and fences that look a process up
    Setups,     \* [mms, openers, lookers, events]: what a behaviour contains
    MaxLocks,   \* bound of kfd_locked
    NULL

ASSUME ProcessTableAssumption ==
    /\ Procs \subseteq Nat
    /\ NULL \notin Procs /\ NULL \notin Mms /\ NULL \notin Openers /\ NULL \notin {"unload", "unwind", "work"}
    /\ "unload" \notin Mms /\ "unload" \notin Openers
    /\ \A l \in Lookers : l \notin Mms /\ l \notin Procs
    /\ \A s \in Setups : s.mms \subseteq Mms /\ s.openers \subseteq Openers /\ s.lookers \subseteq Lookers

VARIABLES
    setup,
    allocated,  \* the structures that are not free
    table,      \* kfd_processes_table
    ref,        \* kref
    mm,         \* p->mm
    notifier,   \* the notifier and its mm: "none", "on" or "put", the mm as mm
    release,    \* release_work: "none", "queued", "running"
    evict,      \* eviction_work: subset of {"queued", "running"}
    restore,    \* restore_work: the same
    cancelled,  \* history: eviction_work was cancelled, the process being taken down
    late,       \* history: an eviction was scheduled after that
    astray,     \* history: a process was freed that a lookup or a work still uses
    space,      \* an address space: "alive", "exiting", "gone"
    mutex,      \* holder of kfd_processes_mutex
    kfd_locked, \* how often suspends, resets and a switch of partitions have locked KFD
    switching,  \* from kgd2kfd_check_and_lock_kfd to kgd2kfd_unlock_kfd
    opener,     \* [pc, mm, proc, flush]
    looker,     \* [pc, proc]; "found" is inside the srcu read section
    ending,     \* kfd_process_notifier_release, by mm, and kfd_cleanup_processes
    cleanup_list

objects == <<allocated, table, ref, mm, notifier, release>>
pending == <<evict, restore, cancelled, late>>
works == <<pending, astray>>
locking == <<kfd_locked, switching>>
system == <<setup, space, mutex, locking>>
actors == <<opener, looker, ending, cleanup_list>>
vars == <<objects, works, system, actors>>

Unload == "unload"
Idle == [pc |-> "idle", mm |-> NULL, proc |-> NULL, flush |-> {}]
NotEnding == [pc |-> "idle", proc |-> NULL, wait |-> {}]
NoNotifier == [state |-> "none", mm |-> NULL]
Away == [pc |-> "idle", proc |-> NULL]

Unloading == ending[Unload].pc # "idle"
Unloaded == ending[Unload].pc = "unloaded"
Over == Unloaded \/ astray # NULL
Reading == {l \in Lookers : looker[l].pc = "found"}

(* kref_put with kfd_process_ref_release. *)
kfd_unref_process(p) ==
    /\ ref' = [ref EXCEPT ![p] = @ - 1]
    /\ release' = IF ref[p] = 1 THEN [release EXCEPT ![p] = "queued"] ELSE release

Init ==
    /\ setup \in Setups
    /\ allocated = {} /\ table = {}
    /\ ref = [p \in Procs |-> 0]
    /\ mm = [p \in Procs |-> NULL]
    /\ notifier = [p \in Procs |-> NoNotifier]
    /\ release = [p \in Procs |-> "none"]
    /\ evict = [p \in Procs |-> {}] /\ restore = [p \in Procs |-> {}]
    /\ cancelled = {} /\ late = {} /\ astray = NULL
    /\ space = [m \in Mms |-> "alive"]
    /\ mutex = NULL /\ kfd_locked = 0 /\ switching = FALSE
    /\ opener = [o \in Openers |-> Idle]
    /\ looker = [l \in Lookers |-> Away]
    /\ ending = [a \in Mms \cup {Unload} |-> NotEnding]
    /\ cleanup_list = {}

-----------------------------------------------------------------------------
(* kfd_create_process for a thread of m, whose mm it holds with
   mmget_not_zero; flush_workqueue waits for the releases queued so far. *)
OpenStarts(o, m) ==
    /\ o \in setup.openers /\ m \in setup.mms /\ opener[o].pc = "idle" /\ ~ Unloading /\ space[m] = "alive"
    /\ opener' = [opener EXCEPT ![o] =
         [pc |-> "flush", mm |-> m, proc |-> NULL, flush |-> {p \in Procs : release[p] # "none"}]]
    /\ UNCHANGED <<objects, works, system, looker, ending, cleanup_list>>

(* Mutant: the table is searched before the mutex is taken. *)
OpenLocks_Unlocked(o) ==
    /\ opener[o].pc = "flush" /\ opener[o].flush = {} /\ mutex = NULL /\ kfd_locked = 0
    /\ opener' = [opener EXCEPT ![o].pc = "create"]
    /\ UNCHANGED <<objects, works, system, looker, ending, cleanup_list>>

(* Under kfd_processes_mutex: no process is made while KFD is locked, and one
   that a prior open has made is taken.  The mutex is kept for create_process. *)
OpenLocks(o) ==
    /\ opener[o].pc = "flush" /\ opener[o].flush = {} /\ mutex = NULL
    /\ \/ /\ kfd_locked > 0
          /\ opener' = [opener EXCEPT ![o] = Idle]
          /\ UNCHANGED <<objects, mutex>>
       \/ /\ kfd_locked = 0
          /\ \E p \in table :
               /\ mm[p] = opener[o].mm
               /\ opener' = [opener EXCEPT ![o].pc = "open", ![o].proc = p]
               /\ ref' = [ref EXCEPT ![p] = @ + 1]
          /\ UNCHANGED <<allocated, table, mm, notifier, release, mutex>>
       \/ /\ kfd_locked = 0
          /\ \A p \in table : mm[p] # opener[o].mm
          /\ opener' = [opener EXCEPT ![o].pc = "create"]
          /\ mutex' = o
          /\ UNCHANGED objects
    /\ UNCHANGED <<works, setup, space, locking, looker, ending, cleanup_list>>

(* create_process up to mmu_notifier_get: it fails, or the process is in the
   table with two references, one of them against free_notifier. *)
create_process(o) ==
    /\ opener[o].pc = "create"
    /\ \/ /\ "fail" \in setup.events
          /\ opener' = [opener EXCEPT ![o] = Idle]
          /\ mutex' = NULL
          /\ UNCHANGED <<objects, cancelled, late>>
       \/ \E p \in Procs \ allocated :
          /\ \A q \in Procs : q < p => q \in allocated
          /\ allocated' = allocated \cup {p}
          /\ table' = table \cup {p}
          /\ ref' = [ref EXCEPT ![p] = 2]
          /\ mm' = [mm EXCEPT ![p] = opener[o].mm]
          /\ cancelled' = cancelled \ {p} /\ late' = late \ {p}
          /\ opener' = [opener EXCEPT ![o].pc = "register", ![o].proc = p]
          /\ UNCHANGED <<notifier, release, mutex>>
    /\ UNCHANGED <<evict, restore, astray, setup, space, locking, looker, ending, cleanup_list>>

(* Mutant: the reference against free_notifier is kept. *)
Registers_KeepsReference(o) ==
    LET p == opener[o].proc IN
    /\ opener[o].pc = "register"
    /\ notifier' = [notifier EXCEPT ![p] = [state |-> "on", mm |-> opener[o].mm]]
    /\ ref' = [ref EXCEPT ![p] = @ + 1]
    /\ opener' = [opener EXCEPT ![o].pc = "open"]
    /\ mutex' = NULL
    /\ UNCHANGED <<allocated, table, mm, release, works, setup, space, locking,
                   looker, ending, cleanup_list>>

(* mmu_notifier_get succeeds: the notifier has a reference; create_process drops
   its second one and kfd_create_process takes one for its caller. *)
Registers(o) ==
    LET p == opener[o].proc IN
    /\ opener[o].pc = "register"
    /\ notifier' = [notifier EXCEPT ![p] = [state |-> "on", mm |-> opener[o].mm]]
    /\ opener' = [opener EXCEPT ![o].pc = "open"]
    /\ mutex' = NULL
    /\ UNCHANGED <<allocated, table, ref, mm, release, works, setup, space, locking,
                   looker, ending, cleanup_list>>

(* mmu_notifier_get fails and calls free_notifier, which drops a reference;
   err_register_notifier takes the process from the table and frees it. *)
RegisterFails(o) ==
    LET p == opener[o].proc IN
    /\ opener[o].pc = "register" /\ "fail" \in setup.events
    /\ kfd_unref_process(p)
    /\ opener' = [opener EXCEPT ![o].pc = "unwind"]
    /\ UNCHANGED <<allocated, table, mm, notifier, works, system, looker, ending, cleanup_list>>

(* Nothing tells those who found the process meanwhile. *)
Unwinds(o) ==
    LET p == opener[o].proc IN
    /\ opener[o].pc = "unwind"
    /\ table' = table \ {p}
    /\ allocated' = allocated \ {p}
    /\ ref' = [ref EXCEPT ![p] = 0]
    /\ mm' = [mm EXCEPT ![p] = NULL]
    /\ opener' = [opener EXCEPT ![o] = Idle]
    /\ mutex' = NULL
    /\ astray' = IF (\E l \in Lookers : looker[l].proc = p) \/ evict[p] \cup restore[p] # {}
                 THEN "unwind" ELSE astray
    /\ UNCHANGED <<notifier, release, pending, setup, space, locking, looker, ending, cleanup_list>>

(* kfd_release, kfd_open whose kfd_process_init_cwsr_apu fails, or a debugger
   that lets its target go. *)
kfd_release(o) ==
    /\ opener[o].pc = "open"
    /\ kfd_unref_process(opener[o].proc)
    /\ opener' = [opener EXCEPT ![o] = Idle]
    /\ UNCHANGED <<allocated, table, mm, notifier, works, system, looker, ending, cleanup_list>>

-----------------------------------------------------------------------------
(* kfd_lookup_process_by_pasid, _by_mm and _by_pid: the process is found inside
   the srcu read section, and its reference taken before the section ends. *)
LookupFinds(l) ==
    /\ l \in setup.lookers /\ looker[l].pc = "idle"
    /\ \E p \in table : looker' = [looker EXCEPT ![l] = [pc |-> "found", proc |-> p]]
    /\ UNCHANGED <<objects, works, system, opener, ending, cleanup_list>>

LookupTakes(l) ==
    /\ looker[l].pc = "found"
    /\ ref' = [ref EXCEPT ![looker[l].proc] = @ + 1]
    /\ looker' = [looker EXCEPT ![l].pc = "held"]
    /\ ending' = [a \in DOMAIN ending |-> [ending[a] EXCEPT !.wait = @ \ {l}]]
    /\ UNCHANGED <<allocated, table, mm, notifier, release, works, system, opener, cleanup_list>>

(* kgd2kfd_schedule_evict_and_restore_process, for a new fence. *)
SchedulesEviction(l) ==
    /\ looker[l].pc = "held" /\ "evict" \in setup.events
    /\ evict' = [evict EXCEPT ![looker[l].proc] = @ \cup {"queued"}]
    /\ late' = late \cup ({looker[l].proc} \cap cancelled)
    /\ looker' = [looker EXCEPT ![l].pc = "put"]
    /\ UNCHANGED <<objects, restore, cancelled, astray, system, opener, ending, cleanup_list>>

LookupEnds(l) ==
    /\ looker[l].pc \in {"held", "put"}
    /\ kfd_unref_process(looker[l].proc)
    /\ looker' = [looker EXCEPT ![l] = Away]
    /\ UNCHANGED <<allocated, table, mm, notifier, works, system, opener, ending, cleanup_list>>

-----------------------------------------------------------------------------
(* A work that cancel_delayed_work_sync waits for is not started again. *)
Cancelled(p, pc) == \E a \in DOMAIN ending : ending[a].proc = p /\ ending[a].pc = pc

EvictWorks(p) ==
    /\ \/ /\ evict[p] = {"queued"} /\ ~ Cancelled(p, "cancel_evict")
          /\ evict' = [evict EXCEPT ![p] = {"running"}]
          /\ UNCHANGED restore
       \/ /\ "running" \in evict[p]
          /\ evict' = [evict EXCEPT ![p] = @ \ {"running"}]
          /\ restore' \in {restore, [restore EXCEPT ![p] = @ \cup {"queued"}]}
    /\ UNCHANGED <<objects, cancelled, late, astray, system, actors>>

RestoreWorks(p) ==
    /\ \/ /\ restore[p] = {"queued"} /\ ~ Cancelled(p, "cancel_restore")
          /\ restore' = [restore EXCEPT ![p] = {"running"}]
       \/ /\ "running" \in restore[p]
          /\ restore' \in {[restore EXCEPT ![p] = @ \ {"running"}], [restore EXCEPT ![p] = {"queued"}]}
    /\ UNCHANGED <<objects, evict, cancelled, late, astray, system, actors>>

(* kfd_process_wq_release, which trusts that no work of the process is left. *)
wq_release(p) ==
    /\ \/ /\ release[p] = "queued"
          /\ release' = [release EXCEPT ![p] = "running"]
          /\ UNCHANGED <<allocated, mm, opener, astray>>
       \/ /\ release[p] = "running"
          /\ release' = [release EXCEPT ![p] = "none"]
          /\ allocated' = allocated \ {p}
          /\ mm' = [mm EXCEPT ![p] = NULL]
          /\ opener' = [o \in Openers |-> [opener[o] EXCEPT !.flush = @ \ {p}]]
          /\ astray' = IF p \in late /\ evict[p] \cup restore[p] # {} THEN "work" ELSE astray
    /\ UNCHANGED <<table, ref, notifier, pending, system, looker, ending, cleanup_list>>

-----------------------------------------------------------------------------
Ends(a, pc) == ending' = [ending EXCEPT ![a].pc = pc]
EndsQuietly(m) ==
    /\ ending' = [ending EXCEPT ![m] = NotEnding, ![Unload].wait = @ \ {m}]
    /\ space' = [space EXCEPT ![m] = "gone"]

(* The last user of m is gone: exit_mmap calls the notifier registered for m. *)
exit_mmap(m) ==
    /\ m \in setup.mms /\ space[m] = "alive"
    /\ \A o \in Openers : opener[o].mm = m => opener[o].pc \in {"idle", "open"}
    /\ \/ \E p \in Procs :
            /\ notifier[p] = [state |-> "on", mm |-> m]
            /\ space' = [space EXCEPT ![m] = "exiting"]
            /\ ending' = [ending EXCEPT ![m] = [pc |-> "check", proc |-> p, wait |-> {}]]
       \/ /\ \A p \in Procs : notifier[p] # [state |-> "on", mm |-> m]
          /\ EndsQuietly(m)
    /\ UNCHANGED <<objects, works, setup, mutex, locking, opener, looker, cleanup_list>>

(* kfd_process_notifier_release: WARN_ON(p->mm != mm). *)
ReleaseChecks(m) ==
    /\ ending[m].pc = "check"
    /\ IF mm[ending[m].proc] = m THEN Ends(m, "lock") /\ UNCHANGED space ELSE EndsQuietly(m)
    /\ UNCHANGED <<objects, works, setup, mutex, locking, opener, looker, cleanup_list>>

(* Mutant: early return also when the process is the only one. *)
ReleaseRemoves_NotLast(m) ==
    /\ ending[m].pc = "lock" /\ mutex = NULL
    /\ \/ /\ table \subseteq {ending[m].proc}
          /\ EndsQuietly(m)
          /\ UNCHANGED table
       \/ /\ ~ table \subseteq {ending[m].proc}
          /\ table' = table \ {ending[m].proc}
          /\ ending' = [ending EXCEPT ![m].pc = "sync", ![m].wait = Reading]
          /\ UNCHANGED space
    /\ UNCHANGED <<allocated, ref, mm, notifier, release, works, setup, mutex, locking,
                   opener, looker, cleanup_list>>

(* Mutant: no early return. *)
ReleaseRemoves_Always(m) ==
    /\ ending[m].pc = "lock" /\ mutex = NULL
    /\ table' = table \ {ending[m].proc}
    /\ ending' = [ending EXCEPT ![m].pc = "sync", ![m].wait = Reading]
    /\ UNCHANGED <<allocated, ref, mm, notifier, release, works, system, opener, looker, cleanup_list>>

(* Mutant: no synchronize_srcu. *)
ReleaseRemoves_NoSync(m) ==
    /\ ending[m].pc = "lock" /\ mutex = NULL
    /\ \/ /\ table = {}
          /\ EndsQuietly(m)
          /\ UNCHANGED table
       \/ /\ table # {}
          /\ table' = table \ {ending[m].proc}
          /\ Ends(m, "cancel_evict")
          /\ UNCHANGED space
    /\ UNCHANGED <<allocated, ref, mm, notifier, release, works, setup, mutex, locking,
                   opener, looker, cleanup_list>>

(* "Do early return if table is empty"; else the process is taken from the table
   and synchronize_srcu waits for those who may just have found it. *)
ReleaseRemoves(m) ==
    /\ ending[m].pc = "lock" /\ mutex = NULL
    /\ \/ /\ table = {}
          /\ EndsQuietly(m)
          /\ UNCHANGED table
       \/ /\ table # {}
          /\ table' = table \ {ending[m].proc}
          /\ ending' = [ending EXCEPT ![m].pc = "sync", ![m].wait = Reading]
          /\ UNCHANGED space
    /\ UNCHANGED <<allocated, ref, mm, notifier, release, works, setup, mutex, locking,
                   opener, looker, cleanup_list>>

ReleaseSynchronizes(m) ==
    /\ ending[m].pc = "sync" /\ ending[m].wait = {}
    /\ Ends(m, "cancel_evict")
    /\ UNCHANGED <<objects, works, system, opener, looker, cleanup_list>>

(* kfd_process_notifier_release_internal, for an mm or for kfd_cleanup_processes:
   both works are cancelled, p->mm is cleared and the notifier put. *)
Cancels(a) ==
    LET p == ending[a].proc IN
    /\ \/ /\ ending[a].pc = "cancel_evict" /\ "running" \notin evict[p]
          /\ evict' = [evict EXCEPT ![p] = {}]
          /\ cancelled' = cancelled \cup {p}
          /\ Ends(a, "cancel_restore")
          /\ UNCHANGED restore
       \/ /\ ending[a].pc = "cancel_restore" /\ "running" \notin restore[p]
          /\ restore' = [restore EXCEPT ![p] = {}]
          /\ Ends(a, "clear")
          /\ UNCHANGED <<evict, cancelled>>
    /\ UNCHANGED <<objects, late, astray, system, opener, looker, cleanup_list>>

ClearsMm(a) ==
    /\ ending[a].pc = "clear"
    /\ mm' = [mm EXCEPT ![ending[a].proc] = NULL]
    /\ Ends(a, "put")
    /\ UNCHANGED <<allocated, table, ref, notifier, release, works, system, opener, looker, cleanup_list>>

PutsNotifier(a) ==
    /\ ending[a].pc = "put"
    /\ notifier' = [notifier EXCEPT ![ending[a].proc].state = "put"]
    /\ IF a = Unload THEN ending' = [ending EXCEPT ![a] = [NotEnding EXCEPT !.pc = "next"]] /\ UNCHANGED space
                     ELSE EndsQuietly(a)
    /\ UNCHANGED <<allocated, table, ref, mm, release, works, setup, mutex, locking,
                   opener, looker, cleanup_list>>

(* After a grace period, when no callback runs on it, a notifier that was put is
   freed: kfd_process_free_notifier drops its reference. *)
free_notifier(p) ==
    /\ notifier[p].state = "put"
    /\ \A m \in Mms : ending[m].proc # p
    /\ notifier' = [notifier EXCEPT ![p] = NoNotifier]
    /\ ending' = [ending EXCEPT ![Unload].wait = @ \ {p}]
    /\ kfd_unref_process(p)
    /\ UNCHANGED <<allocated, table, mm, works, system, opener, looker, cleanup_list>>

-----------------------------------------------------------------------------
(* kgd2kfd_check_and_lock_kfd and kgd2kfd_unlock_kfd, around a switch of partitions. *)
check_and_lock_kfd ==
    /\ mutex = NULL /\ table = {} /\ kfd_locked = 0 /\ "lock" \in setup.events
    /\ kfd_locked' = kfd_locked + 1 /\ switching' = TRUE
    /\ UNCHANGED <<objects, works, setup, space, mutex, actors>>

unlock_kfd ==
    /\ mutex = NULL /\ switching
    /\ kfd_locked' = kfd_locked - 1 /\ switching' = FALSE
    /\ UNCHANGED <<objects, works, setup, space, mutex, actors>>

(* kgd2kfd_suspend of a device, at a suspend or before a reset, whatever is in the
   table; kgd2kfd_resume and kgd2kfd_post_reset that do not fail. *)
kgd2kfd_suspend ==
    /\ mutex = NULL /\ "suspend" \in setup.events /\ kfd_locked < MaxLocks
    /\ kfd_locked' = kfd_locked + 1
    /\ UNCHANGED <<objects, works, setup, space, mutex, switching, actors>>

kgd2kfd_resume ==
    /\ mutex = NULL /\ kfd_locked > (IF switching THEN 1 ELSE 0)
    /\ kfd_locked' = kfd_locked - 1
    /\ UNCHANGED <<objects, works, setup, space, mutex, switching, actors>>

(* kfd_cleanup_processes, when the module has no users: under the mutex all
   processes move to a list of its own, each after a synchronize_srcu. *)
UnloadLocks ==
    /\ "unload" \in setup.events /\ ~ Unloading /\ mutex = NULL
    /\ \A o \in Openers : opener[o].pc = "idle"
    /\ mutex' = Unload
    /\ Ends(Unload, "move")
    /\ UNCHANGED <<objects, works, setup, space, locking, opener, looker, cleanup_list>>

(* Mutant: the mutex is not released. *)
UnloadMoves_KeepsMutex ==
    /\ \/ /\ ending[Unload].pc = "move"
          /\ \E p \in table :
               /\ table' = table \ {p}
               /\ ending' = [ending EXCEPT ![Unload] = [pc |-> "sync", proc |-> p, wait |-> Reading]]
          /\ UNCHANGED <<cleanup_list, mutex>>
       \/ /\ ending[Unload].pc = "sync" /\ ending[Unload].wait = {}
          /\ cleanup_list' = cleanup_list \cup {ending[Unload].proc}
          /\ ending' = [ending EXCEPT ![Unload] = [NotEnding EXCEPT !.pc = "move"]]
          /\ UNCHANGED <<table, mutex>>
       \/ /\ ending[Unload].pc = "move" /\ table = {}
          /\ Ends(Unload, "next")
          /\ UNCHANGED <<table, mutex, cleanup_list>>
    /\ UNCHANGED <<allocated, ref, mm, notifier, release, works, setup, space, locking, opener, looker>>

UnloadMoves ==
    /\ \/ /\ ending[Unload].pc = "move"
          /\ \E p \in table :
               /\ table' = table \ {p}
               /\ ending' = [ending EXCEPT ![Unload] = [pc |-> "sync", proc |-> p, wait |-> Reading]]
          /\ UNCHANGED <<cleanup_list, mutex>>
       \/ /\ ending[Unload].pc = "sync" /\ ending[Unload].wait = {}
          /\ cleanup_list' = cleanup_list \cup {ending[Unload].proc}
          /\ ending' = [ending EXCEPT ![Unload] = [NotEnding EXCEPT !.pc = "move"]]
          /\ UNCHANGED <<table, mutex>>
       \/ /\ ending[Unload].pc = "move" /\ table = {}
          /\ mutex' = NULL
          /\ Ends(Unload, "next")
          /\ UNCHANGED <<table, cleanup_list>>
    /\ UNCHANGED <<allocated, ref, mm, notifier, release, works, setup, space, locking, opener, looker>>

UnloadTakesNext ==
    /\ ending[Unload].pc = "next"
    /\ \/ \E p \in cleanup_list :
            /\ cleanup_list' = cleanup_list \ {p}
            /\ ending' = [ending EXCEPT ![Unload] = [pc |-> "cancel_evict", proc |-> p, wait |-> {}]]
       \/ /\ cleanup_list = {}
          /\ ending' = [ending EXCEPT ![Unload] = [pc |-> "synchronize", proc |-> NULL, wait |->
                 {p \in Procs : notifier[p].state = "put"} \cup {m \in Mms : ending[m].pc # "idle"}]]
          /\ UNCHANGED cleanup_list
    /\ UNCHANGED <<objects, works, system, opener, looker>>

(* mmu_notifier_synchronize waits for the callbacks and the freeing that it finds
   under way, and destroy_workqueue in kfd_process_destroy_wq for the releases. *)
UnloadFinishes ==
    /\ \/ /\ ending[Unload].pc = "synchronize" /\ ending[Unload].wait = {}
          /\ Ends(Unload, "drain")
       \/ /\ ending[Unload].pc = "drain"
          /\ \A p \in Procs : release[p] = "none"
          /\ Ends(Unload, "unloaded")
    /\ UNCHANGED <<objects, works, system, opener, looker, cleanup_list>>

-----------------------------------------------------------------------------
Opening(o) == OpenLocks(o) \/ create_process(o) \/ Registers(o) \/ RegisterFails(o) \/ Unwinds(o)
Looking(l) == LookupTakes(l) \/ LookupEnds(l)
Ending(a) == Cancels(a) \/ ClearsMm(a) \/ PutsNotifier(a)
ReleaseSteps(m) == ReleaseChecks(m) \/ ReleaseRemoves(m) \/ ReleaseSynchronizes(m) \/ Ending(m)
UnloadSteps == UnloadMoves \/ UnloadTakesNext \/ UnloadFinishes \/ Ending(Unload)
Works(p) == EvictWorks(p) \/ RestoreWorks(p)

Next ==
    /\ ~ Over
    /\ \/ \E o \in Openers : Opening(o) \/ kfd_release(o) \/ \E m \in Mms : OpenStarts(o, m)
       \/ \E l \in Lookers : LookupFinds(l) \/ Looking(l) \/ SchedulesEviction(l)
       \/ \E p \in Procs : Works(p) \/ wq_release(p) \/ free_notifier(p)
       \/ \E m \in Mms : exit_mmap(m) \/ ReleaseSteps(m)
       \/ check_and_lock_kfd \/ unlock_kfd \/ kgd2kfd_suspend \/ kgd2kfd_resume
       \/ UnloadLocks \/ UnloadSteps

Spec == Init /\ [][Next]_vars

(* Threads in the driver go on, a thread that waits for the mutex gets it, works
   run, grace periods end and lookups let go.  Nobody has to open or close a
   file, to exit, to schedule an eviction or to unload. *)
FairSpec ==
    /\ Spec
    /\ \A o \in Openers : SF_vars(~ Over /\ Opening(o))
    /\ \A l \in Lookers : WF_vars(~ Over /\ Looking(l))
    /\ \A m \in Mms : SF_vars(~ Over /\ ReleaseSteps(m))
    /\ \A p \in Procs : /\ WF_vars(~ Over /\ EvictWorks(p))
                        /\ WF_vars(~ Over /\ RestoreWorks(p))
                        /\ WF_vars(~ Over /\ wq_release(p))
                        /\ WF_vars(~ Over /\ free_notifier(p))
    /\ WF_vars(~ Over /\ UnloadSteps)

-----------------------------------------------------------------------------
Holders(p) ==
    {o \in Openers : opener[o].proc = p} \cup {l \in Lookers : looker[l].proc = p}
    \cup {a \in DOMAIN ending : ending[a].proc = p}

(* "The kfd_process structure can not be free because the mmu_notifier srcu is
   read locked", for other users because of a reference or of synchronize_srcu,
   and for the works since both are cancelled, eviction before restore: whoever has
   a pointer to a process has an allocated one.  The code misses two cases: Unwinds
   frees what was just found in the table, and an eviction may be scheduled late. *)
NoUseAfterFree ==
    astray # "unwind" =>
        /\ \A p \in Procs : Holders(p) # {} \/ notifier[p].state # "none" \/ release[p] # "none"
                              => p \in allocated
        /\ \A p \in Procs : evict[p] \cup restore[p] # {} => p \in allocated \/ p \in late
        /\ table \cup cleanup_list \subseteq allocated

(* Who has a reference: files and debuggers, lookups, the notifier, and
   create_process, which has a second one until the notifier is registered. *)
Owners(p) ==
    ({"file"} \X {o \in Openers : opener[o].proc = p})
    \cup ({"register"} \X {o \in Openers : opener[o].proc = p /\ opener[o].pc = "register"})
    \cup ({"lookup"} \X {l \in Lookers : looker[l].proc = p /\ looker[l].pc # "found"})
    \cup ({"notifier"} \X {q \in {p} : notifier[q].state # "none"})

(* The count of references is that of their owners, so that kfd_process_ref_release
   runs when the last of them is gone and not before. *)
RefsAreExact == \A p \in allocated : ref[p] = Cardinality(Owners(p))

(* "so there won't be a case where two threads of the same process create two
   kfd_process structures", and none is there while partitions are switched. *)
OneProcessPerMm ==
    /\ \A p, q \in table : mm[p] = mm[q] => p = q
    /\ switching => table = {}

(* "callback from mmu_notifier release will not see the kfd_process in the table
   and do early return, avoiding double free issues": a process is taken down by
   its notifier or by kfd_cleanup_processes, and its notifier put once. *)
OneReleaser ==
    \A p \in Procs :
        LET by == {a \in DOMAIN ending :
                     ending[a].proc = p /\ ending[a].pc \notin {"check", "lock"}}
        IN  /\ Cardinality(by) <= 1
            /\ by # {} => p \notin cleanup_list
            /\ by # {} \/ p \in cleanup_list => notifier[p].state = "on"

(* A process "will be freed when the mm is released": once its address space is
   left and its files are closed, its structure is freed. *)
ProcessIsFreed ==
    \A p \in Procs :
        (/\ p \in allocated /\ notifier[p].mm # NULL /\ space[notifier[p].mm] # "alive"
         /\ \A o \in Openers : opener[o].proc # p)
            ~> (p \notin allocated \/ Over)

(* kfd_cleanup_processes waits for lookups under the mutex and for callbacks of
   the notifier that wait for the mutex: it ends. *)
UnloadEnds == Unloading ~> Over
=============================================================================
