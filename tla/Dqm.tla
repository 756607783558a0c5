-------------------------------- MODULE Dqm --------------------------------
(***************************************************************************)
(* The device queue manager with a hardware scheduler                      *)
(* (kfd_device_queue_manager.c, the _cpsch operations), used by the        *)
(* process queue manager (kfd_process_queue_manager.c).                    *)
(*                                                                         *)
(* The firmware is either the HWS, to which the driver sends runlists of   *)
(* all active queues, or the MES, to which it adds and removes queues one  *)
(* by one.  A step is what happens under one hold of dqm->lock.  The       *)
(* thread of a process is whoever holds p->mutex; a destroyer that waits   *)
(* for the debugger has given the mutex up.  Kernel queues of the debugger *)
(* (DIQ), global wave sync and SDMA engine numbers are left out.           *)
(***************************************************************************)
EXTENDS Integers, FiniteSets

CONSTANTS
    Procs,      \* processes: struct kfd_process with its qpd on this device
    Queues,     \* struct queue
    Setups      \* the devices considered, and the bounds of this model for each

ASSUME DqmAssumption ==
    \A s \in Setups : s \in
        [sched : {"hws", "mes"},        \* the firmware
         procs : SUBSET Procs,          \* the processes that run
         owner : [Queues -> Procs],     \* the process of each queue
         debugged : SUBSET Procs,       \* the processes with debug_trap_enabled
         max : Nat,                     \* max_num_of_queues_per_device
         faults : SUBSET {"hang", "runlist", "memory"}, \* what may fail
         evict : Nat,                   \* bound on nested evictions
         nodes : Nat,                   \* bound on the entries of a process in dqm->queues
         destroyers : Nat]              \* bound on the threads that wait to destroy one queue

VARIABLES
    setup,               \* the device, which never changes
    nodes,               \* entries of dqm->queues for each process
    queues_list,         \* the queues on the qpd lists
    unlisted,            \* queues taken off them that pqm->queues still holds
    proc_ctx,            \* the processes with proc_ctx_cpu_ptr
    active_queue_count, total_queue_count,
    active_runlist, sched_running, is_hws_hang, is_resetting,
    runnable,            \* properties: queue_size, queue_address, queue_percent > 0
    is_active, is_evicted, is_suspended, is_being_destroyed, \* properties, as sets
    evicted,             \* qpd->evicted of each process
    thread,              \* the operation under each p->mutex, and its queue
    waiting, asleep,     \* how many destroyers of a queue wait for the debugger, and sleep
    hw,                  \* external: the queues the hardware may be running
    partial,             \* history: the processes of which a restore stopped half-way
    unsynced,            \* history: the last runlist could not be sent
    astray               \* history: what the bookkeeping does not survive (below)

flags == <<runnable, is_active, is_evicted, is_suspended, is_being_destroyed>>
counts == <<active_queue_count, total_queue_count>>
device == <<active_runlist, is_hws_hang, hw, unsynced>>
mode == <<setup, sched_running, is_resetting>>
waits == <<waiting, asleep>>
aside == <<unlisted, proc_ctx, astray>>
vars == <<nodes, queues_list, evicted, thread, partial, flags, counts, device, mode, waits, aside>>

(* Three things after which the driver works with freed memory or counts a
   queue twice, and at the first of which a behaviour of this model ends:
   "queue": a queue is freed while another destroyer waits for it, or destroyed
            or updated after a destroy that failed has taken it off its list;
   "count": a restore or a resume counts a queue that is active already, as a
            restore that stopped half-way has left it;
   "entry": a process ends while it is entered twice in dqm->queues, and leaves
            an entry that points into its freed memory. *)
Astray == {"queue", "count", "entry"}

sched == setup.sched
Owner == setup.owner
Debugged == setup.debugged
MaxQueues == setup.max
Faults == setup.faults
MaxEvict == setup.evict
MaxNodes == setup.nodes
MaxDestroyers == setup.destroyers

Idle == [op |-> "idle"]
Doing(op, q) == [op |-> op, q |-> q]

QueuesOf(p) == {q \in queues_list : Owner[q] = p}
Registered(ns) == {p \in Procs : ns[p] > 0}

(* pm_create_runlist_ib: the queues of a runlist, made from the entries ns of
   dqm->queues.  dqm->processes_count is the number of these entries, so there
   is room for each. *)
Scheduled(ns, list, act) == {q \in list \cap act : Owner[q] \in Registered(ns)}

(* QUEUE_IS_ACTIVE *)
QueueIsActive(q, run, ev, susp) == q \in run /\ q \notin ev /\ q \notin susp

Init ==
    /\ setup \in Setups
    /\ nodes = [p \in Procs |-> 0]
    /\ queues_list = {} /\ runnable = {} /\ is_active = {} /\ is_evicted = {}
    /\ is_suspended = {} /\ is_being_destroyed = {}
    /\ active_queue_count = 0 /\ total_queue_count = 0
    /\ active_runlist = FALSE /\ is_hws_hang = FALSE /\ is_resetting = FALSE
    /\ sched_running = TRUE
    /\ evicted = [p \in Procs |-> 0]
    /\ thread = [p \in Procs |-> Idle]
    /\ waiting = [q \in Queues |-> 0] /\ asleep = [q \in Queues |-> 0]
    /\ unlisted = {} /\ proc_ctx = {} /\ hw = {}
    /\ partial = {} /\ unsynced = FALSE /\ astray = "no"

-----------------------------------------------------------------------------
(* What a call that talks to the firmware returns, and what it leaves. *)
Outcome(ret, runlist, hang, running) ==
    [ret |-> ret, runlist |-> runlist, hang |-> hang, hw |-> running]

Now(ret) == Outcome(ret, active_runlist, is_hws_hang, hw)

(* The state of the device after a call with the outcome o. *)
Leaves(o) ==
    /\ active_runlist' = o.runlist
    /\ is_hws_hang' = o.hang
    /\ hw' = o.hw
    /\ unsynced' = (o.ret = "ENOMEM" \/ (unsynced /\ o.ret # "ok"))

(* Mutant: a preemption that timed out is taken for done. *)
unmap_queues_cpsch_IgnoresTimeout ==
    IF ~ sched_running \/ ~ active_runlist THEN {Now("ok")}
    ELSE IF is_hws_hang \/ is_resetting THEN {Now("EIO")}
    ELSE {Outcome("ok", FALSE, FALSE, {})}
         \cup {Outcome("ok", FALSE, FALSE, hw) : f \in Faults \cap {"hang"}}

(* unmap_queues_cpsch: the fence is not written, or the HIQ reports a queue
   that does not yield: kfd_hws_hang. *)
unmap_queues_cpsch ==
    IF ~ sched_running THEN {Now("ok")}
    ELSE IF is_hws_hang \/ is_resetting THEN {Now("EIO")}
    ELSE IF ~ active_runlist THEN {Now("ok")}
    ELSE {Outcome("ok", FALSE, FALSE, {})}
         \cup {Outcome("ETIME", TRUE, TRUE, hw) : f \in Faults \cap {"hang"}}

(* map_queues_cpsch after an unmap with outcome o: a runlist of the queues run,
   for which there may be no memory. *)
map_queues_cpsch(ns, o, count, run) ==
    IF count = 0 \/ Registered(ns) = {} \/ o.runlist THEN {o}
    ELSE {[o EXCEPT !.runlist = TRUE, !.hw = run]}
         \cup {[o EXCEPT !.ret = "ENOMEM"] : f \in Faults \cap {"runlist"}}

execute_queues_cpsch(ns, count, run) ==
    IF is_hws_hang THEN {Now("EIO")}
    ELSE UNION {IF o.ret = "ok" /\ sched_running
                THEN map_queues_cpsch(ns, o, count, run) ELSE {o} : o \in unmap_queues_cpsch}

(* Mutant: a queue the MES cannot remove is not taken for a hang. *)
remove_queues_mes_NoHang(rem) ==
    IF rem = {} THEN {Now("ok")}
    ELSE {Outcome("ok", FALSE, FALSE, hw \ rem)}
         \cup {Outcome("EIO", FALSE, FALSE, hw \ s) :
               s \in IF "hang" \in Faults THEN SUBSET rem \ {rem} ELSE {}}

(* remove_queue_mes for each queue of rem; a queue the MES cannot remove hangs
   it, and the rest is refused. *)
remove_queues_mes(rem) ==
    IF rem = {} THEN {Now("ok")}
    ELSE IF is_hws_hang THEN {Now("EIO")}
    ELSE {Outcome("ok", FALSE, FALSE, hw \ rem)}
         \cup {Outcome("EIO", FALSE, TRUE, hw \ s) :
               s \in IF "hang" \in Faults THEN SUBSET rem \ {rem} ELSE {}}

(* add_queue_mes, after a call with outcome o. *)
add_queue_mes(o, q) ==
    IF o.hang THEN {[o EXCEPT !.ret = "EIO"]}
    ELSE {[o EXCEPT !.hw = @ \cup {q}]}
         \cup {[o EXCEPT !.ret = "EIO", !.hang = TRUE] : f \in Faults \cap {"hang"}}

-----------------------------------------------------------------------------
(* What is left of queues that were freed: nothing. *)
Forgets(qs) ==
    /\ is_active' = is_active \ qs
    /\ is_evicted' = is_evicted \ qs
    /\ runnable' = runnable \ qs
    /\ is_suspended' = is_suspended \ qs
    /\ is_being_destroyed' = is_being_destroyed \ qs

(* register_process: there may be no memory for the entry. *)
register_process(p) ==
    \/ nodes[p] < MaxNodes /\ nodes' = [nodes EXCEPT ![p] = @ + 1]
    \/ "memory" \in Faults /\ UNCHANGED nodes

(* pqm_create_queue: the first queue registers the process, and what that
   returns is ignored.  With the MES the process gets a context, without which
   the call returns, and does not undo the registration. *)
pqm_create_queue(p, q, run) ==
    /\ thread[p] = Idle /\ Owner[q] = p /\ q \notin queues_list \cup unlisted
    /\ sched_running \/ evicted[p] > 0
    /\ IF QueuesOf(p) = {} THEN register_process(p) ELSE UNCHANGED nodes
    /\ \/ /\ thread' = [thread EXCEPT ![p] = Doing("check", q)]
          /\ runnable' = IF run THEN runnable \cup {q} ELSE runnable
          /\ proc_ctx' = IF sched = "mes" THEN proc_ctx \cup {p} ELSE proc_ctx
       \/ /\ "memory" \in Faults /\ sched = "mes" /\ p \notin proc_ctx
          /\ UNCHANGED <<thread, runnable, proc_ctx>>
    /\ UNCHANGED <<queues_list, evicted, partial, counts, device, mode, waits, unlisted, astray,
                   is_active, is_evicted, is_suspended, is_being_destroyed>>

(* create_queue_cpsch looks at the limit without the lock, and gets a doorbell
   and memory for the MQD ... *)
CheckLimit(p) ==
    /\ thread[p].op = "check"
    /\ \/ /\ total_queue_count >= MaxQueues \/ "memory" \in Faults
          /\ thread' = [thread EXCEPT ![p].op = "undo"]
       \/ /\ total_queue_count < MaxQueues
          /\ thread' = [thread EXCEPT ![p].op = "create"]
    /\ UNCHANGED <<nodes, queues_list, evicted, partial, flags, counts, device, mode, waits, aside>>

(* ... and adds the queue under it. *)
create_queue_cpsch(p) ==
    LET q  == thread[p].q
        ev == IF evicted[p] > 0 THEN is_evicted \cup {q} ELSE is_evicted
        a  == QueueIsActive(q, runnable, ev, is_suspended)
        on == IF a THEN is_active \cup {q} ELSE is_active
        n  == active_queue_count + 1
    IN
    /\ thread[p].op = "create"
    /\ \E o \in IF ~ a THEN {Now("ok")}
               ELSE IF sched = "mes" THEN add_queue_mes(Now("ok"), q)
               ELSE execute_queues_cpsch(nodes, n, Scheduled(nodes, queues_list \cup {q}, on)) :
         /\ IF a THEN Leaves(o) ELSE UNCHANGED device
         /\ IF o.ret = "ok"
              THEN /\ queues_list' = queues_list \cup {q}
                   /\ is_evicted' = ev /\ is_active' = on
                   /\ active_queue_count' = IF a THEN n ELSE active_queue_count
                   /\ total_queue_count' = total_queue_count + 1
                   /\ thread' = [thread EXCEPT ![p] = Idle]
                   /\ UNCHANGED <<runnable, is_suspended, is_being_destroyed>>
              ELSE /\ thread' = [thread EXCEPT ![p].op = "undo"]
                   /\ UNCHANGED <<queues_list, counts, flags>>
    /\ UNCHANGED <<nodes, evicted, partial, mode, waits, aside>>

(* The queue is gone; a process without queues is unregistered. *)
unregister_process(p) ==
    /\ thread[p].op = "undo"
    /\ nodes' = [nodes EXCEPT ![p] = IF QueuesOf(p) = {} /\ @ > 0 THEN @ - 1 ELSE @]
    /\ thread' = [thread EXCEPT ![p] = Idle]
    /\ Forgets({thread[p].q})
    /\ UNCHANGED <<queues_list, evicted, partial, counts, device, mode, waits, aside>>

-----------------------------------------------------------------------------
(* destroy_queue_cpsch once nobody holds the queue suspended.  A runlist that
   could not be sent makes pqm_destroy_queue return before it forgets the queue
   and unregisters the process.  There may be rivals, which wait. *)
RemoveQueue(p, q, rivals) ==
    LET a   == q \in is_active
        n   == active_queue_count - 1
        run == Scheduled(nodes, queues_list \ {q}, is_active)
    IN
    /\ \E o \in IF ~ a THEN {Now("ok")}
               ELSE IF sched = "mes" THEN remove_queues_mes({q})
               ELSE execute_queues_cpsch(nodes, n, run) :
         /\ IF a THEN Leaves(o) ELSE UNCHANGED device
         /\ \/ /\ o.ret = "ENOMEM"
               /\ unlisted' = unlisted \cup {q}
               /\ UNCHANGED <<thread, flags>>
            \/ /\ o.ret # "ENOMEM"
               /\ unlisted' = unlisted \ {q}
               /\ thread' = [thread EXCEPT ![p] = Doing("undo", q)]
               /\ Forgets({q})
         /\ astray' = IF q \in queues_list /\ (rivals = 0 \/ o.ret = "ENOMEM") THEN astray ELSE "queue"
    /\ queues_list' = queues_list \ {q}
    /\ active_queue_count' = IF a THEN n ELSE active_queue_count
    /\ total_queue_count' = total_queue_count - 1
    /\ UNCHANGED <<nodes, evicted, partial, mode, proc_ctx>>

MustWait(p, q) == p \in Debugged /\ q \in is_suspended

(* The queues that get_queue_by_qid finds for the process. *)
Known(p) == QueuesOf(p) \cup {q \in unlisted : Owner[q] = p}

(* destroy_queue_cpsch and wait_on_destroy_queue: both locks are given up, and
   another thread may call it for the same queue. *)
destroy_queue_cpsch(p, q) ==
    /\ thread[p] = Idle /\ q \in Known(p)
    /\ \/ ~ MustWait(p, q) /\ RemoveQueue(p, q, waiting[q]) /\ UNCHANGED waits
       \/ /\ MustWait(p, q) /\ waiting[q] < MaxDestroyers
          /\ is_being_destroyed' = is_being_destroyed \cup {q}
          /\ waiting' = [waiting EXCEPT ![q] = @ + 1]
          /\ UNCHANGED <<asleep, nodes, queues_list, evicted, thread, partial, counts, device,
                         mode, aside, runnable, is_active, is_evicted, is_suspended>>

(* wait_event_interruptible: sleep while the queue is suspended, *)
WaitSleeps(q) ==
    /\ asleep[q] < waiting[q] /\ q \in is_suspended
    /\ asleep' = [asleep EXCEPT ![q] = @ + 1]
    /\ UNCHANGED <<waiting, nodes, queues_list, evicted, thread, partial, flags, counts, device, mode, aside>>

(* go on when it is not, *)
WaitEnds(p, q) ==
    /\ Owner[q] = p /\ asleep[q] < waiting[q] /\ q \notin is_suspended
    /\ thread[p] = Idle
    /\ waiting' = [waiting EXCEPT ![q] = @ - 1]
    /\ UNCHANGED asleep
    /\ RemoveQueue(p, q, waiting'[q])

(* or give up because of a signal. *)
WaitInterrupted(p, q) ==
    /\ Owner[q] = p /\ waiting[q] > 0 /\ thread[p] = Idle
    /\ waiting' = [waiting EXCEPT ![q] = @ - 1]
    /\ \/ asleep[q] > 0 /\ asleep' = [asleep EXCEPT ![q] = @ - 1]
       \/ asleep[q] < waiting[q] /\ UNCHANGED asleep
    /\ UNCHANGED <<nodes, queues_list, evicted, thread, partial, flags, counts, device, mode, aside>>

-----------------------------------------------------------------------------
(* pqm_update_queue_properties and update_queue: unmap, change the MQD, count,
   map again. *)
update_queue(p, q, run) ==
    LET can == IF run THEN runnable \cup {q} ELSE runnable \ {q}
        was == q \in is_active
        a   == QueueIsActive(q, can, is_evicted, is_suspended)
        on  == IF a THEN is_active \cup {q} ELSE is_active \ {q}
        n   == active_queue_count + (IF a THEN 1 ELSE 0) - (IF was THEN 1 ELSE 0)
    IN
    /\ thread[p] = Idle /\ q \in Known(p)
    /\ runnable' = can
    /\ astray' = IF q \in queues_list THEN astray ELSE "queue"
    /\ \E u \in IF sched = "hws" THEN unmap_queues_cpsch
               ELSE remove_queues_mes(is_active \cap {q}) :
         \/ u.ret # "ok" /\ Leaves(u) /\ UNCHANGED <<is_active, active_queue_count>>
         \/ /\ u.ret = "ok"
            /\ is_active' = on /\ active_queue_count' = n
            /\ \E o \in IF sched = "mes" THEN IF a THEN add_queue_mes(u, q) ELSE {u}
                       ELSE IF sched_running THEN map_queues_cpsch(nodes, u, n, Scheduled(nodes, queues_list, on))
                       ELSE {u} : Leaves(o)
    /\ UNCHANGED <<nodes, queues_list, evicted, thread, partial, mode, waits, unlisted, proc_ctx,
                   total_queue_count, is_evicted, is_suspended, is_being_destroyed>>

(* Mutant: only the queues that are active are marked. *)
evict_process_queues_cpsch_ActiveOnly(p) ==
    LET s == QueuesOf(p) \cap is_active
        n == active_queue_count - Cardinality(s)
    IN
    /\ thread[p].op # "free" /\ evicted[p] < MaxEvict
    /\ evicted' = [evicted EXCEPT ![p] = @ + 1]
    /\ \/ evicted[p] > 0 /\ UNCHANGED <<flags, counts, device>>
       \/ /\ evicted[p] = 0
          /\ is_evicted' = is_evicted \cup s
          /\ is_active' = is_active \ s
          /\ active_queue_count' = n
          /\ \E o \in IF sched = "mes" THEN remove_queues_mes(s)
                     ELSE execute_queues_cpsch(nodes, n, Scheduled(nodes, queues_list, is_active \ s)) : Leaves(o)
          /\ UNCHANGED <<runnable, is_suspended, is_being_destroyed, total_queue_count>>
    /\ UNCHANGED <<nodes, queues_list, thread, partial, mode, waits, aside>>

(* evict_process_queues_cpsch: evictions nest; the first deactivates every
   queue, and marks also those that are not active. *)
evict_process_queues_cpsch(p) ==
    LET s == QueuesOf(p) \cap is_active
        n == active_queue_count - Cardinality(s)
    IN
    /\ thread[p].op # "free" /\ evicted[p] < MaxEvict
    /\ evicted' = [evicted EXCEPT ![p] = @ + 1]
    /\ \/ evicted[p] > 0 /\ UNCHANGED <<flags, counts, device>>
       \/ /\ evicted[p] = 0
          /\ is_evicted' = is_evicted \cup QueuesOf(p)
          /\ is_active' = is_active \ s
          /\ active_queue_count' = n
          /\ \E o \in IF sched = "mes" THEN remove_queues_mes(s)
                     ELSE execute_queues_cpsch(nodes, n, Scheduled(nodes, queues_list, is_active \ s)) : Leaves(o)
          /\ UNCHANGED <<runnable, is_suspended, is_being_destroyed, total_queue_count>>
    /\ UNCHANGED <<nodes, queues_list, thread, partial, mode, waits, aside>>

(* The queues of q's that a restore, or a resume, makes active. *)
Activated(qs, ev, susp) == {q \in qs : QueueIsActive(q, runnable, ev, susp)}

(* Mutant: every queue counts, whether it becomes active or not. *)
Restores_CountsAll(done, act) ==
    /\ is_evicted' = is_evicted \ done
    /\ is_active' = is_active \cup (act \cap done)
    /\ active_queue_count' = active_queue_count + Cardinality(done)
    /\ astray' = IF act \cap done \cap is_active = {} THEN astray ELSE "count"

(* The queues act become active, and are counted whether they were or not. *)
Activates(act) ==
    /\ is_active' = is_active \cup act
    /\ active_queue_count' = active_queue_count + Cardinality(act)
    /\ astray' = IF act \cap is_active = {} THEN astray ELSE "count"

(* The restore has gone through the queues done, and counted all it made active. *)
Restores(done, act) == is_evicted' = is_evicted \ done /\ Activates(act \cap done)

(* restore_process_queues_cpsch.  With the MES a queue that cannot be added
   ends the loop, and the process stays evicted with some queues active. *)
restore_process_queues_cpsch(p) ==
    LET qs  == QueuesOf(p)
        act == Activated(qs, is_evicted \ qs, is_suspended)
        n   == active_queue_count + Cardinality(act)
    IN
    /\ thread[p].op # "free" /\ evicted[p] > 0
    /\ sched_running \/ evicted[p] > 1
    /\ \/ /\ evicted[p] > 1
          /\ evicted' = [evicted EXCEPT ![p] = @ - 1]
          /\ UNCHANGED <<flags, counts, device, partial, astray>>
       \/ /\ evicted[p] = 1
          /\ \/ /\ Restores(qs, act)
                /\ \/ /\ sched = "hws"
                      /\ \E o \in execute_queues_cpsch(nodes, n, Scheduled(nodes, queues_list, is_active \cup act)) :
                           Leaves(o)
                   \/ /\ sched = "mes" /\ ~ (is_hws_hang /\ act # {})
                      /\ Leaves([Now("ok") EXCEPT !.hw = @ \cup act])
                /\ evicted' = [evicted EXCEPT ![p] = 0]
                /\ partial' = partial \ {p}
             \/ /\ sched = "mes" /\ (is_hws_hang \/ "hang" \in Faults)
                /\ \E done \in SUBSET qs : \E f \in done \cap act :
                     /\ is_hws_hang => done \cap act = {f}
                     /\ Restores(done, act)
                     /\ Leaves(Outcome("EIO", FALSE, TRUE, hw \cup ((done \cap act) \ {f})))
                /\ partial' = partial \cup {p} /\ UNCHANGED evicted
          /\ UNCHANGED <<runnable, is_suspended, is_being_destroyed, total_queue_count>>
    /\ UNCHANGED <<nodes, queues_list, thread, mode, waits, unlisted, proc_ctx>>

-----------------------------------------------------------------------------
(* Mutant: a queue that is being destroyed can be suspended again. *)
Suspendable_AlsoDestroyed == queues_list \ is_suspended

(* suspend_single_queue skips the others. *)
Suspendable == queues_list \ (is_suspended \cup is_being_destroyed)

(* suspend_single_queue for the queues s; f is the one the MES cannot remove,
   which stays active. *)
Suspends(s, f) ==
    LET off == (s \cap is_active) \ f IN
    /\ is_suspended' = is_suspended \cup s
    /\ is_active' = is_active \ off
    /\ active_queue_count' = active_queue_count - Cardinality(off)

(* suspend_queues, called by the debugger. *)
suspend_queues(p, ids) ==
    LET s   == ids \cap Suspendable
        off == s \cap is_active
        n   == active_queue_count - Cardinality(off)
    IN
    /\ p \in Debugged /\ thread[p] = Idle /\ ids \subseteq QueuesOf(p)
    /\ \/ /\ sched = "hws" /\ s \cup (ids \cap is_suspended) # {}
          /\ Suspends(s, {})
          /\ \E o \in execute_queues_cpsch(nodes, n, Scheduled(nodes, queues_list, is_active \ off)) : Leaves(o)
       \/ /\ sched = "mes" /\ ~ (is_hws_hang /\ off # {})
          /\ Suspends(s, {}) /\ Leaves([Now("ok") EXCEPT !.hw = @ \ off])
       \/ /\ sched = "mes" /\ (is_hws_hang \/ "hang" \in Faults)
          /\ \E done \in SUBSET s : \E f \in done \cap off :
               /\ is_hws_hang => done \cap off = {f}
               /\ Suspends(done, {f})
               /\ Leaves(Outcome("EIO", FALSE, TRUE, hw \ ((done \cap off) \ {f})))
    /\ UNCHANGED <<nodes, queues_list, evicted, thread, partial, mode, waits, aside, total_queue_count,
                   runnable, is_evicted, is_being_destroyed>>

(* resume_single_queue for the queues s, of which act become active. *)
Resumes(s, act) == is_suspended' = is_suspended \ s /\ Activates(act)

Awake == [q \in Queues |-> 0]

(* resume_queues for the queues ids: destroyers are woken at the end, with the
   HWS if the runlist was sent, with the MES after each queue that was resumed.
   A list of ids (byId) is left at the first queue the MES cannot add. *)
resume_queues(p, ids, byId) ==
    LET s   == ids \cap is_suspended
        act == Activated(s, is_evicted, is_suspended \ s)
        n   == active_queue_count + Cardinality(act)
    IN
    /\ p \in Debugged /\ thread[p] = Idle /\ ids \subseteq QueuesOf(p) /\ ids # {}
    /\ \/ /\ sched = "hws" /\ Resumes(s, act)
          /\ \E o \in execute_queues_cpsch(nodes, n, Scheduled(nodes, queues_list, is_active \cup act)) :
               Leaves(o) /\ asleep' = IF o.ret = "ok" THEN Awake ELSE asleep
       \/ /\ sched = "mes" /\ ~ (is_hws_hang /\ act # {})
          /\ Resumes(s, act) /\ Leaves([Now("ok") EXCEPT !.hw = @ \cup act])
          /\ asleep' = Awake
       \/ /\ sched = "mes" /\ (is_hws_hang \/ "hang" \in Faults)
          /\ \E done \in SUBSET s : \E f \in done \cap act :
               /\ is_hws_hang => done \cap act = {f}
               /\ Resumes(IF byId THEN done ELSE s, (done \cap act) \ {f})
               /\ Leaves(Outcome("EIO", FALSE, TRUE, hw \cup ((done \cap act) \ {f})))
               /\ asleep' \in IF byId THEN {asleep, [Awake EXCEPT ![f] = asleep[f]], Awake} ELSE {Awake}
    /\ UNCHANGED <<nodes, queues_list, evicted, thread, partial, mode, waiting, unlisted, proc_ctx, total_queue_count,
                   runnable, is_evicted, is_being_destroyed>>

-----------------------------------------------------------------------------
(* process_termination_cpsch: the process has exited and nobody refers to it.
   The queues are counted out, one entry is removed and the runlist is made
   again under the lock ... *)
process_termination_cpsch(p) ==
    LET qs == QueuesOf(p)
        n  == active_queue_count - Cardinality(qs \cap is_active)
    IN
    /\ thread[p] = Idle /\ \A q \in Queues : Owner[q] = p => waiting[q] = 0
    /\ Known(p) # {} \/ nodes[p] > 0 \/ evicted[p] > 0 \/ p \in proc_ctx
    /\ active_queue_count' = n
    /\ total_queue_count' = total_queue_count - Cardinality(qs)
    /\ nodes' = [nodes EXCEPT ![p] = IF @ > 0 THEN @ - 1 ELSE @]
    /\ \E o \in IF sched = "mes" THEN remove_queues_mes(qs \cap is_active)
               ELSE execute_queues_cpsch(nodes', n, Scheduled(nodes', queues_list, is_active)) : Leaves(o)
    /\ thread' = [thread EXCEPT ![p] = [op |-> "free"]]
    /\ astray' = IF nodes[p] > 1 THEN "entry" ELSE astray
    /\ UNCHANGED <<queues_list, evicted, partial, flags, mode, waits, unlisted, proc_ctx>>

(* ... which is given up to free each MQD. *)
FreeMqd(p, q) ==
    /\ thread[p].op = "free" /\ q \in QueuesOf(p)
    /\ queues_list' = queues_list \ {q}
    /\ Forgets({q})
    /\ UNCHANGED <<nodes, evicted, thread, partial, counts, device, mode, waits, aside>>

(* pqm_uninit frees what pqm->queues still holds, kfd_process_destroy_pdds the
   pdd; another process may start. *)
ProcessIsFreed(p) ==
    LET left == {q \in unlisted : Owner[q] = p} IN
    /\ thread[p].op = "free" /\ QueuesOf(p) = {}
    /\ thread' = [thread EXCEPT ![p] = Idle]
    /\ evicted' = [evicted EXCEPT ![p] = 0]
    /\ partial' = partial \ {p} /\ proc_ctx' = proc_ctx \ {p}
    /\ unlisted' = unlisted \ left
    /\ Forgets(left)
    /\ UNCHANGED <<nodes, queues_list, counts, device, mode, waits, astray>>

-----------------------------------------------------------------------------
(* pre_reset *)
pre_reset ==
    /\ "hang" \in Faults /\ sched_running /\ ~ is_resetting
    /\ is_resetting' = TRUE
    /\ UNCHANGED <<nodes, queues_list, evicted, thread, partial, flags, counts, device, waits,
                   aside, setup, sched_running>>

(* The processes that kfd_suspend_all_processes finds and evicts. *)
Exists(p) == (QueuesOf(p) # {} \/ thread[p] # Idle) /\ thread[p].op # "free"

(* stop_cpsch, for a suspend or a reset: kgd2kfd_suspend has evicted all
   processes, and undoes that only after the device was started again. *)
stop_cpsch ==
    /\ sched_running
    /\ \A p \in Procs : Exists(p) => evicted[p] > 0
    /\ sched_running' = FALSE
    /\ \E o \in IF is_hws_hang THEN {Now("EIO")}
               ELSE IF sched = "mes" THEN remove_queues_mes(Scheduled(nodes, queues_list, is_active))
               ELSE unmap_queues_cpsch : Leaves(o)
    /\ UNCHANGED <<nodes, queues_list, evicted, thread, partial, flags, counts, waits,
                   aside, setup, is_resetting>>

(* start_cpsch after the hardware lost its state: a runlist from before is
   unmapped again, and then what is active is mapped. *)
start_cpsch ==
    LET up  == Outcome("ok", FALSE, FALSE, {})
        run == Scheduled(nodes, queues_list, is_active)
    IN
    /\ ~ sched_running
    /\ sched_running' = TRUE /\ is_resetting' = FALSE
    /\ \E o \in IF sched = "mes" THEN {up}
               ELSE map_queues_cpsch(nodes, up, active_queue_count, run)
                    \cup {Outcome("ETIME", TRUE, TRUE, {}) :
                          f \in IF active_runlist THEN Faults \cap {"hang"} ELSE {}} : Leaves(o)
    /\ UNCHANGED <<nodes, queues_list, evicted, thread, partial, flags, counts, waits, aside, setup>>

ThreadStep(p) ==
    \/ CheckLimit(p) \/ create_queue_cpsch(p) \/ unregister_process(p)
    \/ \E q \in Queues : FreeMqd(p, q)
    \/ ProcessIsFreed(p)

Waits(p, q) == WaitSleeps(q) \/ WaitEnds(p, q)

Step ==
    \/ \E p \in setup.procs :
         \/ ThreadStep(p)
         \/ evict_process_queues_cpsch(p)
         \/ restore_process_queues_cpsch(p)
         \/ process_termination_cpsch(p)
         \/ \E ids \in SUBSET QueuesOf(p) \ {{}} :
              suspend_queues(p, ids) \/ \E byId \in BOOLEAN : resume_queues(p, ids, byId)
         \/ \E q \in Queues :
              \/ destroy_queue_cpsch(p, q) \/ Waits(p, q) \/ WaitInterrupted(p, q)
              \/ \E run \in BOOLEAN : pqm_create_queue(p, q, run) \/ update_queue(p, q, run)
    \/ pre_reset \/ stop_cpsch \/ start_cpsch

Next == astray \notin Astray /\ Step

Spec == Init /\ [][Next]_vars

(* Threads that hold a mutex go on, and a destroyer that was woken runs and
   gets the mutex. *)
FairSpec ==
    /\ Spec
    /\ \A p \in Procs : WF_vars(ThreadStep(p))
    /\ \A q \in Queues : SF_vars(WaitEnds(Owner[q], q))
-----------------------------------------------------------------------------
(* The queues that process_termination_cpsch has not counted out. *)
Counted == {q \in queues_list : thread[Owner[q]].op # "free"}

(* map_queues_cpsch "uses the dqm->active_queue_count to determine whether a new
   runlist must be uploaded": it is the number of active queues on the lists,
   and total_queue_count that of all queues, whatever failed before, until a
   queue is destroyed or restored a second time (Astray). *)
CountsAreExact ==
    astray \notin {"queue", "count"} =>
        /\ active_queue_count = Cardinality(Counted \cap is_active)
        /\ total_queue_count = Cardinality(Counted)

(* "Eviction state logic: mark all queues as evicted, even ones not currently
   active": the queues of a process are marked exactly while it is evicted,
   also those created meanwhile, and none of them is active. *)
EvictedTogether ==
    \A q \in queues_list : Owner[q] \notin partial =>
        /\ q \in is_evicted <=> evicted[Owner[q]] > 0
        /\ q \in is_evicted => q \notin is_active

(* While the scheduler works, the hardware runs exactly the active queues of the
   registered processes; with the MES, which a restart leaves without queues,
   nothing but active queues.  A queue that was freed, evicted or suspended does
   not run any more.  This holds until the counters are wrong, or a process
   leaves an entry behind (Astray). *)
HardwareMatches ==
    ~ is_hws_hang /\ astray \notin Astray =>
        IF sched = "mes" THEN hw \subseteq Counted \cap is_active
        ELSE sched_running /\ ~ is_resetting /\ ~ unsynced
               => hw = Scheduled(nodes, queues_list, is_active)

(* Nothing runs that the driver would not unmap: whatever failed before, queues
   are on the hardware only if active_runlist says so. *)
RunlistIsKnown == sched = "hws" /\ hw # {} => active_runlist

(* While the scheduler works, whoever waits for the debugger to destroy a queue
   goes on once it is resumed, and so does a second destroyer of it, who then
   finds the queue freed (Astray). *)
DestroyerGoesOn ==
    [](~ is_hws_hang /\ ~ is_resetting /\ ~ unsynced) =>
        \A q \in Queues : (waiting[q] > 0 /\ q \notin is_suspended)
                            ~> (waiting[q] = 0 \/ astray \in Astray)

=============================================================================
