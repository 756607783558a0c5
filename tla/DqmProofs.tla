----------------------------- MODULE DqmProofs -----------------------------
(***************************************************************************)
(* Proofs about the device queue manager, for any number of processes and  *)
(* queues, both firmwares and every fault of Dqm.                          *)
(*                                                                         *)
(* EvictInv is inductive by itself and gives EvictedTogether and           *)
(* RunlistIsKnown.  CountInv is inductive relative to EvictInv, up to the  *)
(* step at which the driver goes astray, and gives CountsAreExact and      *)
(* HardwareMatches.                                                        *)
(*                                                                         *)
(* What a call to the firmware can return is looked at once for each call  *)
(* (the lemmas ...Outcome); the lemmas about steps only use that.          *)
(***************************************************************************)
EXTENDS Dqm, FiniteSetTheorems, TLAPS

(* The operations of a thread that has a queue in its hands. *)
Ops == {"check", "create", "undo"}

(* The types of what the proofs look at. *)
TypeOK ==
    /\ setup \in Setups
    /\ nodes \in [Procs -> Nat] /\ evicted \in [Procs -> Nat]
    /\ queues_list \subseteq Queues /\ unlisted \subseteq Queues /\ hw \subseteq Queues /\ partial \subseteq Procs
    /\ thread \in [Procs -> [op : Ops, q : Queues] \cup {Idle, [op |-> "free"]}]
    /\ active_queue_count \in Int /\ total_queue_count \in Int
    /\ active_runlist \in BOOLEAN /\ is_hws_hang \in BOOLEAN /\ unsynced \in BOOLEAN
    /\ sched_running \in BOOLEAN /\ is_resetting \in BOOLEAN

(* Queues with a state are on a list, or were taken off and are still known; the
   queue a thread creates, or has destroyed, is neither, and is one of its process. *)
Listed ==
    /\ IsFiniteSet(queues_list)
    /\ queues_list \cap unlisted = {}
    /\ is_active \subseteq queues_list \cup unlisted
    /\ is_evicted \subseteq queues_list \cup unlisted
    /\ is_suspended \subseteq queues_list \cup unlisted
    /\ \A p \in Procs : thread[p].op \in Ops =>
         thread[p].q \notin queues_list \cup unlisted /\ Owner[thread[p].q] = p
    /\ \A p \in partial : evicted[p] > 0

EvictInv == TypeOK /\ Listed /\ EvictedTogether /\ RunlistIsKnown

(* A process that is torn down is not registered. *)
Entered == astray \notin Astray => \A p \in Procs : thread[p].op = "free" => nodes[p] = 0

CountInv == Entered /\ CountsAreExact /\ HardwareMatches
-----------------------------------------------------------------------------
(* What a call to the firmware returns. *)
Outcomes == [ret : {"ok", "EIO", "ETIME", "ENOMEM"}, runlist : BOOLEAN, hang : BOOLEAN, hw : SUBSET Queues]

(* It knows of a runlist if queues run, and an MES that hangs goes on to. *)
Sane(o) ==
    /\ o \in Outcomes
    /\ sched = "hws" /\ o.hw # {} => o.runlist
    /\ sched = "mes" /\ is_hws_hang => o.hang

(* If it did not fail, the queues s run: with the MES at most those. *)
Fits(o, s) ==
    ~ o.hang => IF sched = "mes" THEN o.ret = "ok" /\ o.hw \subseteq s
                ELSE sched_running /\ ~ is_resetting /\ o.ret # "ENOMEM" => o.ret = "ok" /\ o.hw = s

(* The device has one of the two firmwares, and every queue a process. *)
LEMMA SetupFacts ==
    ASSUME TypeOK
    PROVE  sched \in {"hws", "mes"} /\ Owner \in [Queues -> Procs] /\ setup.procs \subseteq Procs
BY Zenon, DqmAssumption DEF TypeOK, sched, Owner

(* A call that does nothing returns what is there. *)
LEMMA NowIsSane ==
    ASSUME TypeOK, RunlistIsKnown, NEW r \in {"ok", "EIO"}
    PROVE  Sane(Now(r))
BY Zenon DEF TypeOK, RunlistIsKnown, Sane, Now, Outcome, Outcomes

(* unmap_queues_cpsch: if it succeeds nothing runs and there is no runlist. *)
LEMMA UnmapOutcome ==
    ASSUME TypeOK, RunlistIsKnown, NEW o \in unmap_queues_cpsch, sched = "hws"
    PROVE  /\ Sane(o)
           /\ Fits(o, {})
           /\ o.ret = "ok" /\ sched_running => ~ o.runlist
<1> DEFINE done == Outcome("ok", FALSE, FALSE, {})
           late == Outcome("ETIME", TRUE, TRUE, hw)
<1>1. \/ o = Now("ok") /\ (~ sched_running \/ ~ active_runlist)
      \/ o = Now("EIO") /\ (is_hws_hang \/ is_resetting)
      \/ o = done \/ o = late
  BY Zenon DEF unmap_queues_cpsch
<1>2. CASE o = Now("ok") /\ (~ sched_running \/ ~ active_runlist)
  BY Zenon, <1>2, NowIsSane DEF TypeOK, RunlistIsKnown, Now, Outcome, Fits
<1>3. CASE o = Now("EIO") /\ (is_hws_hang \/ is_resetting)
  BY Zenon, <1>3, NowIsSane DEF TypeOK, Now, Outcome, Fits
<1>4. CASE o = done
  BY Zenon, <1>4 DEF Outcome, Sane, Outcomes, Fits
<1>5. CASE o = late
  BY Zenon, <1>5 DEF TypeOK, Outcome, Sane, Outcomes, Fits
<1> QED BY Zenon, <1>1, <1>2, <1>3, <1>4, <1>5

(* map_queues_cpsch after an unmap: if it succeeds the queues run are running. *)
LEMMA MapOutcome ==
    ASSUME TypeOK, NEW u \in Outcomes, Sane(u), Fits(u, {}), ~ u.runlist, u.ret = "ok",
           NEW ns, NEW n, NEW run \in SUBSET Queues, n = 0 => run = {}, Registered(ns) = {} => run = {},
           NEW o \in map_queues_cpsch(ns, u, n, run), sched = "hws"
    PROVE  Sane(o) /\ Fits(o, run)
<1>1. \/ o = u /\ run = {}
      \/ o = [u EXCEPT !.runlist = TRUE, !.hw = run]
      \/ o = [u EXCEPT !.ret = "ENOMEM"]
  BY Zenon DEF map_queues_cpsch
<1>2. CASE o = u /\ run = {}
  BY Zenon, <1>2
<1>3. CASE o = [u EXCEPT !.runlist = TRUE, !.hw = run]
  BY Zenon, <1>3 DEF Sane, Fits, Outcomes
<1>4. CASE o = [u EXCEPT !.ret = "ENOMEM"]
  BY Zenon, <1>4 DEF Sane, Fits, Outcomes
<1> QED BY Zenon, <1>1, <1>2, <1>3, <1>4

(* map_queues_cpsch never runs queues without a runlist. *)
LEMMA MapSane ==
    ASSUME NEW u \in Outcomes, Sane(u), NEW ns, NEW n, NEW run \in SUBSET Queues,
           NEW o \in map_queues_cpsch(ns, u, n, run), sched = "hws"
    PROVE  Sane(o)
<1>1. \/ o = u
      \/ o = [u EXCEPT !.runlist = TRUE, !.hw = run]
      \/ o = [u EXCEPT !.ret = "ENOMEM"]
  BY Zenon DEF map_queues_cpsch
<1> QED BY Zenon, <1>1 DEF Sane, Outcomes

(* The same for execute_queues_cpsch, whatever the count. *)
LEMMA ExecuteSane ==
    ASSUME TypeOK, RunlistIsKnown, NEW ns, NEW n, NEW run \in SUBSET Queues,
           NEW o \in execute_queues_cpsch(ns, n, run), sched = "hws"
    PROVE  Sane(o)
<1>1. CASE is_hws_hang
  BY Zenon, <1>1, NowIsSane DEF execute_queues_cpsch
<1>2. CASE ~ is_hws_hang
  <2>1. PICK u \in unmap_queues_cpsch :
          o \in IF u.ret = "ok" /\ sched_running THEN map_queues_cpsch(ns, u, n, run) ELSE {u}
    BY Zenon, <1>2 DEF execute_queues_cpsch
  <2>2. Sane(u)
    BY Zenon, UnmapOutcome
  <2> QED BY Zenon, <2>1, <2>2, MapSane DEF Sane
<1> QED BY Zenon, <1>1, <1>2

(* execute_queues_cpsch: if it succeeds exactly the queues run are running,
   provided that the count is zero only if there are none. *)
LEMMA ExecuteOutcome ==
    ASSUME TypeOK, RunlistIsKnown, NEW ns, NEW n, NEW run \in SUBSET Queues,
           n = 0 => run = {}, Registered(ns) = {} => run = {},
           NEW o \in execute_queues_cpsch(ns, n, run), sched = "hws"
    PROVE  Sane(o) /\ Fits(o, run)
<1>1. CASE is_hws_hang
  <2>1. o = Now("EIO")
    BY Zenon, <1>1 DEF execute_queues_cpsch
  <2> QED BY Zenon, <2>1, <1>1, NowIsSane DEF Now, Outcome, Fits
<1>2. CASE ~ is_hws_hang
  <2>1. PICK u \in unmap_queues_cpsch :
          o \in IF u.ret = "ok" /\ sched_running THEN map_queues_cpsch(ns, u, n, run) ELSE {u}
    BY Zenon, <1>2 DEF execute_queues_cpsch
  <2>2. Sane(u) /\ Fits(u, {}) /\ (u.ret = "ok" /\ sched_running => ~ u.runlist)
    BY Zenon, UnmapOutcome
  <2>3. CASE u.ret = "ok" /\ sched_running
    BY Zenon, <2>1, <2>2, <2>3, MapOutcome DEF Sane
  <2>4. CASE ~ (u.ret = "ok" /\ sched_running)
    BY Zenon, <2>1, <2>2, <2>4 DEF Fits, Sane
  <2> QED BY Zenon, <2>3, <2>4
<1> QED BY Zenon, <1>1, <1>2

(* remove_queue_mes for the queues rem: what still runs is in s, or it hangs. *)
LEMMA RemoveOutcome ==
    ASSUME TypeOK, RunlistIsKnown, sched = "mes", NEW rem \in SUBSET Queues,
           NEW s, ~ is_hws_hang => hw \ rem \subseteq s,
           NEW o \in remove_queues_mes(rem)
    PROVE  Sane(o) /\ Fits(o, s)
<1>1. \/ o = Now("ok") /\ rem = {}
      \/ o = Now("EIO") /\ is_hws_hang
      \/ o = Outcome("ok", FALSE, FALSE, hw \ rem) /\ ~ is_hws_hang
      \/ \E t \in SUBSET rem : o = Outcome("EIO", FALSE, TRUE, hw \ t)
  BY Zenon DEF remove_queues_mes
<1>2. CASE o = Now("ok") /\ rem = {}
  BY Zenon, <1>2, NowIsSane DEF Now, Outcome, Fits
<1>3. CASE o = Now("EIO") /\ is_hws_hang
  BY Zenon, <1>3, NowIsSane DEF Now, Outcome, Fits
<1>4. CASE o = Outcome("ok", FALSE, FALSE, hw \ rem) /\ ~ is_hws_hang
  BY Zenon, <1>4 DEF TypeOK, Outcome, Sane, Fits, Outcomes
<1>5. ASSUME NEW t \in SUBSET rem, o = Outcome("EIO", FALSE, TRUE, hw \ t)
      PROVE  Sane(o) /\ Fits(o, s)
  BY Zenon, <1>5 DEF TypeOK, Outcome, Sane, Fits, Outcomes
<1> QED BY Zenon, <1>1, <1>2, <1>3, <1>4, <1>5

(* add_queue_mes: what runs then is in s, or it hangs. *)
LEMMA AddOutcome ==
    ASSUME TypeOK, sched = "mes", NEW u \in Outcomes, Sane(u), u.ret = "ok", NEW q \in Queues,
           NEW s, ~ u.hang => u.hw \cup {q} \subseteq s,
           NEW o \in add_queue_mes(u, q)
    PROVE  Sane(o) /\ Fits(o, s)
<1>1. \/ o = [u EXCEPT !.ret = "EIO"] /\ u.hang
      \/ o = [u EXCEPT !.hw = @ \cup {q}] /\ ~ u.hang
      \/ o = [u EXCEPT !.ret = "EIO", !.hang = TRUE]
  BY Zenon DEF add_queue_mes
<1>2. CASE o = [u EXCEPT !.ret = "EIO"] /\ u.hang
  BY Zenon, <1>2 DEF Sane, Fits, Outcomes
<1>3. CASE o = [u EXCEPT !.hw = @ \cup {q}] /\ ~ u.hang
  BY Zenon, <1>3 DEF Sane, Fits, Outcomes
<1>4. CASE o = [u EXCEPT !.ret = "EIO", !.hang = TRUE]
  BY Zenon, <1>4 DEF Sane, Fits, Outcomes
<1> QED BY Zenon, <1>1, <1>2, <1>3, <1>4

(* What a call leaves. *)
Kept ==
    /\ active_runlist' \in BOOLEAN /\ is_hws_hang' \in BOOLEAN /\ unsynced' \in BOOLEAN
    /\ hw' \in SUBSET Queues
    /\ RunlistIsKnown'
    /\ sched = "mes" /\ is_hws_hang => is_hws_hang'

(* The state of the device after any sane outcome. *)
LEMMA LeavesKeeps ==
    ASSUME TypeOK, NEW o, Sane(o), Leaves(o), setup' = setup
    PROVE  Kept
BY Zenon DEF Kept, TypeOK, Sane, Outcomes, Leaves, RunlistIsKnown, sched

(* ... in particular after the call that an operation on queues makes. *)
LEMMA CallKeeps ==
    ASSUME TypeOK, RunlistIsKnown, setup' = setup, NEW ns, NEW n, NEW run \in SUBSET Queues, NEW rem \in SUBSET Queues,
           NEW o \in IF sched = "mes" THEN remove_queues_mes(rem) ELSE execute_queues_cpsch(ns, n, run),
           Leaves(o)
    PROVE  Kept
<1>1. CASE sched = "mes"
  BY Zenon, <1>1, RemoveOutcome, LeavesKeeps DEF TypeOK
<1>2. CASE sched # "mes"
  BY Zenon, <1>2, SetupFacts, ExecuteSane, LeavesKeeps
<1> QED BY Zenon, <1>1, <1>2

-----------------------------------------------------------------------------
(* What a thread is doing. *)
LEMMA ThreadForms ==
    ASSUME TypeOK, NEW p \in Procs
    PROVE  /\ thread[p].op \in Ops => thread[p] \in [op : Ops, q : Queues]
           /\ thread[p] # Idle => thread[p].op # "idle"
           /\ thread[p] = Idle => thread[p].op = "idle"
           /\ thread[p].op \in Ops \cup {"idle", "free"}
BY DEF TypeOK, Ops, Idle

(* pqm_create_queue: the queue is in the hands of the thread, and in no set yet. *)
LEMMA PqmCreateKeepsEvicted ==
    ASSUME EvictInv, NEW p \in Procs, NEW q \in Queues, NEW run \in BOOLEAN, pqm_create_queue(p, q, run)
    PROVE  EvictInv'
<1> USE DEF EvictInv
<1>1. /\ thread[p] = Idle /\ Owner[q] = p /\ q \notin queues_list \cup unlisted
      /\ UNCHANGED <<queues_list, unlisted, evicted, partial, counts, device, mode,
                     is_active, is_evicted, is_suspended>>
  BY Zenon DEF pqm_create_queue
<1>2. UNCHANGED <<setup, sched_running, is_resetting, active_runlist, is_hws_hang, hw, unsynced,
                  active_queue_count, total_queue_count>>
  BY Zenon, <1>1 DEF mode, device, counts
<1>3. PICK t \in {Idle, Doing("check", q)} : thread' = [thread EXCEPT ![p] = t]
  BY <1>1 DEF pqm_create_queue, TypeOK
<1>4. nodes' \in [Procs -> Nat]
  BY DEF pqm_create_queue, register_process, TypeOK
<1>5. TypeOK'
  <2>1. thread' \in [Procs -> [op : Ops, q : Queues] \cup {Idle, [op |-> "free"]}]
    BY <1>3 DEF TypeOK, Doing, Ops
  <2> QED BY Zenon, <1>1, <1>2, <1>4, <2>1 DEF TypeOK
<1>6. Listed'
  <2>1. \A r \in Procs : thread'[r].op \in Ops =>
            thread'[r].q \notin queues_list \cup unlisted /\ Owner[thread'[r].q] = r
    BY <1>1, <1>3 DEF TypeOK, Listed, Doing, Idle, Ops
  <2> QED BY Zenon, <1>1, <1>2, <2>1 DEF Listed, Owner
<1>7. EvictedTogether' /\ RunlistIsKnown'
  BY Zenon, <1>1, <1>2 DEF EvictedTogether, RunlistIsKnown, Owner, sched
<1> QED BY Zenon, <1>5, <1>6, <1>7

(* CheckLimit changes only what the thread does next. *)
LEMMA CheckKeepsEvicted ==
    ASSUME EvictInv, NEW p \in Procs, CheckLimit(p)
    PROVE  EvictInv'
<1> USE DEF EvictInv
<1>1. /\ thread[p] \in [op : Ops, q : Queues]
      /\ UNCHANGED <<nodes, queues_list, unlisted, evicted, partial, flags, counts, device, mode>>
  BY Zenon, ThreadForms DEF CheckLimit, Ops, aside
<1>2. PICK x \in Ops : x # "check" /\ thread' = [thread EXCEPT ![p].op = x]
  BY Zenon DEF CheckLimit, Ops
<1>3. UNCHANGED <<setup, sched_running, is_resetting, active_runlist, is_hws_hang, hw, unsynced,
                  active_queue_count, total_queue_count, is_active, is_evicted, is_suspended>>
  BY Zenon, <1>1 DEF mode, device, counts, flags
<1>4. \A r \in Procs : /\ thread'[r].op \in Ops => thread[r].op \in Ops /\ thread'[r].q = thread[r].q
                       /\ thread'[r].op = "free" <=> thread[r].op = "free"
                       /\ thread'[r] = Idle <=> thread[r] = Idle
  BY <1>1, <1>2 DEF TypeOK, Ops, Idle
<1>5. TypeOK'
  BY Zenon, <1>1, <1>2, <1>3 DEF TypeOK
<1>6. Listed'
  BY Zenon, <1>1, <1>3, <1>4 DEF Listed, Owner
<1>7. EvictedTogether' /\ RunlistIsKnown'
  BY Zenon, <1>1, <1>3 DEF EvictedTogether, RunlistIsKnown, Owner, sched
<1> QED BY Zenon, <1>5, <1>6, <1>7

(* A step that keeps what the invariant is about. *)
LEMMA QuietKeepsEvicted ==
    ASSUME EvictInv,
           UNCHANGED <<nodes, queues_list, unlisted, evicted, thread, partial, counts, device, mode,
                       is_active, is_evicted, is_suspended>>
    PROVE  EvictInv'
BY DEF EvictInv, TypeOK, Listed, EvictedTogether, RunlistIsKnown,
       Owner, sched, counts, device, mode

(* The queue a thread has in its hands is in no set. *)
LEMMA UnregisterKeepsEvicted ==
    ASSUME EvictInv, NEW p \in Procs, unregister_process(p)
    PROVE  EvictInv'
<1> USE DEF EvictInv
<1> DEFINE q == thread[p].q
<1>1. /\ thread[p] \in [op : Ops, q : Queues]
      /\ nodes' = [nodes EXCEPT ![p] = IF QueuesOf(p) = {} /\ @ > 0 THEN @ - 1 ELSE @]
      /\ thread' = [thread EXCEPT ![p] = Idle]
      /\ UNCHANGED <<queues_list, unlisted, evicted, partial, counts, device, mode>>
      /\ Forgets({q})
  BY Zenon, ThreadForms DEF unregister_process, Ops, aside
<1>2. UNCHANGED <<is_active, is_evicted, is_suspended>>
  <2>1. q \notin is_active \cup is_evicted \cup is_suspended
    BY Zenon, ThreadForms DEF unregister_process, Ops, Listed
  <2> QED BY Zenon, <2>1, <1>1 DEF Forgets
<1>3. UNCHANGED <<setup, sched_running, is_resetting, active_runlist, is_hws_hang, hw, unsynced,
                  active_queue_count, total_queue_count>>
  BY Zenon, <1>1 DEF mode, device, counts
<1>4. TypeOK'
  BY <1>1, <1>3 DEF TypeOK
<1>5. Listed'
  BY <1>1, <1>2, <1>3 DEF TypeOK, Listed, Idle, Ops, Owner
<1>6. EvictedTogether' /\ RunlistIsKnown'
  BY Zenon, <1>1, <1>2, <1>3 DEF EvictedTogether, RunlistIsKnown, Owner, sched
<1> QED BY Zenon, <1>4, <1>5, <1>6
(* A queue that is freed is in no set. *)
LEMMA FreeMqdKeepsEvicted ==
    ASSUME EvictInv, NEW p \in Procs, NEW q \in Queues, FreeMqd(p, q)
    PROVE  EvictInv'
<1> USE DEF EvictInv
<1>1. /\ thread[p].op = "free" /\ q \in queues_list
      /\ queues_list' = queues_list \ {q}
      /\ is_active' = is_active \ {q}
      /\ is_evicted' = is_evicted \ {q}
      /\ is_suspended' = is_suspended \ {q}
      /\ UNCHANGED <<nodes, unlisted, evicted, thread, partial, counts, device, mode>>
  BY Zenon DEF FreeMqd, Forgets, QueuesOf, aside
<1>2. UNCHANGED <<setup, sched_running, is_resetting, active_runlist, is_hws_hang, hw, unsynced,
                  active_queue_count, total_queue_count>>
  BY Zenon, <1>1 DEF mode, device, counts
<1>3. TypeOK'
  BY Zenon, <1>1, <1>2 DEF TypeOK
<1>4. Listed'
  <2>1. IsFiniteSet(queues_list')
    BY Zenon, <1>1, FS_Subset DEF Listed
  <2> QED BY Zenon, <2>1, <1>1, <1>2 DEF Listed, Owner
<1>5. EvictedTogether' /\ RunlistIsKnown'
  BY Zenon, <1>1, <1>2 DEF EvictedTogether, RunlistIsKnown, Owner, sched
<1> QED BY Zenon, <1>3, <1>4, <1>5

(* A process that is freed has no queues, so nothing is said of it. *)
LEMMA FreedKeepsEvicted ==
    ASSUME EvictInv, NEW p \in Procs, ProcessIsFreed(p)
    PROVE  EvictInv'
<1> USE DEF EvictInv
<1> DEFINE left == {q \in unlisted : Owner[q] = p}
<1>1. /\ thread[p].op = "free" /\ QueuesOf(p) = {}
      /\ thread' = [thread EXCEPT ![p] = Idle]
      /\ evicted' = [evicted EXCEPT ![p] = 0]
      /\ partial' = partial \ {p}
      /\ unlisted' = unlisted \ left
      /\ is_active' = is_active \ left
      /\ is_evicted' = is_evicted \ left
      /\ is_suspended' = is_suspended \ left
      /\ UNCHANGED <<nodes, queues_list, counts, device, mode>>
  BY Zenon DEF ProcessIsFreed, Forgets
<1>2. UNCHANGED <<setup, sched_running, is_resetting, active_runlist, is_hws_hang, hw, unsynced,
                  active_queue_count, total_queue_count>>
  BY Zenon, <1>1 DEF mode, device, counts
<1>3. \A q \in queues_list : Owner[q] # p
  BY Zenon, <1>1 DEF QueuesOf
<1>4. TypeOK'
  BY Zenon, <1>1, <1>2 DEF TypeOK
<1>5. Listed'
  <2>1. \A r \in Procs : thread'[r].op \in Ops =>
            thread'[r].q \notin queues_list' \cup unlisted' /\ Owner[thread'[r].q] = r
    BY <1>1 DEF TypeOK, Listed, Idle, Ops
  <2>2. \A r \in partial' : evicted'[r] > 0
    BY <1>1 DEF TypeOK, Listed
  <2> QED BY Zenon, <1>1, <1>2, <2>1, <2>2 DEF Listed, Owner
<1>6. EvictedTogether' /\ RunlistIsKnown'
  <2>1. \A q \in queues_list : q \notin left /\ evicted'[Owner[q]] = evicted[Owner[q]]
    BY Zenon, <1>1, <1>3, SetupFacts DEF TypeOK, Listed
  <2> QED BY Zenon, <1>1, <1>2, <1>3, <2>1, SetupFacts DEF TypeOK, EvictedTogether, RunlistIsKnown, Owner, sched
<1> QED BY Zenon, <1>4, <1>5, <1>6

(* pre_reset only sets a flag. *)
LEMMA PreResetKeepsEvicted ==
    ASSUME EvictInv, pre_reset
    PROVE  EvictInv'
BY Zenon DEF EvictInv, pre_reset, TypeOK, Listed, EvictedTogether, RunlistIsKnown,
       Owner, sched, counts, device, flags, aside

(* create_queue_cpsch: a queue created in an evicted process is marked evicted
   and not active; a queue that could not be mapped is on no list. *)
LEMMA CreateKeepsEvicted ==
    ASSUME EvictInv, NEW p \in Procs, create_queue_cpsch(p)
    PROVE  EvictInv'
<1> USE DEF EvictInv
<1> DEFINE q  == thread[p].q
           ev == IF evicted[p] > 0 THEN is_evicted \cup {q} ELSE is_evicted
           a  == QueueIsActive(q, runnable, ev, is_suspended)
           on == IF a THEN is_active \cup {q} ELSE is_active
           n  == active_queue_count + 1
           outs == IF ~ a THEN {Now("ok")}
                   ELSE IF sched = "mes" THEN add_queue_mes(Now("ok"), q)
                   ELSE execute_queues_cpsch(nodes, n, Scheduled(nodes, queues_list \cup {q}, on))
<1>1. /\ thread[p].op = "create" /\ thread[p] \in [op : Ops, q : Queues]
      /\ q \in Queues /\ q \notin queues_list \cup unlisted /\ Owner[q] = p
      /\ UNCHANGED <<nodes, unlisted, evicted, partial, mode>>
  BY Zenon, ThreadForms DEF create_queue_cpsch, Ops, Listed, aside
<1>2. PICK o \in outs :
        /\ IF a THEN Leaves(o) ELSE UNCHANGED device
        /\ IF o.ret = "ok"
             THEN /\ queues_list' = queues_list \cup {q}
                  /\ is_evicted' = ev /\ is_active' = on
                  /\ active_queue_count' = IF a THEN n ELSE active_queue_count
                  /\ total_queue_count' = total_queue_count + 1
                  /\ thread' = [thread EXCEPT ![p] = Idle]
                  /\ UNCHANGED <<runnable, is_suspended, is_being_destroyed>>
             ELSE /\ thread' = [thread EXCEPT ![p].op = "undo"]
                  /\ UNCHANGED <<queues_list, counts, flags>>
  BY Zenon DEF create_queue_cpsch
<1>3. UNCHANGED <<setup, sched_running, is_resetting>>
  BY Zenon, <1>1 DEF mode
<1>4. Kept
  <2>1. CASE ~ a
    BY Zenon, <2>1, <1>2, <1>3 DEF Kept, device, TypeOK, RunlistIsKnown, sched
  <2>2. CASE a
    <3>1. Sane(o)
      <4>1. CASE sched = "mes"
        <5>1. Sane(Now("ok")) /\ Now("ok") \in Outcomes /\ Now("ok").ret = "ok"
          BY Zenon, NowIsSane DEF Sane, Now, Outcome
        <5> QED BY Zenon, <5>1, <4>1, <2>2, <1>1, AddOutcome
      <4>2. CASE sched # "mes"
        <5>1. Scheduled(nodes, queues_list \cup {q}, on) \in SUBSET Queues 
          BY Zenon, <1>1 DEF TypeOK, Scheduled
        <5> QED BY Zenon, <5>1, <4>2, <2>2, ExecuteSane, SetupFacts
      <4> QED BY Zenon, <4>1, <4>2
    <3> QED BY Zenon, <3>1, <2>2, <1>2, <1>3, LeavesKeeps
  <2> QED BY Zenon, <2>1, <2>2
<1>5. CASE o.ret = "ok"
  <2>1. /\ queues_list' = queues_list \cup {q}
        /\ is_evicted' = ev /\ is_active' = on
        /\ active_queue_count' = IF a THEN n ELSE active_queue_count
        /\ total_queue_count' = total_queue_count + 1
        /\ thread' = [thread EXCEPT ![p] = Idle]
        /\ is_suspended' = is_suspended
    BY Zenon, <1>5, <1>2
  <2>2. TypeOK'
    BY <2>1, <1>1, <1>3, <1>4 DEF TypeOK, Kept
  <2>3. Listed'
    <3>1. IsFiniteSet(queues_list')
      BY Zenon, <2>1, FS_AddElement DEF Listed
    <3>2. /\ is_active' \subseteq queues_list' \cup unlisted /\ is_evicted' \subseteq queues_list' \cup unlisted
          /\ is_suspended' \subseteq queues_list' \cup unlisted /\ queues_list' \cap unlisted = {}
      <4>1. /\ is_active' \subseteq is_active \cup {q} /\ is_evicted' \subseteq is_evicted \cup {q}
            /\ q \notin unlisted
        BY Zenon, <2>1, <1>1
      <4>2. queues_list' = queues_list \cup {q} /\ is_suspended' = is_suspended
        BY Zenon, <2>1
      <4>3. /\ is_active \subseteq queues_list \cup unlisted /\ is_evicted \subseteq queues_list \cup unlisted
            /\ is_suspended \subseteq queues_list \cup unlisted /\ queues_list \cap unlisted = {}
        BY Zenon DEF Listed
      <4> HIDE DEF q
      <4> QED BY SMT, <4>1, <4>2, <4>3
    <3>3. \A r \in Procs : thread'[r].op \in Ops =>
            thread'[r].q \notin queues_list' \cup unlisted /\ Owner'[thread'[r].q] = r
      BY <2>1, <1>1, <1>3 DEF TypeOK, Listed, Owner, Idle, Ops
    <3> QED BY Zenon, <3>1, <3>2, <3>3, <1>1 DEF Listed
  <2>4. EvictedTogether'
    <3>1. q \in ev <=> evicted[p] > 0
      BY Zenon, <1>1 DEF Listed
    <3>2. q \in ev => q \notin on
      BY Zenon, <1>1 DEF Listed, QueueIsActive
    <3>3. \A r \in queues_list : (r \in ev <=> r \in is_evicted) /\ (r \in on <=> r \in is_active)
      BY Zenon, <1>1
    <3> HIDE DEF q, ev, on, a
    <3> QED BY Zenon, <3>1, <3>2, <3>3, <2>1, <1>1, <1>3 DEF EvictedTogether, Owner
  <2> QED BY Zenon, <1>4, <2>2, <2>3, <2>4 DEF Kept
<1>6. CASE o.ret # "ok"
  <2>1. /\ thread' = [thread EXCEPT ![p].op = "undo"]
        /\ UNCHANGED <<queues_list, active_queue_count, total_queue_count, is_active, is_evicted, is_suspended>>
    BY Zenon, <1>6, <1>2 DEF counts, flags
  <2>2. \A r \in Procs : /\ thread'[r].op \in Ops => thread[r].op \in Ops /\ thread'[r].q = thread[r].q
                         /\ thread'[r].op = "free" <=> thread[r].op = "free"
                         /\ thread'[r] = Idle <=> thread[r] = Idle
    BY <2>1, <1>1 DEF TypeOK, Ops, Idle
  <2>3. TypeOK'
    BY Zenon, <2>1, <1>1, <1>3, <1>4 DEF Kept, TypeOK, Ops
  <2>4. Listed' /\ EvictedTogether'
    BY <2>1, <2>2, <1>1, <1>3 DEF Listed, EvictedTogether, Owner
  <2> QED BY Zenon, <1>4, <2>3, <2>4 DEF Kept
<1> QED BY Zenon, <1>5, <1>6

(* Sets of listed queues can be counted. *)
LEMMA ListedCount ==
    ASSUME Listed, NEW s, s \subseteq queues_list
    PROVE  IsFiniteSet(s) /\ Cardinality(s) \in Nat
BY Zenon, FS_Subset, FS_CardinalityType DEF Listed

(* destroy_queue_cpsch: the queue goes from its list, and from all sets unless
   the runlist could not be sent. *)
LEMMA RemoveKeepsEvicted ==
    ASSUME EvictInv, NEW p \in Procs, NEW q \in Queues, NEW rivals, thread[p] = Idle, Owner[q] = p,
           RemoveQueue(p, q, rivals)
    PROVE  EvictInv'
<1> USE DEF EvictInv
<1> DEFINE a   == q \in is_active
           n   == active_queue_count - 1
           run == Scheduled(nodes, queues_list \ {q}, is_active)
           outs == IF ~ a THEN {Now("ok")}
                   ELSE IF sched = "mes" THEN remove_queues_mes({q})
                   ELSE execute_queues_cpsch(nodes, n, run)
<1>1. /\ queues_list' = queues_list \ {q}
      /\ active_queue_count' = IF a THEN n ELSE active_queue_count
      /\ total_queue_count' = total_queue_count - 1
      /\ UNCHANGED <<nodes, evicted, partial, mode>>
  BY Zenon DEF RemoveQueue
<1>2. PICK o \in outs :
        /\ IF a THEN Leaves(o) ELSE UNCHANGED device
        /\ \/ /\ o.ret = "ENOMEM"
              /\ unlisted' = unlisted \cup {q}
              /\ UNCHANGED <<thread, flags>>
           \/ /\ o.ret # "ENOMEM"
              /\ unlisted' = unlisted \ {q}
              /\ thread' = [thread EXCEPT ![p] = Doing("undo", q)]
              /\ Forgets({q})
  BY Zenon DEF RemoveQueue
<1>3. UNCHANGED <<setup, sched_running, is_resetting>>
  BY Zenon, <1>1 DEF mode
<1>4. Kept
  <2>1. CASE ~ a
    BY Zenon, <2>1, <1>2, <1>3 DEF Kept, device, TypeOK, RunlistIsKnown, sched
  <2>2. CASE a
    <3>1. run \in SUBSET Queues /\ {q} \in SUBSET Queues
      BY Zenon DEF TypeOK, Scheduled
    <3>2. o \in IF sched = "mes" THEN remove_queues_mes({q}) ELSE execute_queues_cpsch(nodes, n, run)
      BY Zenon, <1>2, <2>2
    <3>3. Leaves(o)
      BY Zenon, <1>2, <2>2
    <3> HIDE DEF run, n
    <3> QED BY Zenon, <3>1, <3>2, <3>3, <1>3, CallKeeps
  <2> QED BY Zenon, <2>1, <2>2
<1>5. active_queue_count' \in Int /\ total_queue_count' \in Int /\ IsFiniteSet(queues_list')
  BY <1>1, FS_Subset DEF TypeOK, Listed
<1>6. CASE unlisted' = unlisted \cup {q} /\ UNCHANGED <<thread, flags>>
  <2>1. UNCHANGED <<thread, is_active, is_evicted, is_suspended>>
    BY Zenon, <1>6 DEF flags
  <2>2. TypeOK'
    BY Zenon, <1>1, <1>3, <1>4, <1>5, <1>6, <2>1 DEF TypeOK, Kept
  <2>3. \A r \in Procs : thread[r].op \in Ops => thread[r].q # q
    <3>1. thread[p].op = "idle" /\ "idle" \notin Ops
      BY Zenon, ThreadForms DEF Ops
    <3>2. \A r \in Procs : thread[r].op \in Ops => Owner[thread[r].q] = r
      BY Zenon DEF Listed
    <3> QED BY Zenon, <3>1, <3>2
  <2>4. Listed'
    BY Zenon, <1>1, <1>3, <1>5, <1>6, <2>1, <2>3 DEF Listed, Owner
  <2>5. EvictedTogether'
    BY Zenon, <1>1, <1>3, <2>1 DEF EvictedTogether, Owner
  <2> QED BY Zenon, <1>4, <2>2, <2>4, <2>5 DEF Kept
<1>7. CASE unlisted' = unlisted \ {q} /\ thread' = [thread EXCEPT ![p] = Doing("undo", q)] /\ Forgets({q})
  <2>1. /\ is_active' = is_active \ {q}
        /\ is_evicted' = is_evicted \ {q}
        /\ is_suspended' = is_suspended \ {q}
    BY Zenon, <1>7 DEF Forgets
  <2>2. TypeOK'
    <3>1. thread' \in [Procs -> [op : Ops, q : Queues] \cup {Idle, [op |-> "free"]}]
      BY <1>7 DEF TypeOK, Doing, Ops
    <3> QED BY Zenon, <3>1, <1>1, <1>3, <1>4, <1>5, <1>7, <2>1 DEF TypeOK, Kept
  <2>3. \A r \in Procs : thread'[r].op \in Ops =>
            thread'[r].q \notin queues_list' \cup unlisted' /\ Owner[thread'[r].q] = r
    BY <1>1, <1>7 DEF TypeOK, Listed, Idle, Ops, Doing
  <2>4. Listed'
    BY Zenon, <1>1, <1>3, <1>5, <1>7, <2>1, <2>3 DEF Listed, Owner
  <2>5. EvictedTogether'
    BY Zenon, <1>1, <1>3, <2>1 DEF EvictedTogether, Owner
  <2> QED BY Zenon, <1>4, <2>2, <2>4, <2>5 DEF Kept
<1> QED BY Zenon, <1>2, <1>6, <1>7

(* update_queue: a queue becomes active only if it is neither evicted nor suspended. *)
LEMMA UpdateKeepsEvicted ==
    ASSUME EvictInv, NEW p \in Procs, NEW q \in Queues, NEW run \in BOOLEAN, update_queue(p, q, run)
    PROVE  EvictInv'
<1> USE DEF EvictInv
<1> DEFINE can == IF run THEN runnable \cup {q} ELSE runnable \ {q}
           was == q \in is_active
           a   == QueueIsActive(q, can, is_evicted, is_suspended)
           on  == IF a THEN is_active \cup {q} ELSE is_active \ {q}
           n   == active_queue_count + (IF a THEN 1 ELSE 0) - (IF was THEN 1 ELSE 0)
           outs(u) == IF sched = "mes" THEN IF a THEN add_queue_mes(u, q) ELSE {u}
                      ELSE IF sched_running THEN map_queues_cpsch(nodes, u, n, Scheduled(nodes, queues_list, on))
                      ELSE {u}
<1>1. /\ q \in queues_list \cup unlisted
      /\ UNCHANGED <<nodes, queues_list, unlisted, evicted, thread, partial, mode, total_queue_count,
                     is_evicted, is_suspended>>
  BY Zenon DEF update_queue, Known, QueuesOf
<1>2. PICK u \in IF sched = "hws" THEN unmap_queues_cpsch ELSE remove_queues_mes(is_active \cap {q}) :
         \/ u.ret # "ok" /\ Leaves(u) /\ UNCHANGED <<is_active, active_queue_count>>
         \/ /\ u.ret = "ok"
            /\ is_active' = on /\ active_queue_count' = n
            /\ \E o \in outs(u) : Leaves(o)
  BY Zenon DEF update_queue
<1>3. UNCHANGED <<setup, sched_running, is_resetting>>
  BY Zenon, <1>1 DEF mode
<1>4. Sane(u)
  <2>1. CASE sched = "hws"
    BY Zenon, <2>1, <1>2, UnmapOutcome
  <2>2. CASE sched = "mes"
    <3>1. is_active \cap {q} \in SUBSET Queues
      OBVIOUS
    <3> QED BY Zenon, <3>1, <2>2, <1>2, RemoveOutcome DEF TypeOK
  <2> QED BY Zenon, <2>1, <2>2, SetupFacts
<1>5. Kept
  <2>1. CASE u.ret # "ok"
    BY Zenon, <2>1, <1>2, <1>3, <1>4, LeavesKeeps
  <2>2. CASE u.ret = "ok"
    <3>1. PICK o \in outs(u) : Leaves(o)
      BY Zenon, <2>2, <1>2
    <3>2. Sane(o)
      <4>1. u \in Outcomes /\ Scheduled(nodes, queues_list, on) \in SUBSET Queues
        BY Zenon, <1>4 DEF Sane, Scheduled, TypeOK
      <4>2. CASE sched = "mes" /\ a
        BY Zenon, <4>1, <4>2, <3>1, <2>2, <1>4, AddOutcome
      <4>3. CASE sched = "hws" /\ sched_running
        BY Zenon, <4>1, <4>3, <3>1, <1>4, MapSane
      <4> QED BY Zenon, <4>2, <4>3, <3>1, <1>4, SetupFacts
    <3> QED BY Zenon, <3>1, <3>2, <1>3, LeavesKeeps
  <2> QED BY Zenon, <2>1, <2>2
<1>6. \/ UNCHANGED <<is_active, active_queue_count>>
      \/ is_active' = on /\ active_queue_count' = n
  BY Zenon, <1>2
<1>7. TypeOK'
  BY SMTT(30), <1>1, <1>3, <1>5, <1>6 DEF TypeOK, Kept
<1>8. Listed'
  BY Zenon, <1>1, <1>3, <1>6 DEF Listed, Owner
<1>9. EvictedTogether'
  BY Zenon, <1>1, <1>3, <1>6 DEF EvictedTogether, Owner, QueueIsActive
<1> QED BY Zenon, <1>5, <1>7, <1>8, <1>9 DEF Kept

(* The steps that mark and unmark queues leave the lists and the threads alone. *)
LEMMA MarksKeepEvicted ==
    ASSUME EvictInv, Kept, UNCHANGED <<nodes, queues_list, unlisted, thread, mode, total_queue_count>>,
           active_queue_count' \in Int, evicted' \in [Procs -> Nat], partial' \subseteq Procs,
           is_active' \subseteq queues_list \cup unlisted, is_evicted' \subseteq queues_list \cup unlisted,
           is_suspended' \subseteq queues_list \cup unlisted,
           \A p \in partial' : evicted'[p] > 0,
           EvictedTogether'
    PROVE  EvictInv'
<1> USE DEF EvictInv
<1>1. UNCHANGED <<setup, sched_running, is_resetting>>
  BY Zenon DEF mode
<1>2. TypeOK'
  BY Zenon, <1>1 DEF TypeOK, Kept
<1>3. Listed'
  BY Zenon, <1>1 DEF Listed, Owner
<1> QED BY Zenon, <1>2, <1>3 DEF Kept

(* evict_process_queues_cpsch: the first eviction marks every queue, a nested
   one leaves them marked. *)
LEMMA EvictKeepsEvicted ==
    ASSUME EvictInv, NEW p \in Procs, evict_process_queues_cpsch(p)
    PROVE  EvictInv'
<1> USE DEF EvictInv
<1> DEFINE s == QueuesOf(p) \cap is_active
           n == active_queue_count - Cardinality(s)
           run == Scheduled(nodes, queues_list, is_active \ s)
<1>1. /\ evicted' = [evicted EXCEPT ![p] = @ + 1]
      /\ UNCHANGED <<nodes, queues_list, unlisted, thread, partial, mode>>
  BY Zenon DEF evict_process_queues_cpsch, aside
<1>2. UNCHANGED <<setup, sched_running, is_resetting>>
  BY Zenon, <1>1 DEF mode
<1>3. /\ evicted' \in [Procs -> Nat] /\ partial' \subseteq Procs
      /\ \A r \in partial' : evicted'[r] > 0
  BY <1>1 DEF TypeOK, Listed
<1>4. CASE evicted[p] > 0 /\ UNCHANGED <<flags, counts, device>>
  <2>1. UNCHANGED <<is_active, is_evicted, is_suspended, active_queue_count, total_queue_count>>
    BY Zenon, <1>4 DEF flags, counts
  <2>2. Kept
    BY Zenon, <1>2, <1>4 DEF Kept, device, TypeOK, RunlistIsKnown, sched
  <2>3. EvictedTogether'
    BY <1>1, <1>2, <1>4, <2>1, <2>2, SetupFacts
    DEF TypeOK, Kept, EvictedTogether, Owner, sched
  <2> QED BY Zenon, <1>1, <1>3, <2>1, <2>2, <2>3, MarksKeepEvicted DEF TypeOK, Listed
<1>5. CASE /\ evicted[p] = 0
           /\ is_evicted' = is_evicted \cup QueuesOf(p)
           /\ is_active' = is_active \ s
           /\ active_queue_count' = n
           /\ \E o \in IF sched = "mes" THEN remove_queues_mes(s) ELSE execute_queues_cpsch(nodes, n, run) : Leaves(o)
           /\ UNCHANGED <<is_suspended, total_queue_count>>
  <2>1. Cardinality(s) \in Nat
    BY Zenon, ListedCount DEF QueuesOf
  <2>2. run \in SUBSET Queues /\ s \in SUBSET Queues
    BY Zenon DEF TypeOK, Scheduled, QueuesOf
  <2>3. Kept
    <3> HIDE DEF run, s, n
    <3> QED BY Zenon, <1>2, <1>5, <2>2, CallKeeps
  <2>4. p \notin partial
    BY <1>5 DEF Listed, TypeOK
  <2>5. EvictedTogether'
    BY SMTT(30), <1>1, <1>2, <1>5, <2>4, SetupFacts DEF TypeOK, EvictedTogether, Owner, QueuesOf
  <2>6. active_queue_count' \in Int
    BY <1>5, <2>1 DEF TypeOK
  <2>7. /\ is_active' \subseteq queues_list \cup unlisted
        /\ is_evicted' \subseteq queues_list \cup unlisted
        /\ is_suspended' \subseteq queues_list \cup unlisted
    BY Zenon, <1>5 DEF Listed, QueuesOf
  <2> QED BY Zenon, <1>1, <1>3, <1>5, <2>3, <2>5, <2>6, <2>7, MarksKeepEvicted
<1> QED BY Zenon, <1>4, <1>5 DEF evict_process_queues_cpsch

(* A restore that went through all queues of a process, or stopped half-way. *)
LEMMA RestoresMarks ==
    ASSUME EvictInv, Kept, NEW p \in Procs, NEW done, done \subseteq QueuesOf(p),
           Restores(done, Activated(QueuesOf(p), is_evicted \ QueuesOf(p), is_suspended)),
           evicted[p] = 1,
           UNCHANGED <<nodes, queues_list, unlisted, thread, mode, total_queue_count, is_suspended>>,
           \/ done = QueuesOf(p) /\ evicted' = [evicted EXCEPT ![p] = 0] /\ partial' = partial \ {p}
           \/ partial' = partial \cup {p} /\ evicted' = evicted
    PROVE  EvictInv'
<1> USE DEF EvictInv
<1> DEFINE qs == QueuesOf(p)
           act == Activated(qs, is_evicted \ qs, is_suspended)
<1>1. setup' = setup
  BY Zenon DEF mode
<1>2. /\ is_evicted' = is_evicted \ done
      /\ is_active' = is_active \cup (act \cap done)
      /\ active_queue_count' = active_queue_count + Cardinality(act \cap done)
  BY Zenon DEF Restores, Activates
<1>3. active_queue_count' \in Int
  <2>1. act \cap done \subseteq queues_list
    BY Zenon DEF QueuesOf
  <2>2. Cardinality(act \cap done) \in Nat
    BY Zenon, <2>1, ListedCount
  <2> QED BY SMTT(30), <1>2, <2>2 DEF TypeOK
<1>4. /\ is_active' \subseteq queues_list \cup unlisted /\ is_evicted' \subseteq queues_list \cup unlisted
      /\ is_suspended' \subseteq queues_list \cup unlisted
  BY Zenon, <1>2 DEF Activated, QueuesOf, Listed
<1>5. /\ evicted' \in [Procs -> Nat] /\ partial' \subseteq Procs
      /\ \A r \in partial' : evicted'[r] > 0
  BY SMTT(30) DEF TypeOK, Listed
<1>6. EvictedTogether'
  BY SMTT(30), <1>1, <1>2, SetupFacts DEF TypeOK, EvictedTogether, Owner, QueuesOf, Activated, QueueIsActive
<1> QED BY Zenon, <1>3, <1>4, <1>5, <1>6, MarksKeepEvicted

(* restore_process_queues_cpsch: the last restore unmarks every queue, or stops
   half-way and the process is in partial. *)
LEMMA RestoreKeepsEvicted ==
    ASSUME EvictInv, NEW p \in Procs, restore_process_queues_cpsch(p)
    PROVE  EvictInv'
<1> USE DEF EvictInv
<1> DEFINE qs  == QueuesOf(p)
           act == Activated(qs, is_evicted \ qs, is_suspended)
           n   == active_queue_count + Cardinality(act)
           run == Scheduled(nodes, queues_list, is_active \cup act)
<1>1. UNCHANGED <<nodes, queues_list, unlisted, thread, mode>>
  BY Zenon DEF restore_process_queues_cpsch
<1>2. UNCHANGED <<setup, sched_running, is_resetting>>
  BY Zenon, <1>1 DEF mode
<1>3. act \subseteq qs /\ qs \in SUBSET Queues /\ run \in SUBSET Queues /\ act \in SUBSET Queues
  BY Zenon DEF Activated, QueuesOf, TypeOK, Scheduled
<1>4. CASE /\ evicted[p] > 1
           /\ evicted' = [evicted EXCEPT ![p] = @ - 1]
           /\ UNCHANGED <<flags, counts, device, partial>>
  <2>1. UNCHANGED <<is_active, is_evicted, is_suspended, active_queue_count, total_queue_count>>
    BY Zenon, <1>4 DEF flags, counts
  <2>2. Kept
    BY Zenon, <1>2, <1>4 DEF Kept, device, TypeOK, RunlistIsKnown, sched
  <2>3. /\ evicted' \in [Procs -> Nat]
        /\ \A r \in Procs : evicted'[r] > 0 <=> evicted[r] > 0
    BY <1>4 DEF TypeOK
  <2>4. EvictedTogether'
    BY Zenon, <1>1, <1>2, <1>4, <2>1, <2>2, <2>3, SetupFacts
    DEF TypeOK, Kept, EvictedTogether, Owner, sched
  <2> QED BY Zenon, <1>1, <1>4, <2>1, <2>2, <2>3, <2>4, MarksKeepEvicted DEF TypeOK, Listed
<1>5. ASSUME evicted[p] = 1,
             UNCHANGED <<is_suspended, total_queue_count>>,
             sched = "hws", Restores(qs, act),
             NEW o \in execute_queues_cpsch(nodes, n, run), Leaves(o),
             evicted' = [evicted EXCEPT ![p] = 0], partial' = partial \ {p}
      PROVE  EvictInv'
  <2>1. Kept
    <3> HIDE DEF run, n
    <3> QED BY Zenon, <1>2, <1>3, <1>5, ExecuteSane, LeavesKeeps
  <2>2. qs \subseteq QueuesOf(p)
    OBVIOUS
  <2> QED BY Zenon, <2>1, <2>2, <1>1, <1>5, RestoresMarks
<1>6. ASSUME evicted[p] = 1,
             UNCHANGED <<is_suspended, total_queue_count>>,
             sched = "mes", Restores(qs, act),
             Leaves([Now("ok") EXCEPT !.hw = @ \cup act]),
             evicted' = [evicted EXCEPT ![p] = 0], partial' = partial \ {p}
      PROVE  EvictInv'
  <2>1. Sane([Now("ok") EXCEPT !.hw = @ \cup act])
    <3> HIDE DEF act
    <3> QED BY Zenon, <1>3, <1>6 DEF TypeOK, Sane, Now, Outcome, Outcomes
  <2>2. Kept
    BY Zenon, <2>1, <1>2, <1>6, LeavesKeeps
  <2>3. qs \subseteq QueuesOf(p)
    OBVIOUS
  <2> QED BY Zenon, <2>2, <2>3, <1>1, <1>6, RestoresMarks
<1>7. ASSUME evicted[p] = 1,
             UNCHANGED <<is_suspended, total_queue_count>>,
             sched = "mes",
             NEW done \in SUBSET qs, NEW f \in done \cap act, Restores(done, act),
             Leaves(Outcome("EIO", FALSE, TRUE, hw \cup ((done \cap act) \ {f}))),
             partial' = partial \cup {p}, UNCHANGED evicted
      PROVE  EvictInv'
  <2>1. Sane(Outcome("EIO", FALSE, TRUE, hw \cup ((done \cap act) \ {f})))
    <3> HIDE DEF act
    <3> QED BY Zenon, <1>3, <1>7 DEF TypeOK, Sane, Outcome, Outcomes
  <2>2. Kept
    BY Zenon, <2>1, <1>2, <1>7, LeavesKeeps
  <2>3. done \subseteq QueuesOf(p)
    BY <1>7
  <2> QED BY Zenon, <2>2, <2>3, <1>1, <1>7, RestoresMarks
<1> QED BY Zenon, <1>4, <1>5, <1>6, <1>7 DEF restore_process_queues_cpsch

(* suspend_single_queue for some queues. *)
LEMMA SuspendsMarks ==
    ASSUME EvictInv, Kept, NEW s \in SUBSET queues_list, NEW f,
           Suspends(s, f),
           UNCHANGED <<nodes, queues_list, unlisted, thread, mode, total_queue_count, is_evicted, evicted, partial>>
    PROVE  EvictInv'
<1> USE DEF EvictInv
<1> DEFINE off == (s \cap is_active) \ f
<1>1. setup' = setup
  BY Zenon DEF mode
<1>2. /\ is_suspended' = is_suspended \cup s
      /\ is_active' = is_active \ off
      /\ active_queue_count' = active_queue_count - Cardinality(off)
  BY Zenon DEF Suspends
<1>3. active_queue_count' \in Int
  <2>1. off \subseteq queues_list
    OBVIOUS
  <2>2. Cardinality(off) \in Nat
    BY Zenon, <2>1, ListedCount
  <2> QED BY <1>2, <2>2 DEF TypeOK
<1>4. EvictedTogether'
  BY Zenon, <1>1, <1>2 DEF EvictedTogether, Owner
<1> QED BY Zenon, <1>2, <1>3, <1>4, MarksKeepEvicted DEF TypeOK, Listed

(* suspend_queues marks queues and makes none active. *)
LEMMA SuspendKeepsEvicted ==
    ASSUME EvictInv, NEW p \in Procs, NEW ids, suspend_queues(p, ids)
    PROVE  EvictInv'
<1> USE DEF EvictInv
<1> DEFINE s   == ids \cap Suspendable
           off == s \cap is_active
           n   == active_queue_count - Cardinality(off)
           run == Scheduled(nodes, queues_list, is_active \ off)
<1>1. UNCHANGED <<nodes, queues_list, unlisted, evicted, thread, partial, mode, total_queue_count, is_evicted>>
  BY Zenon DEF suspend_queues, aside
<1>2. setup' = setup
  BY Zenon, <1>1 DEF mode
<1>3. s \in SUBSET queues_list /\ run \in SUBSET Queues
  BY Zenon DEF Suspendable, TypeOK, Scheduled
<1>4. ASSUME sched = "hws", Suspends(s, {}), NEW o \in execute_queues_cpsch(nodes, n, run), Leaves(o)
      PROVE  EvictInv'
  <2>1. Kept
    <3> HIDE DEF run, n
    <3> QED BY Zenon, <1>2, <1>3, <1>4, ExecuteSane, LeavesKeeps
  <2> HIDE DEF s
  <2> QED BY Zenon, <2>1, <1>1, <1>3, <1>4, SuspendsMarks
<1>5. ASSUME sched = "mes", Suspends(s, {}), Leaves([Now("ok") EXCEPT !.hw = @ \ off])
      PROVE  EvictInv'
  <2>1. Sane([Now("ok") EXCEPT !.hw = @ \ off])
    <3> HIDE DEF off
    <3> QED BY Zenon, <1>5 DEF TypeOK, Sane, Now, Outcome, Outcomes
  <2>2. Kept
    BY Zenon, <2>1, <1>2, <1>5, LeavesKeeps
  <2> HIDE DEF s
  <2> QED BY Zenon, <2>2, <1>1, <1>3, <1>5, SuspendsMarks
<1>6. ASSUME sched = "mes", NEW done \in SUBSET s, NEW f \in done \cap off, Suspends(done, {f}),
             Leaves(Outcome("EIO", FALSE, TRUE, hw \ ((done \cap off) \ {f})))
      PROVE  EvictInv'
  <2>1. Sane(Outcome("EIO", FALSE, TRUE, hw \ ((done \cap off) \ {f})))
    <3> HIDE DEF off
    <3> QED BY Zenon, <1>6 DEF TypeOK, Sane, Outcome, Outcomes
  <2>2. Kept
    BY Zenon, <2>1, <1>2, <1>6, LeavesKeeps
  <2>3. done \in SUBSET queues_list
    BY Zenon, <1>3, <1>6
  <2> QED BY Zenon, <2>2, <2>3, <1>1, <1>6, SuspendsMarks
<1> QED BY Zenon, <1>4, <1>5, <1>6 DEF suspend_queues

(* resume_single_queue for some queues, of which those not evicted become active. *)
LEMMA ResumesMarks ==
    ASSUME EvictInv, Kept, NEW s \in SUBSET queues_list,
           NEW act \in SUBSET (queues_list \ is_evicted),
           Resumes(s, act),
           UNCHANGED <<nodes, queues_list, unlisted, thread, mode, total_queue_count, is_evicted, evicted, partial>>
    PROVE  EvictInv'
<1> USE DEF EvictInv
<1>1. setup' = setup
  BY Zenon DEF mode
<1>2. /\ is_suspended' = is_suspended \ s
      /\ is_active' = is_active \cup act
      /\ active_queue_count' = active_queue_count + Cardinality(act)
  BY Zenon DEF Resumes, Activates
<1>3. active_queue_count' \in Int
  <2>1. act \subseteq queues_list
    OBVIOUS
  <2>2. Cardinality(act) \in Nat
    BY Zenon, <2>1, ListedCount
  <2> QED BY <1>2, <2>2 DEF TypeOK
<1>4. EvictedTogether'
  BY Zenon, <1>1, <1>2 DEF EvictedTogether, Owner
<1> QED BY Zenon, <1>2, <1>3, <1>4, MarksKeepEvicted DEF TypeOK, Listed

(* resume_queues: what becomes active is not evicted and no longer suspended. *)
LEMMA ResumeKeepsEvicted ==
    ASSUME EvictInv, NEW p \in Procs, NEW ids, NEW byId \in BOOLEAN, resume_queues(p, ids, byId)
    PROVE  EvictInv'
<1> USE DEF EvictInv
<1> DEFINE s   == ids \cap is_suspended
           act == Activated(s, is_evicted, is_suspended \ s)
           n   == active_queue_count + Cardinality(act)
           run == Scheduled(nodes, queues_list, is_active \cup act)
<1>1. /\ ids \subseteq queues_list
      /\ UNCHANGED <<nodes, queues_list, unlisted, evicted, thread, partial, mode, total_queue_count, is_evicted>>
  BY Zenon DEF resume_queues, QueuesOf
<1>2. setup' = setup
  BY Zenon, <1>1 DEF mode
<1>3. /\ s \in SUBSET queues_list /\ run \in SUBSET Queues /\ act \subseteq s
      /\ act \in SUBSET (queues_list \ is_evicted) /\ act \in SUBSET Queues
  BY Zenon, <1>1 DEF Activated, QueueIsActive, TypeOK, Scheduled
<1>4. ASSUME sched = "hws", Resumes(s, act), NEW o \in execute_queues_cpsch(nodes, n, run), Leaves(o)
      PROVE  EvictInv'
  <2>1. Kept
    <3> HIDE DEF run, n
    <3> QED BY Zenon, <1>2, <1>3, <1>4, ExecuteSane, LeavesKeeps
  <2> HIDE DEF s, act
  <2> QED BY Zenon, <2>1, <1>1, <1>3, <1>4, ResumesMarks
<1>5. ASSUME sched = "mes", Resumes(s, act), Leaves([Now("ok") EXCEPT !.hw = @ \cup act])
      PROVE  EvictInv'
  <2>1. Sane([Now("ok") EXCEPT !.hw = @ \cup act])
    <3> HIDE DEF act
    <3> QED BY Zenon, <1>3, <1>5 DEF TypeOK, Sane, Now, Outcome, Outcomes
  <2>2. Kept
    BY Zenon, <2>1, <1>2, <1>5, LeavesKeeps
  <2> HIDE DEF s, act
  <2> QED BY Zenon, <2>2, <1>1, <1>3, <1>5, ResumesMarks
<1>6. ASSUME sched = "mes", NEW done \in SUBSET s, NEW f \in done \cap act,
             Resumes(IF byId THEN done ELSE s, (done \cap act) \ {f}),
             Leaves(Outcome("EIO", FALSE, TRUE, hw \cup ((done \cap act) \ {f})))
      PROVE  EvictInv'
  <2> DEFINE t == IF byId THEN done ELSE s
             on == (done \cap act) \ {f}
  <2>1. Sane(Outcome("EIO", FALSE, TRUE, hw \cup on))
    <3> HIDE DEF act
    <3> QED BY Zenon, <1>3, <1>6 DEF TypeOK, Sane, Outcome, Outcomes
  <2>2. Kept
    BY Zenon, <2>1, <1>2, <1>6, LeavesKeeps
  <2>3. t \in SUBSET queues_list /\ on \in SUBSET (queues_list \ is_evicted)
    BY Zenon, <1>3, <1>6
  <2>4. Resumes(t, on)
    BY Zenon, <1>6
  <2> HIDE DEF t, on
  <2> QED BY Zenon, <2>2, <2>3, <2>4, <1>1, ResumesMarks
<1> QED BY Zenon, <1>4, <1>5, <1>6 DEF resume_queues

(* process_termination_cpsch: the queues stay on the list, the process is torn down. *)
LEMMA TerminationKeepsEvicted ==
    ASSUME EvictInv, NEW p \in Procs, process_termination_cpsch(p)
    PROVE  EvictInv'
<1> USE DEF EvictInv
<1> DEFINE qs == QueuesOf(p)
           n  == active_queue_count - Cardinality(qs \cap is_active)
           rem == qs \cap is_active
           run == Scheduled(nodes', queues_list, is_active)
<1>1. /\ active_queue_count' = n
      /\ total_queue_count' = total_queue_count - Cardinality(qs)
      /\ nodes' = [nodes EXCEPT ![p] = IF @ > 0 THEN @ - 1 ELSE @]
      /\ thread' = [thread EXCEPT ![p] = [op |-> "free"]]
      /\ UNCHANGED <<queues_list, unlisted, evicted, partial, flags, mode>>
  BY Zenon DEF process_termination_cpsch
<1>2. UNCHANGED <<setup, sched_running, is_resetting, is_active, is_evicted, is_suspended>>
  BY Zenon, <1>1 DEF mode, flags
<1>3. Kept
  <2>1. rem \in SUBSET Queues /\ run \in SUBSET Queues
    BY Zenon DEF TypeOK, QueuesOf, Scheduled
  <2>2. PICK o \in IF sched = "mes" THEN remove_queues_mes(rem) ELSE execute_queues_cpsch(nodes', n, run) : Leaves(o)
    BY Zenon DEF process_termination_cpsch
  <2> HIDE DEF rem, run, n
  <2> QED BY Zenon, <2>1, <2>2, <1>2, CallKeeps
<1>4. Cardinality(qs) \in Nat /\ Cardinality(qs \cap is_active) \in Nat
  BY Zenon, ListedCount DEF QueuesOf
<1>5. TypeOK'
  <2>1. active_queue_count' \in Int /\ total_queue_count' \in Int
    BY <1>1, <1>4 DEF TypeOK
  <2>2. thread' \in [Procs -> [op : Ops, q : Queues] \cup {Idle, [op |-> "free"]}]
    BY Zenon, <1>1 DEF TypeOK
  <2>3. nodes' \in [Procs -> Nat]
    BY <1>1 DEF TypeOK
  <2> QED BY Zenon, <1>1, <1>2, <1>3, <2>1, <2>2, <2>3 DEF TypeOK, Kept
<1>6. Listed'
  BY SMTT(30), <1>1, <1>2 DEF TypeOK, Listed, Owner, Ops
<1>7. EvictedTogether'
  BY Zenon, <1>1, <1>2 DEF EvictedTogether, Owner
<1> QED BY Zenon, <1>3, <1>5, <1>6, <1>7 DEF Kept

(* stop_cpsch changes only the device. *)
LEMMA StopKeepsEvicted ==
    ASSUME EvictInv, stop_cpsch
    PROVE  EvictInv'
<1> USE DEF EvictInv
<1> DEFINE rem == Scheduled(nodes, queues_list, is_active)
<1>1. /\ sched_running' = FALSE
      /\ UNCHANGED <<nodes, queues_list, unlisted, evicted, thread, partial, setup, is_resetting,
                     is_active, is_evicted, is_suspended, active_queue_count, total_queue_count>>
  BY Zenon DEF stop_cpsch, flags, counts, aside
<1>2. PICK o \in IF is_hws_hang THEN {Now("EIO")}
                ELSE IF sched = "mes" THEN remove_queues_mes(rem) ELSE unmap_queues_cpsch : Leaves(o)
  BY Zenon DEF stop_cpsch
<1>3. Sane(o)
  <2>1. CASE is_hws_hang
    BY Zenon, <2>1, <1>2, NowIsSane
  <2>2. CASE ~ is_hws_hang /\ sched = "mes"
    <3>1. rem \in SUBSET Queues
      BY Zenon DEF Scheduled, TypeOK
    <3> HIDE DEF rem
    <3> QED BY Zenon, <2>2, <3>1, <1>2, RemoveOutcome DEF TypeOK
  <2>3. CASE ~ is_hws_hang /\ sched # "mes"
    BY Zenon, <2>3, <1>2, UnmapOutcome, SetupFacts
  <2> QED BY Zenon, <2>1, <2>2, <2>3
<1>4. Kept
  BY Zenon, <1>1, <1>2, <1>3, LeavesKeeps
<1>5. TypeOK' /\ Listed' /\ EvictedTogether'
  BY Zenon, <1>1, <1>4 DEF Kept, TypeOK, Listed, EvictedTogether, Owner
<1> QED BY Zenon, <1>4, <1>5 DEF Kept

(* What start_cpsch leaves is sane but for the hang it may clear. *)
LEMMA StartOutcome ==
    ASSUME EvictInv, start_cpsch
    PROVE  \E o : Leaves(o) /\ Sane([o EXCEPT !.hang = TRUE]) /\ o \in Outcomes
<1> USE DEF EvictInv
<1> DEFINE up  == Outcome("ok", FALSE, FALSE, {})
           run == Scheduled(nodes, queues_list, is_active)
<1>1. PICK o \in IF sched = "mes" THEN {up}
                ELSE map_queues_cpsch(nodes, up, active_queue_count, run)
                     \cup {Outcome("ETIME", TRUE, TRUE, {}) :
                           f \in IF active_runlist THEN Faults \cap {"hang"} ELSE {}} : Leaves(o)
  BY Zenon DEF start_cpsch
<1>2. run \in SUBSET Queues
  BY Zenon DEF Scheduled, TypeOK
<1>3. \/ o = up
      \/ o = [up EXCEPT !.runlist = TRUE, !.hw = run]
      \/ o = [up EXCEPT !.ret = "ENOMEM"]
      \/ o = Outcome("ETIME", TRUE, TRUE, {})
  <2> HIDE DEF up, run
  <2> QED BY Zenon, <1>1 DEF map_queues_cpsch
<1>4. o \in Outcomes /\ (o.hw # {} => o.runlist)
  <2> HIDE DEF run
  <2>1. up = [ret |-> "ok", runlist |-> FALSE, hang |-> FALSE, hw |-> {}]
    BY Zenon DEF Outcome
  <2> HIDE DEF up
  <2>2. CASE o = up
    BY Zenon, <2>1, <2>2 DEF Outcomes
  <2>3. CASE o = [up EXCEPT !.runlist = TRUE, !.hw = run]
    BY Zenon, <2>1, <2>3, <1>2 DEF Outcomes
  <2>4. CASE o = [up EXCEPT !.ret = "ENOMEM"]
    BY Zenon, <2>1, <2>4 DEF Outcomes
  <2>5. CASE o = Outcome("ETIME", TRUE, TRUE, {})
    BY Zenon, <2>5 DEF Outcome, Outcomes
  <2> QED BY Zenon, <1>3, <2>2, <2>3, <2>4, <2>5
<1>5. Sane([o EXCEPT !.hang = TRUE])
  BY Zenon, <1>4 DEF Sane, Outcomes
<1> QED BY Zenon, <1>1, <1>4, <1>5

(* start_cpsch changes only the device. *)
LEMMA StartKeepsEvicted ==
    ASSUME EvictInv, start_cpsch
    PROVE  EvictInv'
<1> USE DEF EvictInv
<1>1. /\ ~ sched_running /\ sched_running' = TRUE /\ is_resetting' = FALSE
      /\ UNCHANGED <<nodes, queues_list, unlisted, evicted, thread, partial, setup,
                     is_active, is_evicted, is_suspended, active_queue_count, total_queue_count>>
  BY Zenon DEF start_cpsch, flags, counts, aside
<1>2. PICK o : Leaves(o) /\ Sane([o EXCEPT !.hang = TRUE]) /\ o \in Outcomes
  BY Zenon, StartOutcome
<1>3. /\ active_runlist' \in BOOLEAN /\ is_hws_hang' \in BOOLEAN /\ unsynced' \in BOOLEAN
      /\ hw' \in SUBSET Queues /\ RunlistIsKnown'
  BY Zenon, <1>1, <1>2 DEF Leaves, Sane, Outcomes, RunlistIsKnown, TypeOK, sched
<1>4. TypeOK' /\ Listed' /\ EvictedTogether'
  BY Zenon, <1>1, <1>3 DEF TypeOK, Listed, EvictedTogether, Owner
<1> QED BY Zenon, <1>3, <1>4

(* EvictInv holds initially. *)
LEMMA InitEvicted == Init => EvictInv
<1> SUFFICES ASSUME Init PROVE EvictInv
  OBVIOUS
<1> USE DEF Init
<1>1. TypeOK
  <2>1. thread \in [Procs -> [op : Ops, q : Queues] \cup {Idle, [op |-> "free"]}]
    BY Zenon
  <2>2. nodes \in [Procs -> Nat] /\ evicted \in [Procs -> Nat]
    OBVIOUS
  <2>3. active_queue_count \in Int /\ total_queue_count \in Int
    OBVIOUS
  <2> QED BY <2>1, <2>2, <2>3, Zenon DEF TypeOK
<1>2. Listed
  BY Zenon, FS_EmptySet DEF Listed, Idle, Ops
<1> QED BY Zenon, <1>1, <1>2
        DEF EvictInv, EvictedTogether, RunlistIsKnown

(* EvictInv is inductive. *)
LEMMA NextKeepsEvicted == EvictInv /\ [Next]_vars => EvictInv'
<1> SUFFICES ASSUME EvictInv, [Next]_vars PROVE EvictInv'
  OBVIOUS
<1>1. CASE UNCHANGED vars
  BY Zenon, <1>1, QuietKeepsEvicted DEF vars, flags, aside
<1>2. ASSUME NEW p \in setup.procs, ThreadStep(p)
      PROVE  EvictInv'
  <2>1. p \in Procs
    BY Zenon, SetupFacts DEF EvictInv
  <2> QED BY Zenon, <2>1, <1>2, CheckKeepsEvicted, CreateKeepsEvicted, UnregisterKeepsEvicted, FreeMqdKeepsEvicted,
             FreedKeepsEvicted DEF ThreadStep
<1>3. ASSUME NEW p \in setup.procs,
             \/ evict_process_queues_cpsch(p)
             \/ restore_process_queues_cpsch(p)
             \/ process_termination_cpsch(p)
             \/ \E ids \in SUBSET QueuesOf(p) \ {{}} :
                  suspend_queues(p, ids) \/ \E byId \in BOOLEAN : resume_queues(p, ids, byId)
      PROVE  EvictInv'
  <2>1. p \in Procs
    BY Zenon, SetupFacts DEF EvictInv
  <2> QED BY Zenon, <2>1, <1>3, EvictKeepsEvicted, RestoreKeepsEvicted, TerminationKeepsEvicted, SuspendKeepsEvicted,
             ResumeKeepsEvicted
<1>4. ASSUME NEW p \in setup.procs, NEW q \in Queues,
             \/ destroy_queue_cpsch(p, q) \/ Waits(p, q) \/ WaitInterrupted(p, q)
             \/ \E run \in BOOLEAN : pqm_create_queue(p, q, run) \/ update_queue(p, q, run)
      PROVE  EvictInv'
  <2>1. p \in Procs
    BY Zenon, SetupFacts DEF EvictInv
  <2>2. CASE destroy_queue_cpsch(p, q)
    BY Zenon, <2>1, <2>2, RemoveKeepsEvicted, QuietKeepsEvicted DEF destroy_queue_cpsch, Known, QueuesOf, aside
  <2>3. CASE WaitSleeps(q)
    BY Zenon, <2>3, QuietKeepsEvicted DEF WaitSleeps, flags, aside
  <2>4. CASE WaitEnds(p, q)
    BY Zenon, <2>1, <2>4, RemoveKeepsEvicted DEF WaitEnds
  <2>5. CASE WaitInterrupted(p, q)
    BY Zenon, <2>5, QuietKeepsEvicted DEF WaitInterrupted, flags, aside
  <2> QED BY Zenon, <1>4, <2>1, <2>2, <2>3, <2>4, <2>5, PqmCreateKeepsEvicted, UpdateKeepsEvicted DEF Waits
<1>5. CASE pre_reset \/ stop_cpsch \/ start_cpsch
  BY Zenon, <1>5, PreResetKeepsEvicted, StopKeepsEvicted, StartKeepsEvicted
<1> QED BY Zenon, <1>1, <1>2, <1>3, <1>4, <1>5 DEF Next, Step

(* Eviction state logic of evict_process_queues_cpsch and
   restore_process_queues_cpsch: through nested evictions, suspends, updates,
   resets and every failure, the queues of a process are marked evicted exactly
   while qpd->evicted is not 0, also those created meanwhile, and a marked queue
   is never active.  A process whose restore stopped half-way with the MES is
   left out until it is freed. *)
THEOREM QueuesEvictedTogether == Spec => []EvictedTogether
<1>1. EvictInv => EvictedTogether
  BY Zenon DEF EvictInv
<1> QED BY <1>1, InitEvicted, NextKeepsEvicted, PTL DEF Spec

(* With the HWS no queue is ever on the hardware while active_runlist is FALSE,
   so unmap_queues_cpsch never skips a preemption that is needed. *)
THEOREM RunlistAlwaysKnown == Spec => []RunlistIsKnown
<1>1. EvictInv => RunlistIsKnown
  BY Zenon DEF EvictInv
<1> QED BY <1>1, InitEvicted, NextKeepsEvicted, PTL DEF Spec

-----------------------------------------------------------------------------

(* The queues counted as active, those of a runlist, and those of the two that
   the firmware of the device is to run. *)
Live == Counted \cap is_active
Running == Scheduled(nodes, queues_list, is_active)
Shown == IF sched = "mes" THEN Live ELSE Running

(* Cardinality of a disjoint union. *)
LEMMA AddCount ==
    ASSUME NEW S, NEW T, IsFiniteSet(S), IsFiniteSet(T), S \cap T = {}
    PROVE  IsFiniteSet(S \cup T) /\ Cardinality(S \cup T) = Cardinality(S) + Cardinality(T)
<1>1. Cardinality(S \cap T) = 0
  BY Zenon, FS_EmptySet
<1> QED BY <1>1, FS_Union, FS_CardinalityType

(* Cardinality after taking away a subset. *)
LEMMA RemoveCount ==
    ASSUME NEW S, NEW T, IsFiniteSet(S), T \subseteq S
    PROVE  IsFiniteSet(S \ T) /\ Cardinality(S \ T) = Cardinality(S) - Cardinality(T)
<1>1. IsFiniteSet(T) /\ IsFiniteSet(S \ T)
  BY Zenon, FS_Subset
<1>2. (S \ T) \cap T = {} /\ (S \ T) \cup T = S
  OBVIOUS
<1>3. Cardinality(S) = Cardinality(S \ T) + Cardinality(T)
  BY Zenon, <1>1, <1>2, AddCount
<1> QED BY <1>1, <1>3, FS_CardinalityType

(* Cardinality of a singleton. *)
LEMMA OneCount == \A x : IsFiniteSet({x}) /\ Cardinality({x}) = 1
BY Zenon, FS_Singleton

(* One element more. *)
LEMMA AddOne ==
    ASSUME NEW S, NEW x, IsFiniteSet(S), x \notin S
    PROVE  IsFiniteSet(S \cup {x}) /\ Cardinality(S \cup {x}) = Cardinality(S) + 1
<1>1. S \cap {x} = {}
  OBVIOUS
<1>2. IsFiniteSet({x}) /\ Cardinality({x}) = 1
  BY Zenon, OneCount
<1> QED BY Zenon, <1>1, <1>2, AddCount

(* One element less. *)
LEMMA RemoveOne ==
    ASSUME NEW S, NEW x, IsFiniteSet(S), x \in S
    PROVE  IsFiniteSet(S \ {x}) /\ Cardinality(S \ {x}) = Cardinality(S) - 1
<1>1. {x} \subseteq S
  OBVIOUS
<1>2. Cardinality({x}) = 1
  BY Zenon, OneCount
<1> QED BY Zenon, <1>1, <1>2, RemoveCount

(* What the counts are before anything has gone astray. *)
LEMMA Exact ==
    ASSUME EvictInv, CountInv, astray \notin Astray
    PROVE  /\ active_queue_count = Cardinality(Live) /\ total_queue_count = Cardinality(Counted)
           /\ IsFiniteSet(Live) /\ IsFiniteSet(Counted)
           /\ active_queue_count \in Nat
           /\ Live \in SUBSET Queues /\ Running \subseteq Live
<1> USE DEF EvictInv, CountInv
<1>1. active_queue_count = Cardinality(Live) /\ total_queue_count = Cardinality(Counted)
  BY Zenon DEF CountsAreExact, Live, Astray
<1>2. Live \subseteq queues_list /\ Counted \subseteq queues_list
  BY Zenon DEF Live, Counted
<1>3. IsFiniteSet(Live) /\ IsFiniteSet(Counted) /\ Cardinality(Live) \in Nat
  BY Zenon, <1>2, ListedCount
<1>4. Running \subseteq Live
  BY SMTT(30), SetupFacts DEF TypeOK, Entered, Running, Live, Counted, Scheduled, Registered
<1> QED BY Zenon, <1>1, <1>2, <1>3, <1>4 DEF TypeOK

(* Nothing is said once the driver has gone astray, except of the counts when a
   process left an entry behind. *)
LEMMA GoneAstray ==
    ASSUME astray' \in {"queue", "count"}
    PROVE  CountInv'
BY Zenon DEF CountInv, Entered, CountsAreExact, HardwareMatches, Astray

(* An outcome that fits the queues the firmware is to run keeps HardwareMatches. *)
LEMMA LeavesRunning ==
    ASSUME TypeOK, NEW o, Sane(o), Leaves(o), UNCHANGED mode, Fits(o, Shown')
    PROVE  HardwareMatches'
<1>1. UNCHANGED <<setup, sched_running, is_resetting>>
  BY Zenon DEF mode
<1> QED BY Zenon, <1>1 DEF TypeOK, Sane, Outcomes, Leaves, Fits, HardwareMatches, Shown, Live, Running, sched

(* A call that sends a runlist of the queues that are then active, or that has
   the MES remove the queues that are not. *)
LEMMA CallMatches ==
    ASSUME TypeOK, RunlistIsKnown, HardwareMatches, astray \notin Astray, UNCHANGED mode,
           IsFiniteSet(Live'), Running' \subseteq Live', Running' \in SUBSET Queues,
           NEW rem \in SUBSET Queues, Live \ rem \subseteq Live',
           NEW o \in IF sched = "mes" THEN remove_queues_mes(rem)
                     ELSE execute_queues_cpsch(nodes', Cardinality(Live'), Running'),
           Leaves(o)
    PROVE  HardwareMatches'
<1>0. sched' = sched
  BY Zenon DEF mode, sched
<1>1. CASE sched = "mes"
  <2>1. ~ is_hws_hang => hw \ rem \subseteq Live'
    BY Zenon, <1>1 DEF HardwareMatches, Live
  <2>2. Sane(o) /\ Fits(o, Live')
    BY Zenon, <1>1, <2>1, RemoveOutcome
  <2> QED BY Zenon, <2>2, <1>0, <1>1, LeavesRunning DEF Shown
<1>2. CASE sched # "mes"
  <2>1. Cardinality(Live') = 0 => Running' = {}
    <3>1. Cardinality(Live') = 0 => Live' = {}
      BY Zenon, FS_EmptySet
    <3> QED BY Zenon, <3>1
  <2>2. Registered(nodes') = {} => Running' = {}
    BY Zenon DEF Running, Scheduled, Registered
  <2>3. Sane(o) /\ Fits(o, Running')
    <3>1. o \in execute_queues_cpsch(nodes', Cardinality(Live'), Running') /\ sched = "hws"
      BY Zenon, <1>2, SetupFacts
    <3> HIDE DEF Running, Live
    <3> QED BY Zenon, <3>1, <2>1, <2>2, ExecuteOutcome
  <2> QED BY Zenon, <2>3, <1>0, <1>2, LeavesRunning DEF Shown
<1> QED BY Zenon, <1>1, <1>2

(* A step that changes neither the sets nor the counts nor the device. *)
LEMMA SameCounts ==
    ASSUME CountsAreExact, HardwareMatches, Running' = Running, Live' = Live, Counted' = Counted,
           UNCHANGED <<counts, device, mode, astray>>
    PROVE  CountsAreExact' /\ HardwareMatches'
<1>1. UNCHANGED <<active_queue_count, total_queue_count, is_hws_hang, hw, unsynced, setup, sched_running, is_resetting>>
  BY Zenon DEF counts, device, mode
<1> QED BY Zenon, <1>1 DEF CountsAreExact, HardwareMatches, Running, Live, sched

(* The sets after a step that changes the entry of one process without queues,
   and no thread that tears down. *)
LEMMA SameSets ==
    ASSUME EvictInv, CountInv, astray \notin Astray, NEW p \in Procs,
           QueuesOf(p) = {} \/ nodes'[p] = nodes[p],
           \A r \in Procs \ {p} : nodes'[r] = nodes[r],
           \A r \in Procs : thread'[r].op = "free" <=> thread[r].op = "free",
           thread[p].op # "free",
           UNCHANGED <<setup, queues_list, is_active>>
    PROVE  Running' = Running /\ Live' = Live /\ Counted' = Counted /\ Entered'
<1> USE DEF EvictInv, CountInv
<1>1. \A q \in queues_list : Owner[q] \in Procs /\ nodes'[Owner[q]] = nodes[Owner[q]]
  BY Zenon, SetupFacts DEF TypeOK, QueuesOf
<1>2. Running' = Running
  BY Zenon, <1>1 DEF Running, Scheduled, Registered, Owner
<1>3. Counted' = Counted
  BY Zenon, <1>1 DEF Counted, Owner
<1>4. Live' = Live
  BY Zenon, <1>3 DEF Live
<1>5. Entered'
  BY Zenon DEF Entered
<1> QED BY Zenon, <1>2, <1>3, <1>4, <1>5

(* pqm_create_queue: a process without queues is entered, which changes no runlist. *)
LEMMA PqmCreateCounts ==
    ASSUME EvictInv, CountInv, astray \notin Astray,
           NEW p \in Procs, NEW q \in Queues, NEW run \in BOOLEAN, pqm_create_queue(p, q, run)
    PROVE  CountInv'
<1> USE DEF EvictInv, CountInv
<1>1. /\ thread[p] = Idle
      /\ UNCHANGED <<queues_list, is_active, counts, device, mode, astray>>
  BY Zenon DEF pqm_create_queue
<1>2. /\ QueuesOf(p) = {} \/ nodes'[p] = nodes[p]
      /\ \A r \in Procs \ {p} : nodes'[r] = nodes[r]
  BY Zenon DEF pqm_create_queue, register_process, TypeOK
<1>3. PICK t \in {Idle, Doing("check", q)} : thread' = [thread EXCEPT ![p] = t]
  BY <1>1 DEF pqm_create_queue, TypeOK
<1>4. \A r \in Procs : thread'[r].op = "free" <=> thread[r].op = "free"
  BY SMTT(30), <1>1, <1>3 DEF TypeOK, Idle, Doing
<1>5. thread[p].op # "free" /\ setup' = setup
  BY <1>1 DEF Idle, mode
<1>6. Running' = Running /\ Live' = Live /\ Counted' = Counted /\ Entered'
  BY Zenon, <1>1, <1>2, <1>4, <1>5, SameSets
<1> QED BY Zenon, <1>1, <1>6, SameCounts

(* CheckLimit leaves the counts alone. *)
LEMMA CheckCounts ==
    ASSUME EvictInv, CountInv, astray \notin Astray, NEW p \in Procs, CheckLimit(p)
    PROVE  CountInv'
<1> USE DEF EvictInv, CountInv
<1>1. /\ thread[p].op = "check" /\ thread[p] \in [op : Ops, q : Queues]
      /\ UNCHANGED <<nodes, queues_list, flags, counts, device, mode, astray>>
  BY Zenon, ThreadForms DEF CheckLimit, Ops, aside
<1>2. PICK x \in Ops : thread' = [thread EXCEPT ![p].op = x]
  BY Zenon DEF CheckLimit, Ops
<1>3. UNCHANGED <<setup, is_active>>
  BY Zenon, <1>1 DEF mode, flags
<1>4. \A r \in Procs : thread'[r].op = "free" <=> thread[r].op = "free"
  BY Zenon, <1>1, <1>2 DEF TypeOK, Ops
<1>5. thread[p].op # "free"
  BY Zenon, <1>1
<1>6. Running' = Running /\ Live' = Live /\ Counted' = Counted /\ Entered'
  BY Zenon, <1>1, <1>3, <1>4, <1>5, SameSets
<1> QED BY Zenon, <1>1, <1>6, SameCounts

(* A step that changes nothing the counts are about. *)
LEMMA QuietCounts ==
    ASSUME CountInv, UNCHANGED <<nodes, queues_list, thread, counts, device, mode, is_active, astray>>
    PROVE  CountInv'
<1>1. Running' = Running /\ Live' = Live /\ Counted' = Counted
  BY Zenon DEF Running, Live, Counted, Scheduled, Registered, Owner, mode
<1>2. Entered'
  BY Zenon DEF CountInv, Entered, mode
<1> QED BY Zenon, <1>1, <1>2, SameCounts DEF CountInv

(* unregister_process: only a process without queues is taken from dqm->queues. *)
LEMMA UnregisterCounts ==
    ASSUME EvictInv, CountInv, astray \notin Astray, NEW p \in Procs, unregister_process(p)
    PROVE  CountInv'
<1> USE DEF EvictInv, CountInv
<1>1. /\ thread[p].op = "undo" /\ thread[p] \in [op : Ops, q : Queues]
      /\ nodes' = [nodes EXCEPT ![p] = IF QueuesOf(p) = {} /\ @ > 0 THEN @ - 1 ELSE @]
      /\ thread' = [thread EXCEPT ![p] = Idle]
      /\ is_active' = is_active \ {thread[p].q}
      /\ UNCHANGED <<queues_list, counts, device, mode, astray>>
  BY Zenon, ThreadForms DEF unregister_process, Ops, Forgets, aside
<1>2. UNCHANGED <<setup, is_active>>
  <2>1. thread[p].q \notin is_active
    BY Zenon, <1>1 DEF Listed, Ops
  <2> QED BY Zenon, <2>1, <1>1 DEF mode
<1>3. /\ QueuesOf(p) = {} \/ nodes'[p] = nodes[p]
      /\ \A r \in Procs \ {p} : nodes'[r] = nodes[r]
  BY Zenon, <1>1 DEF TypeOK
<1>4. \A r \in Procs : thread'[r].op = "free" <=> thread[r].op = "free"
  BY Zenon, <1>1 DEF TypeOK, Idle
<1>5. thread[p].op # "free"
  BY Zenon, <1>1
<1>6. Running' = Running /\ Live' = Live /\ Counted' = Counted /\ Entered'
  BY Zenon, <1>1, <1>2, <1>3, <1>4, <1>5, SameSets
<1> QED BY Zenon, <1>1, <1>6, SameCounts

(* FreeMqd: the queues of a process torn down were counted out before, when it
   was unregistered. *)
LEMMA FreeMqdCounts ==
    ASSUME EvictInv, CountInv, astray \notin Astray, NEW p \in Procs, NEW q \in Queues, FreeMqd(p, q)
    PROVE  CountInv'
<1> USE DEF EvictInv, CountInv
<1>1. /\ thread[p].op = "free" /\ q \in queues_list /\ Owner[q] = p
      /\ queues_list' = queues_list \ {q}
      /\ is_active' = is_active \ {q}
      /\ UNCHANGED <<nodes, thread, counts, device, mode, astray>>
  BY Zenon DEF FreeMqd, Forgets, QueuesOf, aside
<1>2. setup' = setup /\ nodes[p] = 0
  BY Zenon, <1>1 DEF mode, Entered
<1>3. p \notin Registered(nodes)
  BY <1>2 DEF Registered
<1>4. Running' = Running
  BY Zenon, <1>1, <1>2, <1>3 DEF Running, Scheduled, Registered, Owner
<1>5. Counted' = Counted
  BY Zenon, <1>1, <1>2 DEF Counted, Owner
<1>6. q \notin Counted
  BY Zenon, <1>1 DEF Counted
<1>7. Live' = Live
  BY Zenon, <1>1, <1>5, <1>6 DEF Live
<1>8. Entered'
  BY Zenon, <1>1 DEF Entered
<1> QED BY Zenon, <1>1, <1>4, <1>5, <1>7, <1>8, SameCounts

(* ProcessIsFreed: there are no queues left on a list. *)
LEMMA FreedCounts ==
    ASSUME EvictInv, CountInv, astray \notin Astray, NEW p \in Procs, ProcessIsFreed(p)
    PROVE  CountInv'
<1> USE DEF EvictInv, CountInv
<1> DEFINE left == {q \in unlisted : Owner[q] = p}
<1>1. /\ QueuesOf(p) = {}
      /\ thread' = [thread EXCEPT ![p] = Idle]
      /\ is_active' = is_active \ left
      /\ UNCHANGED <<nodes, queues_list, counts, device, mode, astray>>
  BY Zenon DEF ProcessIsFreed, Forgets
<1>2. setup' = setup
  BY Zenon, <1>1 DEF mode
<1>3. \A r \in queues_list : thread'[Owner[r]] = thread[Owner[r]] /\ (r \in is_active' <=> r \in is_active)
  BY Zenon, <1>1, SetupFacts DEF TypeOK, QueuesOf, Listed
<1>4. Running' = Running
  BY Zenon, <1>1, <1>2, <1>3 DEF Running, Scheduled, Registered, Owner
<1>5. Counted' = Counted
  BY Zenon, <1>1, <1>2, <1>3 DEF Counted, Owner
<1>6. Live' = Live
  BY Zenon, <1>3, <1>5 DEF Live, Counted
<1>7. Entered'
  BY Zenon, <1>1 DEF TypeOK, Entered, Idle
<1> QED BY Zenon, <1>1, <1>4, <1>5, <1>6, <1>7, SameCounts

(* The counts and the hardware after a queue was put on a list or taken off it. *)
LEMMA ListChanged ==
    ASSUME EvictInv, CountInv, astray \notin Astray,
           UNCHANGED <<nodes, setup>>, \A r \in Procs : thread'[r].op = "free" <=> thread[r].op = "free",
           active_queue_count' = Cardinality(Live'), total_queue_count' = Cardinality(Counted'), HardwareMatches'
    PROVE  CountInv'
<1>1. Entered'
  BY Zenon DEF CountInv, Entered
<1>2. CountsAreExact'
  BY Zenon DEF CountsAreExact, Live
<1> QED BY Zenon, <1>1, <1>2 DEF CountInv

(* create_queue_cpsch: a queue is counted if and only if it was mapped or needs
   no mapping; after a failure nothing has changed but the device. *)
LEMMA CreateCounts ==
    ASSUME EvictInv, CountInv, astray \notin Astray, NEW p \in Procs, create_queue_cpsch(p)
    PROVE  CountInv'
<1> USE DEF EvictInv, CountInv
<1> DEFINE q  == thread[p].q
           ev == IF evicted[p] > 0 THEN is_evicted \cup {q} ELSE is_evicted
           a  == QueueIsActive(q, runnable, ev, is_suspended)
           on == IF a THEN is_active \cup {q} ELSE is_active
           n  == active_queue_count + 1
           run == Scheduled(nodes, queues_list \cup {q}, on)
           outs == IF ~ a THEN {Now("ok")}
                   ELSE IF sched = "mes" THEN add_queue_mes(Now("ok"), q)
                   ELSE execute_queues_cpsch(nodes, n, run)
<1>1. /\ thread[p].op = "create" /\ thread[p] \in [op : Ops, q : Queues]
      /\ q \in Queues /\ q \notin queues_list \cup is_active /\ Owner[q] = p
      /\ UNCHANGED <<nodes, mode, astray>>
  BY Zenon, ThreadForms DEF create_queue_cpsch, Ops, Listed, aside
<1>2. PICK o \in outs :
        /\ IF a THEN Leaves(o) ELSE UNCHANGED device
        /\ IF o.ret = "ok"
             THEN /\ queues_list' = queues_list \cup {q}
                  /\ is_evicted' = ev /\ is_active' = on
                  /\ active_queue_count' = IF a THEN n ELSE active_queue_count
                  /\ total_queue_count' = total_queue_count + 1
                  /\ thread' = [thread EXCEPT ![p] = Idle]
                  /\ UNCHANGED <<runnable, is_suspended, is_being_destroyed>>
             ELSE /\ thread' = [thread EXCEPT ![p].op = "undo"]
                  /\ UNCHANGED <<queues_list, counts, flags>>
  BY Zenon DEF create_queue_cpsch
<1>3. setup' = setup
  BY Zenon, <1>1 DEF mode
<1>4. \A r \in Procs : thread'[r].op = "free" <=> thread[r].op = "free"
  BY <1>1, <1>2 DEF TypeOK, Idle
<1>5. /\ active_queue_count = Cardinality(Live) /\ total_queue_count = Cardinality(Counted)
      /\ IsFiniteSet(Live) /\ IsFiniteSet(Counted) /\ active_queue_count \in Nat
      /\ Live \in SUBSET Queues /\ Running \subseteq Live
  BY Zenon, Exact
<1>6. run \in SUBSET Queues /\ (n = 0 => run = {}) /\ (Registered(nodes) = {} => run = {})
  <2>1. n # 0
    BY <1>5
  <2>2. run \in SUBSET Queues /\ (Registered(nodes) = {} => run = {})
    BY Zenon, <1>1 DEF TypeOK, Scheduled
  <2> QED BY Zenon, <2>1, <2>2
<1>7. a => Sane(o) /\ Fits(o, IF sched = "mes" THEN Live \cup {q} ELSE run)
  <2>1. CASE a /\ sched = "mes"
    <3>1. Sane(Now("ok")) /\ Now("ok") \in Outcomes /\ Now("ok").ret = "ok"
      BY Zenon, NowIsSane DEF Sane, Now, Outcome
    <3>2. ~ Now("ok").hang => Now("ok").hw \cup {q} \subseteq Live \cup {q}
      BY Zenon, <2>1 DEF Now, Outcome, HardwareMatches, Live
    <3>3. o \in add_queue_mes(Now("ok"), q)
      BY Zenon, <2>1, <1>2
    <3>4. Sane(o) /\ Fits(o, Live \cup {q})
      BY Zenon, <3>1, <3>2, <3>3, <2>1, <1>1, AddOutcome
    <3> QED BY Zenon, <3>4, <2>1
  <2>2. CASE a /\ sched # "mes"
    <3>1. o \in execute_queues_cpsch(nodes, n, run) /\ sched = "hws"
      BY Zenon, <2>2, <1>2, SetupFacts
    <3> HIDE DEF run, n
    <3> QED BY Zenon, <3>1, <2>2, <1>6, ExecuteOutcome
  <2> QED BY Zenon, <2>1, <2>2
<1>8. CASE o.ret = "ok"
  <2>1. /\ queues_list' = queues_list \cup {q} /\ is_active' = on
        /\ active_queue_count' = IF a THEN n ELSE active_queue_count
        /\ total_queue_count' = total_queue_count + 1
    BY Zenon, <1>8, <1>2
  <2>2. Counted' = Counted \cup {q} /\ q \notin Counted
    <3>1. \A r \in Queues : Owner'[r] = Owner[r] /\ Owner[r] \in Procs
      BY Zenon, <1>3, SetupFacts DEF Owner
    <3>2. \A r \in Queues : thread'[Owner'[r]].op = "free" <=> thread[Owner[r]].op = "free"
      BY Zenon, <3>1, <1>4
    <3>3. queues_list \subseteq Queues /\ thread[Owner[q]].op # "free"
      BY Zenon, <1>1 DEF TypeOK
    <3>4. thread'[Owner'[q]].op # "free"
      BY Zenon, <3>2, <3>3, <1>1
    <3>5. ASSUME NEW r PROVE r \in Counted' <=> r \in Counted \/ r = q
      <4>1. CASE r = q
        BY Zenon, <4>1, <3>4, <2>1 DEF Counted
      <4>2. CASE r # q
        BY Zenon, <4>2, <3>2, <3>3, <2>1 DEF Counted
      <4> QED BY Zenon, <4>1, <4>2
    <3>6. q \notin Counted
      BY Zenon, <1>1 DEF Counted
    <3> QED BY Zenon, <3>5, <3>6
  <2>3. Cardinality(Counted') = Cardinality(Counted) + 1
    BY Zenon, <2>2, <1>5, AddOne
  <2>4. Live' = (IF a THEN Live \cup {q} ELSE Live) /\ q \notin Live
    <3>1. CASE a
      <4>1. is_active' = is_active \cup {q}
        BY Zenon, <3>1, <2>1
      <4> QED BY Zenon, <4>1, <3>1, <2>2 DEF Live
    <3>2. CASE ~ a
      <4>1. is_active' = is_active /\ q \notin is_active
        BY Zenon, <3>2, <2>1, <1>1
      <4> QED BY Zenon, <4>1, <3>2, <2>2 DEF Live
    <3> QED BY Zenon, <3>1, <3>2
  <2>5. active_queue_count' = Cardinality(Live')
    <3>1. Cardinality(Live \cup {q}) = Cardinality(Live) + 1
      BY Zenon, <2>4, <1>5, AddOne
    <3> QED BY Zenon, <3>1, <2>1, <2>4, <1>5
  <2>6. Running' = run
    BY Zenon, <2>1, <1>1, <1>3 DEF Running, Scheduled, Registered, Owner
  <2>7. HardwareMatches'
    <3>1. CASE ~ a
      <4>1. run = Running
        BY Zenon, <3>1, <1>1 DEF Running, Scheduled
      <4>2. UNCHANGED <<is_hws_hang, hw, unsynced, sched_running, is_resetting>>
        BY Zenon, <3>1, <1>1, <1>2 DEF device, mode
      <4>3. Live' = Live /\ Running' = Running
        BY Zenon, <4>1, <3>1, <2>4, <2>6
      <4> QED BY Zenon, <4>2, <4>3, <1>1, <1>3 DEF HardwareMatches, Running, Live, sched
    <3>2. CASE a
      <4>1. Fits(o, Shown')
        BY Zenon, <3>2, <2>4, <2>6, <1>3, <1>7 DEF Shown, sched
      <4> QED BY Zenon, <4>1, <3>2, <1>1, <1>2, <1>7, LeavesRunning
    <3> QED BY Zenon, <3>1, <3>2
  <2> QED BY Zenon, <2>1, <2>3, <2>5, <2>7, <1>1, <1>3, <1>4, <1>5, ListChanged
<1>9. CASE o.ret # "ok"
  <2>1. UNCHANGED <<queues_list, is_active, active_queue_count, total_queue_count>>
    BY Zenon, <1>9, <1>2 DEF counts, flags
  <2>2. a
    BY <1>9, <1>2 DEF Now, Outcome
  <2>3. Counted' = Counted
    BY Zenon, <2>1, <1>3, <1>4, SetupFacts DEF TypeOK, Counted, Owner
  <2>4. Live' = Live
    BY Zenon, <2>1, <2>3 DEF Live
  <2>5. Fits(o, Shown')
    BY Zenon, <2>2, <1>7, <1>9 DEF Fits
  <2>6. HardwareMatches'
    BY Zenon, <2>2, <2>5, <1>1, <1>2, <1>7, LeavesRunning
  <2> QED BY Zenon, <2>1, <2>3, <2>4, <2>6, <1>1, <1>3, <1>4, <1>5, ListChanged
<1> QED BY Zenon, <1>8, <1>9

(* destroy_queue_cpsch: a queue on its list is counted out whatever the firmware
   answers. *)
LEMMA RemoveCounts ==
    ASSUME EvictInv, CountInv, astray \notin Astray, NEW p \in Procs, NEW q \in Queues, NEW rivals,
           thread[p] = Idle, Owner[q] = p, RemoveQueue(p, q, rivals)
    PROVE  CountInv'
<1> USE DEF EvictInv, CountInv
<1> DEFINE a   == q \in is_active
           n   == active_queue_count - 1
           run == Scheduled(nodes, queues_list \ {q}, is_active)
           outs == IF ~ a THEN {Now("ok")}
                   ELSE IF sched = "mes" THEN remove_queues_mes({q})
                   ELSE execute_queues_cpsch(nodes, n, run)
<1>1. /\ queues_list' = queues_list \ {q}
      /\ active_queue_count' = IF a THEN n ELSE active_queue_count
      /\ total_queue_count' = total_queue_count - 1
      /\ UNCHANGED <<nodes, mode>>
  BY Zenon DEF RemoveQueue
<1>2. PICK o \in outs :
        /\ IF a THEN Leaves(o) ELSE UNCHANGED device
        /\ \/ UNCHANGED <<thread, flags>>
           \/ thread' = [thread EXCEPT ![p] = Doing("undo", q)] /\ Forgets({q})
        /\ q \notin queues_list => astray' = "queue"
  BY Zenon DEF RemoveQueue
<1>3. CASE q \notin queues_list
  BY Zenon, <1>2, <1>3, GoneAstray
<1>4. CASE q \in queues_list
  <2>1. setup' = setup /\ thread[p].op # "free"
    BY <1>1 DEF mode, Idle
  <2>2. \A r \in Procs : thread'[r].op = "free" <=> thread[r].op = "free"
    BY SMTT(30), <1>2, <2>1 DEF TypeOK, Doing
  <2>3. \A r \in queues_list' : r \in is_active' <=> r \in is_active
    BY Zenon, <1>1, <1>2 DEF flags, Forgets
  <2>4. Counted' = Counted \ {q} /\ q \in Counted
    BY Zenon, <1>1, <1>4, <2>1, <2>2, SetupFacts DEF TypeOK, Counted, Owner
  <2>5. Live' = Live \ {q} /\ (q \in Live <=> a)
    BY Zenon, <1>1, <2>3, <2>4 DEF Live, Counted
  <2>6. Running' = run /\ run = Running \ {q}
    BY Zenon, <1>1, <2>1, <2>3 DEF Running, Scheduled, Registered, Owner
  <2>7. /\ active_queue_count = Cardinality(Live) /\ total_queue_count = Cardinality(Counted)
        /\ IsFiniteSet(Live) /\ IsFiniteSet(Counted)
        /\ Live \in SUBSET Queues /\ Running \subseteq Live
    BY Zenon, Exact
  <2>8. active_queue_count' = Cardinality(Live') /\ (a => n = Cardinality(Live'))
    <3>1. CASE a
      BY Zenon, <3>1, <1>1, <2>5, <2>7, RemoveOne
    <3>2. CASE ~ a
      <4>1. Live' = Live
        BY Zenon, <3>2, <2>5
      <4> QED BY Zenon, <3>2, <4>1, <1>1, <2>7
    <3> QED BY Zenon, <3>1, <3>2
  <2>9. total_queue_count' = Cardinality(Counted')
    BY Zenon, <1>1, <2>4, <2>7, RemoveOne
  <2>10. HardwareMatches'
    <3>1. CASE ~ a
      <4>1. Live' = Live /\ Running' = Running
        BY Zenon, <3>1, <2>5, <2>6 DEF Running, Scheduled
      <4>2. UNCHANGED <<is_hws_hang, hw, unsynced, sched_running, is_resetting>>
        BY Zenon, <3>1, <1>1, <1>2 DEF device, mode
      <4> QED BY Zenon, <4>1, <4>2, <2>1 DEF HardwareMatches, Running, Live, sched
    <3>2. CASE a
      <4>1. o \in IF sched = "mes" THEN remove_queues_mes({q}) ELSE execute_queues_cpsch(nodes, n, run)
        BY Zenon, <1>2, <3>2
      <4>2. o \in IF sched = "mes" THEN remove_queues_mes({q})
                  ELSE execute_queues_cpsch(nodes', Cardinality(Live'), Running')
        BY Zenon, <4>1, <3>2, <1>1, <2>6, <2>8
      <4>3. /\ IsFiniteSet(Live') /\ Running' \subseteq Live' /\ Running' \in SUBSET Queues
            /\ Live \ {q} \subseteq Live' /\ {q} \in SUBSET Queues
        BY Zenon, <2>5, <2>6, <2>7, FS_Subset
      <4>4. Leaves(o)
        BY Zenon, <1>2, <3>2
      <4> QED BY Zenon, <4>2, <4>3, <4>4, <1>1, CallMatches
    <3> QED BY Zenon, <3>1, <3>2
  <2> QED BY Zenon, <2>1, <2>2, <2>8, <2>9, <2>10, <1>1, ListChanged
<1> QED BY Zenon, <1>3, <1>4

(* A step that leaves the lists and the threads alone. *)
LEMMA MarksCount ==
    ASSUME EvictInv, CountInv, astray \notin Astray, UNCHANGED <<nodes, queues_list, thread, total_queue_count, setup>>,
           active_queue_count' = Cardinality(Live'), HardwareMatches'
    PROVE  CountInv'
<1>1. Counted' = Counted
  BY Zenon DEF Counted, Owner
<1>2. total_queue_count = Cardinality(Counted)
  BY Zenon, Exact
<1> QED BY Zenon, <1>1, <1>2, ListChanged

(* The sets after such a step. *)
LEMMA MarkedSets ==
    ASSUME EvictInv, CountInv, astray \notin Astray, UNCHANGED <<nodes, queues_list, thread, setup>>
    PROVE  /\ Counted' = Counted /\ Live' = Counted \cap is_active'
           /\ IsFiniteSet(Live') /\ Live' \in SUBSET Queues
           /\ Running' = Scheduled(nodes, queues_list, is_active')
           /\ Running' \subseteq Live' /\ Running' \in SUBSET Queues
<1> USE DEF EvictInv, CountInv
<1>1. Counted' = Counted /\ Counted \subseteq queues_list
  BY Zenon DEF Counted, Owner
<1>2. Live' = Counted \cap is_active'
  BY Zenon, <1>1 DEF Live
<1>3. IsFiniteSet(Live') /\ Live' \in SUBSET Queues
  BY Zenon, <1>1, <1>2, FS_Subset DEF Listed, TypeOK
<1>4. Running' = Scheduled(nodes, queues_list, is_active')
  BY Zenon DEF Running, Scheduled, Registered, Owner
<1>5. \A q \in queues_list : Owner[q] \in Registered(nodes) => q \in Counted
  BY SMTT(30), SetupFacts DEF TypeOK, Entered, Counted, Registered
<1>6. Running' \subseteq Live'
  BY Zenon, <1>2, <1>4, <1>5 DEF Scheduled
<1> QED BY Zenon, <1>1, <1>2, <1>3, <1>4, <1>6

(* update_queue: the count moves with is_active in each of the four cases, and
   not at all if the unmap failed. *)
LEMMA UpdateCounts ==
    ASSUME EvictInv, CountInv, astray \notin Astray,
           NEW p \in Procs, NEW q \in Queues, NEW run \in BOOLEAN, update_queue(p, q, run)
    PROVE  CountInv'
<1> USE DEF EvictInv, CountInv
<1> DEFINE can == IF run THEN runnable \cup {q} ELSE runnable \ {q}
           was == q \in is_active
           a   == QueueIsActive(q, can, is_evicted, is_suspended)
           on  == IF a THEN is_active \cup {q} ELSE is_active \ {q}
           n   == active_queue_count + (IF a THEN 1 ELSE 0) - (IF was THEN 1 ELSE 0)
           next == Scheduled(nodes, queues_list, on)
           outs(u) == IF sched = "mes" THEN IF a THEN add_queue_mes(u, q) ELSE {u}
                      ELSE IF sched_running THEN map_queues_cpsch(nodes, u, n, next)
                      ELSE {u}
<1>1. /\ thread[p] = Idle /\ Owner[q] = p
      /\ q \notin queues_list => astray' = "queue"
      /\ UNCHANGED <<nodes, queues_list, thread, mode, total_queue_count>>
  BY Zenon DEF update_queue, Known, QueuesOf
<1>2. PICK u \in IF sched = "hws" THEN unmap_queues_cpsch ELSE remove_queues_mes(is_active \cap {q}) :
         \/ u.ret # "ok" /\ Leaves(u) /\ UNCHANGED <<is_active, active_queue_count>>
         \/ /\ u.ret = "ok"
            /\ is_active' = on /\ active_queue_count' = n
            /\ \E o \in outs(u) : Leaves(o)
  BY Zenon DEF update_queue
<1>3. CASE q \notin queues_list
  BY Zenon, <1>1, <1>3, GoneAstray
<1>4. ASSUME q \in queues_list PROVE CountInv'
  <2>1. setup' = setup /\ q \in Counted
    BY <1>1, <1>4 DEF mode, Counted, Idle
  <2>2. /\ active_queue_count = Cardinality(Live) /\ IsFiniteSet(Live) /\ active_queue_count \in Nat
        /\ Running \subseteq Live /\ (q \in Live <=> was)
    BY Zenon, <2>1, Exact DEF Live
  <2>3. /\ Live' = Counted \cap is_active' /\ IsFiniteSet(Live')
        /\ Running' = Scheduled(nodes, queues_list, is_active') /\ Running' \subseteq Live'
        /\ Running' \in SUBSET Queues
    BY Zenon, <2>1, <1>1, MarkedSets
  <2>4. /\ Sane(u)
        /\ sched = "hws" => Fits(u, {}) /\ (u.ret = "ok" /\ sched_running => ~ u.runlist)
        /\ sched = "mes" => Fits(u, Live \ {q})
    <3>1. CASE sched = "hws"
      BY Zenon, <3>1, <1>2, UnmapOutcome
    <3>2. CASE sched = "mes"
      <4> DEFINE rem == is_active \cap {q}
      <4>1. rem \in SUBSET Queues
        OBVIOUS
      <4>2. ~ is_hws_hang => hw \ rem \subseteq Live \ {q}
        BY Zenon, <3>2 DEF HardwareMatches, Live
      <4>3. u \in remove_queues_mes(rem)
        BY Zenon, <3>2, <1>2
      <4> HIDE DEF rem
      <4> QED BY Zenon, <4>1, <4>2, <4>3, <3>2, RemoveOutcome
    <3> QED BY Zenon, <3>1, <3>2, SetupFacts
  <2>5. CASE u.ret # "ok"
    <3>1. Leaves(u) /\ UNCHANGED <<is_active, active_queue_count>>
      BY Zenon, <1>2, <2>5
    <3>2. Live' = Live
      BY Zenon, <3>1, <2>3 DEF Live
    <3>3. Fits(u, Shown')
      BY Zenon, <2>4, <2>5, SetupFacts DEF Fits
    <3>4. HardwareMatches'
      BY Zenon, <3>1, <3>3, <2>4, <1>1, LeavesRunning
    <3> QED BY Zenon, <3>1, <3>2, <3>4, <2>1, <2>2, <1>1, MarksCount
  <2>6. CASE u.ret = "ok"
    <3>1. is_active' = on /\ active_queue_count' = n
      BY Zenon, <1>2, <2>6
    <3>2. PICK o \in outs(u) : Leaves(o)
      BY Zenon, <1>2, <2>6
    <3>3. Live' = IF a THEN Live \cup {q} ELSE Live \ {q}
      BY Zenon, <3>1, <2>1, <2>3 DEF Live
    <3>4. n = Cardinality(Live')
      <4> HIDE DEF a, was
      <4>1. CASE a /\ was
        <5>1. Live \cup {q} = Live
          BY Zenon, <4>1, <2>2
        <5> QED BY <5>1, <4>1, <3>3, <2>2
      <4>2. CASE a /\ ~ was
        BY <4>2, <3>3, <2>2, AddOne
      <4>3. CASE ~ a /\ was
        BY <4>3, <3>3, <2>2, RemoveOne
      <4>4. CASE ~ a /\ ~ was
        <5>1. Live \ {q} = Live
          BY Zenon, <4>4, <2>2
        <5> QED BY <5>1, <4>4, <3>3, <2>2
      <4> QED BY Zenon, <4>1, <4>2, <4>3, <4>4
    <3>5. next = Running' /\ next \in SUBSET Queues
      BY Zenon, <3>1, <2>3
    <3>6. (n = 0 => next = {}) /\ (Registered(nodes) = {} => next = {})
      <4>1. n = 0 => Live' = {}
        BY Zenon, <3>4, <2>3, FS_EmptySet
      <4>2. Registered(nodes) = {} => next = {}
        BY Zenon DEF Scheduled
      <4> QED BY Zenon, <4>1, <4>2, <3>5, <2>3
    <3>7. Sane(o) /\ Fits(o, IF sched = "mes" THEN Live' ELSE next)
      <4>1. u \in Outcomes
        BY Zenon, <2>4 DEF Sane
      <4>2. CASE sched = "mes" /\ a
        <5>1. ~ u.hang => u.hw \cup {q} \subseteq Live'
          BY Zenon, <4>2, <3>3, <2>4 DEF Fits
        <5>2. o \in add_queue_mes(u, q)
          BY Zenon, <4>2, <3>2
        <5> QED BY Zenon, <5>1, <5>2, <4>1, <4>2, <2>4, <2>6, AddOutcome
      <4>3. CASE sched = "mes" /\ ~ a
        BY Zenon, <4>3, <3>2, <3>3, <2>4
      <4>4. CASE sched = "hws" /\ sched_running
        <5>1. o \in map_queues_cpsch(nodes, u, n, next)
          BY Zenon, <4>4, <3>2
        <5> HIDE DEF next, n
        <5> QED BY Zenon, <5>1, <4>1, <4>4, <3>5, <3>6, <2>4, <2>6, MapOutcome
      <4>5. CASE sched = "hws" /\ ~ sched_running
        BY Zenon, <4>5, <3>2, <2>4 DEF Fits
      <4> QED BY Zenon, <4>2, <4>3, <4>4, <4>5, SetupFacts
    <3>8. Fits(o, Shown')
      BY Zenon, <3>5, <3>7, <2>1 DEF Shown, sched
    <3>9. HardwareMatches'
      BY Zenon, <3>2, <3>7, <3>8, <1>1, LeavesRunning
    <3>10. active_queue_count' = Cardinality(Live')
      BY Zenon, <3>1, <3>4
    <3> QED BY Zenon, <3>9, <3>10, <2>1, <1>1, MarksCount
  <2> QED BY Zenon, <2>5, <2>6
<1> QED BY Zenon, <1>3, <1>4

(* Active queues that run no more are counted out. *)
LEMMA FewerLive ==
    ASSUME EvictInv, CountInv, astray \notin Astray, NEW s, s \subseteq Live, is_active' = is_active \ s,
           UNCHANGED <<nodes, queues_list, thread, setup>>
    PROVE  Live' = Live \ s /\ active_queue_count - Cardinality(s) = Cardinality(Live')
<1>1. Live' = Live \ s
  BY Zenon, MarkedSets DEF Live
<1>2. active_queue_count = Cardinality(Live) /\ IsFiniteSet(Live)
  BY Zenon, Exact
<1> QED BY Zenon, <1>1, <1>2, RemoveCount

(* Queues that run again are counted again, or were counted already. *)
LEMMA MoreLive ==
    ASSUME EvictInv, CountInv, astray \notin Astray, NEW s, s \subseteq Counted, Activates(s),
           UNCHANGED <<nodes, queues_list, thread, setup>>
    PROVE  \/ astray' = "count"
           \/ /\ Live' = Live \cup s
              /\ active_queue_count + Cardinality(s) = Cardinality(Live')
              /\ active_queue_count' = Cardinality(Live')
<1>1. CASE s \cap is_active # {}
  BY Zenon, <1>1 DEF Activates
<1>2. CASE s \cap is_active = {}
  <2>1. Live' = Live \cup s /\ Live \cap s = {}
    BY Zenon, <1>2, MarkedSets DEF Live, Activates
  <2>2. active_queue_count = Cardinality(Live) /\ IsFiniteSet(Live) /\ IsFiniteSet(Counted)
    BY Zenon, Exact
  <2>3. IsFiniteSet(s)
    BY Zenon, <2>2, FS_Subset
  <2>4. active_queue_count + Cardinality(s) = Cardinality(Live')
    BY Zenon, <2>1, <2>2, <2>3, AddCount
  <2> QED BY Zenon, <2>1, <2>4 DEF Activates
<1> QED BY Zenon, <1>1, <1>2

(* A process that is not torn down has its queues counted. *)
LEMMA QueuesCounted ==
    ASSUME NEW p \in Procs, thread[p].op # "free"
    PROVE  QueuesOf(p) \subseteq Counted /\ QueuesOf(p) \cap is_active \subseteq Live
BY Zenon DEF QueuesOf, Counted, Live

(* evict_process_queues_cpsch: every active queue of the process was counted. *)
LEMMA EvictCounts ==
    ASSUME EvictInv, CountInv, astray \notin Astray, NEW p \in Procs, evict_process_queues_cpsch(p)
    PROVE  CountInv'
<1> USE DEF EvictInv, CountInv
<1> DEFINE s == QueuesOf(p) \cap is_active
           n == active_queue_count - Cardinality(s)
           run == Scheduled(nodes, queues_list, is_active \ s)
<1>1. /\ thread[p].op # "free"
      /\ UNCHANGED <<nodes, queues_list, thread, mode, astray>>
  BY Zenon DEF evict_process_queues_cpsch, aside
<1>2. setup' = setup
  BY Zenon, <1>1 DEF mode
<1>3. CASE UNCHANGED <<flags, counts, device>>
  BY Zenon, <1>1, <1>3, QuietCounts DEF flags
<1>4. CASE /\ is_active' = is_active \ s
           /\ active_queue_count' = n
           /\ \E o \in IF sched = "mes" THEN remove_queues_mes(s) ELSE execute_queues_cpsch(nodes, n, run) : Leaves(o)
           /\ UNCHANGED total_queue_count
  <2>1. s \subseteq Live /\ s \in SUBSET Queues
    BY Zenon, <1>1, QueuesCounted DEF QueuesOf, TypeOK
  <2>2. Live' = Live \ s /\ n = Cardinality(Live')
    BY Zenon, <2>1, <1>1, <1>2, <1>4, FewerLive
  <2>3. /\ IsFiniteSet(Live') /\ Running' = run /\ Running' \subseteq Live' /\ Running' \in SUBSET Queues
    BY Zenon, <1>1, <1>2, <1>4, MarkedSets
  <2>4. PICK o \in IF sched = "mes" THEN remove_queues_mes(s)
                  ELSE execute_queues_cpsch(nodes', Cardinality(Live'), Running') : Leaves(o)
    BY Zenon, <2>2, <2>3, <1>1, <1>4
  <2>5. HardwareMatches'
    <3>1. Live \ s \subseteq Live'
      BY Zenon, <2>2
    <3> HIDE DEF s
    <3> QED BY Zenon, <3>1, <2>1, <2>3, <2>4, <1>1, CallMatches
  <2>6. active_queue_count' = Cardinality(Live')
    BY Zenon, <2>2, <1>4
  <2> QED BY Zenon, <2>5, <2>6, <1>1, <1>2, <1>4, MarksCount
<1> QED BY Zenon, <1>3, <1>4 DEF evict_process_queues_cpsch

(* Queues that are counted again, and a call that has them run. *)
LEMMA ActivatesCounts ==
    ASSUME EvictInv, CountInv, astray \notin Astray, NEW s, s \subseteq Counted, s \in SUBSET Queues, Activates(s),
           UNCHANGED <<nodes, queues_list, thread, mode, total_queue_count>>,
           \/ is_hws_hang'
           \/ sched = "mes" /\ hw' = hw \cup s /\ is_hws_hang' = is_hws_hang
           \/ /\ sched = "hws"
              /\ \E o \in execute_queues_cpsch(nodes, active_queue_count + Cardinality(s),
                                               Scheduled(nodes, queues_list, is_active \cup s)) : Leaves(o)
    PROVE  CountInv'
<1> USE DEF EvictInv, CountInv
<1>1. setup' = setup
  BY Zenon DEF mode
<1>2. CASE astray' = "count"
  BY Zenon, <1>2, GoneAstray
<1>3. CASE /\ Live' = Live \cup s
           /\ active_queue_count + Cardinality(s) = Cardinality(Live')
           /\ active_queue_count' = Cardinality(Live')
  <2>1. CASE is_hws_hang'
    <3>1. HardwareMatches'
      BY Zenon, <2>1 DEF HardwareMatches
    <3> QED BY Zenon, <3>1, <1>1, <1>3, MarksCount
  <2>2. CASE sched = "mes" /\ hw' = hw \cup s /\ is_hws_hang' = is_hws_hang
    <3>1. HardwareMatches'
      BY Zenon, <2>2, <1>1, <1>3 DEF HardwareMatches, Live, sched
    <3> QED BY Zenon, <3>1, <1>1, <1>3, MarksCount
  <2>3. CASE /\ sched = "hws"
             /\ \E o \in execute_queues_cpsch(nodes, active_queue_count + Cardinality(s),
                                              Scheduled(nodes, queues_list, is_active \cup s)) : Leaves(o)
    <3>1. /\ IsFiniteSet(Live') /\ Running' = Scheduled(nodes, queues_list, is_active \cup s)
          /\ Running' \subseteq Live' /\ Running' \in SUBSET Queues
      BY Zenon, <1>1, MarkedSets DEF Activates
    <3>2. PICK o \in IF sched = "mes" THEN remove_queues_mes({})
                    ELSE execute_queues_cpsch(nodes', Cardinality(Live'), Running') : Leaves(o)
      BY Zenon, <3>1, <2>3, <1>3
    <3>3. {} \in SUBSET Queues /\ Live \ {} \subseteq Live'
      BY Zenon, <1>3
    <3>4. HardwareMatches'
      BY Zenon, <3>1, <3>2, <3>3, CallMatches
    <3> QED BY Zenon, <3>4, <1>1, <1>3, MarksCount
  <2> QED BY Zenon, <2>1, <2>2, <2>3
<1> QED BY Zenon, <1>1, <1>2, <1>3, MoreLive

(* restore_process_queues_cpsch: the queues that become active are new, also if
   the MES stops half-way, or the driver has gone astray. *)
LEMMA RestoreCounts ==
    ASSUME EvictInv, CountInv, astray \notin Astray, NEW p \in Procs, restore_process_queues_cpsch(p)
    PROVE  CountInv'
<1> USE DEF EvictInv, CountInv
<1> DEFINE qs  == QueuesOf(p)
           act == Activated(qs, is_evicted \ qs, is_suspended)
           n   == active_queue_count + Cardinality(act)
           run == Scheduled(nodes, queues_list, is_active \cup act)
<1>1. /\ thread[p].op # "free"
      /\ UNCHANGED <<nodes, queues_list, thread, mode>>
  BY Zenon DEF restore_process_queues_cpsch
<1>2. qs \subseteq Counted /\ act \subseteq qs /\ qs \in SUBSET Queues
  BY Zenon, <1>1, QueuesCounted DEF Activated, QueuesOf, TypeOK
<1>3. CASE UNCHANGED <<flags, counts, device, astray>>
  BY Zenon, <1>1, <1>3, QuietCounts DEF flags
<1>4. ASSUME UNCHANGED total_queue_count, sched = "hws", Restores(qs, act),
             NEW o \in execute_queues_cpsch(nodes, n, run), Leaves(o)
      PROVE  CountInv'
  <2>1. act \cap qs = act
    BY Zenon, <1>2
  <2>2. Activates(act)
    BY Zenon, <2>1, <1>4 DEF Restores
  <2>3. act \subseteq Counted /\ act \in SUBSET Queues
    BY Zenon, <1>2
  <2> HIDE DEF act, qs
  <2> QED BY Zenon, <2>2, <2>3, <1>1, <1>4, ActivatesCounts
<1>5. ASSUME UNCHANGED total_queue_count, sched = "mes", Restores(qs, act),
             Leaves([Now("ok") EXCEPT !.hw = @ \cup act])
      PROVE  CountInv'
  <2>1. act \cap qs = act
    BY Zenon, <1>2
  <2>2. Activates(act)
    BY Zenon, <2>1, <1>5 DEF Restores
  <2>3. act \subseteq Counted /\ act \in SUBSET Queues
    BY Zenon, <1>2
  <2> HIDE DEF act, qs
  <2>4. hw' = hw \cup act /\ is_hws_hang' = is_hws_hang
    BY Zenon, <1>5 DEF Leaves, Now, Outcome
  <2> QED BY Zenon, <2>2, <2>3, <2>4, <1>1, <1>5, ActivatesCounts
<1>6. ASSUME UNCHANGED total_queue_count, NEW done \in SUBSET qs, NEW h, Restores(done, act),
             Leaves(Outcome("EIO", FALSE, TRUE, h))
      PROVE  CountInv'
  <2>1. Activates(act \cap done) /\ act \cap done \subseteq Counted /\ act \cap done \in SUBSET Queues
    BY Zenon, <1>2, <1>6 DEF Restores
  <2>2. is_hws_hang'
    BY Zenon, <1>6 DEF Leaves, Outcome
  <2> HIDE DEF act, qs
  <2> QED BY Zenon, <2>1, <2>2, <1>1, <1>6, ActivatesCounts
<1> QED BY Zenon, <1>3, <1>4, <1>5, <1>6 DEF restore_process_queues_cpsch

(* suspend_queues: the queues made inactive were counted. *)
LEMMA SuspendCounts ==
    ASSUME EvictInv, CountInv, astray \notin Astray, NEW p \in Procs, NEW ids, suspend_queues(p, ids)
    PROVE  CountInv'
<1> USE DEF EvictInv, CountInv
<1> DEFINE s   == ids \cap Suspendable
           off == s \cap is_active
           n   == active_queue_count - Cardinality(off)
           run == Scheduled(nodes, queues_list, is_active \ off)
<1>1. /\ thread[p] = Idle /\ ids \subseteq QueuesOf(p)
      /\ UNCHANGED <<nodes, queues_list, thread, mode, total_queue_count>>
  BY Zenon DEF suspend_queues
<1>2. setup' = setup /\ thread[p].op # "free"
  BY <1>1 DEF mode, Idle
<1>3. off \subseteq Live /\ off \in SUBSET Queues
  BY Zenon, <1>1, <1>2, QueuesCounted DEF QueuesOf, TypeOK
<1>4. ASSUME NEW done \in SUBSET s, NEW f, Suspends(done, f)
      PROVE  /\ Live' = Live \ ((done \cap is_active) \ f)
             /\ active_queue_count' = Cardinality(Live')
             /\ active_queue_count - Cardinality((done \cap is_active) \ f) = Cardinality(Live')
  <2>1. (done \cap is_active) \ f \subseteq Live
    BY Zenon, <1>3, <1>4
  <2>2. /\ is_active' = is_active \ ((done \cap is_active) \ f)
        /\ active_queue_count' = active_queue_count - Cardinality((done \cap is_active) \ f)
    BY Zenon, <1>4 DEF Suspends
  <2> QED BY Zenon, <2>1, <2>2, <1>1, <1>2, FewerLive
<1>5. ASSUME Suspends(s, {})
      PROVE  /\ Live' = Live \ off /\ n = Cardinality(Live') /\ active_queue_count' = Cardinality(Live')
             /\ is_active' = is_active \ off
  <2>1. s \in SUBSET s /\ (s \cap is_active) \ {} = off
    OBVIOUS
  <2>2. is_active' = is_active \ off
    BY Zenon, <2>1, <1>5 DEF Suspends
  <2>3. /\ Live' = Live \ ((s \cap is_active) \ {})
        /\ active_queue_count' = Cardinality(Live')
        /\ active_queue_count - Cardinality((s \cap is_active) \ {}) = Cardinality(Live')
    <3> HIDE DEF s, off
    <3> QED BY Zenon, <2>1, <1>4, <1>5
  <2> HIDE DEF off
  <2> QED BY Zenon, <2>1, <2>2, <2>3
<1>6. ASSUME Suspends(s, {}), sched = "hws", NEW o \in execute_queues_cpsch(nodes, n, run), Leaves(o)
      PROVE  CountInv'
  <2>1. Live' = Live \ off /\ n = Cardinality(Live') /\ active_queue_count' = Cardinality(Live')
    BY Zenon, <1>5, <1>6
  <2>2. /\ IsFiniteSet(Live') /\ Running' = run
        /\ Running' \subseteq Live' /\ Running' \in SUBSET Queues
    <3>1. is_active' = is_active \ off
      BY Zenon, <1>5, <1>6
    <3> QED BY Zenon, <3>1, <1>1, <1>2, MarkedSets
  <2>3. o \in IF sched = "mes" THEN remove_queues_mes(off)
             ELSE execute_queues_cpsch(nodes', Cardinality(Live'), Running')
    BY Zenon, <2>1, <2>2, <1>1, <1>6
  <2>4. Live \ off \subseteq Live'
    BY Zenon, <2>1
  <2>5. HardwareMatches'
    <3> HIDE DEF off
    <3> QED BY Zenon, <2>2, <2>3, <2>4, <1>1, <1>3, <1>6, CallMatches
  <2> QED BY Zenon, <2>1, <2>5, <1>1, <1>2, MarksCount
<1>7. ASSUME sched = "mes", Suspends(s, {}), Leaves([Now("ok") EXCEPT !.hw = @ \ off])
      PROVE  CountInv'
  <2>1. Live' = Live \ off /\ active_queue_count' = Cardinality(Live')
    BY Zenon, <1>5, <1>7
  <2>2. hw' = hw \ off /\ is_hws_hang' = is_hws_hang
    <3> HIDE DEF off
    <3> QED BY Zenon, <1>7 DEF Leaves, Now, Outcome
  <2>3. HardwareMatches'
    <3> HIDE DEF off
    <3> QED BY Zenon, <2>1, <2>2, <1>2, <1>7 DEF HardwareMatches, Live, sched
  <2> QED BY Zenon, <2>1, <2>3, <1>1, <1>2, MarksCount
<1>8. ASSUME NEW done \in SUBSET s, NEW f, NEW h, Suspends(done, {f}), Leaves(Outcome("EIO", FALSE, TRUE, h))
      PROVE  CountInv'
  <2>1. active_queue_count' = Cardinality(Live')
    BY Zenon, <1>4, <1>8
  <2>2. HardwareMatches'
    BY Zenon, <1>8 DEF HardwareMatches, Leaves, Outcome
  <2> QED BY Zenon, <2>1, <2>2, <1>1, <1>2, MarksCount
<1> QED BY Zenon, <1>6, <1>7, <1>8 DEF suspend_queues

(* resume_queues: the queues made active were not counted, or the driver has
   gone astray. *)
LEMMA ResumeCounts ==
    ASSUME EvictInv, CountInv, astray \notin Astray,
           NEW p \in Procs, NEW ids, NEW byId \in BOOLEAN, resume_queues(p, ids, byId)
    PROVE  CountInv'
<1> USE DEF EvictInv, CountInv
<1> DEFINE s   == ids \cap is_suspended
           act == Activated(s, is_evicted, is_suspended \ s)
           n   == active_queue_count + Cardinality(act)
           run == Scheduled(nodes, queues_list, is_active \cup act)
<1>1. /\ thread[p] = Idle /\ ids \subseteq QueuesOf(p)
      /\ UNCHANGED <<nodes, queues_list, thread, mode, total_queue_count>>
  BY Zenon DEF resume_queues
<1>2. thread[p].op # "free"
  BY <1>1 DEF Idle
<1>3. act \subseteq Counted /\ act \in SUBSET Queues
  BY Zenon, <1>1, <1>2, QueuesCounted DEF Activated, QueuesOf, TypeOK
<1>4. ASSUME Resumes(s, act), sched = "hws", NEW o \in execute_queues_cpsch(nodes, n, run), Leaves(o)
      PROVE  CountInv'
  <2>1. Activates(act)
    BY Zenon, <1>4 DEF Resumes
  <2> HIDE DEF act
  <2> QED BY Zenon, <2>1, <1>1, <1>3, <1>4, ActivatesCounts
<1>5. ASSUME sched = "mes", Resumes(s, act), Leaves([Now("ok") EXCEPT !.hw = @ \cup act])
      PROVE  CountInv'
  <2>1. Activates(act)
    BY Zenon, <1>5 DEF Resumes
  <2> HIDE DEF act
  <2>2. hw' = hw \cup act /\ is_hws_hang' = is_hws_hang
    BY Zenon, <1>5 DEF Leaves, Now, Outcome
  <2> QED BY Zenon, <2>1, <2>2, <1>1, <1>3, <1>5, ActivatesCounts
<1>6. ASSUME NEW on \in SUBSET act, NEW t, NEW h, Resumes(t, on), Leaves(Outcome("EIO", FALSE, TRUE, h))
      PROVE  CountInv'
  <2>1. Activates(on) /\ on \subseteq Counted /\ on \in SUBSET Queues
    BY Zenon, <1>3, <1>6 DEF Resumes
  <2>2. is_hws_hang'
    BY Zenon, <1>6 DEF Leaves, Outcome
  <2> QED BY Zenon, <2>1, <2>2, <1>1, ActivatesCounts
<1>7. ASSUME NEW done \in SUBSET s, NEW f \in done \cap act,
             Resumes(IF byId THEN done ELSE s, (done \cap act) \ {f}),
             Leaves(Outcome("EIO", FALSE, TRUE, hw \cup ((done \cap act) \ {f})))
      PROVE  CountInv'
  <2>1. (done \cap act) \ {f} \in SUBSET act
    <3> HIDE DEF act
    <3> QED OBVIOUS
  <2> HIDE DEF act, s
  <2> QED BY Zenon, <2>1, <1>6, <1>7
<1> QED BY Zenon, <1>4, <1>5, <1>7 DEF resume_queues

(* process_termination_cpsch: the queues go from the counts and from the runlists,
   as the only entry of the process goes, or the driver has gone astray. *)
LEMMA TerminationCounts ==
    ASSUME EvictInv, CountInv, astray \notin Astray, NEW p \in Procs, process_termination_cpsch(p)
    PROVE  CountInv'
<1> USE DEF EvictInv, CountInv
<1> DEFINE qs == QueuesOf(p)
           rem == qs \cap is_active
           n  == active_queue_count - Cardinality(rem)
           run == Scheduled(nodes', queues_list, is_active)
<1>1. /\ thread[p] = Idle
      /\ active_queue_count' = n
      /\ total_queue_count' = total_queue_count - Cardinality(qs)
      /\ nodes' = [nodes EXCEPT ![p] = IF @ > 0 THEN @ - 1 ELSE @]
      /\ thread' = [thread EXCEPT ![p] = [op |-> "free"]]
      /\ astray' = IF nodes[p] > 1 THEN "entry" ELSE astray
      /\ UNCHANGED <<queues_list, flags, mode>>
  BY Zenon DEF process_termination_cpsch
<1>2. UNCHANGED <<setup, is_active>> /\ thread[p].op # "free"
  BY <1>1 DEF mode, flags, Idle
<1>3. /\ thread'[p].op = "free"
      /\ \A r \in Procs \ {p} : nodes'[r] = nodes[r] /\ thread'[r] = thread[r]
  BY Zenon, <1>1 DEF TypeOK
<1>4. Counted' = Counted \ qs /\ qs \subseteq Counted
  BY Zenon, <1>1, <1>2, <1>3, SetupFacts DEF TypeOK, Counted, Owner, QueuesOf
<1>5. Live' = Live \ rem /\ rem \subseteq Live
  BY Zenon, <1>2, <1>4 DEF Live
<1>6. /\ active_queue_count = Cardinality(Live) /\ total_queue_count = Cardinality(Counted)
      /\ IsFiniteSet(Live) /\ IsFiniteSet(Counted)
      /\ Live \in SUBSET Queues
  BY Zenon, Exact
<1>7. n = Cardinality(Live') /\ total_queue_count' = Cardinality(Counted') /\ IsFiniteSet(Live')
  <2> HIDE DEF rem, qs
  <2> QED BY Zenon, <1>1, <1>4, <1>5, <1>6, RemoveCount
<1>8. CountsAreExact'
  BY Zenon, <1>1, <1>7 DEF CountsAreExact, Live
<1>9. CASE nodes[p] > 1
  BY Zenon, <1>1, <1>8, <1>9 DEF Entered, HardwareMatches, Astray
<1>10. CASE ~ (nodes[p] > 1)
  <2>1. nodes'[p] = 0
    BY SMTT(30), <1>1, <1>10 DEF TypeOK
  <2>2. Entered'
    BY Zenon, <2>1, <1>3 DEF Entered
  <2>3. Running' = run
    BY Zenon, <1>1, <1>2 DEF Running, Scheduled, Registered, Owner
  <2>4. \A q \in queues_list : Owner[q] \in Registered(nodes') => q \in Counted'
    BY SMTT(30), <2>1, <1>1, <1>2, <1>3, SetupFacts DEF TypeOK, Entered, Counted, Registered, Owner
  <2>5. Running' \subseteq Live'
    BY Zenon, <2>3, <2>4, <1>2 DEF Scheduled, Live
  <2>6. rem \in SUBSET Queues /\ Running' \in SUBSET Queues /\ Live \ rem \subseteq Live'
    BY Zenon, <2>5, <1>5, <1>6
  <2>7. PICK o \in IF sched = "mes" THEN remove_queues_mes(rem) ELSE execute_queues_cpsch(nodes', n, run) : Leaves(o)
    BY Zenon DEF process_termination_cpsch
  <2>8. o \in IF sched = "mes" THEN remove_queues_mes(rem)
             ELSE execute_queues_cpsch(nodes', Cardinality(Live'), Running')
    BY Zenon, <2>3, <2>7, <1>7
  <2>9. HardwareMatches'
    <3> HIDE DEF rem
    <3> QED BY Zenon, <2>5, <2>6, <2>7, <2>8, <1>1, <1>7, CallMatches
  <2> QED BY Zenon, <2>2, <2>9, <1>8
<1> QED BY Zenon, <1>9, <1>10

(* The sets do not change when only the device does. *)
LEMMA DeviceCounts ==
    ASSUME EvictInv, CountInv, astray \notin Astray,
           UNCHANGED <<nodes, queues_list, thread, is_active, counts, setup>>, HardwareMatches'
    PROVE  CountInv'
<1>1. Live' = Live
  BY Zenon, MarkedSets DEF Live
<1>2. active_queue_count' = Cardinality(Live') /\ UNCHANGED total_queue_count
  BY Zenon, <1>1, Exact DEF counts
<1> QED BY Zenon, <1>2, MarksCount

(* pre_reset: nothing is said of the hardware during a reset. *)
LEMMA PreResetCounts ==
    ASSUME EvictInv, CountInv, astray \notin Astray, pre_reset
    PROVE  CountInv'
<1>1. /\ is_resetting' = TRUE
      /\ UNCHANGED <<nodes, queues_list, thread, is_active, counts, is_hws_hang, hw, setup, astray>>
  BY Zenon DEF pre_reset, flags, device, aside
<1>2. Live' = Live
  BY Zenon, <1>1, MarkedSets DEF Live
<1>3. HardwareMatches'
  BY Zenon, <1>1, <1>2 DEF CountInv, HardwareMatches, Live, sched
<1> QED BY Zenon, <1>1, <1>3, DeviceCounts

(* stop_cpsch: the MES is asked to remove active queues. *)
LEMMA StopCounts ==
    ASSUME EvictInv, CountInv, astray \notin Astray, stop_cpsch
    PROVE  CountInv'
<1> USE DEF EvictInv, CountInv
<1>1. /\ sched_running' = FALSE
      /\ UNCHANGED <<nodes, queues_list, thread, is_active, counts, setup, astray>>
  BY Zenon DEF stop_cpsch, flags, aside
<1>2. PICK o \in IF is_hws_hang THEN {Now("EIO")}
                ELSE IF sched = "mes" THEN remove_queues_mes(Running) ELSE unmap_queues_cpsch : Leaves(o)
  BY Zenon DEF stop_cpsch, Running
<1>3. Live' = Live
  BY Zenon, <1>1, MarkedSets DEF Live
<1>4. HardwareMatches'
  <2>1. CASE sched # "mes"
    BY Zenon, <2>1, <1>1 DEF HardwareMatches, sched
  <2>2. CASE is_hws_hang
    <3>1. is_hws_hang'
      BY <2>2, <1>2 DEF Leaves, Now, Outcome
    <3> QED BY Zenon, <3>1 DEF HardwareMatches
  <2>3. CASE sched = "mes" /\ ~ is_hws_hang
    <3>1. Running \in SUBSET Queues
      BY Zenon DEF Running, Scheduled, TypeOK
    <3>2. hw \ Running \subseteq Live
      BY Zenon, <2>3 DEF HardwareMatches, Live
    <3>3. Fits(o, Live)
      BY Zenon, <2>3, <3>1, <3>2, <1>2, RemoveOutcome
    <3> QED BY Zenon, <2>3, <3>3, <1>1, <1>2, <1>3 DEF Fits, Leaves, HardwareMatches, Live, sched
  <2> QED BY Zenon, <2>1, <2>2, <2>3
<1> QED BY Zenon, <1>1, <1>4, DeviceCounts

(* start_cpsch: the runlist sent is that of the active queues. *)
LEMMA StartCounts ==
    ASSUME EvictInv, CountInv, astray \notin Astray, start_cpsch
    PROVE  CountInv'
<1> USE DEF EvictInv, CountInv
<1> DEFINE up  == Outcome("ok", FALSE, FALSE, {})
<1>1. UNCHANGED <<nodes, queues_list, thread, is_active, counts, setup, astray>>
  BY Zenon DEF start_cpsch, flags, aside
<1>2. PICK o \in IF sched = "mes" THEN {up}
                ELSE map_queues_cpsch(nodes, up, active_queue_count, Running)
                     \cup {Outcome("ETIME", TRUE, TRUE, {}) :
                           f \in IF active_runlist THEN Faults \cap {"hang"} ELSE {}} : Leaves(o)
  BY Zenon DEF start_cpsch, Running
<1>3. Running' = Running
  BY Zenon, <1>1 DEF Running, Scheduled, Registered, Owner
<1>4. active_queue_count = 0 \/ Registered(nodes) = {} => Running = {}
  <2>1. active_queue_count = 0 => Live = {}
    BY Zenon, Exact, FS_EmptySet
  <2>2. Registered(nodes) = {} => Running = {}
    BY Zenon DEF Running, Scheduled
  <2> QED BY Zenon, <2>1, <2>2, Exact
<1>5. \/ o = up /\ (sched = "mes" \/ Running = {})
      \/ o = [up EXCEPT !.runlist = TRUE, !.hw = Running] /\ sched # "mes"
      \/ o = [up EXCEPT !.ret = "ENOMEM"] /\ sched # "mes"
      \/ o = Outcome("ETIME", TRUE, TRUE, {})
  <2>1. ~ up.runlist
    BY Zenon DEF Outcome
  <2> HIDE DEF up
  <2> QED BY Zenon, <2>1, <1>2, <1>4 DEF map_queues_cpsch
<1>6. HardwareMatches'
  <2>1. CASE o = up /\ (sched = "mes" \/ Running = {})
    <3>1. hw' = {}
      BY Zenon, <2>1, <1>2 DEF Leaves, Outcome
    <3> QED BY Zenon, <2>1, <3>1, <1>1, <1>3 DEF HardwareMatches, Running, sched
  <2>2. CASE o = [up EXCEPT !.runlist = TRUE, !.hw = Running] /\ sched # "mes"
    <3>1. hw' = Running
      BY Zenon, <2>2, <1>2 DEF Leaves, Outcome
    <3> QED BY Zenon, <2>2, <3>1, <1>1, <1>3 DEF HardwareMatches, Running, sched
  <2>3. CASE o = [up EXCEPT !.ret = "ENOMEM"] /\ sched # "mes"
    <3>1. unsynced'
      BY Zenon, <2>3, <1>2 DEF Leaves, Outcome
    <3> QED BY Zenon, <2>3, <3>1, <1>1 DEF HardwareMatches, sched
  <2>4. CASE o = Outcome("ETIME", TRUE, TRUE, {})
    BY Zenon, <2>4, <1>2 DEF HardwareMatches, Leaves, Outcome
  <2> QED BY Zenon, <1>5, <2>1, <2>2, <2>3, <2>4
<1> QED BY Zenon, <1>1, <1>6, DeviceCounts

(* CountInv holds initially. *)
LEMMA InitCounts == Init => CountInv
<1> SUFFICES ASSUME Init PROVE CountInv
  OBVIOUS
<1> USE DEF Init
<1>1. Running = {} /\ Live = {} /\ Counted = {}
  BY Zenon DEF Running, Scheduled, Live, Counted
<1>2. CountsAreExact
  BY Zenon, <1>1, FS_EmptySet DEF CountsAreExact, Live
<1>3. HardwareMatches
  BY Zenon, <1>1 DEF HardwareMatches, Running
<1>4. Entered
  BY Zenon, <1>1 DEF Entered, Idle
<1> QED BY Zenon, <1>2, <1>3, <1>4 DEF CountInv

(* CountInv is inductive relative to EvictInv. *)
LEMMA NextCounts == EvictInv /\ CountInv /\ [Next]_vars => CountInv'
<1> SUFFICES ASSUME EvictInv, CountInv, [Next]_vars PROVE CountInv'
  OBVIOUS
<1>1. CASE UNCHANGED vars
  BY Zenon, <1>1, QuietCounts DEF vars, flags, aside
<1>2. ASSUME Next PROVE astray \notin Astray /\ Step
  BY Zenon, <1>2 DEF Next
<1>3. ASSUME astray \notin Astray, NEW p \in setup.procs, ThreadStep(p)
      PROVE  CountInv'
  <2>1. p \in Procs
    BY Zenon, SetupFacts DEF EvictInv
  <2> QED BY Zenon, <2>1, <1>3, CheckCounts, CreateCounts, UnregisterCounts, FreeMqdCounts, FreedCounts DEF ThreadStep
<1>4. ASSUME astray \notin Astray, NEW p \in setup.procs,
             \/ evict_process_queues_cpsch(p)
             \/ restore_process_queues_cpsch(p)
             \/ process_termination_cpsch(p)
             \/ \E ids \in SUBSET QueuesOf(p) \ {{}} :
                  suspend_queues(p, ids) \/ \E byId \in BOOLEAN : resume_queues(p, ids, byId)
      PROVE  CountInv'
  <2>1. p \in Procs
    BY Zenon, SetupFacts DEF EvictInv
  <2> QED BY Zenon, <2>1, <1>4, EvictCounts, RestoreCounts, TerminationCounts, SuspendCounts, ResumeCounts
<1>5. ASSUME astray \notin Astray, NEW p \in setup.procs, NEW q \in Queues,
             \/ destroy_queue_cpsch(p, q) \/ Waits(p, q) \/ WaitInterrupted(p, q)
             \/ \E run \in BOOLEAN : pqm_create_queue(p, q, run) \/ update_queue(p, q, run)
      PROVE  CountInv'
  <2>1. p \in Procs
    BY Zenon, SetupFacts DEF EvictInv
  <2>2. CASE destroy_queue_cpsch(p, q)
    BY Zenon, <2>1, <2>2, <1>5, RemoveCounts, QuietCounts DEF destroy_queue_cpsch, Known, QueuesOf, aside
  <2>3. CASE WaitSleeps(q)
    BY Zenon, <2>3, QuietCounts DEF WaitSleeps, flags, aside
  <2>4. CASE WaitEnds(p, q)
    BY Zenon, <2>1, <2>4, <1>5, RemoveCounts DEF WaitEnds
  <2>5. CASE WaitInterrupted(p, q)
    BY Zenon, <2>5, QuietCounts DEF WaitInterrupted, flags, aside
  <2> QED BY Zenon, <1>5, <2>1, <2>2, <2>3, <2>4, <2>5, PqmCreateCounts, UpdateCounts DEF Waits
<1>6. CASE astray \notin Astray /\ (pre_reset \/ stop_cpsch \/ start_cpsch)
  BY Zenon, <1>6, PreResetCounts, StopCounts, StartCounts
<1> QED BY Zenon, <1>1, <1>2, <1>3, <1>4, <1>5, <1>6 DEF Step

(* active_queue_count and total_queue_count are exact whatever failed before:
   runlists, the MES, memory for an entry or a context.  Nothing is said after a
   queue was destroyed twice, updated after a failed destroy, or restored while
   it was active, which the code does not prevent. *)
THEOREM CountsAlwaysExact == Spec => []CountsAreExact
<1>1. CountInv => CountsAreExact
  BY Zenon DEF CountInv
<1> QED BY <1>1, InitEvicted, NextKeepsEvicted, InitCounts, NextCounts, PTL DEF Spec

(* The hardware runs exactly the active queues of the registered processes while
   the HWS works, is not stopped or reset and got its last runlist, and nothing
   but active queues while the MES does not hang: then no queue runs that was
   destroyed, evicted or suspended.  Nothing is said after one of the above, or
   after a process ended that was entered twice in dqm->queues. *)
THEOREM HardwareAlwaysMatches == Spec => []HardwareMatches
<1>1. CountInv => HardwareMatches
  BY Zenon DEF CountInv
<1> QED BY <1>1, InitEvicted, NextKeepsEvicted, InitCounts, NextCounts, PTL DEF Spec
=============================================================================
