----------------------------- MODULE EventWait -----------------------------
(***************************************************************************)
(* Waiting on and signalling KFD events (kfd_events.c).                    *)
(*                                                                         *)
(* Waiters are threads in kfd_wait_on_events.  A wait names several        *)
(* events; slot i of a wait is its i-th struct kfd_event_waiter.  Events   *)
(* are set and reset by threads that hold only rcu_read_lock and ev->lock, *)
(* and created and destroyed under p->event_mutex.  An Event is one        *)
(* struct kfd_event: ids are reused (module EventSignal), structures are   *)
(* not, so a pointer to a destroyed event can be told from any other.      *)
(*                                                                         *)
(* wake_up_all is external (kernel/sched/wait.c): init_wait gives every    *)
(* entry autoremove_wake_function, which unlinks the entry only if it      *)
(* really woke the task; a task that has not gone to sleep stays queued.   *)
(***************************************************************************)
EXTENDS Integers, FiniteSets

CONSTANTS
    Waiters,     \* threads that wait
    Setters,     \* threads that set or reset an event
    Events,      \* struct kfd_event
    NULL,        \* the null pointer, and no thread
    AutoReset,   \* the events created with auto_reset
    Aged,        \* the events of type KFD_EVENT_TYPE_SIGNAL
    Destroyable, \* the events a user destroys
    Timeouts,    \* the timeouts users give: some of "zero", "finite", "infinite"
    Signals,     \* the signals tasks get: some of "signal", "fatal"
    Faults,      \* may copies from and to user memory fail
    MaxEvents,   \* bound of this model on the events of one wait
    MaxAge,      \* bound of this model on event_age: 2^64 is out of reach
    MaxSignals   \* bound of this model on the signals sent to waiting tasks

ASSUME EventWaitAssumption ==
    /\ NULL \notin Events /\ NULL \notin Waiters
    /\ AutoReset \subseteq Events
    /\ Aged \subseteq Events
    /\ Destroyable \subseteq Events
    /\ Timeouts \subseteq {"zero", "finite", "infinite"}
    /\ Signals \subseteq {"signal", "fatal"}
    /\ Faults \in BOOLEAN
    /\ MaxEvents \in Nat \ {0}
    /\ MaxAge \in Nat \ {0}
    /\ MaxSignals \in Nat

Slots == 1 .. MaxEvents

VARIABLES
    \* the events
    state,      \* "none" before kfd_event_create, "live", "dead" after destroy_event,
                \* history: "stray" if that left an entry in the queue
    signaled,   \* ev->signaled
    age,        \* ev->event_age
    wq,         \* ev->wq: the queued entries <<waiter, slot>>
    mutex,      \* holder of p->event_mutex
    \* the waiting threads
    pc,         \* where the thread is in kfd_wait_on_events
    call,       \* the arguments: num_events, the events, the last ages, all
    event,      \* waiter->event of each slot
    activated,  \* waiter->activated of each slot
    idx,        \* the index of the loop over the slots
    seen,       \* the slots test_event_condition counted
    result,     \* *wait_result
    ret,        \* the return code
    timeout,    \* what is left of the timeout
    tstate,     \* the task state: "running" or "interruptible"
    sig,        \* pending signal: "none", "signal" or "fatal"
    \* the setting threads
    held,       \* the event looked up by a setter that has not set it yet
    signals,    \* signals this model may still send
    owed        \* history: auto-reset events set, and not taken by a finished wait since

eventVars == <<state, signaled, age, wq>>
waiterVars == <<event, activated>>
locals == <<idx, seen, result, ret, timeout>>
vars == <<eventVars, mutex, pc, call, waiterVars, locals, tstate, sig, held, signals, owed>>

NoSlots == [i \in Slots |-> NULL]
NoAges == [i \in Slots |-> 0]
NoCall == [num |-> 0, want |-> NoSlots, last |-> NoAges, all |-> FALSE]
NotActivated == [i \in Slots |-> FALSE]

-----------------------------------------------------------------------------
Init ==
    /\ state = [e \in Events |-> "none"]
    /\ signaled = [e \in Events |-> FALSE]
    /\ age = [e \in Events |-> 0]
    /\ wq = [e \in Events |-> {}]
    /\ mutex = NULL
    /\ pc = [w \in Waiters |-> "idle"]
    /\ call = [w \in Waiters |-> NoCall]
    /\ event = [w \in Waiters |-> NoSlots]
    /\ activated = [w \in Waiters |-> NotActivated]
    /\ idx = [w \in Waiters |-> 1]
    /\ seen = [w \in Waiters |-> {}]
    /\ result = [w \in Waiters |-> "TIMEOUT"]
    /\ ret = [w \in Waiters |-> "ok"]
    /\ timeout = [w \in Waiters |-> "zero"]
    /\ tstate = [w \in Waiters |-> "running"]
    /\ sig = [w \in Waiters |-> "none"]
    /\ held = [s \in Setters |-> NULL]
    /\ signals = MaxSignals
    /\ owed = {}

-----------------------------------------------------------------------------
(* External, wake_up_all on a queue q: the tasks it wakes, and the entries
   that stay queued because their task was running. *)
Woken(q) == {w \in Waiters : tstate[w] = "interruptible" /\ \E i \in Slots : <<w, i>> \in q}

wake_up_all(e, q) ==
    /\ tstate' = [w \in Waiters |-> IF w \in Woken(q) THEN "running" ELSE tstate[w]]
    /\ wq' = [wq EXCEPT ![e] = {x \in q : x[1] \notin Woken(q)}]

(* set_event, ev->lock held, q the wait queue: auto reset if q is not empty, a
   new age, and every queued waiter activated and woken. *)
set_event(e, q) ==
    /\ signaled' = [signaled EXCEPT ![e] = e \notin AutoReset \/ q = {}]
    /\ age' = [age EXCEPT ![e] = @ + 1]
    /\ activated' = [w \in Waiters |-> [i \in Slots |-> activated[w][i] \/ <<w, i>> \in q]]
    /\ wake_up_all(e, q)
    /\ owed' = owed \cup ({e} \cap AutoReset)

(* kfd_event_create: a new event with age 1, published in the idr. *)
kfd_event_create(e) ==
    /\ mutex = NULL
    /\ state[e] = "none"
    /\ state' = [state EXCEPT ![e] = "live"]
    /\ age' = [age EXCEPT ![e] = 1]
    /\ UNCHANGED <<signaled, wq, mutex, pc, call, waiterVars, locals, tstate, sig, held, signals, owed>>

(* Mutant: an event is destroyed without taking event_mutex. *)
kfd_event_destroy_NoMutex(e) ==
    /\ e \in Destroyable
    /\ state[e] = "live"
    /\ state' = [state EXCEPT ![e] = "dead"]
    /\ event' = [w \in Waiters |-> [i \in Slots |->
                    IF <<w, i>> \in wq[e] THEN NULL ELSE event[w][i]]]
    /\ wake_up_all(e, wq[e])
    /\ UNCHANGED <<signaled, age, mutex, pc, call, activated, locals, sig, held, signals, owed>>

(* destroy_event, event_mutex held: the queued waiters lose their event and
   are woken; the event leaves the idr and is freed after a grace period.  The
   entry of a task that is not asleep stays in the queue. *)
kfd_event_destroy(e) ==
    /\ e \in Destroyable
    /\ mutex = NULL
    /\ state[e] = "live"
    /\ state' = [state EXCEPT ![e] = IF \A x \in wq[e] : x[1] \in Woken(wq[e]) THEN "dead" ELSE "stray"]
    /\ event' = [w \in Waiters |-> [i \in Slots |->
                    IF <<w, i>> \in wq[e] THEN NULL ELSE event[w][i]]]
    /\ wake_up_all(e, wq[e])
    /\ UNCHANGED <<signaled, age, mutex, pc, call, activated, locals, sig, held, signals, owed>>

(* kfd_set_event, kfd_reset_event and the exception handlers look the event
   up under RCU ... *)
lookup_event(s, e) ==
    /\ held[s] = NULL
    /\ state[e] = "live"
    /\ held' = [held EXCEPT ![s] = e]
    /\ UNCHANGED <<eventVars, mutex, pc, call, waiterVars, locals, tstate, sig, signals, owed>>

(* ... and set it under ev->lock, which may come after its destruction: RCU
   keeps the memory. *)
kfd_set_event(s) ==
    /\ held[s] # NULL
    /\ age[held[s]] < MaxAge
    /\ set_event(held[s], wq[held[s]])
    /\ held' = [held EXCEPT ![s] = NULL]
    /\ UNCHANGED <<state, mutex, pc, call, event, locals, sig, signals>>

(* Only signal events can be reset. *)
kfd_reset_event(s) ==
    /\ held[s] \in Aged
    /\ signaled' = [signaled EXCEPT ![held[s]] = FALSE]
    /\ held' = [held EXCEPT ![s] = NULL]
    /\ owed' = owed \ {held[s]}
    /\ UNCHANGED <<state, age, wq, mutex, pc, call, waiterVars, locals, tstate, sig, signals>>

-----------------------------------------------------------------------------
(* kfd_wait_on_events *)

Goto(w, label) == pc' = [pc EXCEPT ![w] = label]

(* A call: the events (all different in this model), the ages the user last
   saw, wait for any or all (the same for one event), and the timeout.  It
   allocates the waiters and takes event_mutex. *)
StartWait(w) ==
    /\ pc[w] = "idle"
    /\ mutex = NULL
    /\ \E n \in Slots : \E es \in [Slots -> Events \cup {NULL}], as \in [Slots -> 0 .. MaxAge],
          a \in BOOLEAN, t \in Timeouts :
        /\ \A i \in Slots : es[i] = NULL <=> i > n
        /\ \A i, j \in 1 .. n : i # j => es[i] # es[j]
        /\ \A i \in Slots : IF es[i] \in Aged THEN as[i] <= age[es[i]] ELSE as[i] = 0
        /\ n = 1 => ~ a
        /\ call' = [call EXCEPT ![w] =
                [num |-> n, want |-> es, last |-> as, all |-> a]]
        /\ timeout' = [timeout EXCEPT ![w] = t]
    /\ mutex' = w
    /\ Goto(w, "init")
    /\ UNCHANGED <<eventVars, waiterVars, idx, seen, result, ret, tstate, sig, held, signals, owed>>

(* Mutant: the age the user saw is not compared. *)
Activates_IgnoresAge(w, i) ==
    LET e == call[w].want[i]  a == call[w].last[i] IN
    signaled[e]

(* What init_event_waiter finds for slot i: the event is signaled, or, for a
   signal event and a non-zero last_event_age, it was set since. *)
Activates(w, i) ==
    LET e == call[w].want[i]  a == call[w].last[i] IN
    signaled[e] \/ (e \in Aged /\ a # 0 /\ age[e] # a)

(* init_event_waiter, ev->lock held: consume an auto-reset signal, and queue
   the slot only if it is not activated. *)
init_event_waiter(w) ==
    LET i == idx[w]  e == call[w].want[idx[w]] IN
    /\ pc[w] = "init" /\ i <= call[w].num
    /\ state[e] = "live"
    /\ event' = [event EXCEPT ![w][i] = e]
    /\ activated' = [activated EXCEPT ![w][i] = Activates(w, i)]
    /\ signaled' = [signaled EXCEPT ![e] = @ /\ e \notin AutoReset]
    /\ wq' = [wq EXCEPT ![e] = IF Activates(w, i) THEN @ ELSE @ \cup {<<w, i>>}]
    /\ idx' = [idx EXCEPT ![w] = i + 1]
    /\ UNCHANGED <<seen, result, ret, timeout>>
    /\ UNCHANGED <<state, age, mutex, pc, call, tstate, sig, held, signals, owed>>

(* copy_from_user fails, or the event does not exist: give up, keeping what
   was consumed. *)
InitFails(w) ==
    /\ pc[w] = "init" /\ idx[w] <= call[w].num
    /\ Faults \/ state[call[w].want[idx[w]]] # "live"
    /\ idx' = [idx EXCEPT ![w] = 1]
    /\ ret' = [ret EXCEPT ![w] = IF state[call[w].want[idx[w]]] = "live"
                                     THEN "EFAULT" ELSE "EINVAL"]
    /\ UNCHANGED <<seen, result, timeout>>
    /\ Goto(w, "free")
    /\ UNCHANGED <<eventVars, mutex, call, waiterVars, tstate, sig, held, signals, owed>>

InitDone(w) ==
    /\ pc[w] = "init" /\ idx[w] > call[w].num
    /\ idx' = [idx EXCEPT ![w] = 1]
    /\ UNCHANGED <<seen, result, ret, timeout>>
    /\ Goto(w, "first")
    /\ UNCHANGED <<eventVars, mutex, call, waiterVars, tstate, sig, held, signals, owed>>

(* test_event_condition reads the slots one by one, without a lock. *)
ScanVerdict(w) ==
    LET i == idx[w]  n == call[w].num IN
    IF i > n THEN IF seen[w] = 1 .. n THEN "COMPLETE" ELSE "TIMEOUT"
    ELSE IF event[w][i] = NULL THEN "FAIL"
    ELSE IF activated[w][i] /\ ~ call[w].all THEN "COMPLETE"
    ELSE "more"

ScanMore(w) ==
    LET i == idx[w] IN
    /\ pc[w] \in {"first", "test"}
    /\ ScanVerdict(w) = "more"
    /\ idx' = [idx EXCEPT ![w] = i + 1]
    /\ seen' = [seen EXCEPT ![w] = IF activated[w][i] THEN @ \cup {i} ELSE @]
    /\ UNCHANGED <<result, ret, timeout>>
    /\ UNCHANGED <<eventVars, mutex, pc, call, waiterVars, tstate, sig, held, signals, owed>>

(* *wait_result is set; the locals of the scan are gone. *)
EndScan(w, v) ==
    /\ idx' = [idx EXCEPT ![w] = 1]
    /\ seen' = [seen EXCEPT ![w] = {}]
    /\ result' = [result EXCEPT ![w] = v]
    /\ UNCHANGED <<ret, timeout>>

(* The check made once under event_mutex. *)
FirstCheck(w) ==
    LET v == ScanVerdict(w) IN
    /\ pc[w] = "first"
    /\ v # "more"
    /\ EndScan(w, v)
    /\ mutex' = IF v = "TIMEOUT" THEN NULL ELSE mutex
    /\ Goto(w, CASE v = "COMPLETE" -> "copy" [] v = "FAIL" -> "free" [] OTHER -> "loop")
    /\ UNCHANGED <<eventVars, call, waiterVars, tstate, sig, held, signals, owed>>

(* The head of the wait loop: a fatal or another signal ends the wait, else
   the task state is set before the condition is tested. *)
LoopTop(w) ==
    /\ pc[w] = "loop"
    /\ IF sig[w] = "none"
       THEN /\ tstate' = [tstate EXCEPT ![w] = "interruptible"]
            /\ Goto(w, "test")
            /\ UNCHANGED ret
       ELSE /\ ret' = [ret EXCEPT ![w] = IF sig[w] = "fatal" THEN "EINTR" ELSE "ERESTARTSYS"]
            /\ Goto(w, "relock")
            /\ UNCHANGED tstate
    /\ UNCHANGED <<eventVars, mutex, call, waiterVars, idx, seen, result, timeout, sig, held, signals, owed>>

(* Mutants: a destroyed event, or a timeout that ran out, does not end the wait. *)
Leaves_IgnoresFail(w, v) == v = "COMPLETE" \/ timeout[w] = "zero"
Leaves_NoTimeout(w, v) == v # "TIMEOUT"

(* What ends the loop after a test with verdict v. *)
Leaves(w, v) == v # "TIMEOUT" \/ timeout[w] = "zero"

(* Mutant: the task state is set after the test. *)
TestCheck_StateAfterTest(w) ==
    LET v == ScanVerdict(w) IN
    /\ pc[w] = "test"
    /\ v # "more"
    /\ EndScan(w, v)
    /\ Goto(w, IF Leaves(w, v) THEN "relock" ELSE "asleep")
    /\ tstate' = [tstate EXCEPT ![w] = IF Leaves(w, v) THEN "running" ELSE "interruptible"]
    /\ UNCHANGED <<eventVars, mutex, call, waiterVars, sig, held, signals, owed>>

(* The test in the loop: leave it if the condition or the timeout is met, else
   go to sleep. *)
TestCheck(w) ==
    LET v == ScanVerdict(w) IN
    /\ pc[w] = "test"
    /\ v # "more"
    /\ EndScan(w, v)
    /\ Goto(w, IF Leaves(w, v) THEN "relock" ELSE "asleep")
    /\ tstate' = [tstate EXCEPT ![w] = IF Leaves(w, v) THEN "running" ELSE @]
    /\ UNCHANGED <<eventVars, mutex, call, waiterVars, sig, held, signals, owed>>

(* schedule_timeout returns once the task is runnable, with what is left of
   the timeout: perhaps nothing. *)
ScheduleReturns(w) ==
    /\ pc[w] = "asleep"
    /\ tstate[w] = "running"
    /\ \E left \in IF timeout[w] = "finite" THEN {"finite", "zero"} ELSE {timeout[w]} :
          timeout' = [timeout EXCEPT ![w] = left]
    /\ Goto(w, "loop")
    /\ UNCHANGED <<eventVars, mutex, call, waiterVars, idx, seen, result, ret, tstate, sig, held, signals, owed>>

(* External: the timer of schedule_timeout expires. *)
TimerExpires(w) ==
    /\ pc[w] = "asleep"
    /\ tstate[w] = "interruptible"
    /\ timeout[w] = "finite"
    /\ tstate' = [tstate EXCEPT ![w] = "running"]
    /\ timeout' = [timeout EXCEPT ![w] = "zero"]
    /\ UNCHANGED <<eventVars, mutex, pc, call, waiterVars, idx, seen, result, ret, sig, held, signals, owed>>

(* External: a signal is sent to a waiting task, which is woken. *)
Signal(w, k) ==
    /\ pc[w] # "idle"
    /\ sig[w] = "none"
    /\ signals > 0
    /\ signals' = signals - 1
    /\ sig' = [sig EXCEPT ![w] = k]
    /\ tstate' = [tstate EXCEPT ![w] = "running"]
    /\ UNCHANGED <<eventVars, mutex, pc, call, waiterVars, locals, held, owed>>

Relock(w) ==
    /\ pc[w] = "relock"
    /\ mutex = NULL
    /\ mutex' = w
    /\ Goto(w, IF ret[w] = "ok" /\ result[w] = "COMPLETE" THEN "copy" ELSE "free")
    /\ UNCHANGED <<eventVars, call, waiterVars, locals, tstate, sig, held, signals, owed>>

(* copy_signaled_event_data: fails if an event is gone, may fault on data. *)
HasData(w, i) == activated[w][i] /\ (event[w][i] \in Aged => call[w].last[i] # 0)

copy_signaled_event_data(w) ==
    LET used == 1 .. call[w].num
        gone == \E i \in used : event[w][i] = NULL
        faults == Faults /\ \E i \in used : HasData(w, i) /\ \A j \in 1 .. i : event[w][j] # NULL
    IN
    /\ pc[w] = "copy"
    /\ \E r \in (IF gone THEN {"EINVAL"} ELSE {"ok"}) \cup (IF faults THEN {"EFAULT"} ELSE {}) :
          ret' = [ret EXCEPT ![w] = r]
    /\ Goto(w, "free")
    /\ UNCHANGED <<eventVars, mutex, call, waiterVars, idx, seen, result, timeout, tstate, sig, held, signals, owed>>

(* Mutant: the entry stays in the queue. *)
QueueWithout_KeepsEntry(w, i, e) == wq[e]

(* remove_wait_queue *)
QueueWithout(w, i, e) == wq[e] \ {<<w, i>>}

(* Mutant: a restarted wait keeps the signal it consumed. *)
UndoesReset_Never(w, i) == FALSE

(* undo_auto_reset *)
UndoesReset(w, i) == ret[w] = "ERESTARTSYS" /\ activated[w][i] /\ event[w][i] \in AutoReset

(* free_waiters, one slot: leave the queue and, if the system call will be
   restarted, give an auto-reset signal back. *)
free_waiter(w) ==
    LET i == idx[w]  e == event[w][i] IN
    /\ pc[w] = "free" /\ i <= call[w].num
    /\ idx' = [idx EXCEPT ![w] = i + 1]
    /\ IF e = NULL THEN UNCHANGED <<signaled, age, wq, activated, tstate, owed>>
       ELSE IF UndoesReset(w, i) THEN set_event(e, QueueWithout(w, i, e))
       ELSE /\ wq' = [wq EXCEPT ![e] = QueueWithout(w, i, e)]
            /\ UNCHANGED <<signaled, age, activated, tstate, owed>>
    /\ UNCHANGED <<state, mutex, pc, call, event, seen, result, ret, timeout, sig, held, signals>>

(* The events whose signals a wait takes with it: a wait that is not going to
   be restarted keeps what it consumed, also if it failed or timed out. *)
Taken(w) ==
    IF ret[w] = "ERESTARTSYS" THEN {}
    ELSE {event[w][i] : i \in {j \in 1 .. call[w].num : activated[w][j]}}

(* The slots are freed; an entry still queued now is in freed memory, which
   the model marks by NULL.  The mutex is released and the call returns. *)
WaitReturns(w) ==
    /\ pc[w] = "free" /\ idx[w] > call[w].num
    /\ wq' = [e \in Events |-> {IF x[1] = w THEN <<NULL, x[2]>> ELSE x : x \in wq[e]}]
    /\ event' = [event EXCEPT ![w] = NoSlots]
    /\ activated' = [activated EXCEPT ![w] = NotActivated]
    /\ mutex' = NULL
    /\ owed' = owed \ Taken(w)
    /\ call' = [call EXCEPT ![w] = NoCall]
    /\ idx' = [idx EXCEPT ![w] = 1]
    /\ seen' = [seen EXCEPT ![w] = {}]
    /\ result' = [result EXCEPT ![w] = "TIMEOUT"]
    /\ ret' = [ret EXCEPT ![w] = "ok"]
    /\ timeout' = [timeout EXCEPT ![w] = "zero"]
    /\ sig' = [sig EXCEPT ![w] = "none"]
    /\ Goto(w, "idle")
    /\ UNCHANGED <<state, signaled, age, tstate, held, signals>>

-----------------------------------------------------------------------------
WaiterStep(w) ==
    \/ init_event_waiter(w) \/ InitFails(w) \/ InitDone(w)
    \/ ScanMore(w) \/ FirstCheck(w) \/ LoopTop(w) \/ TestCheck(w) \/ ScheduleReturns(w)
    \/ copy_signaled_event_data(w) \/ free_waiter(w) \/ WaitReturns(w)

Next ==
    \/ \E e \in Events : kfd_event_create(e) \/ kfd_event_destroy(e)
    \/ \E s \in Setters : \/ \E e \in Events : lookup_event(s, e)
                          \/ kfd_set_event(s) \/ kfd_reset_event(s)
    \/ \E w \in Waiters : \/ StartWait(w) \/ Relock(w) \/ WaiterStep(w) \/ TimerExpires(w)
                          \/ \E k \in Signals : Signal(w, k)

Spec == Init /\ [][Next]_vars

(* A runnable task runs, a timer expires, and the event mutex, which queues
   its waiters in order, is not given to others for ever. *)
FairSpec ==
    /\ Spec
    /\ \A w \in Waiters : /\ WF_vars(WaiterStep(w))
                          /\ WF_vars(TimerExpires(w))
                          /\ SF_vars(Relock(w))

-----------------------------------------------------------------------------
Labels == {"idle", "init", "first", "loop", "test", "asleep", "relock", "copy", "free"}

Calls ==
    [num : 0 .. MaxEvents, want : [Slots -> Events \cup {NULL}], last : [Slots -> Nat],
     all : BOOLEAN]

EventTypes ==
    /\ state \in [Events -> {"none", "live", "dead", "stray"}]
    /\ signaled \in [Events -> BOOLEAN]
    /\ age \in [Events -> Nat]
    /\ wq \in [Events -> SUBSET ((Waiters \cup {NULL}) \X Slots)]
    /\ held \in [Setters -> Events \cup {NULL}]
    /\ owed \subseteq AutoReset
WaiterTypes ==
    /\ call \in [Waiters -> Calls]
    /\ event \in [Waiters -> [Slots -> Events \cup {NULL}]]
    /\ activated \in [Waiters -> [Slots -> BOOLEAN]]
ThreadTypes ==
    /\ mutex \in Waiters \cup {NULL}
    /\ pc \in [Waiters -> Labels]
    /\ idx \in [Waiters -> 1 .. MaxEvents + 1]
    /\ seen \in [Waiters -> SUBSET Slots]
    /\ result \in [Waiters -> {"COMPLETE", "TIMEOUT", "FAIL"}]
    /\ ret \in [Waiters -> {"ok", "EFAULT", "EINVAL", "EINTR", "ERESTARTSYS"}]
    /\ timeout \in [Waiters -> {"zero", "finite", "infinite"}]
    /\ tstate \in [Waiters -> {"running", "interruptible"}]
    /\ sig \in [Waiters -> {"none", "signal", "fatal"}]
    /\ signals \in 0 .. MaxSignals

(* Every variable has its type. *)
TypeOK == EventTypes /\ WaiterTypes /\ ThreadTypes

(* test_event_condition on the slots as they are now. *)
Condition(w) ==
    LET used == 1 .. call[w].num IN
    IF \E i \in used : event[w][i] = NULL THEN "FAIL"
    ELSE IF IF call[w].all THEN \A i \in used : activated[w][i]
                           ELSE \E i \in used : activated[w][i]
    THEN "COMPLETE" ELSE "TIMEOUT"

(* "Otherwise, this race condition would lead to a soft hang": a task that is
   really asleep in kfd_wait_on_events has nothing to wake up for, although
   set_event, destroy_event and test_event_condition interleave freely with
   the setting of the task state. *)
NoLostWakeup ==
    \A w \in Waiters :
        pc[w] = "asleep" /\ tstate[w] = "interruptible" => Condition(w) = "TIMEOUT"

(* A slot that waits for a change of event_age is activated as soon as the
   age is no longer the one the user saw: no signal is slept through. *)
AgeChangeActivates ==
    \A w \in Waiters : \A i \in 1 .. call[w].num :
        LET e == event[w][i]  a == call[w].last[i] IN
        pc[w] # "free" /\ e # NULL /\ e \in Aged /\ a # 0 /\ ~ activated[w][i] => age[e] = a

(* "Events shouldn't be destroyed while we're holding the event_mutex": the
   first test of a wait never fails, so its WARN_ON never fires. *)
FirstCheckNeverFails ==
    \A w \in Waiters : pc[w] = "first" => \A i \in 1 .. call[w].num : event[w][i] # NULL

(* The signal of an auto-reset event stays in the event or in an activated
   slot until a wait ends for good: init_event_waiter, set_event and the undo
   of free_waiters hand it on, however often waits are interrupted. *)
SignalIsKept ==
    \A e \in owed : state[e] = "live" =>
        \/ signaled[e]
        \/ \E w \in Waiters, i \in Slots : event[w][i] = e /\ activated[w][i]

(* A wait whose condition is met returns, whatever its timeout. *)
MetWaitReturns ==
    \A w \in Waiters : (pc[w] = "asleep" /\ Condition(w) # "TIMEOUT") ~> pc[w] = "idle"

(* A wait with a timeout returns. *)
TimedWaitReturns ==
    \A w \in Waiters : (pc[w] # "idle" /\ timeout[w] # "infinite") ~> pc[w] = "idle"

(* "The event may also have been destroyed after signaling. So
   copy_signaled_event_data also must confirm that the event still exists":
   it reads data of live events only. *)
CopiesFromLiveEvents ==
    \A w \in Waiters : pc[w] = "copy" =>
        \A i \in 1 .. call[w].num : event[w][i] # NULL => state[event[w][i]] = "live"

(* kfd_wait_on_events frees its waiters when they have left the queues, but for
   one case: of an event destroyed while the task of a queued waiter was awake
   (stray), whose entry wake_up_all leaves and free_waiters, finding no event,
   skips.  No queue of any other event, live or destroyed, holds an entry of a
   finished wait. *)
FreedWaitersHaveLeft ==
    \A e \in Events : state[e] # "stray" => \A x \in wq[e] : x[1] # NULL
=============================================================================
