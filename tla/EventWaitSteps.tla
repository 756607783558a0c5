--------------------------- MODULE EventWaitSteps ---------------------------
(***************************************************************************)
(* Proofs about EventWait, for any threads, events, bounds and faults.     *)
(*                                                                         *)
(* EWInv is the inductive invariant.  Own(w) says where thread w stands in *)
(* kfd_wait_on_events; Shared relates the slots, the wait queues and the   *)
(* events.  The centre of Shared is QueuedUnlessActivated with             *)
(* QueuedIsWaiting: the queues of the live events hold exactly the slots   *)
(* that still have to be told, so that set_event and destroy_event, which  *)
(* only see the queues, reach every wait they should.                      *)
(***************************************************************************)
EXTENDS EventWait, TLAPS

(* Who holds event_mutex. *)
MutexIsHeld(w) == mutex = w <=> pc[w] \in {"init", "first", "copy", "free"}

WantsEvents(w) == \A i \in Slots : i <= call[w].num => call[w].want[i] \in Events

IdleIsClear(w) ==
    pc[w] = "idle" => idx[w] = 1 /\ seen[w] = {} /\ \A i \in Slots : event[w][i] = NULL

(* The slots are initialised in order. *)
InitProgress(w) ==
    pc[w] = "init" =>
        /\ idx[w] <= call[w].num + 1
        /\ seen[w] = {}
        /\ \A i \in Slots : event[w][i] = NULL <=> i >= idx[w]

IndexIsReset(w) ==
    pc[w] \in {"loop", "asleep", "relock", "copy"} => idx[w] = 1 /\ seen[w] = {}

AllLive(w) == pc[w] = "first" => \A i \in Slots : i <= call[w].num => event[w][i] # NULL

(* While no wake-up came, what the scan read is still true. *)
ScanIsCurrent(w) ==
    pc[w] \in {"first", "test"} =>
        /\ idx[w] <= call[w].num + 1
        /\ \A i \in seen[w] : i < idx[w]
        /\ pc[w] = "test" /\ tstate[w] = "interruptible" =>
              \A i \in Slots : i < idx[w] =>
                  /\ event[w][i] # NULL
                  /\ activated[w][i] => call[w].all /\ i \in seen[w]

(* A task that sleeps has nothing to wake up for. *)
NothingMissed(w) ==
    pc[w] = "asleep" /\ tstate[w] = "interruptible" =>
        /\ \A i \in Slots : i <= call[w].num => event[w][i] # NULL
        /\ IF call[w].all THEN \E i \in Slots : i <= call[w].num /\ ~ activated[w][i]
                          ELSE \A i \in Slots : i <= call[w].num => ~ activated[w][i]

Own(w) ==
    /\ MutexIsHeld(w) /\ WantsEvents(w) /\ IdleIsClear(w) /\ InitProgress(w)
    /\ IndexIsReset(w) /\ AllLive(w) /\ ScanIsCurrent(w) /\ NothingMissed(w)

SlotsInUse ==
    \A w \in Waiters : \A i \in Slots : event[w][i] # NULL =>
        i <= call[w].num /\ state[event[w][i]] # "none"

NotCreated ==
    /\ \A e \in Events : state[e] = "none" => wq[e] = {} /\ e \notin owed
    /\ \A s \in Setters : held[s] # NULL => state[held[s]] # "none"

(* A slot that still has to be told is in the queue of its event. *)
QueuedUnlessActivated ==
    \A w \in Waiters : \A i \in Slots :
        pc[w] # "free" /\ event[w][i] # NULL /\ ~ activated[w][i]
            => <<w, i>> \in wq[event[w][i]]

(* An entry in the queue of a live event is a slot that waits for it. *)
QueuedIsWaiting ==
    \A e \in Events : \A v \in Waiters \cup {NULL} : \A i \in Slots :
        state[e] = "live" /\ <<v, i>> \in wq[e] =>
            /\ v \in Waiters
            /\ event[v][i] = e
            /\ pc[v] = "free" => i >= idx[v]

(* A slot that waits for a change of the age has not seen one. *)
AgeIsSeen ==
    \A w \in Waiters : \A i \in Slots :
        pc[w] # "free" /\ event[w][i] \in Aged /\ call[w].last[i] # 0 /\ ~ activated[w][i]
            => age[event[w][i]] = call[w].last[i]

(* Slot i of w still has a signal of e: a wait to be restarted has given back
   those of the slots it has freed. *)
Holds(w, i, e) ==
    /\ event[w][i] = e
    /\ activated[w][i]
    /\ ~ (pc[w] = "free" /\ ret[w] = "ERESTARTSYS" /\ i < idx[w])

SignalIsHeld ==
    \A e \in owed : state[e] = "live" /\ ~ signaled[e] =>
        \E w \in Waiters : \E i \in Slots : Holds(w, i, e)

Shared ==
    /\ SlotsInUse /\ NotCreated /\ QueuedUnlessActivated /\ QueuedIsWaiting
    /\ AgeIsSeen /\ SignalIsHeld

EWInv == TypeOK /\ (\A w \in Waiters : Own(w)) /\ Shared

-----------------------------------------------------------------------------
(* What the steps of others leave of a thread's own part: they do not move
   it, take its events only outside event_mutex, and wake it when they change
   its slots. *)
LEMMA OwnFrame ==
    ASSUME NEW v \in Waiters, Own(v),
           pc'[v] = pc[v], idx'[v] = idx[v], seen'[v] = seen[v], call'[v] = call[v],
           mutex' = v <=> mutex = v,
           pc[v] \in {"idle", "init", "first"} => event'[v] = event[v],
           tstate'[v] = "interruptible" =>
               tstate[v] = "interruptible" /\ event'[v] = event[v] /\ activated'[v] = activated[v]
    PROVE  Own(v)'
<1>1. MutexIsHeld(v)' /\ WantsEvents(v)' /\ IndexIsReset(v)'
  BY Zenon DEF Own, MutexIsHeld, WantsEvents, IndexIsReset
<1>2. IdleIsClear(v)' /\ InitProgress(v)' /\ AllLive(v)'
  BY Zenon DEF Own, IdleIsClear, InitProgress, AllLive
<1>3. ScanIsCurrent(v)'
  BY Zenon DEF Own, ScanIsCurrent
<1>4. NothingMissed(v)'
  BY Zenon DEF Own, NothingMissed
<1> QED BY Zenon, <1>1, <1>2, <1>3, <1>4 DEF Own

(* A thread that moves without touching events, queues or slots keeps Shared,
   unless it comes out of free_waiters; it enters them at the first slot. *)
LEMMA SharedFrame ==
    ASSUME TypeOK, Shared, NEW w \in Waiters,
           UNCHANGED <<eventVars, call, waiterVars, held, owed>>,
           \A v \in Waiters \ {w} : pc'[v] = pc[v] /\ idx'[v] = idx[v] /\ ret'[v] = ret[v],
           pc[w] = "free" => pc'[w] = pc[w] /\ idx'[w] = idx[w] /\ ret'[w] = ret[w],
           pc[w] # "free" /\ pc'[w] = "free" => idx'[w] = 1
    PROVE  Shared'
<1> USE DEF eventVars, waiterVars
<1>1. SlotsInUse' /\ NotCreated'
  BY Zenon DEF Shared, SlotsInUse, NotCreated
<1>2. QueuedUnlessActivated'
  BY Zenon DEF Shared, QueuedUnlessActivated
<1>3. QueuedIsWaiting'
  BY DEF Shared, QueuedIsWaiting, Slots
<1>4. AgeIsSeen'
  BY DEF Shared, AgeIsSeen
<1>5. SignalIsHeld'
  <2>1. ASSUME NEW v \in Waiters, NEW i \in Slots, NEW e \in Events, Holds(v, i, e)
        PROVE  Holds(v, i, e)'
    BY <2>1 DEF Holds, Slots
  <2> QED BY Zenon, <2>1, EventWaitAssumption DEF Shared, SignalIsHeld, TypeOK, EventTypes
<1> QED BY Zenon, <1>1, <1>2, <1>3, <1>4, <1>5 DEF Shared

(* A step of thread w alone. *)
Moves(w) ==
    /\ \A v \in Waiters \ {w} :
           /\ pc'[v] = pc[v] /\ idx'[v] = idx[v] /\ seen'[v] = seen[v] /\ ret'[v] = ret[v]
           /\ tstate'[v] = tstate[v]
    /\ UNCHANGED <<eventVars, call, waiterVars, held, owed>>

(* What a proof about one thread needs of the types. *)
LEMMA TypesOf ==
    ASSUME TypeOK, NEW w \in Waiters
    PROVE  /\ idx[w] \in 1 .. MaxEvents + 1 /\ seen[w] \in SUBSET Slots
           /\ call[w].num \in 0 .. MaxEvents
           /\ \A i \in Slots : event[w][i] \in Events \cup {NULL} /\ activated[w][i] \in BOOLEAN
<1>1. idx[w] \in 1 .. MaxEvents + 1 /\ seen[w] \in SUBSET Slots
  BY Zenon DEF TypeOK, ThreadTypes
<1>2. call[w].num \in 0 .. MaxEvents
  BY Zenon DEF TypeOK, WaiterTypes, Calls
<1>3. \A i \in Slots : event[w][i] \in Events \cup {NULL} /\ activated[w][i] \in BOOLEAN
  BY Zenon DEF TypeOK, WaiterTypes
<1> QED BY Zenon, <1>1, <1>2, <1>3

(* Such a step keeps EWInv if it keeps the types and the thread's own part. *)
LEMMA LocalStep ==
    ASSUME EWInv, NEW w \in Waiters, Moves(w), ThreadTypes', Own(w)',
           mutex' = mutex \/ {mutex, mutex'} = {w, NULL},
           pc[w] = "free" => pc'[w] = pc[w] /\ idx'[w] = idx[w] /\ ret'[w] = ret[w],
           pc[w] # "free" /\ pc'[w] = "free" => idx'[w] = 1
    PROVE  EWInv'
<1>0. TypeOK /\ Shared /\ \A v \in Waiters : Own(v)
  BY Zenon DEF EWInv
<1>1. TypeOK'
  BY Zenon, <1>0 DEF TypeOK, EventTypes, WaiterTypes, Moves, eventVars, waiterVars
<1>2. ASSUME NEW v \in Waiters, v # w PROVE Own(v)'
  <2>1. mutex' = v <=> mutex = v
    BY Zenon, <1>2, EventWaitAssumption
  <2> QED BY Zenon, <1>0, <1>2, <2>1, OwnFrame DEF Moves, waiterVars
<1>3. Shared'
  BY Zenon, <1>0, SharedFrame DEF Moves
<1> QED BY Zenon, <1>1, <1>2, <1>3 DEF EWInv

-----------------------------------------------------------------------------

(* InitFails gives up with the slots it has. *)
LEMMA InitFailsKeepsInv ==
    ASSUME EWInv, NEW w \in Waiters, InitFails(w)
    PROVE  EWInv'
<1>1. TypeOK /\ Own(w)
  BY Zenon DEF EWInv
<1>2. Moves(w) /\ UNCHANGED <<mutex, signals>>
  BY Zenon, <1>1 DEF TypeOK, ThreadTypes, Moves, eventVars, waiterVars, locals, InitFails, Goto
<1>3. /\ pc[w] = "init" /\ pc'[w] = "free" /\ idx'[w] = 1
      /\ ret'[w] \in {"EFAULT", "EINVAL"}
      /\ seen'[w] = seen[w] /\ result'[w] = result[w] /\ timeout'[w] = timeout[w]
      /\ tstate'[w] = tstate[w] /\ sig'[w] = sig[w]
  BY Zenon, <1>1 DEF TypeOK, ThreadTypes, locals, InitFails, Goto
<1>4. ThreadTypes'
  BY <1>1, EventWaitAssumption DEF TypeOK, ThreadTypes, locals, Labels, InitFails, Goto
<1>5. Own(w)'
  <2>1. /\ UNCHANGED <<call, event, activated>>
        /\ call[w].num \in 0 .. MaxEvents /\ idx[w] \in 1 .. MaxEvents + 1
    BY Zenon, <1>1, <1>2, TypesOf DEF Moves, waiterVars
  <2> QED BY Zenon, <1>1, <1>2, <1>3, <2>1, EventWaitAssumption DEF Own, MutexIsHeld, WantsEvents,
      IdleIsClear, InitProgress, IndexIsReset, AllLive, ScanIsCurrent, NothingMissed, Slots
<1>6. mutex' = mutex \/ {mutex, mutex'} = {w, NULL}
  BY Zenon, <1>1, <1>2, <1>3 DEF TypeOK, ThreadTypes
<1> QED BY Zenon, <1>2, <1>3, <1>4, <1>5, <1>6, LocalStep

(* InitDone leaves the loop with every slot filled. *)
LEMMA InitDoneKeepsInv ==
    ASSUME EWInv, NEW w \in Waiters, InitDone(w)
    PROVE  EWInv'
<1>1. TypeOK /\ Own(w)
  BY Zenon DEF EWInv
<1>2. Moves(w) /\ UNCHANGED <<mutex, signals>>
  BY Zenon, <1>1 DEF TypeOK, ThreadTypes, Moves, eventVars, waiterVars, locals, InitDone, Goto
<1>3. /\ pc[w] = "init" /\ pc'[w] = "first" /\ idx'[w] = 1 /\ idx[w] > call[w].num
      /\ seen'[w] = seen[w] /\ result'[w] = result[w] /\ ret'[w] = ret[w]
      /\ timeout'[w] = timeout[w] /\ tstate'[w] = tstate[w] /\ sig'[w] = sig[w]
  BY Zenon, <1>1 DEF TypeOK, ThreadTypes, locals, InitDone, Goto
<1>4. ThreadTypes'
  BY <1>1, EventWaitAssumption DEF TypeOK, ThreadTypes, locals, Labels, InitDone, Goto
<1>5. Own(w)'
  <2>1. /\ UNCHANGED <<call, event, activated>>
        /\ call[w].num \in 0 .. MaxEvents /\ idx[w] \in 1 .. MaxEvents + 1
    BY Zenon, <1>1, <1>2, TypesOf DEF Moves, waiterVars
  <2> QED BY <1>1, <1>2, <1>3, <2>1, EventWaitAssumption DEF Own, MutexIsHeld, WantsEvents,
      IdleIsClear, InitProgress, IndexIsReset, AllLive, ScanIsCurrent, NothingMissed, Slots
<1>6. mutex' = mutex \/ {mutex, mutex'} = {w, NULL}
  BY Zenon, <1>1, <1>2, <1>3 DEF TypeOK, ThreadTypes
<1> QED BY Zenon, <1>2, <1>3, <1>4, <1>5, <1>6, LocalStep

(* ScanMore counts a slot whose event is still there. *)
LEMMA ScanMoreKeepsInv ==
    ASSUME EWInv, NEW w \in Waiters, ScanMore(w)
    PROVE  EWInv'
<1>1. TypeOK /\ Own(w)
  BY Zenon DEF EWInv
<1>2. Moves(w) /\ UNCHANGED <<mutex, signals>>
  BY Zenon, <1>1 DEF TypeOK, ThreadTypes, Moves, eventVars, waiterVars, locals, ScanMore
<1>3. /\ pc[w] \in {"first", "test"} /\ pc'[w] = pc[w] /\ tstate'[w] = tstate[w]
      /\ idx[w] \in Slots /\ idx[w] <= call[w].num /\ idx'[w] = idx[w] + 1
      /\ event[w][idx[w]] # NULL /\ (activated[w][idx[w]] => call[w].all)
      /\ seen'[w] = IF activated[w][idx[w]] THEN seen[w] \cup {idx[w]} ELSE seen[w]
  <2>1. /\ idx[w] <= call[w].num /\ event[w][idx[w]] # NULL
        /\ activated[w][idx[w]] => call[w].all
    BY <1>1, TypesOf DEF ScanMore, ScanVerdict
  <2> QED BY <1>1, <2>1, TypesOf, EventWaitAssumption DEF TypeOK, ThreadTypes, ScanMore, Slots
<1>4. ThreadTypes'
  <2>1. seen' \in [Waiters -> SUBSET Slots]
    BY <1>1, <1>3 DEF TypeOK, ThreadTypes, ScanMore
  <2>2. idx' \in [Waiters -> 1 .. MaxEvents + 1]
    BY <1>1, <1>3, EventWaitAssumption DEF TypeOK, ThreadTypes, ScanMore, Slots
  <2> QED BY Zenon, <1>1, <2>1, <2>2 DEF TypeOK, ThreadTypes, ScanMore
<1>5. Own(w)'
  <2>1. /\ UNCHANGED <<call, event, activated>>
        /\ call[w].num \in 0 .. MaxEvents /\ seen[w] \subseteq Slots
    BY Zenon, <1>1, <1>2, TypesOf DEF Moves, waiterVars
  <2>2. ScanIsCurrent(w)'
    <3>1. idx'[w] <= call[w].num + 1 /\ \A i \in seen'[w] : i < idx'[w]
      BY <1>1, <1>3, <2>1 DEF Own, ScanIsCurrent, Slots
    <3>2. ASSUME pc[w] = "test", tstate[w] = "interruptible", NEW i \in Slots, i < idx'[w]
          PROVE  event[w][i] # NULL /\ (activated[w][i] => call[w].all /\ i \in seen'[w])
      BY <1>1, <1>3, <3>2 DEF Own, ScanIsCurrent, Slots
    <3> QED BY Zenon, <1>3, <2>1, <3>1, <3>2 DEF ScanIsCurrent
  <2> QED BY Zenon, <1>1, <1>2, <1>3, <2>1, <2>2 DEF Own, MutexIsHeld, WantsEvents, IdleIsClear,
             InitProgress, IndexIsReset, AllLive, NothingMissed
<1>6. mutex' = mutex \/ {mutex, mutex'} = {w, NULL}
  BY Zenon, <1>1, <1>2, <1>3 DEF TypeOK, ThreadTypes
<1> QED BY Zenon, <1>2, <1>3, <1>4, <1>5, <1>6, LocalStep

(* FirstCheck never fails, and lets go of the mutex if it has to wait. *)
LEMMA FirstCheckKeepsInv ==
    ASSUME EWInv, NEW w \in Waiters, FirstCheck(w)
    PROVE  EWInv'
<1>1. TypeOK /\ Own(w)
  BY Zenon DEF EWInv
<1>0. PICK v : v = ScanVerdict(w)
  OBVIOUS
<1>a. /\ pc[w] = "first" /\ v # "more" /\ EndScan(w, v)
      /\ mutex' = IF v = "TIMEOUT" THEN NULL ELSE mutex
      /\ Goto(w, CASE v = "COMPLETE" -> "copy" [] v = "FAIL" -> "free" [] OTHER -> "loop")
      /\ UNCHANGED <<eventVars, call, waiterVars, tstate, sig, held, signals, owed>>
  BY Zenon, <1>0 DEF FirstCheck
<1>v. /\ v \in {"COMPLETE", "TIMEOUT", "FAIL"}
      /\ v = "TIMEOUT" => idx[w] > call[w].num /\ seen[w] # 1 .. call[w].num
  BY Zenon, <1>0, <1>a DEF ScanVerdict
<1>2. Moves(w) /\ signals' = signals
  BY Zenon, <1>1, <1>a DEF TypeOK, ThreadTypes, Moves, EndScan, Goto
<1>3. /\ pc[w] = "first" /\ idx'[w] = 1 /\ seen'[w] = {}
      /\ \/ pc'[w] \in {"copy", "free"} /\ mutex' = mutex
         \/ pc'[w] = "loop" /\ mutex' = NULL
  BY Zenon, <1>1, <1>a, <1>v DEF TypeOK, ThreadTypes, EndScan, Goto, Leaves
<1>4. ThreadTypes'
  <2>1. pc' \in [Waiters -> Labels]
    BY Zenon, <1>1, <1>a, <1>v DEF TypeOK, ThreadTypes, Goto, Labels
  <2>2. idx' \in [Waiters -> 1 .. MaxEvents + 1]
    BY <1>1, <1>a, EventWaitAssumption DEF TypeOK, ThreadTypes, EndScan
  <2> QED BY Zenon, <1>1, <1>a, <1>v, <2>1, <2>2 DEF TypeOK, ThreadTypes, EndScan
<1>5. Own(w)'
  <2>1. UNCHANGED <<call, event, activated>>
    BY Zenon, <1>2 DEF Moves, waiterVars
  <2> QED BY Zenon, <1>1, <1>3, <2>1, EventWaitAssumption DEF Own, MutexIsHeld, WantsEvents,
             IdleIsClear, InitProgress, IndexIsReset, AllLive, ScanIsCurrent, NothingMissed
<1>6. mutex' = mutex \/ {mutex, mutex'} = {w, NULL}
  BY Zenon, <1>1, <1>2, <1>3 DEF Own, MutexIsHeld
<1> QED BY Zenon, <1>2, <1>3, <1>4, <1>5, <1>6, LocalStep

(* TestCheck goes to sleep only if the scan, still current, missed a slot. *)
LEMMA TestCheckKeepsInv ==
    ASSUME EWInv, NEW w \in Waiters, TestCheck(w)
    PROVE  EWInv'
<1>1. TypeOK /\ Own(w)
  BY Zenon DEF EWInv
<1>0. PICK v : v = ScanVerdict(w)
  OBVIOUS
<1>a. /\ pc[w] = "test" /\ v # "more" /\ EndScan(w, v)
      /\ Goto(w, IF Leaves(w, v) THEN "relock" ELSE "asleep")
      /\ tstate' = [tstate EXCEPT ![w] = IF Leaves(w, v) THEN "running" ELSE @]
      /\ UNCHANGED <<eventVars, mutex, call, waiterVars, sig, held, signals, owed>>
  BY Zenon, <1>0 DEF TestCheck
<1>v. /\ v \in {"COMPLETE", "TIMEOUT", "FAIL"}
      /\ v = "TIMEOUT" => idx[w] > call[w].num /\ seen[w] # 1 .. call[w].num
  BY Zenon, <1>0, <1>a DEF ScanVerdict
<1>2. Moves(w) /\ UNCHANGED <<mutex, signals>>
  BY Zenon, <1>1, <1>a DEF TypeOK, ThreadTypes, Moves, EndScan, Goto
<1>3. /\ pc[w] = "test" /\ idx'[w] = 1 /\ seen'[w] = {}
      /\ \/ pc'[w] = "relock"
         \/ /\ pc'[w] = "asleep" /\ tstate'[w] = tstate[w]
            /\ idx[w] > call[w].num /\ seen[w] # 1 .. call[w].num
  BY Zenon, <1>1, <1>a, <1>v DEF TypeOK, ThreadTypes, EndScan, Goto, Leaves
<1>4. ThreadTypes'
  <2>1. pc' \in [Waiters -> Labels]
    BY Zenon, <1>1, <1>a, <1>v DEF TypeOK, ThreadTypes, Goto, Labels
  <2>2. idx' \in [Waiters -> 1 .. MaxEvents + 1]
    BY <1>1, <1>a, EventWaitAssumption DEF TypeOK, ThreadTypes, EndScan
  <2> QED BY Zenon, <1>1, <1>a, <1>v, <2>1, <2>2 DEF TypeOK, ThreadTypes, EndScan
<1>5. Own(w)'
  <2>1. UNCHANGED <<call, event, activated>> /\ call[w].num \in 0 .. MaxEvents
    BY Zenon, <1>1, <1>2, TypesOf DEF Moves, waiterVars
  <2>2. NothingMissed(w)'
    <3> SUFFICES ASSUME pc'[w] = "asleep", tstate'[w] = "interruptible"
                 PROVE  /\ \A i \in Slots : i <= call[w].num => event[w][i] # NULL
                        /\ IF call[w].all
                           THEN \E i \in Slots : i <= call[w].num /\ ~ activated[w][i]
                           ELSE \A i \in Slots : i <= call[w].num => ~ activated[w][i]
      BY Zenon, <2>1 DEF NothingMissed
    <3>1. idx[w] \in Nat /\ seen[w] \subseteq Slots
      BY <1>1, TypesOf
    <3>2. idx[w] = call[w].num + 1 /\ seen[w] \subseteq 1 .. call[w].num
      BY <1>1, <1>3, <2>1, <3>1 DEF Own, ScanIsCurrent, Slots
    <3>3. \A i \in Slots : i <= call[w].num =>
              event[w][i] # NULL /\ (activated[w][i] => call[w].all /\ i \in seen[w])
      BY <1>1, <1>3, <2>1, <3>2 DEF Own, ScanIsCurrent, Slots
    <3>4. PICK i \in 1 .. call[w].num : i \notin seen[w]
      BY <1>3, <3>2, Zenon
    <3> QED BY <2>1, <3>2, <3>3, <3>4, EventWaitAssumption DEF Slots
  <2> QED BY Zenon, <1>1, <1>2, <1>3, <2>1, <2>2 DEF Own, MutexIsHeld, WantsEvents, IdleIsClear,
             InitProgress, IndexIsReset, AllLive, ScanIsCurrent
<1>6. mutex' = mutex \/ {mutex, mutex'} = {w, NULL}
  BY Zenon, <1>1, <1>2, <1>3
<1> QED BY Zenon, <1>2, <1>3, <1>4, <1>5, <1>6, LocalStep

-----------------------------------------------------------------------------
USE EventWaitAssumption

Queue == SUBSET ((Waiters \cup {NULL}) \X Slots)

(* wake_up_all leaves asleep only tasks that are not in the queue. *)
LEMMA WakeUp ==
    ASSUME TypeOK, NEW e \in Events, NEW q \in Queue, wake_up_all(e, q)
    PROVE  /\ tstate' \in [Waiters -> {"running", "interruptible"}]
           /\ wq' \in [Events -> Queue]
           /\ \A v \in Waiters : tstate'[v] = "interruptible" =>
                  tstate[v] = "interruptible" /\ \A i \in Slots : <<v, i>> \notin q
           /\ \A f \in Events \ {e} : wq'[f] = wq[f]
           /\ wq'[e] \subseteq q
<1>1. tstate' \in [Waiters -> {"running", "interruptible"}]
  BY Zenon DEF wake_up_all, TypeOK, ThreadTypes
<1>2. {x \in q : x[1] \notin Woken(q)} \in Queue
  BY Zenon DEF Queue
<1>3. wq' \in [Events -> Queue] /\ wq'[e] \subseteq q /\ \A f \in Events \ {e} : wq'[f] = wq[f]
  <2> DEFINE r == {x \in q : x[1] \notin Woken(q)}
  <2>1. r \in Queue /\ r \subseteq q /\ wq' = [wq EXCEPT ![e] = r]
    BY Zenon, <1>2 DEF wake_up_all
  <2> HIDE DEF r
  <2> QED BY Zenon, <2>1 DEF TypeOK, EventTypes, Queue
<1>4. \A v \in Waiters : tstate'[v] = "interruptible" =>
          tstate[v] = "interruptible" /\ \A i \in Slots : <<v, i>> \notin q
  BY Zenon DEF wake_up_all, Woken, TypeOK, EventTypes
<1> QED BY Zenon, <1>1, <1>3, <1>4

(* What set_event changes, with its types: a task that it leaves asleep has
   the slots it had. *)
SetStep(e, q) ==
    /\ signaled' \in [Events -> BOOLEAN]
    /\ age' \in [Events -> Nat]
    /\ wq' \in [Events -> SUBSET ((Waiters \cup {NULL}) \X Slots)]
    /\ activated' \in [Waiters -> [Slots -> BOOLEAN]]
    /\ tstate' \in [Waiters -> {"running", "interruptible"}]
    /\ owed' \subseteq AutoReset
    /\ \A v \in Waiters : tstate'[v] = "interruptible" =>
           tstate[v] = "interruptible" /\ activated'[v] = activated[v]

(* set_event keeps the types. *)
LEMMA SetTypes ==
    ASSUME TypeOK, NEW e \in Events, NEW q \in Queue, set_event(e, q)
    PROVE  SetStep(e, q)
<1>1. /\ tstate' \in [Waiters -> {"running", "interruptible"}]
      /\ wq' \in [Events -> Queue]
      /\ \A v \in Waiters : tstate'[v] = "interruptible" =>
             tstate[v] = "interruptible" /\ \A i \in Slots : <<v, i>> \notin q
  BY Zenon, WakeUp DEF set_event
<1>2. activated' \in [Waiters -> [Slots -> BOOLEAN]]
  BY Zenon DEF set_event, TypeOK, EventTypes
<1>3. ASSUME NEW v \in Waiters, \A i \in Slots : <<v, i>> \notin q
      PROVE  activated'[v] = activated[v]
  BY <1>3 DEF set_event, TypeOK, WaiterTypes
<1>4. signaled' \in [Events -> BOOLEAN]
  BY Zenon DEF set_event, TypeOK, EventTypes
<1>5. age' \in [Events -> Nat] /\ owed' \subseteq AutoReset
  BY DEF set_event, TypeOK, EventTypes
<1> QED BY Zenon, <1>1, <1>2, <1>3, <1>4, <1>5 DEF SetStep, Queue

(* Setting event e, of which only freed slots have left the queue q, tells
   every slot that has to be told and keeps Shared; a thread in free_waiters
   may free its slot of e in the same step. *)
LEMMA SetEvent ==
    ASSUME TypeOK, Shared, NEW e \in Events, NEW q \in SUBSET wq[e], set_event(e, q),
           state[e] # "none", UNCHANGED <<state, call, event, pc, ret>>,
           \A s \in Setters : held'[s] = NULL \/ held'[s] = held[s],
           \A v \in Waiters : \A i \in Slots : <<v, i>> \in wq[e] \ q => pc[v] = "free",
           idx' \in [Waiters -> 1 .. MaxEvents + 1],
           \A v \in Waiters :
               \/ idx'[v] = idx[v]
               \/ /\ pc[v] = "free" /\ idx'[v] = idx[v] + 1
                  /\ event[v][idx[v]] = e /\ <<v, idx[v]>> \notin q
    PROVE  Shared'
<1>1. /\ q \in Queue
      /\ \A v \in Waiters : \A i \in Slots : activated'[v][i] <=> activated[v][i] \/ <<v, i>> \in q
      /\ \A f \in Events \ {e} : signaled'[f] = signaled[f] /\ age'[f] = age[f]
      /\ signaled'[e] <=> e \notin AutoReset \/ q = {}
      /\ owed' = owed \cup ({e} \cap AutoReset)
  <2>1. q \in Queue
    BY Zenon DEF TypeOK, EventTypes, Queue
  <2>2. \A v \in Waiters : \A i \in Slots : activated'[v][i] <=> activated[v][i] \/ <<v, i>> \in q
    BY Zenon DEF set_event
  <2>3. \A f \in Events \ {e} : signaled'[f] = signaled[f] /\ age'[f] = age[f]
    BY DEF set_event, TypeOK, EventTypes
  <2>4. signaled'[e] <=> e \notin AutoReset \/ q = {}
    <3> DEFINE b == e \notin AutoReset \/ q = {}
    <3>1. signaled' = [signaled EXCEPT ![e] = b] /\ signaled \in [Events -> BOOLEAN]
      BY Zenon DEF set_event, TypeOK, EventTypes
    <3> HIDE DEF b
    <3>2. signaled'[e] = b
      BY Zenon, <3>1
    <3> QED BY <3>2, Zenon DEF b
  <2>5. owed' = owed \cup ({e} \cap AutoReset)
    BY Zenon DEF set_event
  <2> QED BY Zenon, <2>1, <2>2, <2>3, <2>4, <2>5
<1>0. ASSUME NEW v \in Waiters, NEW i \in Slots, <<v, i>> \in q \/ event[v][i] # e
      PROVE  i >= idx[v] <=> i >= idx'[v]
  <2>1. CASE idx'[v] = idx[v]
    BY Zenon, <2>1
  <2>2. CASE idx'[v] = idx[v] + 1 /\ event[v][idx[v]] = e /\ <<v, idx[v]>> \notin q
    <3>1. i # idx[v]
      BY Zenon, <1>0, <2>2
    <3> QED BY <2>2, <3>1 DEF TypeOK, WaiterTypes, ThreadTypes, Slots
  <2> QED BY Zenon, <2>1, <2>2
<1>2. wq'[e] \subseteq q /\ \A f \in Events \ {e} : wq'[f] = wq[f]
  BY Zenon, <1>1, WakeUp DEF set_event
<1>3. SlotsInUse' /\ NotCreated'
  BY <1>1, <1>2 DEF Shared, SlotsInUse, NotCreated
<1>4. QueuedUnlessActivated'
  <2> SUFFICES ASSUME NEW v \in Waiters, NEW i \in Slots, pc[v] # "free", event[v][i] # NULL,
                      ~ activated'[v][i]
               PROVE  <<v, i>> \in wq'[event[v][i]]
    BY Zenon DEF QueuedUnlessActivated
  <2>1. event[v][i] \in Events /\ <<v, i>> \in wq[event[v][i]] /\ <<v, i>> \notin q
    BY <1>1 DEF Shared, QueuedUnlessActivated, TypeOK, WaiterTypes
  <2> QED BY Zenon, <1>2, <2>1
<1>5. QueuedIsWaiting'
  <2> SUFFICES ASSUME NEW f \in Events, NEW v \in Waiters \cup {NULL}, NEW i \in Slots,
                      state[f] = "live", <<v, i>> \in wq'[f]
               PROVE  v \in Waiters /\ event[v][i] = f /\ (pc[v] = "free" => i >= idx'[v])
    BY DEF QueuedIsWaiting
  <2>1. <<v, i>> \in wq[f] /\ (f = e => <<v, i>> \in q)
    BY Zenon, <1>2
  <2>2. v \in Waiters /\ event[v][i] = f /\ (pc[v] = "free" => i >= idx[v])
    BY SMTT(30), <2>1 DEF Shared, QueuedIsWaiting
  <2>3. <<v, i>> \in q \/ event[v][i] # e
    BY Zenon, <2>1, <2>2
  <2> QED BY Zenon, <1>0, <2>2, <2>3
<1>6. AgeIsSeen'
  <2> SUFFICES ASSUME NEW v \in Waiters, NEW i \in Slots, pc[v] # "free", event[v][i] \in Aged,
                      call[v].last[i] # 0, ~ activated'[v][i]
               PROVE  age'[event[v][i]] = call[v].last[i]
    BY SMTT(30) DEF AgeIsSeen
  <2>1. event[v][i] \in Events /\ ~ activated[v][i] /\ <<v, i>> \notin q
    BY Zenon, <1>1
  <2>2. <<v, i>> \in wq[event[v][i]]
    BY Zenon, <2>1 DEF Shared, QueuedUnlessActivated
  <2>3. event[v][i] # e
    BY Zenon, <2>1, <2>2
  <2> QED BY SMTT(30), <1>1, <2>1, <2>3 DEF Shared, AgeIsSeen
<1>7. SignalIsHeld'
  <2> SUFFICES ASSUME NEW f \in owed', state[f] = "live", ~ signaled'[f]
               PROVE  \E v \in Waiters : \E i \in Slots : Holds(v, i, f)'
    BY Zenon DEF SignalIsHeld
  <2>1. f \in Events
    BY Zenon, <1>1 DEF TypeOK, EventTypes
  <2>2. CASE f = e
    <3>1. q # {}
      BY Zenon, <1>1, <2>2
    <3>2. PICK v \in Waiters \cup {NULL}, i \in Slots : <<v, i>> \in q
      BY SMTT(30), <1>1, <3>1 DEF Queue
    <3>3. v \in Waiters /\ event[v][i] = e /\ (pc[v] = "free" => i >= idx[v])
      BY SMTT(30), <2>2, <3>2 DEF Shared, QueuedIsWaiting
    <3>4. pc[v] = "free" => i >= idx'[v]
      BY Zenon, <1>0, <3>2, <3>3
    <3>5. Holds(v, i, e)'
      BY <1>1, <3>2, <3>3, <3>4 DEF Holds, Slots, TypeOK, EventTypes
    <3> QED BY Zenon, <2>2, <3>3, <3>5
  <2>3. CASE f # e
    <3>1. PICK v \in Waiters, i \in Slots : Holds(v, i, f)
      BY Zenon, <1>1, <2>1, <2>3 DEF Shared, SignalIsHeld
    <3>2. i >= idx[v] <=> i >= idx'[v]
      BY Zenon, <1>0, <2>3, <3>1 DEF Holds
    <3>3. Holds(v, i, f)'
      <4>1. event'[v][i] = f /\ activated'[v][i]
        BY Zenon, <1>1, <3>1 DEF Holds
      <4>2. ~ (pc'[v] = "free" /\ ret'[v] = "ERESTARTSYS" /\ i < idx'[v])
        BY <3>1, <3>2 DEF Holds, TypeOK, ThreadTypes, Slots
      <4> QED BY Zenon, <4>1, <4>2 DEF Holds
    <3> QED BY Zenon, <3>3
  <2> QED BY Zenon, <2>2, <2>3
<1> QED BY Zenon, <1>3, <1>4, <1>5, <1>6, <1>7 DEF Shared

(* A setter may hold only an event that was created. *)
LEMMA Lookup_eventKeepsInv ==
    ASSUME EWInv, NEW s \in Setters, NEW e \in Events, lookup_event(s, e)
    PROVE  EWInv'
<1>0. TypeOK /\ Shared /\ \A v \in Waiters : Own(v)
  BY Zenon DEF EWInv
<1>1. /\ state[e] = "live" /\ held' = [held EXCEPT ![s] = e]
      /\ UNCHANGED <<state, signaled, age, wq, mutex, pc, call, event, activated, idx, seen,
                     result, ret, timeout, tstate, sig, signals, owed>>
  BY Zenon DEF lookup_event, eventVars, waiterVars, locals
<1>2. TypeOK'
  <2>1. EventTypes'
    BY Zenon, <1>0, <1>1 DEF TypeOK, EventTypes
  <2> QED BY Zenon, <1>0, <1>1, <2>1 DEF TypeOK, WaiterTypes, ThreadTypes
<1>3. \A v \in Waiters : Own(v)'
  BY Zenon, <1>0, <1>1, OwnFrame
<1>4. Shared'
  <2>1. NotCreated'
    BY Zenon, <1>0, <1>1 DEF TypeOK, EventTypes, Shared, NotCreated
  <2>2. SlotsInUse' /\ AgeIsSeen'
    BY <1>0, <1>1 DEF Shared, SlotsInUse, AgeIsSeen
  <2>2a. QueuedUnlessActivated'
    BY Zenon, <1>0, <1>1 DEF Shared, QueuedUnlessActivated
  <2>2b. QueuedIsWaiting'
    BY <1>0, <1>1 DEF Shared, QueuedIsWaiting
  <2>3. SignalIsHeld'
    <3>1. \A v \in Waiters, i \in Slots, f \in Events : Holds(v, i, f) => Holds(v, i, f)'
      BY Zenon, <1>1 DEF Holds
    <3> QED BY Zenon, <1>0, <1>1, <3>1 DEF TypeOK, EventTypes, Shared, SignalIsHeld
  <2> QED BY Zenon, <2>1, <2>2, <2>2a, <2>2b, <2>3 DEF Shared
<1> QED BY Zenon, <1>2, <1>3, <1>4 DEF EWInv

(* A reset takes a signal that is then owed to nobody. *)
LEMMA Kfd_reset_eventKeepsInv ==
    ASSUME EWInv, NEW s \in Setters, kfd_reset_event(s)
    PROVE  EWInv'
<1>0. TypeOK /\ Shared /\ \A v \in Waiters : Own(v)
  BY Zenon DEF EWInv
<1>a. PICK e \in Events : e = held[s]
  BY Zenon DEF kfd_reset_event
<1>1. /\ signaled' = [signaled EXCEPT ![e] = FALSE] /\ held' = [held EXCEPT ![s] = NULL]
      /\ owed' = owed \ {e}
      /\ UNCHANGED <<state, age, wq, mutex, pc, call, event, activated, idx, seen, result, ret,
                     timeout, tstate, sig, signals>>
  BY Zenon, <1>a DEF kfd_reset_event, waiterVars, locals
<1>2. TypeOK'
  <2>1. EventTypes'
    BY Zenon, <1>0, <1>1 DEF TypeOK, EventTypes
  <2> QED BY Zenon, <1>0, <1>1, <2>1 DEF TypeOK, WaiterTypes, ThreadTypes
<1>3. \A v \in Waiters : Own(v)'
  BY Zenon, <1>0, <1>1, OwnFrame
<1>4. Shared'
  <2>1. NotCreated'
    BY Zenon, <1>0, <1>1 DEF TypeOK, EventTypes, Shared, NotCreated
  <2>2. SlotsInUse' /\ AgeIsSeen'
    BY Zenon, <1>0, <1>1 DEF Shared, SlotsInUse, AgeIsSeen
  <2>2a. QueuedUnlessActivated'
    BY Zenon, <1>0, <1>1 DEF Shared, QueuedUnlessActivated
  <2>2b. QueuedIsWaiting'
    BY <1>0, <1>1 DEF Shared, QueuedIsWaiting
  <2>3. SignalIsHeld'
    <3>1. \A v \in Waiters, i \in Slots, f \in Events : Holds(v, i, f) => Holds(v, i, f)'
      BY Zenon, <1>1 DEF Holds
    <3>2. \A f \in owed' : f \in owed /\ f \in Events /\ signaled'[f] = signaled[f]
      BY Zenon, <1>0, <1>1 DEF TypeOK, EventTypes
    <3> QED BY Zenon, <1>0, <1>1, <3>1, <3>2 DEF Shared, SignalIsHeld
  <2> QED BY Zenon, <2>1, <2>2, <2>2a, <2>2b, <2>3 DEF Shared
<1> QED BY Zenon, <1>2, <1>3, <1>4 DEF EWInv

(* The setter sets the event it holds with the queue as it is. *)
LEMMA Kfd_set_eventKeepsInv ==
    ASSUME EWInv, NEW s \in Setters, kfd_set_event(s)
    PROVE  EWInv'
<1> DEFINE e == held[s]
           q == wq[held[s]]
<1>1. /\ e \in Events /\ q \in Queue /\ q \in SUBSET wq[e] /\ state[e] # "none"
      /\ set_event(e, q)
      /\ held' = [held EXCEPT ![s] = NULL]
      /\ UNCHANGED <<state, mutex, pc, call, event, idx, seen, result, ret, timeout, sig, signals>>
  BY Zenon DEF EWInv, TypeOK, EventTypes, Shared, NotCreated, Queue, kfd_set_event, locals
<1> HIDE DEF e, q
<1>2. SetStep(e, q)
  BY Zenon, <1>1, SetTypes DEF EWInv
<1>3. TypeOK'
  BY Zenon, <1>1, <1>2 DEF SetStep, EWInv, TypeOK, EventTypes, WaiterTypes, ThreadTypes
<1>4. ASSUME NEW v \in Waiters PROVE Own(v)'
  BY Zenon, <1>1, <1>2, OwnFrame DEF SetStep, EWInv
<1>5. Shared'
  <2>1. wq[e] \ q = {}
    BY Zenon DEF e, q
  <2> QED BY SMTT(30), <1>1, <2>1, SetEvent DEF EWInv, TypeOK, ThreadTypes
<1> QED BY Zenon, <1>3, <1>4, <1>5 DEF EWInv


(* A signal wakes the task. *)
LEMMA SignalKeepsInv ==
    ASSUME EWInv, NEW w \in Waiters, NEW k \in Signals, Signal(w, k)
    PROVE  EWInv'
<1>1. TypeOK /\ Own(w)
  BY Zenon DEF EWInv
<1>2. Moves(w) /\ UNCHANGED mutex
  BY Zenon, <1>1 DEF TypeOK, ThreadTypes, Moves, eventVars, waiterVars, locals, Signal
<1>3. /\ pc'[w] = pc[w] /\ tstate'[w] = "running" /\ sig'[w] = k
      /\ signals > 0 /\ signals' = signals - 1
      /\ idx'[w] = idx[w] /\ seen'[w] = seen[w] /\ result'[w] = result[w]
      /\ ret'[w] = ret[w] /\ timeout'[w] = timeout[w]
  BY Zenon, <1>1 DEF TypeOK, ThreadTypes, locals, Signal
<1>4. ThreadTypes'
  BY <1>1, EventWaitAssumption DEF TypeOK, ThreadTypes, locals, Labels, Signal
<1>5. Own(w)'
  <2>1. /\ UNCHANGED <<call, event, activated>>
        /\ call[w].num \in 0 .. MaxEvents /\ idx[w] \in 1 .. MaxEvents + 1
    BY Zenon, <1>1, <1>2, TypesOf DEF Moves, waiterVars
  <2> QED BY Zenon, <1>1, <1>2, <1>3, <2>1, EventWaitAssumption DEF Own, MutexIsHeld, WantsEvents,
      IdleIsClear, InitProgress, IndexIsReset, AllLive, ScanIsCurrent, NothingMissed, Slots
<1>6. mutex' = mutex \/ {mutex, mutex'} = {w, NULL}
  BY Zenon, <1>1, <1>2, <1>3 DEF TypeOK, ThreadTypes
<1> QED BY Zenon, <1>2, <1>3, <1>4, <1>5, <1>6, LocalStep

(* A wait starts with no slot in use and takes event_mutex. *)
LEMMA StartWaitKeepsInv ==
    ASSUME EWInv, NEW w \in Waiters, StartWait(w)
    PROVE  EWInv'
<1>0. PICK n \in Slots : \E es \in [Slots -> Events \cup {NULL}], as \in [Slots -> 0 .. MaxAge],
          a \in BOOLEAN, t \in Timeouts :
        /\ \A i \in Slots : es[i] = NULL <=> i > n
        /\ \A i, j \in 1 .. n : i # j => es[i] # es[j]
        /\ \A i \in Slots : IF es[i] \in Aged THEN as[i] <= age[es[i]] ELSE as[i] = 0
        /\ n = 1 => ~ a
        /\ call' = [call EXCEPT ![w] = [num |-> n, want |-> es, last |-> as, all |-> a]]
        /\ timeout' = [timeout EXCEPT ![w] = t]
  BY Zenon DEF StartWait
<1>1. PICK es \in [Slots -> Events \cup {NULL}], as \in [Slots -> 0 .. MaxAge],
           a \in BOOLEAN, t \in Timeouts :
        /\ \A i \in Slots : es[i] = NULL <=> i > n
        /\ \A i, j \in 1 .. n : i # j => es[i] # es[j]
        /\ \A i \in Slots : IF es[i] \in Aged THEN as[i] <= age[es[i]] ELSE as[i] = 0
        /\ n = 1 => ~ a
        /\ call' = [call EXCEPT ![w] = [num |-> n, want |-> es, last |-> as, all |-> a]]
        /\ timeout' = [timeout EXCEPT ![w] = t]
  BY <1>0, Zenon
<1>2. /\ pc[w] = "idle" /\ mutex = NULL /\ mutex' = w /\ pc' = [pc EXCEPT ![w] = "init"]
      /\ UNCHANGED <<state, signaled, age, wq, event, activated, idx, seen, result, ret,
                     tstate, sig, held, signals, owed>>
  BY Zenon DEF StartWait, Goto, eventVars, waiterVars
<1>3. [num |-> n, want |-> es, last |-> as, all |-> a] \in Calls
  <2>1. n \in 0 .. MaxEvents
    BY DEF Slots
  <2>2. as \in [Slots -> Nat]
    <3>1. \A i \in Slots : as[i] \in 0 .. MaxAge
      BY Zenon
    <3>2. 0 .. MaxAge \subseteq Nat
      BY EventWaitAssumption
    <3>3. \A i \in Slots : as[i] \in Nat
      BY Zenon, <3>1, <3>2
    <3> QED BY Zenon, <3>3
  <2> QED BY Zenon, <2>1, <2>2 DEF Calls
<1>4. call' \in [Waiters -> Calls] /\ timeout' \in [Waiters -> {"zero", "finite", "infinite"}]
  BY Zenon, <1>1, <1>3 DEF EWInv, TypeOK, WaiterTypes, ThreadTypes
<1>5. TypeOK'
  BY Zenon, <1>2, <1>4 DEF EWInv, TypeOK, EventTypes, WaiterTypes, ThreadTypes, Labels
<1>6. /\ call'[w].num = n /\ call'[w].want = es
      /\ pc'[w] = "init" /\ idx[w] = 1 /\ seen[w] = {} /\ \A i \in Slots : event[w][i] = NULL
      /\ \A v \in Waiters \ {w} : call'[v] = call[v] /\ pc'[v] = pc[v]
  BY SMTT(30), <1>1, <1>2 DEF EWInv, TypeOK, WaiterTypes, ThreadTypes, Own, IdleIsClear
<1>7. Own(w)'
  <2>1. MutexIsHeld(w)' /\ WantsEvents(w)' /\ IdleIsClear(w)' /\ InitProgress(w)'
    BY SMTT(30), <1>1, <1>2, <1>6 DEF MutexIsHeld, WantsEvents, IdleIsClear, InitProgress, Slots
  <2>2. IndexIsReset(w)' /\ AllLive(w)' /\ ScanIsCurrent(w)' /\ NothingMissed(w)'
    BY Zenon, <1>6 DEF IndexIsReset, AllLive, ScanIsCurrent, NothingMissed
  <2> QED BY Zenon, <2>1, <2>2 DEF Own
<1>8. ASSUME NEW v \in Waiters, v # w PROVE Own(v)'
  <2>1. mutex' = v <=> mutex = v
    BY Zenon, <1>2, <1>8
  <2> QED BY Zenon, <1>2, <1>6, <1>8, <2>1, OwnFrame DEF EWInv
<1>9. Shared'
  <2>1. SlotsInUse' /\ NotCreated'
    BY SMTT(30), <1>2, <1>6 DEF EWInv, Shared, SlotsInUse, NotCreated
  <2>2. QueuedUnlessActivated'
    BY Zenon, <1>2, <1>6 DEF EWInv, Shared, QueuedUnlessActivated
  <2>3. QueuedIsWaiting'
    BY <1>2, <1>6 DEF EWInv, Shared, QueuedIsWaiting
  <2>4. AgeIsSeen'
    BY <1>2, <1>6 DEF EWInv, Shared, AgeIsSeen
  <2>5. SignalIsHeld'
    <3>1. \A v \in Waiters, i \in Slots, f \in Events : Holds(v, i, f) => Holds(v, i, f)'
      BY Zenon, <1>2, <1>6 DEF Holds
    <3> QED BY Zenon, <3>1, <1>2 DEF EWInv, TypeOK, EventTypes, Shared, SignalIsHeld
  <2> QED BY Zenon, <2>1, <2>2, <2>3, <2>4, <2>5 DEF Shared
<1> QED BY Zenon, <1>5, <1>7, <1>8, <1>9 DEF EWInv

(* A new event is in no queue and in no slot. *)
LEMMA Kfd_event_createKeepsInv ==
    ASSUME EWInv, NEW e \in Events, kfd_event_create(e)
    PROVE  EWInv'
<1>0. TypeOK /\ Shared /\ \A v \in Waiters : Own(v)
  BY Zenon DEF EWInv
<1>1. /\ state[e] = "none" /\ state' = [state EXCEPT ![e] = "live"] /\ age' = [age EXCEPT ![e] = 1]
      /\ UNCHANGED <<signaled, wq, mutex, pc, call, event, activated, idx, seen, result, ret,
                     timeout, tstate, sig, held, signals, owed>>
  BY Zenon DEF kfd_event_create, waiterVars, locals
<1>2. TypeOK'
  <2>1. EventTypes'
    BY Zenon, <1>0, <1>1 DEF TypeOK, EventTypes
  <2> QED BY Zenon, <1>0, <1>1, <2>1 DEF TypeOK, WaiterTypes, ThreadTypes
<1>3. \A v \in Waiters : Own(v)'
  BY Zenon, <1>0, <1>1, OwnFrame
<1>4. /\ state'[e] = "live" /\ wq[e] = {} /\ e \notin owed
      /\ \A f \in Events \ {e} : state'[f] = state[f] /\ age'[f] = age[f]
      /\ \A v \in Waiters : \A i \in Slots : event[v][i] # e
  BY SMTT(30), <1>0, <1>1 DEF TypeOK, EventTypes, Shared, NotCreated, SlotsInUse
<1>5. Shared'
  <2>1. SlotsInUse' /\ NotCreated'
    BY <1>0, <1>1, <1>4 DEF TypeOK, EventTypes, WaiterTypes, Shared, SlotsInUse, NotCreated
  <2>2. QueuedUnlessActivated'
    BY Zenon, <1>0, <1>1 DEF Shared, QueuedUnlessActivated
  <2>3. QueuedIsWaiting'
    <3> SUFFICES ASSUME NEW f \in Events, NEW v \in Waiters \cup {NULL}, NEW i \in Slots,
                        state'[f] = "live", <<v, i>> \in wq'[f]
                 PROVE  v \in Waiters /\ event'[v][i] = f /\ (pc'[v] = "free" => i >= idx'[v])
      BY Zenon DEF QueuedIsWaiting
    <3>1. <<v, i>> \in wq[f] /\ f # e
      BY Zenon, <1>1, <1>4
    <3>2. state[f] = "live"
      BY Zenon, <1>4, <3>1
    <3>3. v \in Waiters /\ event[v][i] = f /\ (pc[v] = "free" => i >= idx[v])
      BY Zenon, <1>0, <3>1, <3>2 DEF Shared, QueuedIsWaiting
    <3> QED BY Zenon, <1>1, <3>3
  <2>4. AgeIsSeen'
    BY SMTT(30), <1>0, <1>1, <1>4 DEF Shared, AgeIsSeen
  <2>5. SignalIsHeld'
    <3>1. \A v \in Waiters, i \in Slots, f \in Events : Holds(v, i, f) => Holds(v, i, f)'
      BY Zenon, <1>1 DEF Holds
    <3> QED BY Zenon, <1>0, <1>1, <1>4, <3>1 DEF TypeOK, EventTypes, Shared, SignalIsHeld
  <2> QED BY Zenon, <2>1, <2>2, <2>3, <2>4, <2>5 DEF Shared
<1> QED BY Zenon, <1>2, <1>3, <1>5 DEF EWInv

(* destroy_event takes the event from exactly the slots that are queued on it;
   no thread is between its init and its first test then. *)
LEMMA Kfd_event_destroyKeepsInv ==
    ASSUME EWInv, NEW e \in Events, kfd_event_destroy(e)
    PROVE  EWInv'
<1>0. TypeOK /\ Shared /\ \A v \in Waiters : Own(v)
  BY Zenon DEF EWInv
<1>a. PICK d \in {"dead", "stray"} : state' = [state EXCEPT ![e] = d]
  BY Zenon DEF kfd_event_destroy
<1>1. /\ mutex = NULL
      /\ event' = [v \in Waiters |-> [i \in Slots |->
                      IF <<v, i>> \in wq[e] THEN NULL ELSE event[v][i]]]
      /\ UNCHANGED <<signaled, age, mutex, pc, call, activated, idx, seen, result, ret, timeout,
                     sig, held, signals, owed>>
  BY Zenon DEF kfd_event_destroy, locals
<1>2. /\ tstate' \in [Waiters -> {"running", "interruptible"}]
      /\ wq' \in [Events -> Queue]
      /\ \A v \in Waiters : tstate'[v] = "interruptible" =>
             tstate[v] = "interruptible" /\ \A i \in Slots : <<v, i>> \notin wq[e]
      /\ \A f \in Events \ {e} : wq'[f] = wq[f]
      /\ wq'[e] \subseteq wq[e]
  <2>1. wq[e] \in Queue /\ wake_up_all(e, wq[e])
    BY Zenon, <1>0 DEF TypeOK, EventTypes, Queue, kfd_event_destroy
  <2> QED BY Zenon, <1>0, <2>1, WakeUp
<1>3. event' \in [Waiters -> [Slots -> Events \cup {NULL}]]
  BY Zenon, <1>0, <1>1 DEF TypeOK, WaiterTypes
<1>4. /\ \A v \in Waiters : \A i \in Slots :
             event'[v][i] = IF <<v, i>> \in wq[e] THEN NULL ELSE event[v][i]
      /\ \A v \in Waiters : (\A i \in Slots : <<v, i>> \notin wq[e]) => event'[v] = event[v]
      /\ \A v \in Waiters : (\A i \in Slots : event[v][i] = NULL) => event'[v] = event[v]
      /\ state'[e] \in {"dead", "stray"} /\ \A f \in Events \ {e} : state'[f] = state[f]
  <2>1. /\ \A v \in Waiters : (\A i \in Slots : <<v, i>> \notin wq[e]) => event'[v] = event[v]
        /\ \A v \in Waiters : (\A i \in Slots : event[v][i] = NULL) => event'[v] = event[v]
    BY Zenon, <1>0, <1>1 DEF TypeOK, WaiterTypes
  <2>2. state'[e] \in {"dead", "stray"} /\ \A f \in Events \ {e} : state'[f] = state[f]
    BY Zenon, <1>0, <1>a DEF TypeOK, EventTypes
  <2> QED BY Zenon, <1>1, <2>1, <2>2
<1> HIDE DEF kfd_event_destroy
<1>5. TypeOK'
  <2>1. EventTypes'
    BY Zenon, <1>0, <1>a, <1>1, <1>2 DEF TypeOK, EventTypes, Queue
  <2> QED BY Zenon, <1>0, <1>1, <1>2, <1>3, <2>1 DEF TypeOK, WaiterTypes, ThreadTypes
<1>6. ASSUME NEW v \in Waiters PROVE Own(v)'
  <2>1. pc[v] \in {"idle", "init", "first"} => event'[v] = event[v]
    BY Zenon, <1>0, <1>1, <1>4 DEF Own, MutexIsHeld, IdleIsClear
  <2>2. /\ tstate'[v] = "interruptible" =>
               tstate[v] = "interruptible" /\ event'[v] = event[v]
        /\ UNCHANGED <<pc, idx, seen, call, mutex, activated>>
    BY Zenon, <1>1, <1>2, <1>4
  <2> QED BY Zenon, <1>0, <2>1, <2>2, OwnFrame
<1>7. \A v \in Waiters : \A i \in Slots :
          event'[v][i] # NULL => event'[v][i] = event[v][i] /\ <<v, i>> \notin wq[e]
  <2> SUFFICES ASSUME NEW v \in Waiters, NEW i \in Slots, event'[v][i] # NULL
               PROVE  event'[v][i] = event[v][i] /\ <<v, i>> \notin wq[e]
    OBVIOUS
  <2>1. event'[v][i] = IF <<v, i>> \in wq[e] THEN NULL ELSE event[v][i]
    BY Zenon, <1>4
  <2> QED BY Zenon, <2>1
<1>7a. \A v \in Waiters : \A i \in Slots : event[v][i] # e => event'[v][i] = event[v][i]
  <2> SUFFICES ASSUME NEW v \in Waiters, NEW i \in Slots, event[v][i] # e
               PROVE  event'[v][i] = event[v][i]
    OBVIOUS
  <2>1. event'[v][i] = IF <<v, i>> \in wq[e] THEN NULL ELSE event[v][i]
    BY Zenon, <1>4
  <2>2. state[e] = "live"
    BY Zenon DEF kfd_event_destroy
  <2>3. <<v, i>> \notin wq[e]
    <3>1. QueuedIsWaiting /\ v \in Waiters \cup {NULL}
      BY Zenon, <1>0 DEF Shared
    <3>2. \A j \in Slots : <<v, j>> \in wq[e] => event[v][j] = e
      BY Zenon, <2>2, <3>1 DEF QueuedIsWaiting
    <3> QED BY Zenon, <3>2
  <2> QED BY Zenon, <2>1, <2>3
<1>8. UNCHANGED <<pc, idx, ret, call, activated, signaled, age, held, owed>>
  BY Zenon, <1>1
<1>9. Shared'
  <2>1. SlotsInUse'
    <3> SUFFICES ASSUME NEW v \in Waiters, NEW i \in Slots, event'[v][i] # NULL
                 PROVE  i <= call[v].num /\ state'[event'[v][i]] # "none"
      BY Zenon, <1>8 DEF SlotsInUse
    <3>1. event'[v][i] = event[v][i] /\ event[v][i] # NULL
      BY Zenon, <1>7
    <3>2. i <= call[v].num /\ state[event[v][i]] # "none" /\ event[v][i] \in Events
      BY <1>0, <3>1 DEF TypeOK, WaiterTypes, Shared, SlotsInUse
    <3> QED BY <1>4, <3>1, <3>2
  <2>2. NotCreated'
    BY SMTT(30), <1>0, <1>2, <1>4, <1>8 DEF TypeOK, EventTypes, Shared, NotCreated
  <2>3. QueuedUnlessActivated'
    <3> SUFFICES ASSUME NEW v \in Waiters, NEW i \in Slots, pc[v] # "free",
                        event'[v][i] # NULL, ~ activated[v][i]
                 PROVE  <<v, i>> \in wq'[event'[v][i]]
      BY Zenon, <1>8 DEF QueuedUnlessActivated
    <3>1. /\ event'[v][i] = event[v][i] /\ event[v][i] \in Events
          /\ <<v, i>> \in wq[event[v][i]] /\ <<v, i>> \notin wq[e]
      BY <1>0, <1>7 DEF TypeOK, WaiterTypes, Shared, QueuedUnlessActivated
    <3> QED BY Zenon, <1>2, <3>1
  <2>4. QueuedIsWaiting'
    <3> SUFFICES ASSUME NEW f \in Events, NEW v \in Waiters \cup {NULL}, NEW i \in Slots,
                        state'[f] = "live", <<v, i>> \in wq'[f]
                 PROVE  v \in Waiters /\ event'[v][i] = f /\ (pc[v] = "free" => i >= idx[v])
      BY Zenon, <1>8 DEF QueuedIsWaiting
    <3>1. f # e /\ state[f] = "live" /\ <<v, i>> \in wq[f]
      BY Zenon, <1>2, <1>4
    <3>2. v \in Waiters /\ event[v][i] = f /\ (pc[v] = "free" => i >= idx[v])
      BY Zenon, <1>0, <3>1 DEF Shared, QueuedIsWaiting
    <3>3. event'[v][i] = IF <<v, i>> \in wq[e] THEN NULL ELSE event[v][i]
      BY Zenon, <1>4, <3>2
    <3>4. <<v, i>> \notin wq[e]
      BY SMTT(30), <1>0, <3>1, <3>2 DEF Shared, QueuedIsWaiting, kfd_event_destroy
    <3> QED BY Zenon, <3>2, <3>3, <3>4
  <2>5. AgeIsSeen'
    <3> SUFFICES ASSUME NEW v \in Waiters, NEW i \in Slots, pc[v] # "free",
                        event'[v][i] \in Aged, call[v].last[i] # 0, ~ activated[v][i]
                 PROVE  age[event'[v][i]] = call[v].last[i]
      BY Zenon, <1>8 DEF AgeIsSeen
    <3>1. event'[v][i] = event[v][i]
      BY Zenon, <1>7
    <3> QED BY Zenon, <1>0, <3>1 DEF Shared, AgeIsSeen
  <2>6. SignalIsHeld'
    <3>1. ASSUME NEW v \in Waiters, NEW i \in Slots, NEW f \in Events \ {e}, Holds(v, i, f)
          PROVE  Holds(v, i, f)'
      BY Zenon, <1>7a, <1>8, <3>1 DEF Holds
    <3> QED BY Zenon, <1>0, <1>4, <1>8, <3>1 DEF TypeOK, EventTypes, Shared, SignalIsHeld
  <2> QED BY Zenon, <2>1, <2>2, <2>3, <2>4, <2>5, <2>6 DEF Shared
<1> QED BY Zenon, <1>5, <1>6, <1>9 DEF EWInv
=============================================================================
