-------------------------- MODULE EventWaitProofs ---------------------------
(***************************************************************************)
(* Proofs about EventWait, concluded: the steps of a wait on its slots and *)
(* the theorems.  EWInv is defined in EventWaitSteps.                      *)
(***************************************************************************)
EXTENDS EventWaitSteps

USE EventWaitAssumption

(* copy_signaled_event_data only sets the return code. *)
LEMMA Copy_signaled_event_dataKeepsInv ==
    ASSUME EWInv, NEW w \in Waiters, copy_signaled_event_data(w)
    PROVE  EWInv'
<1>1. TypeOK /\ Own(w)
  BY Zenon DEF EWInv
<1>2. Moves(w) /\ UNCHANGED <<mutex, signals>>
  BY <1>1 DEF TypeOK, ThreadTypes, Moves, eventVars, waiterVars, locals,
      copy_signaled_event_data, Goto
<1>3. /\ pc[w] = "copy" /\ pc'[w] = "free"
      /\ ret'[w] \in {"ok", "EFAULT", "EINVAL"}
      /\ idx'[w] = idx[w] /\ seen'[w] = seen[w] /\ result'[w] = result[w]
      /\ timeout'[w] = timeout[w] /\ tstate'[w] = tstate[w] /\ sig'[w] = sig[w]
  BY <1>1 DEF TypeOK, ThreadTypes, locals, copy_signaled_event_data, Goto
<1>4. ThreadTypes'
  BY <1>1, EventWaitAssumption DEF TypeOK, ThreadTypes, locals, Labels,
      copy_signaled_event_data, Goto
<1>5. Own(w)'
  <2>1. /\ UNCHANGED <<call, event, activated>>
        /\ call[w].num \in 0 .. MaxEvents /\ idx[w] \in 1 .. MaxEvents + 1
    BY Zenon, <1>1, <1>2, TypesOf DEF Moves, waiterVars
  <2> QED BY Zenon, <1>1, <1>2, <1>3, <2>1, EventWaitAssumption DEF Own, MutexIsHeld, WantsEvents,
      IdleIsClear, InitProgress, IndexIsReset, AllLive, ScanIsCurrent, NothingMissed, Slots
<1>6. mutex' = mutex \/ {mutex, mutex'} = {w, NULL}
  BY Zenon, <1>1, <1>2, <1>3 DEF TypeOK, ThreadTypes
<1>7. idx[w] = 1
  BY Zenon, <1>1, <1>3 DEF Own, IndexIsReset
<1> QED BY Zenon, <1>2, <1>3, <1>4, <1>5, <1>6, <1>7, LocalStep

(* ScheduleReturns goes back to the loop. *)
LEMMA ScheduleReturnsKeepsInv ==
    ASSUME EWInv, NEW w \in Waiters, ScheduleReturns(w)
    PROVE  EWInv'
<1>1. TypeOK /\ Own(w)
  BY Zenon DEF EWInv
<1>2. Moves(w) /\ UNCHANGED <<mutex, signals>>
  BY Zenon, <1>1 DEF TypeOK, ThreadTypes, Moves, eventVars, waiterVars, locals, ScheduleReturns,
      Goto
<1>3. /\ pc[w] = "asleep" /\ pc'[w] = "loop"
      /\ timeout'[w] \in {"zero", "finite", "infinite"}
      /\ idx'[w] = idx[w] /\ seen'[w] = seen[w] /\ result'[w] = result[w]
      /\ ret'[w] = ret[w] /\ tstate'[w] = tstate[w] /\ sig'[w] = sig[w]
  BY Zenon, <1>1 DEF TypeOK, ThreadTypes, locals, ScheduleReturns, Goto
<1>4. ThreadTypes'
  BY <1>1, EventWaitAssumption DEF TypeOK, ThreadTypes, locals, Labels, ScheduleReturns,
      Goto
<1>5. Own(w)'
  <2>1. /\ UNCHANGED <<call, event, activated>>
        /\ call[w].num \in 0 .. MaxEvents /\ idx[w] \in 1 .. MaxEvents + 1
    BY Zenon, <1>1, <1>2, TypesOf DEF Moves, waiterVars
  <2> QED BY Zenon, <1>1, <1>2, <1>3, <2>1, EventWaitAssumption DEF Own, MutexIsHeld, WantsEvents,
      IdleIsClear, InitProgress, IndexIsReset, AllLive, ScanIsCurrent, NothingMissed, Slots
<1>6. mutex' = mutex \/ {mutex, mutex'} = {w, NULL}
  BY Zenon, <1>1, <1>2, <1>3 DEF TypeOK, ThreadTypes
<1> QED BY Zenon, <1>2, <1>3, <1>4, <1>5, <1>6, LocalStep

(* TimerExpires wakes the task. *)
LEMMA TimerExpiresKeepsInv ==
    ASSUME EWInv, NEW w \in Waiters, TimerExpires(w)
    PROVE  EWInv'
<1>1. TypeOK /\ Own(w)
  BY Zenon DEF EWInv
<1>2. Moves(w) /\ UNCHANGED <<mutex, signals>>
  BY Zenon, <1>1 DEF TypeOK, ThreadTypes, Moves, eventVars, waiterVars, locals, TimerExpires
<1>3. /\ pc[w] = "asleep" /\ pc'[w] = pc[w]
      /\ timeout'[w] = "zero" /\ tstate'[w] = "running"
      /\ idx'[w] = idx[w] /\ seen'[w] = seen[w] /\ result'[w] = result[w]
      /\ ret'[w] = ret[w] /\ sig'[w] = sig[w]
  BY Zenon, <1>1 DEF TypeOK, ThreadTypes, locals, TimerExpires
<1>4. ThreadTypes'
  BY Zenon, <1>1, EventWaitAssumption DEF TypeOK, ThreadTypes, locals, Labels, TimerExpires
<1>5. Own(w)'
  <2>1. /\ UNCHANGED <<call, event, activated>>
        /\ call[w].num \in 0 .. MaxEvents /\ idx[w] \in 1 .. MaxEvents + 1
    BY Zenon, <1>1, <1>2, TypesOf DEF Moves, waiterVars
  <2> QED BY Zenon, <1>1, <1>2, <1>3, <2>1, EventWaitAssumption DEF Own, MutexIsHeld, WantsEvents,
      IdleIsClear, InitProgress, IndexIsReset, AllLive, ScanIsCurrent, NothingMissed, Slots
<1>6. mutex' = mutex \/ {mutex, mutex'} = {w, NULL}
  BY Zenon, <1>1, <1>2, <1>3 DEF TypeOK, ThreadTypes
<1> QED BY Zenon, <1>2, <1>3, <1>4, <1>5, <1>6, LocalStep

(* Relock takes the mutex; whatever it does next starts at the first slot. *)
LEMMA RelockKeepsInv ==
    ASSUME EWInv, NEW w \in Waiters, Relock(w)
    PROVE  EWInv'
<1>1. TypeOK /\ Own(w)
  BY Zenon DEF EWInv
<1>2. Moves(w) /\ UNCHANGED signals
  BY <1>1 DEF TypeOK, ThreadTypes, Moves, eventVars, waiterVars, locals, Relock, Goto
<1>3. /\ pc[w] = "relock" /\ pc'[w] \in {"copy", "free"} /\ mutex = NULL /\ mutex' = w
      /\ idx'[w] = idx[w] /\ seen'[w] = seen[w] /\ result'[w] = result[w]
      /\ ret'[w] = ret[w] /\ timeout'[w] = timeout[w]
      /\ tstate'[w] = tstate[w] /\ sig'[w] = sig[w]
  BY Zenon, <1>1 DEF TypeOK, ThreadTypes, locals, Relock, Goto
<1>4. ThreadTypes'
  BY Zenon, <1>1, EventWaitAssumption DEF TypeOK, ThreadTypes, locals, Labels, Relock, Goto
<1>5. Own(w)'
  <2>1. /\ UNCHANGED <<call, event, activated>>
        /\ call[w].num \in 0 .. MaxEvents /\ idx[w] \in 1 .. MaxEvents + 1
    BY Zenon, <1>1, <1>2, TypesOf DEF Moves, waiterVars
  <2> QED BY Zenon, <1>1, <1>2, <1>3, <2>1, EventWaitAssumption DEF Own, MutexIsHeld, WantsEvents,
      IdleIsClear, InitProgress, IndexIsReset, AllLive, ScanIsCurrent, NothingMissed, Slots
<1>6. mutex' = mutex \/ {mutex, mutex'} = {w, NULL}
  BY Zenon, <1>1, <1>2, <1>3, EventWaitAssumption DEF TypeOK, ThreadTypes, Own, MutexIsHeld
<1>7. idx[w] = 1
  BY Zenon, <1>1, <1>3 DEF Own, IndexIsReset
<1> QED BY Zenon, <1>2, <1>3, <1>4, <1>5, <1>6, <1>7, LocalStep

(* init_event_waiter: a slot is queued unless it is activated at once. *)
LEMMA Init_event_waiterKeepsInv ==
    ASSUME EWInv, NEW w \in Waiters, init_event_waiter(w)
    PROVE  EWInv'
<1> DEFINE i == idx[w]
           e == call[w].want[i]
           b == Activates(w, i)
           q == IF b THEN wq[e] ELSE wq[e] \cup {<<w, i>>}
<1>1. /\ pc[w] = "init" /\ i \in Slots /\ i <= call[w].num /\ e \in Events /\ state[e] = "live"
      /\ b \in BOOLEAN
      /\ signaled[e] => b
      /\ e \in Aged /\ call[w].last[i] # 0 /\ ~ b => age[e] = call[w].last[i]
  <2>1. pc[w] = "init" /\ i <= call[w].num /\ state[e] = "live"
    BY Zenon DEF init_event_waiter
  <2>2. i \in Slots
    BY <2>1 DEF EWInv, TypeOK, WaiterTypes, ThreadTypes, Calls, Slots
  <2>3. e \in Events
    BY Zenon, <2>1, <2>2 DEF EWInv, Own, WantsEvents
  <2>4. /\ b \in BOOLEAN
        /\ signaled[e] => b
        /\ e \in Aged /\ call[w].last[i] # 0 /\ ~ b => age[e] = call[w].last[i]
    BY Zenon, <2>3 DEF EWInv, TypeOK, EventTypes, Activates
  <2> QED BY Zenon, <2>1, <2>2, <2>3, <2>4
<1>2. /\ event' = [event EXCEPT ![w][i] = e]
      /\ activated' = [activated EXCEPT ![w][i] = b]
      /\ signaled' = [signaled EXCEPT ![e] = @ /\ e \notin AutoReset]
      /\ wq' = [wq EXCEPT ![e] = q]
      /\ idx' = [idx EXCEPT ![w] = i + 1]
      /\ UNCHANGED <<state, age, mutex, pc, call, seen, result, ret, timeout, tstate, sig, held,
                     signals, owed>>
  BY Zenon DEF init_event_waiter
<1>3. q \in Queue /\ (<<w, i>> \in q \/ b) /\ wq[e] \subseteq q /\ q \subseteq wq[e] \cup {<<w, i>>}
  <2>1. (<<w, i>> \in q \/ b) /\ wq[e] \subseteq q /\ q \subseteq wq[e] \cup {<<w, i>>}
    BY Zenon
  <2>2. wq \in [Events -> Queue]
    BY Zenon DEF EWInv, TypeOK, EventTypes, Queue
  <2>3. wq[e] \in Queue
    BY Zenon, <1>1, <2>2
  <2>4. <<w, i>> \in (Waiters \cup {NULL}) \X Slots
    BY Zenon, <1>1
  <2> QED BY Zenon, <2>1, <2>3, <2>4 DEF Queue
<1>4. /\ InitProgress(w) /\ event[w][i] = NULL /\ seen[w] = {}
      /\ \A j \in Slots : event[w][j] = NULL <=> j >= i
  <2>1. InitProgress(w)
    BY Zenon DEF EWInv, Own
  <2>2. i >= i
    BY <1>1 DEF Slots
  <2> QED BY Zenon, <1>1, <2>1, <2>2 DEF InitProgress
<1> HIDE DEF i, e, b, q
<1>5. TypeOK'
  <2>1. event' \in [Waiters -> [Slots -> Events \cup {NULL}]]
    BY Zenon, <1>1, <1>2 DEF EWInv, TypeOK, WaiterTypes
  <2>2. activated' \in [Waiters -> [Slots -> BOOLEAN]]
    BY Zenon, <1>1, <1>2 DEF EWInv, TypeOK, WaiterTypes
  <2>3. signaled' \in [Events -> BOOLEAN]
    BY Zenon, <1>1, <1>2 DEF EWInv, TypeOK, EventTypes
  <2>4. wq' \in [Events -> Queue]
    BY Zenon, <1>1, <1>2, <1>3 DEF EWInv, TypeOK, EventTypes, Queue
  <2>5. idx' \in [Waiters -> 1 .. MaxEvents + 1]
    BY <1>1, <1>2 DEF EWInv, TypeOK, ThreadTypes, Slots
  <2> QED BY Zenon, <1>2, <2>1, <2>2, <2>3, <2>4, <2>5 DEF EWInv, TypeOK, EventTypes, WaiterTypes, ThreadTypes, Queue
<1>6. /\ \A v \in Waiters, j \in Slots : <<v, j>> # <<w, i>> =>
             event'[v][j] = event[v][j] /\ activated'[v][j] = activated[v][j]
      /\ event'[w][i] = e /\ activated'[w][i] = b
      /\ \A v \in Waiters \ {w} :
             event'[v] = event[v] /\ activated'[v] = activated[v] /\ idx'[v] = idx[v]
      /\ idx'[w] = i + 1 /\ idx[w] = i
      /\ \A f \in Events \ {e} : wq'[f] = wq[f] /\ signaled'[f] = signaled[f]
      /\ wq'[e] = q
      /\ signaled'[e] = (signaled[e] /\ e \notin AutoReset)
  <2>1. idx[w] = i
    BY Zenon DEF i
  <2>2. /\ \A v \in Waiters, j \in Slots : <<v, j>> # <<w, i>> =>
             event'[v][j] = event[v][j] /\ activated'[v][j] = activated[v][j]
        /\ event'[w][i] = e /\ activated'[w][i] = b
    BY Zenon, <1>1, <1>2 DEF EWInv, TypeOK, WaiterTypes
  <2>3. \A v \in Waiters \ {w} :
             event'[v] = event[v] /\ activated'[v] = activated[v] /\ idx'[v] = idx[v]
    BY <1>2 DEF EWInv, TypeOK, EventTypes
  <2>4. \A f \in Events \ {e} : wq'[f] = wq[f] /\ signaled'[f] = signaled[f]
    BY Zenon, <1>2 DEF EWInv, TypeOK, EventTypes
  <2>5. idx'[w] = i + 1 /\ wq'[e] = q
    BY <1>1, <1>2 DEF EWInv, TypeOK, EventTypes, ThreadTypes
  <2>6. signaled'[e] = (signaled[e] /\ e \notin AutoReset)
    BY Zenon, <1>1, <1>2 DEF EWInv, TypeOK, EventTypes
  <2> QED BY Zenon, <2>1, <2>2, <2>3, <2>4, <2>5, <2>6
<1>7. Own(w)'
  <2>1. MutexIsHeld(w)' /\ WantsEvents(w)'
    BY Zenon, <1>2 DEF EWInv, Own, MutexIsHeld, WantsEvents
  <2>2. InitProgress(w)'
    BY <1>1, <1>2, <1>4, <1>6 DEF EWInv, TypeOK, WaiterTypes, Calls, InitProgress, Slots
  <2>3. /\ IdleIsClear(w)' /\ IndexIsReset(w)' /\ AllLive(w)'
        /\ ScanIsCurrent(w)' /\ NothingMissed(w)'
    BY Zenon, <1>1, <1>2 DEF IdleIsClear, IndexIsReset, AllLive, ScanIsCurrent, NothingMissed
  <2> QED BY Zenon, <2>1, <2>2, <2>3 DEF Own
<1>8. ASSUME NEW v \in Waiters, v # w PROVE Own(v)'
  BY Zenon, <1>2, <1>6, <1>8, OwnFrame DEF EWInv
<1>9. Shared'
  <2>1. SlotsInUse'
    BY <1>1, <1>2, <1>6 DEF EWInv, Shared, SlotsInUse
  <2>2. NotCreated'
    BY Zenon, <1>1, <1>2, <1>6 DEF EWInv, Shared, NotCreated
  <2>3. QueuedUnlessActivated'
    <3> SUFFICES ASSUME NEW v \in Waiters, NEW j \in Slots, pc[v] # "free",
                        event'[v][j] # NULL, ~ activated'[v][j]
                 PROVE  <<v, j>> \in wq'[event'[v][j]]
      BY Zenon, <1>2 DEF QueuedUnlessActivated
    <3>1. CASE v = w /\ j = i
      BY Zenon, <1>3, <1>6, <3>1
    <3>2. CASE <<v, j>> # <<w, i>>
      <4>1. event'[v][j] = event[v][j] /\ event[v][j] \in Events /\ <<v, j>> \in wq[event[v][j]]
        BY <1>6, <3>2 DEF EWInv, TypeOK, WaiterTypes, Shared, QueuedUnlessActivated
      <4> QED BY <1>3, <1>6, <4>1
    <3> QED BY Zenon, <3>1, <3>2
  <2>4. QueuedIsWaiting'
    <3> SUFFICES ASSUME NEW f \in Events, NEW v \in Waiters \cup {NULL}, NEW j \in Slots,
                        state[f] = "live", <<v, j>> \in wq'[f]
                 PROVE  v \in Waiters /\ event'[v][j] = f /\ (pc[v] = "free" => j >= idx'[v])
      BY <1>2 DEF QueuedIsWaiting
    <3>1. CASE v = w /\ j = i
      <4>1. f = e
        <5>1. f # e => <<w, i>> \in wq[f]
          BY Zenon, <1>6, <3>1
        <5> QED BY <1>1, <1>4, <5>1 DEF EWInv, Shared, QueuedIsWaiting
      <4> QED BY Zenon, <1>1, <1>6, <3>1, <4>1
    <3>2. CASE <<v, j>> # <<w, i>>
      <4>1. <<v, j>> \in wq[f]
        BY Zenon, <1>3, <1>6, <3>2
      <4>2. v \in Waiters /\ event[v][j] = f /\ (pc[v] = "free" => j >= idx[v])
        BY Zenon, <4>1 DEF EWInv, Shared, QueuedIsWaiting
      <4> QED BY <1>1, <1>6, <3>2, <4>2
    <3> QED BY Zenon, <3>1, <3>2
  <2>5. AgeIsSeen'
    BY SMTT(30), <1>1, <1>2, <1>6 DEF EWInv, TypeOK, EventTypes, Shared, AgeIsSeen
  <2>6. SignalIsHeld'
    <3> SUFFICES ASSUME NEW f \in owed, state[f] = "live", ~ signaled'[f]
                 PROVE  \E v \in Waiters : \E j \in Slots : Holds(v, j, f)'
      BY Zenon, <1>2 DEF SignalIsHeld
    <3>0. f \in Events
      BY Zenon DEF EWInv, TypeOK, EventTypes
    <3>1. CASE f = e /\ signaled[e]
      <4>1. PICK j \in Slots : j = i
        BY Zenon, <1>1
      <4>2. event'[w][j] = f /\ activated'[w][j] /\ pc'[w] # "free"
        BY Zenon, <1>1, <1>2, <1>6, <3>1, <4>1
      <4> QED BY Zenon, <4>2 DEF Holds
    <3>2. CASE ~ signaled[f]
      <4>1. PICK v \in Waiters, j \in Slots : Holds(v, j, f)
        BY Zenon, <3>2 DEF EWInv, Shared, SignalIsHeld
      <4>2. <<v, j>> # <<w, i>>
        BY Zenon, <1>4, <3>0, <4>1 DEF Holds
      <4>3. Holds(v, j, f)'
        BY <1>1, <1>2, <1>6, <4>1, <4>2 DEF Holds
      <4> QED BY Zenon, <4>3
    <3>3. signaled[f] => f = e
      BY Zenon, <1>6, <3>0
    <3> QED BY Zenon, <3>1, <3>2, <3>3
  <2> QED BY Zenon, <2>1, <2>2, <2>3, <2>4, <2>5, <2>6 DEF Shared
<1> QED BY Zenon, <1>5, <1>7, <1>8, <1>9 DEF EWInv


(* free_waiters: a slot leaves its queue, and a wait that will be restarted
   gives the signal back as set_event does. *)
LEMMA Free_waiterKeepsInv ==
    ASSUME EWInv, NEW w \in Waiters, free_waiter(w)
    PROVE  EWInv'
<1>0. PICK i \in Slots, e \in Events \cup {NULL} : i = idx[w] /\ e = event[w][i]
  <2>1. idx[w] \in Slots
    BY DEF free_waiter, EWInv, TypeOK, WaiterTypes, ThreadTypes, Calls, Slots
  <2> QED BY <2>1 DEF EWInv, TypeOK, WaiterTypes
<1>1. /\ pc[w] = "free" /\ i <= call[w].num
      /\ idx' = [idx EXCEPT ![w] = i + 1]
      /\ UNCHANGED <<state, mutex, pc, call, event, seen, result, ret, timeout, sig, held, signals>>
  BY Zenon, <1>0 DEF free_waiter
<1>2. /\ idx' \in [Waiters -> 1 .. MaxEvents + 1]
      /\ idx'[w] = idx[w] + 1 /\ \A v \in Waiters \ {w} : idx'[v] = idx[v]
  BY <1>0, <1>1, EventWaitAssumption DEF EWInv, TypeOK, ThreadTypes, Slots
<1>3. ASSUME /\ TypeOK' /\ Shared'
             /\ \A v \in Waiters : tstate'[v] = "interruptible" =>
                    tstate[v] = "interruptible" /\ activated'[v] = activated[v]
      PROVE  EWInv'
  <2>1. Own(w)'
    <3>1. MutexIsHeld(w)' /\ WantsEvents(w)'
      BY Zenon, <1>1 DEF EWInv, Own, MutexIsHeld, WantsEvents
    <3>2. /\ IdleIsClear(w)' /\ InitProgress(w)' /\ IndexIsReset(w)' /\ AllLive(w)'
          /\ ScanIsCurrent(w)' /\ NothingMissed(w)'
      BY Zenon, <1>1 DEF IdleIsClear, InitProgress, IndexIsReset, AllLive, ScanIsCurrent, NothingMissed
    <3> QED BY Zenon, <3>1, <3>2 DEF Own
  <2>2. ASSUME NEW v \in Waiters, v # w PROVE Own(v)'
    BY Zenon, <1>1, <1>2, <1>3, <2>2, OwnFrame DEF EWInv
  <2> QED BY Zenon, <1>3, <2>1, <2>2 DEF EWInv
<1>4. CASE e = NULL
  <2>1. UNCHANGED <<signaled, age, wq, activated, tstate, owed>>
    BY Zenon, <1>0, <1>4 DEF free_waiter
  <2>2. TypeOK'
    BY Zenon, <1>1, <1>2, <2>1 DEF EWInv, TypeOK, EventTypes, WaiterTypes, ThreadTypes
  <2>3. Shared'
    <3>1. SlotsInUse' /\ NotCreated' /\ QueuedUnlessActivated' /\ AgeIsSeen'
      BY SMTT(30), <1>1, <2>1 DEF EWInv, Shared, SlotsInUse, NotCreated, QueuedUnlessActivated, AgeIsSeen
    <3>2. QueuedIsWaiting'
      <4> SUFFICES ASSUME NEW f \in Events, NEW v \in Waiters \cup {NULL}, NEW j \in Slots,
                          state[f] = "live", <<v, j>> \in wq[f]
                   PROVE  v \in Waiters /\ event[v][j] = f /\ (pc[v] = "free" => j >= idx'[v])
        BY <1>1, <2>1 DEF QueuedIsWaiting
      <4>1. v \in Waiters /\ event[v][j] = f /\ (pc[v] = "free" => j >= idx[v])
        BY Zenon DEF EWInv, Shared, QueuedIsWaiting
      <4>2. v = w => j # i
        BY Zenon, <1>0, <1>4, <4>1, EventWaitAssumption
      <4> QED BY <1>0, <1>2, <4>1, <4>2 DEF Slots
    <3>3. SignalIsHeld'
      <4>1. ASSUME NEW v \in Waiters, NEW j \in Slots, NEW f \in Events, Holds(v, j, f)
            PROVE  Holds(v, j, f)'
        <5>1. v = w => j # i
          BY Zenon, <1>0, <1>4, <4>1, EventWaitAssumption DEF Holds
        <5> QED BY <1>0, <1>1, <1>2, <2>1, <4>1, <5>1 DEF Holds, Slots
      <4> QED BY Zenon, <1>1, <2>1, <4>1 DEF EWInv, TypeOK, EventTypes, Shared, SignalIsHeld
    <3> QED BY Zenon, <3>1, <3>2, <3>3 DEF Shared
  <2> QED BY Zenon, <1>3, <2>1, <2>2, <2>3
<1>5. CASE e # NULL
  <2> DEFINE q == wq[e] \ {<<w, i>>}
  <2>1. /\ e \in Events /\ q \in Queue /\ q \in SUBSET wq[e]
        /\ state[e] # "none"
        /\ \A v \in Waiters : \A j \in Slots : <<v, j>> \in wq[e] \ q => v = w
        /\ <<w, i>> \notin q
    BY Zenon, <1>0, <1>5 DEF EWInv, TypeOK, EventTypes, Queue, Shared, SlotsInUse
  <2>2. CASE UndoesReset(w, i)
    <3>1. set_event(e, q)
      BY Zenon, <1>0, <1>5, <2>2 DEF free_waiter, QueueWithout
    <3> HIDE DEF q
    <3>2. SetStep(e, q)
      BY Zenon, <2>1, <3>1, SetTypes DEF EWInv
    <3>3. TypeOK'
      BY Zenon, <1>1, <1>2, <3>2 DEF SetStep, EWInv, TypeOK, EventTypes, WaiterTypes, ThreadTypes
    <3>4. \A v \in Waiters :
              \/ idx'[v] = idx[v]
              \/ /\ pc[v] = "free" /\ idx'[v] = idx[v] + 1
                 /\ event[v][idx[v]] = e /\ <<v, idx[v]>> \notin q
      BY Zenon, <1>0, <1>1, <1>2, <2>1
    <3>5. Shared'
      BY <1>1, <1>2, <2>1, <3>1, <3>4, SetEvent DEF EWInv
    <3> QED BY Zenon, <1>3, <3>2, <3>3, <3>5 DEF SetStep
  <2>3. CASE ~ UndoesReset(w, i)
    <3>1. wq' = [wq EXCEPT ![e] = q] /\ UNCHANGED <<signaled, age, activated, tstate, owed>>
      BY Zenon, <1>0, <1>5, <2>3 DEF free_waiter, QueueWithout
    <3> HIDE DEF q
    <3>2. wq' \in [Events -> Queue] /\ wq'[e] = q /\ \A f \in Events \ {e} : wq'[f] = wq[f]
      BY Zenon, <2>1, <3>1 DEF EWInv, TypeOK, EventTypes, Queue
    <3>3. TypeOK'
      BY Zenon, <1>1, <1>2, <3>1, <3>2 DEF EWInv, TypeOK, EventTypes, WaiterTypes, ThreadTypes, Queue
    <3>4. SlotsInUse' /\ NotCreated' /\ AgeIsSeen'
      BY SMTT(30), <1>1, <2>1, <3>1, <3>2 DEF EWInv, Shared, SlotsInUse, NotCreated, AgeIsSeen
    <3>5. QueuedUnlessActivated'
      <4> SUFFICES ASSUME NEW v \in Waiters, NEW j \in Slots, pc[v] # "free",
                          event[v][j] # NULL, ~ activated[v][j]
                   PROVE  <<v, j>> \in wq'[event[v][j]]
        BY Zenon, <1>1, <3>1 DEF QueuedUnlessActivated
      <4>1. event[v][j] \in Events /\ <<v, j>> \in wq[event[v][j]]
        BY DEF EWInv, TypeOK, WaiterTypes, Shared, QueuedUnlessActivated
      <4> QED BY Zenon, <1>1, <2>1, <3>2, <4>1
    <3>6. QueuedIsWaiting'
      <4> SUFFICES ASSUME NEW f \in Events, NEW v \in Waiters \cup {NULL}, NEW j \in Slots,
                          state[f] = "live", <<v, j>> \in wq'[f]
                   PROVE  v \in Waiters /\ event[v][j] = f /\ (pc[v] = "free" => j >= idx'[v])
        BY SMTT(30), <1>1, <3>1 DEF QueuedIsWaiting
      <4>1. <<v, j>> \in wq[f] /\ (f = e => <<v, j>> \in q)
        BY Zenon, <2>1, <3>2
      <4>2. v \in Waiters /\ event[v][j] = f /\ (pc[v] = "free" => j >= idx[v])
        BY Zenon, <4>1 DEF EWInv, Shared, QueuedIsWaiting
      <4>3. v = w => j # i
        BY Zenon, <1>0, <2>1, <4>1, <4>2
      <4> QED BY <1>0, <1>2, <4>2, <4>3 DEF Slots
    <3>7. SignalIsHeld'
      <4>1. ASSUME NEW v \in Waiters, NEW j \in Slots, NEW f \in AutoReset, Holds(v, j, f)
            PROVE  Holds(v, j, f)'
        <5>1. v = w /\ j = i => ret[v] # "ERESTARTSYS"
          BY Zenon, <2>3, <4>1 DEF Holds, UndoesReset
        <5> QED BY <1>0, <1>1, <1>2, <3>1, <4>1, <5>1 DEF Holds, Slots
      <4> QED BY Zenon, <1>1, <3>1, <4>1 DEF EWInv, TypeOK, EventTypes, Shared, SignalIsHeld
    <3>8. Shared'
      BY Zenon, <3>4, <3>5, <3>6, <3>7 DEF Shared
    <3> QED BY Zenon, <1>3, <3>1, <3>3, <3>8
  <2> QED BY Zenon, <2>2, <2>3
<1> QED BY Zenon, <1>4, <1>5

(* LoopTop sets the task state with the scan at its start. *)
LEMMA LoopTopKeepsInv ==
    ASSUME EWInv, NEW w \in Waiters, LoopTop(w)
    PROVE  EWInv'
<1>1. TypeOK /\ Own(w)
  BY Zenon DEF EWInv
<1>2. Moves(w) /\ UNCHANGED <<mutex, signals>>
  BY <1>1 DEF TypeOK, ThreadTypes, Moves, eventVars, waiterVars, locals, LoopTop, Goto
<1>3. /\ pc[w] = "loop"
      /\ \/ pc'[w] = "test" /\ ret'[w] = ret[w] /\ tstate'[w] = "interruptible"
         \/ pc'[w] = "relock" /\ ret'[w] \in {"EINTR", "ERESTARTSYS"} /\ tstate'[w] = tstate[w]
      /\ idx'[w] = idx[w] /\ seen'[w] = seen[w] /\ result'[w] = result[w]
      /\ timeout'[w] = timeout[w] /\ sig'[w] = sig[w]
  BY <1>1 DEF TypeOK, ThreadTypes, locals, LoopTop, Goto
<1>4. ThreadTypes'
  BY <1>1, EventWaitAssumption DEF TypeOK, ThreadTypes, locals, Labels, LoopTop, Goto
<1>5. Own(w)'
  <2>1. /\ UNCHANGED <<call, event, activated>>
        /\ call[w].num \in 0 .. MaxEvents /\ idx[w] \in 1 .. MaxEvents + 1
    BY Zenon, <1>1, <1>2, TypesOf DEF Moves, waiterVars
  <2> QED BY SMTT(30), <1>1, <1>2, <1>3, <2>1, EventWaitAssumption DEF Own, MutexIsHeld, WantsEvents,
      IdleIsClear, InitProgress, IndexIsReset, AllLive, ScanIsCurrent, NothingMissed, Slots
<1>6. mutex' = mutex \/ {mutex, mutex'} = {w, NULL}
  BY Zenon, <1>1, <1>2, <1>3 DEF TypeOK, ThreadTypes
<1> QED BY Zenon, <1>2, <1>3, <1>4, <1>5, <1>6, LocalStep

(* The end of a wait: its slots are in no queue of a live event. *)
LEMMA WaitReturnsKeepsInv ==
    ASSUME EWInv, NEW w \in Waiters, WaitReturns(w)
    PROVE  EWInv'
<1>1. /\ pc[w] = "free" /\ idx[w] > call[w].num
      /\ pc' = [pc EXCEPT ![w] = "idle"]
      /\ mutex' = NULL
      /\ event' = [event EXCEPT ![w] = NoSlots]
      /\ activated' = [activated EXCEPT ![w] = NotActivated]
      /\ call' = [call EXCEPT ![w] = NoCall]
      /\ idx' = [idx EXCEPT ![w] = 1] /\ seen' = [seen EXCEPT ![w] = {}]
      /\ result' = [result EXCEPT ![w] = "TIMEOUT"] /\ ret' = [ret EXCEPT ![w] = "ok"]
      /\ timeout' = [timeout EXCEPT ![w] = "zero"] /\ sig' = [sig EXCEPT ![w] = "none"]
      /\ owed' = owed \ Taken(w)
      /\ UNCHANGED <<state, signaled, age, tstate, held, signals>>
  BY Zenon DEF WaitReturns, Goto
<1>2. \A f \in Events : \A v \in Waiters \cup {NULL} : \A i \in Slots :
          /\ <<v, i>> \in wq'[f] => \/ <<v, i>> \in wq[f] /\ v # w
                                    \/ v = NULL /\ <<w, i>> \in wq[f]
          /\ <<v, i>> \in wq[f] /\ v # w => <<v, i>> \in wq'[f]
  <2> SUFFICES ASSUME NEW f \in Events, NEW v \in Waiters \cup {NULL}, NEW i \in Slots
               PROVE  /\ <<v, i>> \in wq'[f] => \/ <<v, i>> \in wq[f] /\ v # w
                                                \/ v = NULL /\ <<w, i>> \in wq[f]
                      /\ <<v, i>> \in wq[f] /\ v # w => <<v, i>> \in wq'[f]
    OBVIOUS
  <2>1. wq'[f] = {IF x[1] = w THEN <<NULL, x[2]>> ELSE x : x \in wq[f]}
    BY Zenon DEF WaitReturns
  <2>2. ASSUME <<v, i>> \in wq'[f]
        PROVE  \/ <<v, i>> \in wq[f] /\ v # w
               \/ v = NULL /\ <<w, i>> \in wq[f]
    <3>0. <<v, i>> \in {IF x[1] = w THEN <<NULL, x[2]>> ELSE x : x \in wq[f]}
      BY Zenon, <2>1, <2>2
    <3>1. PICK x \in wq[f] : <<v, i>> = IF x[1] = w THEN <<NULL, x[2]>> ELSE x
      BY <3>0
    <3>2. PICK a \in Waiters \cup {NULL}, j \in Slots : x = <<a, j>>
      BY DEF EWInv, TypeOK, EventTypes
    <3> QED BY Zenon, <3>1, <3>2
  <2>3. ASSUME <<v, i>> \in wq[f], v # w
        PROVE  <<v, i>> \in wq'[f]
    BY Zenon, <2>1, <2>3
  <2> QED BY Zenon, <2>2, <2>3
<1>3. TypeOK'
  <2>1. wq' \in [Events -> Queue]
    <3>1. \A f \in Events : {IF x[1] = w THEN <<NULL, x[2]>> ELSE x : x \in wq[f]} \in Queue
      BY DEF EWInv, TypeOK, EventTypes, Queue
    <3> QED BY Zenon, <3>1 DEF WaitReturns
  <2>2. NoSlots \in [Slots -> Events \cup {NULL}] /\ NotActivated \in [Slots -> BOOLEAN]
    BY Zenon DEF NoSlots, NotActivated
  <2>3. NoCall \in Calls
    BY EventWaitAssumption DEF NoCall, NoAges, NoSlots, Calls
  <2>4. call' \in [Waiters -> Calls] /\ event' \in [Waiters -> [Slots -> Events \cup {NULL}]]
        /\ activated' \in [Waiters -> [Slots -> BOOLEAN]]
    BY Zenon, <1>1, <2>2, <2>3 DEF EWInv, TypeOK, WaiterTypes
  <2>5. /\ idx' \in [Waiters -> 1 .. MaxEvents + 1] /\ seen' \in [Waiters -> SUBSET Slots]
        /\ owed' \subseteq AutoReset /\ mutex' \in Waiters \cup {NULL}
    BY <1>1, EventWaitAssumption DEF EWInv, TypeOK, EventTypes, ThreadTypes
  <2>6. /\ pc' \in [Waiters -> Labels]
        /\ result' \in [Waiters -> {"COMPLETE", "TIMEOUT", "FAIL"}]
        /\ ret' \in [Waiters -> {"ok", "EFAULT", "EINVAL", "EINTR", "ERESTARTSYS"}]
        /\ timeout' \in [Waiters -> {"zero", "finite", "infinite"}]
        /\ sig' \in [Waiters -> {"none", "signal", "fatal"}]
    BY Zenon, <1>1 DEF EWInv, TypeOK, ThreadTypes, Labels
  <2> QED BY Zenon, <1>1, <2>1, <2>4, <2>5, <2>6 DEF EWInv, TypeOK, EventTypes, WaiterTypes, ThreadTypes, Queue
<1>4. /\ pc'[w] = "idle" /\ idx'[w] = 1 /\ seen'[w] = {} /\ call'[w].num = 0
      /\ \A i \in Slots : event'[w][i] = NULL
      /\ \A v \in Waiters \ {w} :
             /\ pc'[v] = pc[v] /\ idx'[v] = idx[v] /\ seen'[v] = seen[v] /\ call'[v] = call[v]
             /\ event'[v] = event[v] /\ activated'[v] = activated[v] /\ ret'[v] = ret[v]
  <2>1. call'[w] = NoCall /\ event'[w] = NoSlots
    BY Zenon, <1>1 DEF EWInv, TypeOK, WaiterTypes
  <2>2. call'[w].num = 0 /\ \A i \in Slots : event'[w][i] = NULL
    BY <2>1 DEF NoCall, NoSlots
  <2> QED BY <1>1, <2>2 DEF EWInv, TypeOK, ThreadTypes
<1>5. Own(w)'
  <2>1. MutexIsHeld(w)' /\ WantsEvents(w)' /\ IdleIsClear(w)'
    BY SMTT(30), <1>1, <1>4, EventWaitAssumption DEF MutexIsHeld, WantsEvents, IdleIsClear, Slots
  <2>2. /\ InitProgress(w)' /\ IndexIsReset(w)' /\ AllLive(w)'
        /\ ScanIsCurrent(w)' /\ NothingMissed(w)'
    BY Zenon, <1>4 DEF InitProgress, IndexIsReset, AllLive, ScanIsCurrent, NothingMissed
  <2> QED BY Zenon, <2>1, <2>2 DEF Own
<1>6. ASSUME NEW v \in Waiters, v # w PROVE Own(v)'
  <2>1. mutex = w
    BY Zenon, <1>1 DEF EWInv, Own, MutexIsHeld
  <2>2. mutex' = v <=> mutex = v
    BY Zenon, <1>1, <1>6, <2>1, EventWaitAssumption
  <2> QED BY Zenon, <1>1, <1>4, <1>6, <2>2, OwnFrame DEF EWInv
<1>7. Shared'
  <2>1. SlotsInUse'
    BY SMTT(30), <1>1, <1>4 DEF EWInv, Shared, SlotsInUse
  <2>2. NotCreated'
    <3>1. \A f \in Events : state[f] = "none" => wq'[f] = {}
      BY Zenon DEF WaitReturns, EWInv, Shared, NotCreated
    <3> QED BY Zenon, <1>1, <3>1 DEF EWInv, Shared, NotCreated
  <2>3. QueuedUnlessActivated'
    <3> SUFFICES ASSUME NEW v \in Waiters, NEW i \in Slots, pc'[v] # "free",
                        event'[v][i] # NULL, ~ activated'[v][i]
                 PROVE  <<v, i>> \in wq'[event'[v][i]]
      BY Zenon DEF QueuedUnlessActivated
    <3>1. v # w
      <4>1. SUFFICES ASSUME v = w PROVE FALSE
        OBVIOUS
      <4>2. event'[w][i] = NULL
        BY Zenon, <1>4
      <4> QED BY Zenon, <4>1, <4>2
    <3>2. /\ event'[v][i] = event[v][i] /\ event[v][i] # NULL
          /\ pc[v] # "free" /\ ~ activated[v][i]
      BY Zenon, <1>4, <3>1
    <3>3. event[v][i] \in Events
      <4>1. event \in [Waiters -> [Slots -> Events \cup {NULL}]]
        BY Zenon DEF EWInv, TypeOK, WaiterTypes
      <4>2. event[v] \in [Slots -> Events \cup {NULL}]
        BY Zenon, <4>1
      <4>3. event[v][i] \in Events \cup {NULL}
        BY Zenon, <4>2
      <4> QED BY Zenon, <3>2, <4>3
    <3>4. <<v, i>> \in wq[event[v][i]]
      BY Zenon, <3>2 DEF EWInv, Shared, QueuedUnlessActivated
    <3> QED BY Zenon, <1>2, <3>1, <3>2, <3>3, <3>4
  <2>4. QueuedIsWaiting'
    <3> SUFFICES ASSUME NEW f \in Events, NEW v \in Waiters \cup {NULL}, NEW i \in Slots,
                        state[f] = "live", <<v, i>> \in wq'[f]
                 PROVE  v \in Waiters /\ event'[v][i] = f /\ (pc'[v] = "free" => i >= idx'[v])
      <4>1. state' = state
        BY Zenon, <1>1
      <4> QED BY Zenon, <4>1 DEF QueuedIsWaiting
    <3>1. <<w, i>> \notin wq[f]
      <4>1. <<w, i>> \in wq[f] => event[w][i] = f /\ i >= idx[w]
        BY Zenon, <1>1 DEF EWInv, Shared, QueuedIsWaiting
      <4>2. event[w][i] = f => i <= call[w].num
        BY Zenon, EventWaitAssumption DEF EWInv, Shared, SlotsInUse
      <4> QED BY SMTT(30), <1>1, <4>1, <4>2 DEF EWInv, TypeOK, EventTypes, WaiterTypes, ThreadTypes, Calls, Slots
    <3>2. <<v, i>> \in wq[f] /\ v # w
      BY Zenon, <1>2, <3>1
    <3>3. v \in Waiters /\ event[v][i] = f /\ (pc[v] = "free" => i >= idx[v])
      BY Zenon, <3>2 DEF EWInv, Shared, QueuedIsWaiting
    <3> QED BY Zenon, <1>4, <3>2, <3>3
  <2>5. AgeIsSeen'
    <3> SUFFICES ASSUME NEW v \in Waiters, NEW i \in Slots, pc'[v] # "free",
                        event'[v][i] \in Aged, call'[v].last[i] # 0, ~ activated'[v][i]
                 PROVE  age'[event'[v][i]] = call'[v].last[i]
      BY Zenon DEF AgeIsSeen
    <3>1. v # w
      BY SMTT(30), <1>4, EventWaitAssumption
    <3> QED BY SMTT(30), <1>1, <1>4, <3>1 DEF EWInv, Shared, AgeIsSeen
  <2>6. SignalIsHeld'
    <3> SUFFICES ASSUME NEW f \in owed', state[f] = "live", ~ signaled[f]
                 PROVE  \E v \in Waiters : \E i \in Slots : Holds(v, i, f)'
      BY Zenon, <1>1 DEF SignalIsHeld
    <3>1. f \in owed /\ f \notin Taken(w) /\ f \in Events
      BY Zenon, <1>1, EventWaitAssumption DEF EWInv, TypeOK, EventTypes
    <3>2. PICK v \in Waiters, i \in Slots : Holds(v, i, f)
      BY Zenon, <3>1 DEF EWInv, Shared, SignalIsHeld
    <3>3. v # w
      <4>1. SUFFICES ASSUME v = w PROVE FALSE
        OBVIOUS
      <4>2. event[w][i] = f /\ activated[w][i] /\ i \in 1 .. call[w].num
        BY SMTT(30), <3>1, <3>2, <4>1, EventWaitAssumption
           DEF Holds, EWInv, TypeOK, EventTypes, Shared, SlotsInUse, Slots, Calls
      <4>3. ret[w] = "ERESTARTSYS"
        BY Zenon, <3>1, <4>2 DEF Taken
      <4>4. i < idx[w]
        BY SMTT(30), <1>1, <4>2 DEF EWInv, TypeOK, WaiterTypes, ThreadTypes, Calls
      <4> QED BY Zenon, <1>1, <3>2, <4>1, <4>3, <4>4 DEF Holds
    <3>4. Holds(v, i, f)'
      BY Zenon, <1>4, <3>2, <3>3 DEF Holds
    <3> QED BY Zenon, <3>4
  <2> QED BY Zenon, <2>1, <2>2, <2>3, <2>4, <2>5, <2>6 DEF Shared
<1> QED BY Zenon, <1>3, <1>5, <1>6, <1>7 DEF EWInv

-----------------------------------------------------------------------------

(* The invariant holds before any event is created. *)
LEMMA EWInit ==
    ASSUME Init
    PROVE  EWInv
<1> USE EventWaitAssumption DEF Init
<1>1. TypeOK
  <2>1. NoCall \in Calls
    BY DEF NoCall, NoAges, NoSlots, Calls
  <2>2. call \in [Waiters -> Calls] /\ pc \in [Waiters -> Labels]
    BY Zenon, <2>1 DEF Labels
  <2>3. /\ event \in [Waiters -> [Slots -> Events \cup {NULL}]]
        /\ activated \in [Waiters -> [Slots -> BOOLEAN]]
    BY Zenon DEF NoSlots, NotActivated
  <2>4. /\ idx \in [Waiters -> 1 .. MaxEvents + 1] /\ seen \in [Waiters -> SUBSET Slots]
        /\ signals \in 0 .. MaxSignals
    OBVIOUS
  <2> QED BY Zenon, <2>2, <2>3, <2>4 DEF TypeOK, EventTypes, WaiterTypes, ThreadTypes
<1>2. ASSUME NEW w \in Waiters PROVE Own(w)
  BY DEF Own, MutexIsHeld, WantsEvents, IdleIsClear, InitProgress, IndexIsReset, AllLive,
         ScanIsCurrent, NothingMissed, NoSlots, NoCall, Slots
<1>3. Shared
  BY Zenon DEF Shared, SlotsInUse, NotCreated, QueuedUnlessActivated, QueuedIsWaiting, AgeIsSeen,
         SignalIsHeld, NoSlots
<1> QED BY Zenon, <1>1, <1>2, <1>3 DEF EWInv

(* The invariant speaks of the variables only. *)
LEMMA EWStutter ==
    ASSUME EWInv, UNCHANGED vars
    PROVE  EWInv'
<1> USE DEF vars, eventVars, waiterVars, locals
<1>1. TypeOK'
  BY Zenon DEF EWInv, TypeOK, EventTypes, WaiterTypes, ThreadTypes
<1>2. \A v \in Waiters : Own(v)'
  BY Zenon, OwnFrame DEF EWInv
<1>3. Shared'
  BY SMTT(30) DEF EWInv, Shared, SlotsInUse, NotCreated, QueuedUnlessActivated, QueuedIsWaiting, AgeIsSeen,
         SignalIsHeld, Holds
<1> QED BY Zenon, <1>1, <1>2, <1>3 DEF EWInv

(* The invariant holds in every reachable state. *)
THEOREM EWInvariant == Spec => []EWInv
<1>1. Init => EWInv
  BY Zenon, EWInit
<1>2. EWInv /\ [Next]_vars => EWInv'
  <2> SUFFICES ASSUME EWInv, [Next]_vars PROVE EWInv'
    OBVIOUS
  <2>1. ASSUME NEW e \in Events, kfd_event_create(e) \/ kfd_event_destroy(e) PROVE EWInv'
    BY Zenon, <2>1, Kfd_event_createKeepsInv, Kfd_event_destroyKeepsInv
  <2>2. ASSUME NEW s \in Setters,
               \/ \E e \in Events : lookup_event(s, e)
               \/ kfd_set_event(s) \/ kfd_reset_event(s)
        PROVE  EWInv'
    BY Zenon, <2>2, Lookup_eventKeepsInv, Kfd_set_eventKeepsInv, Kfd_reset_eventKeepsInv
  <2>3. ASSUME NEW w \in Waiters, StartWait(w) \/ Relock(w) \/ TimerExpires(w) PROVE EWInv'
    BY Zenon, <2>3, StartWaitKeepsInv, RelockKeepsInv, TimerExpiresKeepsInv
  <2>4. ASSUME NEW w \in Waiters, NEW k \in Signals, Signal(w, k) PROVE EWInv'
    BY Zenon, <2>4, SignalKeepsInv
  <2>5. ASSUME NEW w \in Waiters, WaiterStep(w) PROVE EWInv'
    BY Zenon, <2>5, Init_event_waiterKeepsInv, InitFailsKeepsInv, InitDoneKeepsInv, ScanMoreKeepsInv,
       FirstCheckKeepsInv, LoopTopKeepsInv, TestCheckKeepsInv, ScheduleReturnsKeepsInv,
       Copy_signaled_event_dataKeepsInv, Free_waiterKeepsInv, WaitReturnsKeepsInv DEF WaiterStep
  <2> QED BY Zenon, <2>1, <2>2, <2>3, <2>4, <2>5, EWStutter DEF Next
<1> QED BY <1>1, <1>2, PTL DEF Spec

(* No wake-up is lost: a task asleep in kfd_wait_on_events has no activated
   event it waits for and no destroyed one. *)
THEOREM NoWakeupIsLost == Spec => []NoLostWakeup
<1>1. EWInv => NoLostWakeup
  <2> SUFFICES ASSUME EWInv, NEW w \in Waiters, pc[w] = "asleep", tstate[w] = "interruptible"
               PROVE  Condition(w) = "TIMEOUT"
    BY Zenon DEF NoLostWakeup
  <2>1. NothingMissed(w) /\ call[w].num \in 0 .. MaxEvents
    BY Zenon DEF EWInv, Own, TypeOK, WaiterTypes, Calls
  <2>2. \A i \in 1 .. call[w].num : i \in Slots /\ i <= call[w].num
    BY <2>1, EventWaitAssumption DEF Slots
  <2>3. \A i \in Slots : i <= call[w].num => i \in 1 .. call[w].num
    BY <2>1 DEF Slots
  <2> QED BY Zenon, <2>1, <2>2, <2>3 DEF NothingMissed, Condition
<1> QED BY <1>1, EWInvariant, PTL

(* A slot that compares ages is activated as soon as the age changes. *)
THEOREM AgeChangeAlwaysActivates == Spec => []AgeChangeActivates
<1>1. EWInv => AgeChangeActivates
  <2> SUFFICES ASSUME EWInv, NEW w \in Waiters, NEW i \in 1 .. call[w].num, pc[w] # "free",
                      event[w][i] # NULL, event[w][i] \in Aged, call[w].last[i] # 0,
                      ~ activated[w][i]
               PROVE  age[event[w][i]] = call[w].last[i]
    BY Zenon DEF AgeChangeActivates
  <2>1. i \in Slots
    BY EventWaitAssumption DEF EWInv, TypeOK, WaiterTypes, Calls, Slots
  <2> QED BY Zenon, <2>1 DEF EWInv, Shared, AgeIsSeen
<1> QED BY <1>1, EWInvariant, PTL

(* The WARN_ON of kfd_wait_on_events cannot fire. *)
THEOREM FirstCheckCannotFail == Spec => []FirstCheckNeverFails
<1>1. EWInv => FirstCheckNeverFails
  <2> SUFFICES ASSUME EWInv, NEW w \in Waiters, pc[w] = "first", NEW i \in 1 .. call[w].num
               PROVE  event[w][i] # NULL
    BY Zenon DEF FirstCheckNeverFails
  <2>1. i \in Slots /\ i <= call[w].num
    BY EventWaitAssumption DEF EWInv, TypeOK, WaiterTypes, Calls, Slots
  <2> QED BY Zenon, <2>1 DEF EWInv, Own, AllLive
<1> QED BY <1>1, EWInvariant, PTL

(* Interrupted waits lose no auto-reset signal. *)
THEOREM SignalIsAlwaysKept == Spec => []SignalIsKept
<1>1. EWInv => SignalIsKept
  BY Zenon DEF EWInv, Shared, SignalIsHeld, Holds, SignalIsKept
<1> QED BY <1>1, EWInvariant, PTL

(* An event destroyed with all waiters asleep has an empty queue. *)
DeadIsEmpty == \A e \in Events : state[e] = "dead" => wq[e] = {}

(* Steps that put nothing into the queue of a destroyed event. *)
LEMMA QueuesShrink ==
    ASSUME DeadIsEmpty, state' = state,
           \A f \in Events : state[f] = "dead" => wq'[f] \subseteq wq[f]
    PROVE  DeadIsEmpty'
BY Zenon DEF DeadIsEmpty

(* set_event leaves what it does not wake in the queue. *)
LEMMA SetShrinks ==
    ASSUME TypeOK, NEW e \in Events, NEW q \in SUBSET wq[e], set_event(e, q)
    PROVE  \A f \in Events : wq'[f] \subseteq wq[f]
<1>1. wq' = [wq EXCEPT ![e] = {x \in q : x[1] \notin Woken(q)}] /\ wq \in [Events -> Queue]
  BY Zenon DEF set_event, wake_up_all, TypeOK, EventTypes, Queue
<1> QED BY Zenon, <1>1

(* Nothing is queued on a destroyed event. *)
LEMMA DeadStaysEmpty ==
    ASSUME EWInv, DeadIsEmpty, [Next]_vars
    PROVE  DeadIsEmpty'
<1>0. TypeOK /\ state \in [Events -> {"none", "live", "dead", "stray"}] /\ wq \in [Events -> Queue]
  BY Zenon DEF EWInv, TypeOK, EventTypes, Queue
<1>1. ASSUME UNCHANGED <<state, wq>> PROVE DeadIsEmpty'
  BY Zenon, <1>1 DEF DeadIsEmpty
<1>2. ASSUME NEW e \in Events, kfd_event_create(e) PROVE DeadIsEmpty'
  <2>1. state' = [state EXCEPT ![e] = "live"] /\ wq' = wq
    BY Zenon, <1>2 DEF kfd_event_create
  <2> QED BY Zenon, <2>1, <1>0 DEF DeadIsEmpty
<1>3. ASSUME NEW e \in Events, kfd_event_destroy(e) PROVE DeadIsEmpty'
  <2> DEFINE d == \A x \in wq[e] : x[1] \in Woken(wq[e])
             q == {x \in wq[e] : x[1] \notin Woken(wq[e])}
  <2>1. state' = [state EXCEPT ![e] = IF d THEN "dead" ELSE "stray"] /\ wq' = [wq EXCEPT ![e] = q]
    BY Zenon, <1>3 DEF kfd_event_destroy, wake_up_all
  <2>2. d => q = {}
    BY Zenon
  <2> HIDE DEF d, q
  <2>3. state'[e] = "dead" => wq'[e] = {}
    BY Zenon, <2>1, <2>2, <1>0
  <2>4. \A f \in Events \ {e} : state'[f] = state[f] /\ wq'[f] = wq[f]
    BY Zenon, <2>1, <1>0
  <2> QED BY Zenon, <2>3, <2>4 DEF DeadIsEmpty
<1>4. ASSUME NEW s \in Setters, kfd_set_event(s) PROVE DeadIsEmpty'
  <2>1. held[s] \in Events /\ set_event(held[s], wq[held[s]]) /\ state' = state
    BY Zenon, <1>4 DEF kfd_set_event, EWInv, TypeOK, EventTypes
  <2> QED BY Zenon, <2>1, <1>0, SetShrinks, QueuesShrink
<1>5. ASSUME NEW w \in Waiters, init_event_waiter(w) PROVE DeadIsEmpty'
  <2> DEFINE e == call[w].want[idx[w]]
             q == IF Activates(w, idx[w]) THEN wq[e] ELSE wq[e] \cup {<<w, idx[w]>>}
  <2>1. state[e] = "live" /\ wq' = [wq EXCEPT ![e] = q] /\ state' = state
    BY Zenon, <1>5 DEF init_event_waiter
  <2> HIDE DEF e, q
  <2>2. \A f \in Events : state[f] = "dead" => wq'[f] = wq[f]
    BY Zenon, <2>1, <1>0
  <2> QED BY Zenon, <2>1, <2>2, QueuesShrink
<1>6. ASSUME NEW w \in Waiters, free_waiter(w) PROVE DeadIsEmpty'
  <2>2. PICK i \in Slots, e \in Events \cup {NULL} : i = idx[w] /\ e = event[w][i]
    <3>1. idx[w] \in Slots
      BY <1>6 DEF free_waiter, EWInv, TypeOK, WaiterTypes, ThreadTypes, Calls, Slots
    <3> QED BY <3>1, <1>0 DEF TypeOK, WaiterTypes
  <2> DEFINE q == QueueWithout(w, i, e)
  <2>3. /\ state' = state
        /\ \/ wq' = wq
           \/ e # NULL /\ set_event(e, q)
           \/ e # NULL /\ wq' = [wq EXCEPT ![e] = q]
    BY Zenon, <1>6, <2>2 DEF free_waiter
  <2>4. q \in SUBSET wq[e]
    BY Zenon DEF QueueWithout
  <2> HIDE DEF q
  <2>5. \A f \in Events : wq'[f] \subseteq wq[f]
    <3>1. CASE wq' = wq
      BY Zenon, <3>1
    <3>2. CASE e # NULL /\ set_event(e, q)
      BY Zenon, <3>2, <2>2, <2>4, <1>0, SetShrinks
    <3>3. CASE e # NULL /\ wq' = [wq EXCEPT ![e] = q]
      BY Zenon, <3>3, <2>2, <2>4, <1>0
    <3> QED BY Zenon, <3>1, <3>2, <3>3, <2>3
  <2> QED BY Zenon, <2>3, <2>5, QueuesShrink
<1>7. ASSUME NEW w \in Waiters, WaitReturns(w) PROVE DeadIsEmpty'
  <2>1. /\ state' = state
        /\ \A e \in Events : wq'[e] = {IF x[1] = w THEN <<NULL, x[2]>> ELSE x : x \in wq[e]}
    BY Zenon, <1>7 DEF WaitReturns
  <2>2. \A e \in Events : wq[e] = {} => wq'[e] = {}
    BY Zenon, <2>1
  <2> QED BY Zenon, <2>1, <2>2 DEF DeadIsEmpty
<1>8. ASSUME NEW w \in Waiters,
             \/ InitFails(w) \/ InitDone(w) \/ ScanMore(w) \/ FirstCheck(w) \/ LoopTop(w) \/ TestCheck(w)
             \/ ScheduleReturns(w) \/ copy_signaled_event_data(w) \/ StartWait(w) \/ Relock(w)
             \/ TimerExpires(w) \/ \E k \in Signals : Signal(w, k)
      PROVE  DeadIsEmpty'
  <2>1. UNCHANGED eventVars
    BY Zenon, <1>8 DEF InitFails, InitDone, ScanMore, FirstCheck, LoopTop, TestCheck, ScheduleReturns,
       copy_signaled_event_data, StartWait, Relock, TimerExpires, Signal
  <2> QED BY Zenon, <1>1, <2>1 DEF eventVars
<1>9. ASSUME NEW s \in Setters, (\E e \in Events : lookup_event(s, e)) \/ kfd_reset_event(s)
      PROVE  DeadIsEmpty'
  <2>1. UNCHANGED <<state, wq>>
    BY Zenon, <1>9 DEF lookup_event, kfd_reset_event, eventVars
  <2> QED BY Zenon, <1>1, <2>1
<1>10. CASE UNCHANGED vars
  BY Zenon, <1>1, <1>10 DEF vars, eventVars
<1>11. CASE Next
  BY Zenon, <1>2, <1>3, <1>4, <1>5, <1>6, <1>7, <1>8, <1>9, <1>11 DEF Next, WaiterStep
<1> QED BY Zenon, <1>10, <1>11

(* Finished waits leave entries only in the queues of stray events: those that
   were destroyed while the task of a queued waiter was awake. *)
THEOREM FreedWaitersLeft == Spec => []FreedWaitersHaveLeft
<1>0. Init => DeadIsEmpty
  <2> SUFFICES ASSUME Init PROVE DeadIsEmpty
    OBVIOUS
  <2>1. \A e \in Events : wq[e] = {}
    BY Zenon DEF Init
  <2> QED BY Zenon, <2>1 DEF DeadIsEmpty
<1>a. Spec => []DeadIsEmpty
  <2>1. EWInv /\ DeadIsEmpty /\ [Next]_vars => DeadIsEmpty'
    BY Zenon, DeadStaysEmpty
  <2> QED BY <1>0, <2>1, EWInvariant, PTL DEF Spec
<1>1. EWInv /\ DeadIsEmpty => FreedWaitersHaveLeft
  <2> SUFFICES ASSUME EWInv, DeadIsEmpty, NEW e \in Events, state[e] # "stray", NEW x \in wq[e]
               PROVE  x[1] # NULL
    BY Zenon DEF FreedWaitersHaveLeft
  <2>0. state[e] = "live"
    BY Zenon DEF EWInv, TypeOK, EventTypes, Shared, NotCreated, DeadIsEmpty
  <2>1. PICK v \in Waiters \cup {NULL}, i \in Slots : x = <<v, i>>
    BY DEF EWInv, TypeOK, EventTypes
  <2>2. v \in Waiters
    BY Zenon, <2>0, <2>1 DEF EWInv, Shared, QueuedIsWaiting
  <2> QED BY Zenon, <2>1, <2>2, EventWaitAssumption
<1> QED BY <1>1, <1>a, EWInvariant, PTL
=============================================================================
