--------------------------- MODULE EvictionProofs ---------------------------
(***************************************************************************)
(* Proofs about Eviction, for any process, bounds and mix of evictors.     *)
(*                                                                         *)
(* Of the driver's state the evictors share only qpd->evicted and          *)
(* process_info->lock, so the inductive invariant has a part for each of   *)
(* them (TtmInv, UserInv, SvmInv), and HoldsAreCounted, which ties evicted *)
(* to all of them.                                                         *)
(***************************************************************************)
EXTENDS Eviction, WellFoundedInduction, TLAPS

(***************************************************************************)
(* The eviction of the whole process.                                      *)
(***************************************************************************)
TtmTypes ==
    /\ signaled \in BOOLEAN /\ moved \in BOOLEAN
    /\ evict_queued \in BOOLEAN /\ restore_queued \in BOOLEAN /\ lost \in BOOLEAN
    /\ evict_pc \in {"idle", "signal", "schedule", "undo"}
    /\ restore_pc \in {"idle", "bos", "queues"}
    /\ system_pc \in {"idle", "signal", "bos", "queues"}
    /\ kfd_locked \in Nat

(* The processes are stopped before a device is suspended, and started after
   the last one has resumed. *)
SystemPhase ==
    /\ system_pc = "signal" => kfd_locked > 0
    /\ system_pc \in {"bos", "queues"} => kfd_locked = 0

(* Somebody who holds the queues has yet to restore the BOs of the process. *)
WillRestore ==
    \/ evict_pc = "schedule" \/ restore_queued \/ restore_pc = "bos"
    \/ kfd_locked > 0 \/ system_pc = "bos"

TtmInv == TtmTypes /\ SystemPhase /\ (signaled \/ moved => WillRestore)

(***************************************************************************)
(* Userptr BOs.                                                            *)
(***************************************************************************)
Busy == {"pages", "mark", "validate", "confirm"}

UserTypes ==
    /\ inv \subseteq Bos /\ mapped \subseteq live /\ live \subseteq Bos
    /\ freeing \in Bos \cup {None} /\ freeing \notin live
    /\ system \subseteq inval_list /\ inval_list \subseteq live
    /\ ver \in [Bos -> Nat] /\ invalid \in [Bos -> Nat]
    /\ pages \in [Bos -> Nat \cup {None}] /\ range \in [Bos -> Nat \cup {None}]
    /\ pte \in [Bos -> Nat \cup {None}]
    /\ evicted_bos \in Nat /\ user_queued \in BOOLEAN /\ warned \in BOOLEAN

(* process_info->lock: whoever holds it, the BO it is held for, and what
   map_memory_to_gpu has decided. *)
LockInit == [by : {"init", "validate"}, bo : Bos]
LockMap == [by : {"map"}, bo : Bos, no_update : BOOLEAN]
LockWork == [by : {"userptr", "svm"}]
LockTypes == lock \in {Free} \cup LockInit \cup LockMap \cup LockWork

(* The worker: where it is, the count it has seen, and the BO it has in hand
   with its count of invalidations and the BOs after it. *)
UserShort == [pc : {"lock", "validate", "confirm"}, n : Nat]
UserLong == [pc : {"pages", "mark"}, n : Nat, bo : Bos, invalid : Nat, todo : SUBSET Bos]
WorkerTypes == user \in {UserIdle} \cup UserShort \cup UserLong

(* The pages the driver has for b are those b has, and stay so for now. *)
Fresh(b) == b \notin inv /\ pages[b] = ver[b]

(* Who holds process_info->lock, and for which BO. *)
LockIsHeld ==
    /\ user.pc \in Busy <=> lock.by = "userptr"
    /\ lock.by \in {"init", "validate", "map"} => lock.bo \in live \ mapped
    /\ lock.by = "init" => range[lock.bo] = None
    /\ lock.by = "map" /\ lock.no_update => invalid[lock.bo] > 0 \/ lock.bo \in system

(* A BO that is not invalid has its pages, once it is initialised. *)
ValidIsFresh ==
    \A b \in live : invalid[b] = 0 => Fresh(b) \/ (lock.by = "init" /\ lock.bo = b)

(* What the GPU maps, unless the worker is to update it. *)
MappedIsUpdated ==
    \A b \in mapped : invalid[b] > 0 \/ b \in system \/ pte[b] = pages[b]

(* Pages to be confirmed are those the driver has. *)
RangeIsPages ==
    /\ \A b \in Bos : range[b] # None => range[b] = pages[b]
    /\ \A b \in Bos \ live : b # freeing => range[b] = None /\ invalid[b] = 0

(* What the worker has left to do is counted in evicted_bos. *)
InvalidIsCounted == \A b \in live : invalid[b] > 0 \/ b \in system => evicted_bos > 0

(* How far the worker is: while nobody evicts, the BOs it has gone past are
   valid. *)
WorkerProgress ==
    /\ user.pc # "idle" => user.n > 0 /\ evicted_bos >= user.n
    /\ user.pc \in {"pages", "mark"} =>
         /\ user.bo \in inval_list /\ user.todo \subseteq inval_list /\ user.bo \notin user.todo
         /\ user.invalid > 0 /\ invalid[user.bo] >= user.invalid
         /\ evicted_bos = user.n =>
              \A b \in live : invalid[b] > 0 => b = user.bo \/ b \in user.todo
    /\ user.pc = "mark" => /\ user.bo \in system
                           /\ invalid[user.bo] = user.invalid => Fresh(user.bo)
    /\ user.pc \in {"validate", "confirm"} /\ evicted_bos = user.n =>
         \A b \in live : invalid[b] = 0
    /\ user.pc = "confirm" => system = {}

UserInv ==
    /\ UserTypes /\ LockTypes /\ WorkerTypes /\ LockIsHeld
    /\ ValidIsFresh /\ MappedIsUpdated /\ RangeIsPages /\ InvalidIsCounted /\ WorkerProgress
    /\ ~ warned

(***************************************************************************)
(* SVM ranges.                                                             *)
(***************************************************************************)
(* The worker: where it is, the count and the ranges it goes through, and the
   range it has in hand. *)
SvmRests == [pc : {"idle", "lock", "resume"}]
SvmScanning == [pc : {"scan"}, n : Nat, todo : SUBSET Ranges]
SvmGetting == [pc : {"pages"}, n : Nat, todo : SUBSET Ranges, r : Ranges, invalid : Nat]
SvmMapping == [pc : {"map", "clear"}, n : Nat, todo : SUBSET Ranges, r : Ranges,
               invalid : Nat, got : Nat]

SvmTypes ==
    /\ rinv \subseteq Ranges
    /\ rver \in [Ranges -> Nat] /\ rpte \in [Ranges -> Nat] /\ rinvalid \in [Ranges -> Nat]
    /\ callback \in [Ranges -> {"none", "count", "quiesce", "queue"}]
    /\ evicted_ranges \in Nat /\ svm_queued \in BOOLEAN
    /\ svm \in SvmRests \cup SvmScanning \cup SvmGetting \cup SvmMapping

Scanning == {"scan", "pages", "map", "clear"}
Current(r) == r \notin rinv /\ rpte[r] = rver[r]

(* Between the first eviction and the restore exactly one has to see to the
   rest: the callback of the first eviction, the pending work, or the worker. *)
OneInCharge ==
    /\ evicted_ranges > 0 <=> \/ svm_queued \/ svm.pc \in Scanning \cup {"lock"}
                              \/ \E r \in Ranges : callback[r] \in {"quiesce", "queue"}
    /\ svm_queued => svm.pc \in {"idle", "resume"}
    /\ svm_queued \/ svm.pc \in Scanning \cup {"lock"} =>
         \A r \in Ranges : callback[r] \notin {"quiesce", "queue"}
    /\ \A r, s \in Ranges : callback[r] \in {"quiesce", "queue"}
                            /\ callback[s] \in {"quiesce", "queue"} => r = s

SvmLock == svm.pc \in Scanning \cup {"resume"} <=> lock.by = "svm"

(* A range that is not invalid is mapped as it is. *)
ValidIsCurrent == \A r \in Ranges : rinvalid[r] = 0 => Current(r)

(* An invalid range is counted, unless its callback is about to. *)
RangeIsCounted ==
    \A r \in Ranges : rinvalid[r] > 0 /\ callback[r] # "count" => evicted_ranges > 0

OtherRanges == \A r \in Ranges \ setup.ranges : rinvalid[r] = 0

ScanProgress ==
    /\ svm.pc \in Scanning =>
         /\ svm.n > 0 /\ evicted_ranges >= svm.n
         /\ evicted_ranges = svm.n =>
              \A r \in Ranges : rinvalid[r] > 0 /\ callback[r] # "count" =>
                  r \in svm.todo \/ (svm.pc # "scan" /\ r = svm.r)
    /\ svm.pc \in {"pages", "map", "clear"} =>
         svm.invalid > 0 /\ rinvalid[svm.r] >= svm.invalid /\ svm.r \notin svm.todo
    /\ svm.pc = "clear" /\ rinvalid[svm.r] = svm.invalid => Current(svm.r)

SvmInv ==
    /\ SvmTypes /\ OneInCharge /\ SvmLock
    /\ ValidIsCurrent /\ RangeIsCounted /\ OtherRanges /\ ScanProgress

EvInv ==
    /\ setup \in Setups /\ evicted \in Nat
    /\ TtmInv /\ UserInv /\ SvmInv /\ HoldsAreCounted

-----------------------------------------------------------------------------
(* The evictions of each evictor that are to be undone. *)
TtmHolds ==
    Count(lost) + Count(evict_pc # "idle") + Count(restore_queued) + Count(restore_pc # "idle")
    + Count(kfd_locked > 0 \/ system_pc # "idle")
UserHolds == Count(evicted_bos > 0)
SvmHolds ==
    Count(evicted_ranges > 0 /\ \A r \in Ranges : callback[r] # "quiesce")
    + Count(svm.pc = "resume")

LEMMA HoldsTypes == TtmHolds \in Nat /\ UserHolds \in Nat /\ SvmHolds \in Nat
<1>1. \A P : Count(P) \in {0, 1}
  BY Zenon DEF Count
<1>2. /\ Count(evict_pc # "idle") \in {0, 1} /\ Count(restore_queued) \in {0, 1}
      /\ Count(lost) \in {0, 1} /\ Count(restore_pc # "idle") \in {0, 1}
      /\ Count(kfd_locked > 0 \/ system_pc # "idle") \in {0, 1}
  BY Zenon, <1>1
<1>3. /\ Count(evicted_bos > 0) \in {0, 1}
      /\ Count(evicted_ranges > 0 /\ \A r \in Ranges : callback[r] # "quiesce") \in {0, 1}
      /\ Count(svm.pc = "resume") \in {0, 1}
  BY Zenon, <1>1
<1>4. \A a, b, c, d, e \in {0, 1} : a + b + c + d + e \in Nat
  OBVIOUS
<1>5. \A a, b \in {0, 1} : a + b \in Nat
  OBVIOUS
<1>6. {0, 1} \subseteq Nat
  OBVIOUS
<1>7. TtmHolds \in Nat
  BY Zenon, <1>2, <1>4 DEF TtmHolds
<1>8. SvmHolds \in Nat
  BY Zenon, <1>3, <1>5 DEF SvmHolds
<1>9. UserHolds \in Nat
  BY Zenon, <1>3, <1>6 DEF UserHolds
<1> QED BY <1>7, <1>8, <1>9

-----------------------------------------------------------------------------
(* What a step of one evictor does to the count: h is what it holds before,
   i what it holds after the step. *)
Balanced(h, i) == evicted' \in Nat /\ evicted' - i = evicted - h

(* The setups are made of numbers. *)
LEMMA SetsOfNat == Ranges \subseteq Nat /\ Bos \subseteq Nat
BY Zenon, EvictAssumption DEF Ranges, Bos

(* Sets of numbers have a least one. *)
LEMMA NatHasLeast ==
    ASSUME NEW s \in SUBSET Nat, s # {}
    PROVE  Least(s) \in s /\ First(s) \in s /\ \A y \in s : Least(s) <= y
<1> DEFINE R == OpToRel(<, Nat)
<1>1. \A x \in Nat, y \in Nat : y < x => <<y, x>> \in R
  BY DEF OpToRel
<1>2. IsWellFoundedOn(R, Nat)
  BY Zenon, NatLessThanWellFounded
<1> HIDE DEF R
<1>3. PICK x \in s : \A y \in s : <<y, x>> \notin R
  BY Zenon, <1>2, WFMin
<1>4. ASSUME NEW y \in s PROVE x <= y
  <2>1. ~ (y < x)
    BY Zenon, <1>1, <1>3
  <2> QED BY <2>1
<1> QED BY Zenon, <1>4 DEF Least, First

(***************************************************************************)
(* Steps of the eviction of the whole process.                             *)
(***************************************************************************)
(* TTM asks for the memory of the process, and moves it: nothing is stopped. *)
LEMMA AsksKeepsInv ==
    ASSUME TtmInv, evicted \in Nat, schedule_evict_and_restore_process \/ TtmMoves
    PROVE  TtmInv' /\ TtmHolds' = TtmHolds /\ evicted' = evicted
<1> USE DEF TtmInv, TtmTypes, SystemPhase, WillRestore, shared, works, system_vars
<1>1. UNCHANGED <<evicted, evict_pc, restore_queued, restore_pc, lost, kfd_locked, system_pc>>
  BY Zenon DEF schedule_evict_and_restore_process, TtmMoves
<1>2. TtmHolds' = TtmHolds
  BY Zenon, <1>1 DEF TtmHolds
<1>3. CASE schedule_evict_and_restore_process
  <2>1. UNCHANGED <<signaled, moved>> /\ evict_queued' \in BOOLEAN
    BY Zenon, <1>3 DEF schedule_evict_and_restore_process
  <2> QED BY Zenon, <1>1, <1>2, <2>1
<1>4. CASE TtmMoves
  <2>1. UNCHANGED <<signaled, evict_queued>> /\ moved' \in BOOLEAN /\ signaled
    BY Zenon, <1>4 DEF TtmMoves
  <2> QED BY Zenon, <1>1, <1>2, <2>1
<1> QED BY <1>3, <1>4

(* evict_process_worker: a hold is taken, moves to restore_work, or is undone. *)
LEMMA EvictWorkerKeepsInv ==
    ASSUME TtmInv, evicted \in Nat, evicted >= TtmHolds, EvictWorker
    PROVE  TtmInv' /\ Balanced(TtmHolds, TtmHolds')
<1> USE DEF TtmInv, TtmTypes, SystemPhase, WillRestore, shared, fence, system_vars
<1>1. CASE EvictStops
  <2>1. TtmInv'
    BY Zenon, <1>1 DEF EvictStops, evict_queues
  <2>2. Balanced(TtmHolds, TtmHolds')
    BY <1>1 DEF EvictStops, evict_queues, TtmHolds, Count, Balanced
  <2> QED BY <2>1, <2>2
<1>2. CASE EvictSignals
  <2>1. TtmInv'
    BY Zenon, <1>2 DEF EvictSignals
  <2>2. Balanced(TtmHolds, TtmHolds')
    BY <1>2 DEF EvictSignals, TtmHolds, Count, Balanced
  <2> QED BY <2>1, <2>2
<1>3. CASE EvictSchedulesRestore
  <2>1. TtmInv'
    BY Zenon, <1>3 DEF EvictSchedulesRestore
  <2>2. Balanced(TtmHolds, TtmHolds')
    BY <1>3 DEF EvictSchedulesRestore, TtmHolds, Count, Balanced
  <2> QED BY <2>1, <2>2
<1>4. CASE EvictUndoes
  <2>1. TtmInv'
    BY Zenon, <1>4 DEF EvictUndoes, restore_queues
  <2>2. Balanced(TtmHolds, TtmHolds')
    BY <1>4 DEF EvictUndoes, restore_queues, TtmHolds, Count, Balanced
  <2> QED BY <2>1, <2>2
<1>5. CASE EvictFails
  <2>1. TtmInv'
    BY Zenon, <1>5 DEF EvictFails, evict_queues, Fail
  <2>2. ~ lost /\ lost' = TRUE /\ evicted' = evicted + 1
        /\ UNCHANGED <<evict_pc, restore_queued, restore_pc, kfd_locked, system_pc>>
    <3>1. evicted = 0
      BY Zenon, <1>5 DEF EvictFails
    <3>2. ASSUME lost PROVE FALSE
      <4>1. TtmHolds > 0
        BY <3>2 DEF TtmHolds, Count
      <4> QED BY <3>1, <4>1, HoldsTypes
    <3> QED BY Zenon, <1>5, <3>2 DEF EvictFails, evict_queues
  <2>3. Balanced(TtmHolds, TtmHolds')
    BY <2>2 DEF TtmHolds, Count, Balanced
  <2> QED BY <2>1, <2>3
<1> QED BY Zenon, <1>1, <1>2, <1>3, <1>4, <1>5 DEF EvictWorker

(* restore_process_worker *)
LEMMA RestoreWorkerKeepsInv ==
    ASSUME TtmInv, evicted \in Nat, evicted >= TtmHolds, RestoreWorker
    PROVE  TtmInv' /\ Balanced(TtmHolds, TtmHolds')
<1> USE DEF TtmInv, TtmTypes, SystemPhase, WillRestore, shared, fence, system_vars
<1>1. CASE RestoreStarts
  <2>1. TtmInv'
    BY Zenon, <1>1 DEF RestoreStarts
  <2>2. Balanced(TtmHolds, TtmHolds')
    BY <1>1 DEF RestoreStarts, TtmHolds, Count, Balanced
  <2> QED BY <2>1, <2>2
<1>2. CASE RestoreBos
  <2>1. TtmInv'
    BY Zenon, <1>2 DEF RestoreBos, restore_process_bos, Fail
  <2>2. Balanced(TtmHolds, TtmHolds')
    BY <1>2 DEF RestoreBos, restore_process_bos, Fail, TtmHolds, Count, Balanced
  <2> QED BY <2>1, <2>2
<1>3. CASE RestoreQueues
  <2>1. TtmInv'
    BY Zenon, <1>3 DEF RestoreQueues, restore_queues
  <2>2. Balanced(TtmHolds, TtmHolds')
    BY <1>3 DEF RestoreQueues, restore_queues, TtmHolds, Count, Balanced
  <2> QED BY <2>1, <2>2
<1> QED BY Zenon, <1>1, <1>2, <1>3 DEF RestoreWorker

(* kgd2kfd_suspend and kgd2kfd_resume *)
LEMMA SystemKeepsInv ==
    ASSUME TtmInv, evicted \in Nat, evicted >= TtmHolds, kgd2kfd_suspend \/ System
    PROVE  TtmInv' /\ Balanced(TtmHolds, TtmHolds')
<1> USE DEF TtmInv, TtmTypes, SystemPhase, WillRestore, shared, fence, works
<1>1. CASE kgd2kfd_suspend
  <2>1. TtmInv'
    BY <1>1 DEF kgd2kfd_suspend, evict_queues
  <2>2. Balanced(TtmHolds, TtmHolds')
    BY <1>1 DEF kgd2kfd_suspend, evict_queues, TtmHolds, Count, Balanced
  <2> QED BY <2>1, <2>2
<1>2. CASE SuspendSignals
  <2>1. TtmInv'
    BY Zenon, <1>2 DEF SuspendSignals
  <2>2. Balanced(TtmHolds, TtmHolds')
    BY <1>2 DEF SuspendSignals, TtmHolds, Count, Balanced
  <2> QED BY <2>1, <2>2
<1>3. CASE kgd2kfd_resume
  <2>1. TtmInv'
    BY <1>3 DEF kgd2kfd_resume
  <2>2. Balanced(TtmHolds, TtmHolds')
    BY <1>3 DEF kgd2kfd_resume, TtmHolds, Count, Balanced
  <2> QED BY <2>1, <2>2
<1>4. CASE ResumeBos
  <2>1. TtmInv'
    BY Zenon, <1>4 DEF ResumeBos, restore_process_bos
  <2>2. Balanced(TtmHolds, TtmHolds')
    BY <1>4 DEF ResumeBos, restore_process_bos, TtmHolds, Count, Balanced
  <2> QED BY <2>1, <2>2
<1>5. CASE ResumeQueues
  <2>1. TtmInv'
    BY Zenon, <1>5 DEF ResumeQueues, restore_queues
  <2>2. Balanced(TtmHolds, TtmHolds')
    BY <1>5 DEF ResumeQueues, restore_queues, TtmHolds, Count, Balanced
  <2> QED BY <2>1, <2>2
<1> QED BY Zenon, <1>1, <1>2, <1>3, <1>4, <1>5 DEF System

(***************************************************************************)
(* Steps with userptr BOs.                                                 *)
(***************************************************************************)
LEMMA SetupBos == ASSUME setup \in Setups PROVE setup.bos \subseteq Bos
BY Zenon DEF Bos

(* The lock by who holds it. *)
LEMMA LockByName ==
    ASSUME LockTypes
    PROVE  /\ lock.by \in {"nobody", "init", "validate", "map", "userptr", "svm"}
           /\ lock.by = "nobody" => lock = Free
           /\ lock.by \in {"init", "validate"} => lock \in LockInit
           /\ lock.by \in {"init", "validate", "map"} => lock.bo \in Bos
<1>1. lock = Free \/ lock \in LockInit \/ lock \in LockMap \/ lock \in LockWork
  BY Zenon DEF LockTypes
<1>2. lock = Free => lock.by = "nobody"
  BY DEF Free
<1>3. lock \in LockInit => lock.by \in {"init", "validate"} /\ lock.bo \in Bos
  BY Zenon DEF LockInit
<1>4. lock \in LockMap => lock.by = "map" /\ lock.bo \in Bos
  BY Zenon DEF LockMap
<1>5. lock \in LockWork => lock.by \in {"userptr", "svm"}
  BY Zenon DEF LockWork
<1> QED BY Zenon, <1>1, <1>2, <1>3, <1>4, <1>5

(* The worker by where it is. *)
LEMMA UserByPc ==
    ASSUME WorkerTypes
    PROVE  /\ user.pc \in Busy \cup {"idle", "lock"}
           /\ user.pc # "idle" => user.n \in Nat
           /\ user.pc \in {"pages", "mark"} =>
                /\ user \in UserLong
                /\ user.bo \in Bos /\ user.invalid \in Nat /\ user.todo \in SUBSET Bos
<1>1. user = UserIdle \/ user \in UserShort \/ user \in UserLong
  BY Zenon DEF WorkerTypes
<1>2. user = UserIdle => user.pc = "idle"
  BY DEF UserIdle
<1>3. user \in UserShort => user.pc \in {"lock", "validate", "confirm"} /\ user.n \in Nat
  BY Zenon DEF UserShort
<1>4. user \in UserLong => /\ user.pc \in {"pages", "mark"} /\ user.n \in Nat /\ user.bo \in Bos
                           /\ user.invalid \in Nat /\ user.todo \in SUBSET Bos
  BY Zenon DEF UserLong
<1> QED BY Zenon, <1>1, <1>2, <1>3, <1>4 DEF Busy

(* None is no BO. *)
LEMMA NoneIsNoBo == None \notin Bos
BY SetsOfNat DEF None

(* Counters are zero or positive. *)
LEMMA Positive == (\A n \in Nat : n = 0 <=> ~ (n > 0)) /\ ~ (0 > 0)
OBVIOUS

(* What update_invalid_user_pages goes to next, when f counts the invalidations:
   the first invalid BO of todo, or on, when none of todo is invalid. *)
InHand(u, n, todo, f) ==
    /\ u \in UserLong /\ u.pc = "pages" /\ u.n = n
    /\ u.bo \in todo /\ u.todo \subseteq todo /\ u.bo \notin u.todo
    /\ u.invalid = f[u.bo] /\ f[u.bo] > 0
    /\ \A x \in todo : f[x] > 0 => x = u.bo \/ x \in u.todo
NoneLeft(u, n, todo, f, list) ==
    /\ u \in UserShort /\ u.pc \in {"validate", "confirm"} /\ u.n = n
    /\ u.pc = "confirm" => list = {}
    /\ \A x \in todo : ~ (f[x] > 0)

LEMMA NextInvalidFacts ==
    ASSUME NEW n \in Nat, NEW todo \in SUBSET Bos, NEW f \in [Bos -> Nat], NEW list,
           NEW u, u = NextInvalid(n, todo, f, list)
    PROVE  InHand(u, n, todo, f) \/ NoneLeft(u, n, todo, f, list)
<1> DEFINE cand == {x \in todo : f[x] > 0}
           b == Least(cand)
           rest == {x \in todo : x > b}
<1>1. CASE cand = {}
  <2>1. u = [pc |-> IF list = {} THEN "confirm" ELSE "validate", n |-> n]
    BY Zenon, <1>1 DEF NextInvalid
  <2>2. u \in UserShort /\ u.pc \in {"validate", "confirm"} /\ u.n = n
        /\ (u.pc = "confirm" => list = {})
    <3>1. CASE list = {}
      <4>1. u = [pc |-> "confirm", n |-> n]
        BY <2>1, <3>1
      <4> QED BY <3>1, <4>1 DEF UserShort
    <3>2. CASE list # {}
      <4>1. u = [pc |-> "validate", n |-> n]
        BY <2>1, <3>2
      <4> QED BY <4>1 DEF UserShort
    <3> QED BY <3>1, <3>2
  <2> QED BY Zenon, <1>1, <2>2 DEF NoneLeft
<1>2. CASE cand # {}
  <2>1. b \in cand /\ \A y \in cand : b <= y
    BY Zenon, <1>2, SetsOfNat, NatHasLeast
  <2>2. u = [pc |-> "pages", n |-> n, bo |-> b, invalid |-> f[b], todo |-> rest]
    BY Zenon, <1>2 DEF NextInvalid
  <2>3. b \in Bos /\ f[b] \in Nat /\ f[b] > 0 /\ b \in todo /\ rest \in SUBSET Bos /\ rest \subseteq todo
    BY Zenon, <2>1
  <2>4. b \notin rest /\ \A x \in todo : f[x] > 0 => x = b \/ x \in rest
    <3> HIDE DEF b
    <3> QED BY <2>1, <2>3, SetsOfNat
  <2> HIDE DEF b, rest
  <2>5. /\ u \in UserLong /\ u.pc = "pages" /\ u.n = n /\ u.bo = b /\ u.invalid = f[b]
        /\ u.todo = rest
    BY <2>2, <2>3 DEF UserLong
  <2> QED BY Zenon, <2>3, <2>4, <2>5 DEF InHand
<1> QED BY <1>1, <1>2

UserLockMoves == lock' = lock \/ (lock.by # "svm" /\ lock'.by # "svm")

(* A step that does not touch the counts. *)
LEMMA UserStill ==
    ASSUME evicted \in Nat, UNCHANGED <<evicted, evicted_bos>>
    PROVE  Balanced(UserHolds, UserHolds')
<1>1. UserHolds' = UserHolds
  BY Zenon DEF UserHolds
<1> QED BY <1>1, HoldsTypes DEF Balanced

(* A worker that does not hold the lock has nothing in hand. *)
LEMMA WorkerRests ==
    ASSUME WorkerProgress, user.pc \notin Busy, UNCHANGED <<user, evicted_bos>>
    PROVE  WorkerProgress'
BY Zenon DEF WorkerProgress, Busy

(* init_user_pages registers the notifier of a BO, *)
LEMMA InitUserPagesKeepsInv ==
    ASSUME UserInv, setup \in Setups, evicted \in Nat, NEW b \in setup.bos, init_user_pages(b)
    PROVE  UserInv' /\ UserLockMoves /\ Balanced(UserHolds, UserHolds')
<1> USE DEF UserInv
<1>1. /\ lock = Free /\ b \in Bos /\ b \notin live /\ freeing = None
      /\ live' = live \cup {b} /\ lock' = [by |-> "init", bo |-> b]
      /\ UNCHANGED <<setup, evicted, ver, inv, mapped, freeing, pages, pte, invalid, range, inval_list, system,
                     evicted_bos, user_queued, user, warned>>
  BY Zenon, SetupBos DEF init_user_pages, NoIoctl, mm, userWork
<1>2. lock.by = "nobody" /\ lock'.by = "init" /\ lock'.bo = b /\ lock' \in LockInit
  BY <1>1 DEF Free, LockInit
<1>3. UserTypes' /\ LockTypes' /\ WorkerTypes'
  BY Zenon, <1>1, <1>2, NoneIsNoBo DEF UserTypes, LockTypes, WorkerTypes
<1>4. user.pc \notin Busy /\ b \notin mapped /\ b \notin system /\ invalid[b] = 0 /\ range[b] = None
  BY Zenon, <1>1, <1>2, NoneIsNoBo DEF LockIsHeld, UserTypes, RangeIsPages
<1>5. LockIsHeld'
  BY Zenon, <1>1, <1>2, <1>4 DEF LockIsHeld
<1>6. ValidIsFresh' /\ MappedIsUpdated'
  BY Zenon, <1>1, <1>2 DEF ValidIsFresh, Fresh, MappedIsUpdated
<1>7. RangeIsPages' /\ InvalidIsCounted'
  BY Zenon, <1>1, <1>4, Positive DEF RangeIsPages, InvalidIsCounted
<1>8. WorkerProgress'
  BY Zenon, <1>1, <1>4, WorkerRests
<1>9. UserLockMoves /\ Balanced(UserHolds, UserHolds')
  BY Zenon, <1>1, <1>2, UserStill DEF UserLockMoves
<1> QED BY Zenon, <1>1, <1>3, <1>5, <1>6, <1>7, <1>8, <1>9

(* gets its pages, *)
LEMMA InitGetsPagesKeepsInv ==
    ASSUME UserInv, evicted \in Nat, InitGetsPages
    PROVE  UserInv' /\ UserLockMoves /\ Balanced(UserHolds, UserHolds')
<1> USE DEF UserInv
<1> DEFINE b == lock.bo
<1>1. /\ lock.by = "init" /\ b \notin inv
      /\ pages' = [pages EXCEPT ![b] = ver[b]] /\ lock' = [lock EXCEPT !.by = "validate"]
      /\ UNCHANGED <<setup, evicted, ver, inv, live, mapped, freeing, pte, invalid, range, inval_list, system,
                     evicted_bos, user_queued, user, warned>>
  BY Zenon DEF InitGetsPages, mm, userWork
<1>2. lock \in LockInit /\ b \in Bos /\ b \in live /\ b \notin mapped /\ range[b] = None
  BY Zenon, <1>1, LockByName DEF LockIsHeld
<1>3. lock' \in LockInit /\ lock'.by = "validate" /\ lock'.bo = b
  BY Zenon, <1>1, <1>2 DEF LockInit
<1>4. /\ pages' \in [Bos -> Nat \cup {None}] /\ pages'[b] = ver[b]
      /\ \A x \in Bos : x # b => pages'[x] = pages[x]
  BY Zenon, <1>1, <1>2 DEF UserTypes
<1> HIDE DEF b
<1>5. UserTypes' /\ LockTypes' /\ WorkerTypes'
  BY Zenon, <1>1, <1>3, <1>4 DEF UserTypes, LockTypes, WorkerTypes
<1>6. user.pc \notin Busy
  BY Zenon, <1>1 DEF LockIsHeld
<1>7. LockIsHeld'
  BY Zenon, <1>1, <1>2, <1>3, <1>6 DEF LockIsHeld
<1>8. ValidIsFresh'
  BY Zenon, <1>1, <1>4 DEF ValidIsFresh, Fresh, UserTypes, b
<1>9. MappedIsUpdated' /\ RangeIsPages' /\ InvalidIsCounted'
  BY Zenon, <1>1, <1>2, <1>4 DEF MappedIsUpdated, RangeIsPages, InvalidIsCounted, UserTypes
<1>10. WorkerProgress'
  BY Zenon, <1>1, <1>6, WorkerRests
<1>11. UserLockMoves /\ Balanced(UserHolds, UserHolds')
  BY Zenon, <1>1, <1>3, UserStill DEF UserLockMoves
<1> QED BY Zenon, <1>1, <1>5, <1>7, <1>8, <1>9, <1>10, <1>11

(* A thread that holds the lock for one BO releases it. *)
LEMMA InitValidatedKeepsInv ==
    ASSUME UserInv, evicted \in Nat, InitValidated
    PROVE  UserInv' /\ UserLockMoves /\ Balanced(UserHolds, UserHolds')
<1> USE DEF UserInv
<1>1. /\ lock.by = "validate" /\ lock' = Free
      /\ UNCHANGED <<setup, evicted, ver, inv, live, mapped, freeing, pages, pte, invalid, range, inval_list,
                     system, evicted_bos, user_queued, user, warned>>
  BY Zenon DEF InitValidated, userptr, mm, bo, userWork
<1>2. lock'.by = "nobody"
  BY <1>1 DEF Free
<1>3. UserTypes' /\ LockTypes' /\ WorkerTypes' /\ user.pc \notin Busy
  BY Zenon, <1>1 DEF UserTypes, LockTypes, WorkerTypes, LockIsHeld
<1>4. LockIsHeld' /\ ValidIsFresh'
  BY Zenon, <1>1, <1>2, <1>3 DEF LockIsHeld, ValidIsFresh, Fresh
<1>5. MappedIsUpdated' /\ RangeIsPages' /\ InvalidIsCounted'
  BY Zenon, <1>1 DEF MappedIsUpdated, RangeIsPages, InvalidIsCounted
<1>6. WorkerProgress' /\ UserLockMoves /\ Balanced(UserHolds, UserHolds')
  BY Zenon, <1>1, <1>2, <1>3, WorkerRests, UserStill DEF UserLockMoves
<1> QED BY Zenon, <1>1, <1>3, <1>4, <1>5, <1>6

(* map_memory_to_gpu decides whether to update the page table, *)
LEMMA MapLooksKeepsInv ==
    ASSUME UserInv, evicted \in Nat, NEW b \in setup.bos, MapLooks(b)
    PROVE  UserInv' /\ UserLockMoves /\ Balanced(UserHolds, UserHolds')
<1> USE DEF UserInv
<1> DEFINE nu == invalid[b] > 0 \/ b \in system
<1>1. /\ lock = Free /\ b \in live /\ b \notin mapped /\ b \in Bos
      /\ lock' = [by |-> "map", bo |-> b, no_update |-> nu]
      /\ UNCHANGED <<setup, evicted, ver, inv, live, mapped, freeing, pages, pte, invalid, range, inval_list,
                     system, evicted_bos, user_queued, user, warned>>
  BY Zenon DEF MapLooks, userptr, mm, bo, userWork, UserTypes
<1>2. nu \in BOOLEAN
  BY Zenon
<1> HIDE DEF nu
<1>3. lock.by = "nobody" /\ lock'.by = "map" /\ lock'.bo = b /\ lock'.no_update = nu /\ lock' \in LockMap
  BY <1>1, <1>2 DEF Free, LockMap
<1>4. UserTypes' /\ LockTypes' /\ WorkerTypes' /\ user.pc \notin Busy
  BY Zenon, <1>1, <1>3 DEF UserTypes, LockTypes, WorkerTypes, LockIsHeld
<1>5. LockIsHeld' /\ ValidIsFresh'
  BY Zenon, <1>1, <1>3, <1>4 DEF LockIsHeld, ValidIsFresh, Fresh, nu
<1>6. MappedIsUpdated' /\ RangeIsPages' /\ InvalidIsCounted'
  BY Zenon, <1>1 DEF MappedIsUpdated, RangeIsPages, InvalidIsCounted
<1>7. WorkerProgress' /\ UserLockMoves /\ Balanced(UserHolds, UserHolds')
  BY Zenon, <1>1, <1>3, <1>4, WorkerRests, UserStill DEF UserLockMoves
<1> QED BY Zenon, <1>1, <1>4, <1>5, <1>6, <1>7

(* and updates it, unless the worker has to. *)
LEMMA MapUpdatesKeepsInv ==
    ASSUME UserInv, evicted \in Nat, MapUpdates
    PROVE  UserInv' /\ UserLockMoves /\ Balanced(UserHolds, UserHolds')
<1> USE DEF UserInv
<1> DEFINE b == lock.bo
<1>1. /\ lock.by = "map" /\ mapped' = mapped \cup {b} /\ lock' = Free
      /\ UNCHANGED <<setup, evicted, ver, inv, live, freeing, pages, invalid, range, inval_list, system,
                     evicted_bos, user_queued, user, warned>>
  BY Zenon DEF MapUpdates, mm, userWork
<1>2. lock'.by = "nobody" /\ b \in Bos /\ b \in live /\ user.pc \notin Busy
  <2>1. lock'.by = "nobody"
    BY <1>1 DEF Free
  <2> QED BY Zenon, <1>1, <2>1, LockByName DEF LockIsHeld
<1>3. /\ pte' \in [Bos -> Nat \cup {None}] /\ \A x \in Bos : x # b => pte'[x] = pte[x]
      /\ invalid[b] > 0 \/ b \in system \/ pte'[b] = pages[b]
  <2>1. CASE lock.no_update
    BY Zenon, <1>1, <2>1 DEF MapUpdates, LockIsHeld, UserTypes
  <2>2. CASE ~ lock.no_update
    BY Zenon, <1>2, <2>2 DEF MapUpdates, UserTypes
  <2> QED BY <2>1, <2>2
<1> HIDE DEF b
<1>4. UserTypes' /\ LockTypes' /\ WorkerTypes'
  BY Zenon, <1>1, <1>2, <1>3 DEF UserTypes, LockTypes, WorkerTypes
<1>5. LockIsHeld' /\ ValidIsFresh'
  BY Zenon, <1>1, <1>2 DEF LockIsHeld, ValidIsFresh, Fresh
<1>6. MappedIsUpdated'
  BY Zenon, <1>1, <1>3 DEF MappedIsUpdated, UserTypes
<1>7. RangeIsPages' /\ InvalidIsCounted'
  BY Zenon, <1>1 DEF RangeIsPages, InvalidIsCounted
<1>8. WorkerProgress' /\ UserLockMoves /\ Balanced(UserHolds, UserHolds')
  BY Zenon, <1>1, <1>2, WorkerRests, UserStill DEF UserLockMoves
<1> QED BY Zenon, <1>1, <1>4, <1>5, <1>6, <1>7, <1>8

(* A mapping that fails may leave an entry, but no BO that counts as mapped. *)
LEMMA MapFailsKeepsInv ==
    ASSUME UserInv, evicted \in Nat, MapFails
    PROVE  UserInv' /\ UserLockMoves /\ Balanced(UserHolds, UserHolds')
<1> USE DEF UserInv
<1>1. /\ lock.by = "map" /\ lock' = Free
      /\ UNCHANGED <<setup, evicted, ver, inv, live, mapped, freeing, pages, invalid, range,
                     inval_list, system, evicted_bos, user_queued, user, warned>>
  BY Zenon DEF MapFails, mm, userWork
<1>2. PICK b \in live \ mapped : b = lock.bo
  BY Zenon, <1>1 DEF LockIsHeld
<1>3. lock'.by = "nobody" /\ b \in Bos /\ user.pc \notin Busy
  <2>1. lock'.by = "nobody"
    BY <1>1 DEF Free
  <2> QED BY Zenon, <1>1, <2>1 DEF LockIsHeld, UserTypes
<1>4. pte' \in [Bos -> Nat \cup {None}] /\ \A x \in Bos : x # b => pte'[x] = pte[x]
  <2>1. pte' = pte \/ \E v \in {None, pages[b]} : pte' = [pte EXCEPT ![b] = v]
    <3>1. CASE lock.no_update
      BY Zenon, <3>1 DEF MapFails
    <3>2. CASE ~ lock.no_update
      BY Zenon, <1>2, <3>2 DEF MapFails
    <3> QED BY <3>1, <3>2
  <2>2. pages[b] \in Nat \cup {None} /\ pte \in [Bos -> Nat \cup {None}]
    BY Zenon, <1>3 DEF UserTypes
  <2>3. CASE pte' = pte
    BY Zenon, <2>2, <2>3
  <2>4. CASE \E v \in {None, pages[b]} : pte' = [pte EXCEPT ![b] = v]
    <3>1. PICK v \in Nat \cup {None} : pte' = [pte EXCEPT ![b] = v]
      BY Zenon, <2>2, <2>4
    <3> QED BY Zenon, <1>3, <2>2, <3>1
  <2> QED BY Zenon, <2>1, <2>3, <2>4
<1>5. UserTypes' /\ LockTypes' /\ WorkerTypes'
  BY Zenon, <1>1, <1>4 DEF UserTypes, LockTypes, WorkerTypes
<1>6. LockIsHeld' /\ ValidIsFresh'
  BY Zenon, <1>1, <1>3 DEF LockIsHeld, ValidIsFresh, Fresh
<1>7. MappedIsUpdated'
  BY Zenon, <1>1, <1>2, <1>4 DEF MappedIsUpdated, UserTypes
<1>8. RangeIsPages' /\ InvalidIsCounted'
  BY Zenon, <1>1 DEF RangeIsPages, InvalidIsCounted
<1>9. WorkerProgress' /\ UserLockMoves /\ Balanced(UserHolds, UserHolds')
  BY Zenon, <1>1, <1>3, WorkerRests, UserStill DEF UserLockMoves
<1> QED BY Zenon, <1>1, <1>5, <1>6, <1>7, <1>8, <1>9

(* unmap_memory_from_gpu, which does not take the lock. *)
LEMMA UnmapKeepsInv ==
    ASSUME UserInv, evicted \in Nat, NEW b \in setup.bos, unmap_memory_from_gpu(b)
    PROVE  UserInv' /\ UserLockMoves /\ Balanced(UserHolds, UserHolds')
<1> USE DEF UserInv
<1>1. /\ b \in mapped /\ b \in Bos /\ mapped' = mapped \ {b}
      /\ UNCHANGED <<setup, evicted, lock, ver, inv, live, freeing, pages, invalid, range, inval_list, system,
                     evicted_bos, user_queued, user, warned>>
  BY Zenon DEF unmap_memory_from_gpu, shared, mm, userWork, UserTypes
<1>2. pte' \in [Bos -> Nat \cup {None}] /\ \A x \in Bos : x # b => pte'[x] = pte[x]
  BY Zenon, <1>1 DEF unmap_memory_from_gpu, UserTypes
<1>3. UserTypes' /\ LockTypes' /\ WorkerTypes' /\ LockIsHeld'
  BY Zenon, <1>1, <1>2 DEF UserTypes, LockTypes, WorkerTypes, LockIsHeld
<1>4. MappedIsUpdated'
  BY Zenon, <1>1, <1>2 DEF MappedIsUpdated, UserTypes
<1>5. ValidIsFresh' /\ RangeIsPages' /\ InvalidIsCounted' /\ WorkerProgress'
  BY Zenon, <1>1 DEF ValidIsFresh, Fresh, RangeIsPages, InvalidIsCounted, WorkerProgress
<1>6. UserLockMoves /\ Balanced(UserHolds, UserHolds')
  BY Zenon, <1>1, UserStill DEF UserLockMoves
<1> QED BY Zenon, <1>1, <1>3, <1>4, <1>5, <1>6

(* free_memory_of_gpu hides a BO nobody holds from the worker, *)
LEMMA FreeKeepsInv ==
    ASSUME UserInv, evicted \in Nat, NEW b \in setup.bos, free_memory_of_gpu(b)
    PROVE  UserInv' /\ UserLockMoves /\ Balanced(UserHolds, UserHolds')
<1> USE DEF UserInv
<1>1. /\ lock = Free /\ b \in live /\ b \in Bos /\ b \notin mapped /\ freeing = None
      /\ freeing' = b /\ live' = live \ {b}
      /\ inval_list' = inval_list \ {b} /\ system' = system \ {b}
      /\ UNCHANGED <<setup, evicted, lock, ver, inv, mapped, pages, pte, range, invalid,
                     evicted_bos, user_queued, user, warned>>
  BY Zenon DEF free_memory_of_gpu, NoIoctl, shared, mm, userWork, UserTypes
<1>2. lock.by = "nobody"
  BY <1>1 DEF Free
<1>3. UserTypes' /\ LockTypes' /\ WorkerTypes' /\ user.pc \notin Busy
  BY Zenon, <1>1, <1>2 DEF UserTypes, LockTypes, WorkerTypes, LockIsHeld
<1>4. LockIsHeld'
  BY Zenon, <1>1, <1>2, <1>3 DEF LockIsHeld
<1>5. ValidIsFresh' /\ MappedIsUpdated'
  BY Zenon, <1>1 DEF ValidIsFresh, Fresh, MappedIsUpdated
<1>6. RangeIsPages' /\ InvalidIsCounted'
  BY Zenon, <1>1, NoneIsNoBo DEF RangeIsPages, InvalidIsCounted
<1>7. WorkerProgress' /\ UserLockMoves /\ Balanced(UserHolds, UserHolds')
  BY Zenon, <1>1, <1>3, WorkerRests, UserStill DEF UserLockMoves
<1> QED BY Zenon, <1>1, <1>3, <1>4, <1>5, <1>6, <1>7

(* and forgets it once its notifier is unregistered; evicted_bos stays. *)
LEMMA FreeUnregistersKeepsInv ==
    ASSUME UserInv, evicted \in Nat, FreeUnregisters
    PROVE  UserInv' /\ UserLockMoves /\ Balanced(UserHolds, UserHolds')
<1> USE DEF UserInv
<1>1. PICK b \in Bos : b = freeing
  BY Zenon DEF FreeUnregisters, UserTypes
<1>2. /\ freeing' = None /\ b \notin live
      /\ UNCHANGED <<setup, evicted, lock, ver, inv, live, mapped, inval_list, system,
                     evicted_bos, user_queued, user, warned>>
  BY Zenon, <1>1 DEF FreeUnregisters, shared, mm, userWork, UserTypes
<1>3. /\ pages' \in [Bos -> Nat \cup {None}] /\ \A x \in Bos : x # b => pages'[x] = pages[x]
      /\ pte' \in [Bos -> Nat \cup {None}] /\ \A x \in Bos : x # b => pte'[x] = pte[x]
      /\ range' \in [Bos -> Nat \cup {None}] /\ \A x \in Bos : x # b => range'[x] = range[x]
      /\ range'[b] = None
  BY Zenon, <1>1 DEF FreeUnregisters, UserTypes
<1>4. /\ invalid' \in [Bos -> Nat] /\ \A x \in Bos : x # b => invalid'[x] = invalid[x]
      /\ invalid'[b] = 0
  BY <1>1 DEF FreeUnregisters, UserTypes
<1>5. \A x \in live : x \in Bos /\ x # b
  BY Zenon, <1>2 DEF UserTypes
<1>6. UserTypes' /\ LockTypes' /\ WorkerTypes'
  <2>1. None \notin live
    BY Zenon, NoneIsNoBo DEF UserTypes
  <2> QED BY Zenon, <1>2, <1>3, <1>4, <2>1 DEF UserTypes, LockTypes, WorkerTypes
<1>7. LockIsHeld'
  BY Zenon, <1>2, <1>3, <1>4, <1>5 DEF LockIsHeld
<1>8. \A x \in live : Fresh(x)' <=> Fresh(x)
  BY Zenon, <1>2, <1>3, <1>5 DEF Fresh
<1>9. ValidIsFresh' /\ InvalidIsCounted'
  BY Zenon, <1>2, <1>4, <1>5, <1>8 DEF ValidIsFresh, InvalidIsCounted
<1>10. MappedIsUpdated'
  BY Zenon, <1>2, <1>3, <1>4, <1>5 DEF MappedIsUpdated, UserTypes
<1>11. RangeIsPages'
  BY Zenon, <1>1, <1>2, <1>3, <1>4 DEF RangeIsPages
<1>12. WorkerProgress'
  <2>1. user.pc \in {"pages", "mark"} => user.bo \in live
    BY Zenon DEF WorkerProgress, UserTypes
  <2>2. \A x \in live : invalid'[x] = invalid[x]
    BY Zenon, <1>4, <1>5
  <2> QED BY Zenon, <1>2, <1>8, <2>1, <2>2 DEF WorkerProgress
<1>13. UserLockMoves /\ Balanced(UserHolds, UserHolds')
  BY Zenon, <1>2, UserStill DEF UserLockMoves
<1> QED BY Zenon, <1>2, <1>6, <1>7, <1>9, <1>10, <1>11, <1>12, <1>13

(* amdgpu_amdkfd_evict_userptr counts the BO as invalid and the eviction; the
   first one stops the queues. *)
LEMMA EvictUserptrKeepsInv ==
    ASSUME UserInv, setup \in Setups, evicted \in Nat, NEW b \in setup.bos, evict_userptr(b)
    PROVE  UserInv' /\ UserLockMoves /\ Balanced(UserHolds, UserHolds')
<1> USE DEF UserInv
<1>1. /\ b \in live \/ b = freeing
      /\ b \in Bos /\ inv' = inv \cup {b}
      /\ UNCHANGED <<setup, lock, ver, live, mapped, freeing, pages, pte, range, inval_list, system, user,
                     warned>>
  BY Zenon, SetupBos DEF evict_userptr, UserTypes
<1>2. /\ invalid' \in [Bos -> Nat] /\ \A x \in Bos : x # b => invalid'[x] = invalid[x]
      /\ invalid[b] \in Nat /\ invalid'[b] = invalid[b] + 1
  BY <1>1 DEF evict_userptr, UserTypes
<1>3. /\ evicted_bos \in Nat /\ evicted_bos' = evicted_bos + 1
      /\ IF evicted_bos = 0 THEN evicted' = evicted + 1 ELSE evicted' = evicted
      /\ user_queued' \in BOOLEAN
  BY Zenon DEF evict_userptr, evict_queues, UserTypes
<1>4. invalid'[b] > 0 /\ invalid'[b] # 0 /\ evicted_bos' \in Nat /\ evicted_bos' > 0
  BY <1>2, <1>3
<1>5. UserTypes' /\ LockTypes' /\ WorkerTypes'
  BY Zenon, <1>1, <1>2, <1>3, <1>4 DEF UserTypes, LockTypes, WorkerTypes
<1>6. LockIsHeld'
  BY Zenon, <1>1, <1>2, <1>4, LockByName DEF LockIsHeld
<1>7. \A x \in Bos : x # b => (Fresh(x)' <=> Fresh(x))
  BY Zenon, <1>1 DEF Fresh
<1>8. ValidIsFresh'
  BY Zenon, <1>1, <1>2, <1>4, <1>7 DEF ValidIsFresh, UserTypes
<1>9. MappedIsUpdated'
  BY Zenon, <1>1, <1>2, <1>4 DEF MappedIsUpdated, UserTypes
<1>10. RangeIsPages' /\ InvalidIsCounted'
  BY Zenon, <1>1, <1>2, <1>4 DEF RangeIsPages, InvalidIsCounted
<1>11. WorkerProgress'
  <2>1. user.pc # "idle" => user.n > 0 /\ evicted_bos' >= user.n /\ evicted_bos' # user.n
    BY <1>3, UserByPc DEF WorkerProgress
  <2>2. user.pc \in {"pages", "mark"} =>
          /\ invalid'[user.bo] >= user.invalid
          /\ user.bo = b => invalid'[user.bo] # user.invalid
    <3> SUFFICES ASSUME user.pc \in {"pages", "mark"}
                 PROVE  /\ invalid'[user.bo] >= user.invalid
                        /\ user.bo = b => invalid'[user.bo] # user.invalid
      OBVIOUS
    <3>1. user.bo \in Bos /\ user.invalid \in Nat /\ invalid[user.bo] >= user.invalid
      BY Zenon, UserByPc DEF WorkerProgress
    <3> QED BY <1>2, <3>1
  <2>3. user.pc = "mark" /\ invalid'[user.bo] = user.invalid => Fresh(user.bo)'
    BY Zenon, <1>1, <1>2, <1>7, <2>2, UserByPc DEF WorkerProgress
  <2> QED BY Zenon, <1>1, <2>1, <2>2, <2>3 DEF WorkerProgress
<1>12. Balanced(UserHolds, UserHolds')
  BY <1>3 DEF Balanced, UserHolds, Count
<1> QED BY Zenon, <1>1, <1>5, <1>6, <1>8, <1>9, <1>10, <1>11, <1>12 DEF UserLockMoves

(* The pages of a BO change while it is invalid. *)
LEMMA PagesChangeKeepsInv ==
    ASSUME UserInv, evicted \in Nat, NEW b \in setup.bos, PagesChange(b)
    PROVE  UserInv' /\ UserLockMoves /\ Balanced(UserHolds, UserHolds')
<1> USE DEF UserInv
<1>1. /\ b \in inv /\ b \in Bos /\ inv' = inv \ {b}
      /\ UNCHANGED <<setup, evicted, lock, live, mapped, freeing, pages, pte, invalid, range, inval_list, system,
                     evicted_bos, user_queued, user, warned>>
  BY Zenon DEF PagesChange, shared, bo, userWork, UserTypes
<1>2. ver' \in [Bos -> Nat] /\ \A x \in Bos : x # b => ver'[x] = ver[x]
  BY <1>1 DEF PagesChange, UserTypes
<1>3. \A x \in Bos : Fresh(x) => Fresh(x)'
  BY Zenon, <1>1, <1>2 DEF Fresh
<1>4. UserTypes' /\ LockTypes' /\ WorkerTypes' /\ LockIsHeld'
  BY Zenon, <1>1, <1>2 DEF UserTypes, LockTypes, WorkerTypes, LockIsHeld
<1>5. ValidIsFresh' /\ MappedIsUpdated' /\ RangeIsPages' /\ InvalidIsCounted'
  BY Zenon, <1>1, <1>3 DEF ValidIsFresh, MappedIsUpdated, RangeIsPages, InvalidIsCounted, UserTypes
<1>6. WorkerProgress'
  BY Zenon, <1>1, <1>3, UserByPc DEF WorkerProgress
<1>7. UserLockMoves /\ Balanced(UserHolds, UserHolds')
  BY Zenon, <1>1, UserStill DEF UserLockMoves
<1> QED BY Zenon, <1>1, <1>4, <1>5, <1>6, <1>7

-----------------------------------------------------------------------------
(* The worker starts if there is something to restore, *)
LEMMA UserStartKeepsInv ==
    ASSUME UserInv, evicted \in Nat, UserStart
    PROVE  UserInv' /\ UserLockMoves /\ Balanced(UserHolds, UserHolds')
<1> USE DEF UserInv
<1>1. /\ user.pc = "idle" /\ user_queued' = FALSE
      /\ UNCHANGED <<setup, evicted, lock, ver, inv, live, mapped, freeing, pages, pte, invalid, range,
                     inval_list, system, evicted_bos, warned>>
  BY Zenon DEF UserStart, shared, mm, bo
<1>2. WorkerTypes' /\ WorkerProgress' /\ user'.pc \notin Busy
  <2>1. CASE evicted_bos = 0
    <3>1. user' = UserIdle /\ user'.pc = "idle"
      BY <2>1 DEF UserStart, UserIdle
    <3> QED BY Zenon, <3>1 DEF WorkerTypes, WorkerProgress, Busy
  <2>2. CASE evicted_bos # 0
    <3>1. user' = [pc |-> "lock", n |-> evicted_bos] /\ evicted_bos \in Nat
      BY Zenon, <2>2 DEF UserStart, UserTypes
    <3>2. user' \in UserShort /\ user'.pc = "lock" /\ user'.n = evicted_bos
      BY Zenon, <3>1 DEF UserShort
    <3>3. evicted_bos > 0 /\ evicted_bos >= evicted_bos
      BY <2>2, <3>1
    <3> QED BY Zenon, <1>1, <3>2, <3>3 DEF WorkerTypes, WorkerProgress, Busy
  <2> QED BY <2>1, <2>2
<1>3. UserTypes' /\ LockTypes' /\ LockIsHeld'
  BY Zenon, <1>1, <1>2 DEF UserTypes, LockTypes, LockIsHeld, Busy
<1>4. ValidIsFresh' /\ MappedIsUpdated' /\ RangeIsPages' /\ InvalidIsCounted'
  BY Zenon, <1>1 DEF ValidIsFresh, Fresh, MappedIsUpdated, RangeIsPages, InvalidIsCounted
<1>5. UserLockMoves /\ Balanced(UserHolds, UserHolds')
  BY Zenon, <1>1, UserStill DEF UserLockMoves
<1> QED BY Zenon, <1>1, <1>2, <1>3, <1>4, <1>5

(* takes the lock and looks for the first invalid BO, *)
LEMMA UserLocksKeepsInv ==
    ASSUME UserInv, evicted \in Nat, UserLocks
    PROVE  UserInv' /\ UserLockMoves /\ Balanced(UserHolds, UserHolds')
<1> USE DEF UserInv
<1>1. /\ user.pc = "lock" /\ lock = Free /\ lock' = [by |-> "userptr"]
      /\ inval_list' = inval_list \cup {b \in live : invalid[b] > 0}
      /\ user' = NextInvalid(user.n, inval_list', invalid, inval_list')
      /\ UNCHANGED <<setup, evicted, ver, inv, live, mapped, freeing, pages, pte, invalid, range, system,
                     evicted_bos, user_queued, warned>>
  BY Zenon DEF UserLocks, mm
<1>2. lock.by = "nobody" /\ lock'.by = "userptr" /\ lock' \in LockWork
  BY <1>1 DEF Free, LockWork
<1>3. /\ inval_list' \in SUBSET Bos /\ invalid \in [Bos -> Nat] /\ system \subseteq inval_list'
      /\ user.n \in Nat /\ user.n > 0 /\ evicted_bos >= user.n
  BY Zenon, <1>1, UserByPc DEF UserTypes, WorkerProgress
<1>4. UserTypes' /\ LockTypes'
  BY Zenon, <1>1, <1>2, <1>3 DEF UserTypes, LockTypes
<1>5. \A b \in live : invalid[b] > 0 => b \in inval_list'
  BY Zenon, <1>1
<1>6. ASSUME InHand(user', user.n, inval_list', invalid)
      PROVE  WorkerTypes' /\ WorkerProgress' /\ user'.pc \in Busy
  <2>1. invalid[user'.bo] >= user'.invalid
    BY <1>3, <1>6 DEF InHand
  <2>2. WorkerTypes' /\ user'.pc \in Busy
    BY Zenon, <1>6 DEF WorkerTypes, Busy, InHand
  <2>3. WorkerProgress'
    BY Zenon, <1>1, <1>3, <1>5, <1>6, <2>1 DEF WorkerProgress, InHand
  <2> QED BY Zenon, <2>2, <2>3
<1>7. ASSUME NoneLeft(user', user.n, inval_list', invalid, inval_list')
      PROVE  WorkerTypes' /\ WorkerProgress' /\ user'.pc \in Busy
  <2>1. \A b \in live : invalid[b] = 0
    BY Zenon, <1>5, <1>7, Positive DEF UserTypes, NoneLeft
  <2>2. WorkerTypes' /\ user'.pc \in Busy
    BY Zenon, <1>7 DEF WorkerTypes, Busy, NoneLeft
  <2>3. WorkerProgress'
    BY Zenon, <1>1, <1>3, <1>7, <2>1 DEF WorkerProgress, NoneLeft
  <2> QED BY Zenon, <2>2, <2>3
<1>8. WorkerTypes' /\ WorkerProgress' /\ user'.pc \in Busy
  BY Zenon, <1>1, <1>3, <1>6, <1>7, NextInvalidFacts
<1>9. LockIsHeld' /\ ValidIsFresh' /\ MappedIsUpdated'
  BY Zenon, <1>1, <1>2, <1>8 DEF LockIsHeld, ValidIsFresh, Fresh, MappedIsUpdated
<1>10. RangeIsPages' /\ InvalidIsCounted'
  BY Zenon, <1>1 DEF RangeIsPages, InvalidIsCounted
<1>11. UserLockMoves /\ Balanced(UserHolds, UserHolds')
  BY Zenon, <1>1, <1>2, UserStill DEF UserLockMoves
<1> QED BY Zenon, <1>1, <1>4, <1>8, <1>9, <1>10, <1>11

(* A worker that gives up for now. *)
LEMMA UserLaterFacts ==
    ASSUME UserLater, user.pc \in Busy, LockIsHeld
    PROVE  /\ LockTypes' /\ WorkerTypes' /\ WorkerProgress' /\ LockIsHeld' /\ UserLockMoves
           /\ user_queued' \in BOOLEAN /\ lock.by = "userptr" /\ lock'.by = "nobody"
<1>1. lock' = Free /\ lock'.by = "nobody" /\ user' = UserIdle /\ user'.pc = "idle"
  BY DEF UserLater, Free, UserIdle
<1>2. lock.by = "userptr"
  BY Zenon DEF LockIsHeld
<1>3. LockTypes' /\ WorkerTypes' /\ WorkerProgress'
  BY Zenon, <1>1 DEF LockTypes, WorkerTypes, WorkerProgress
<1>4. LockIsHeld' /\ UserLockMoves /\ user_queued' \in BOOLEAN
  BY Zenon, <1>1, <1>2 DEF LockIsHeld, UserLockMoves, UserLater, Busy
<1> QED BY Zenon, <1>1, <1>2, <1>3, <1>4

(* It moves the BO in hand to the system domain and gets its pages, *)
LEMMA UserGetsPagesKeepsInv ==
    ASSUME UserInv, evicted \in Nat, UserGetsPages
    PROVE  UserInv' /\ UserLockMoves /\ Balanced(UserHolds, UserHolds')
<1> USE DEF UserInv
<1> DEFINE b == user.bo
<1>1. /\ user.pc = "pages"
      /\ UNCHANGED <<setup, evicted, ver, inv, live, mapped, freeing, pte, invalid, inval_list, evicted_bos,
                     warned>>
  BY Zenon DEF UserGetsPages, mm
<1>2. /\ user \in UserLong /\ b \in Bos /\ b \in inval_list /\ b \in live /\ ver[b] \in Nat
      /\ user.pc \in Busy /\ lock.by = "userptr"
  BY Zenon, <1>1, UserByPc DEF WorkerProgress, UserTypes, Busy, LockIsHeld
<1>3. Balanced(UserHolds, UserHolds')
  BY Zenon, <1>1, UserStill
<1>4. CASE /\ b \notin inv /\ system' = system \cup {b}
           /\ pages' = [pages EXCEPT ![b] = ver[b]] /\ range' = [range EXCEPT ![b] = ver[b]]
           /\ user' = [user EXCEPT !.pc = "mark"]
           /\ UNCHANGED <<lock, user_queued>>
  <2>1. /\ user' \in UserLong /\ user'.pc = "mark" /\ user'.n = user.n /\ user'.bo = b
        /\ user'.invalid = user.invalid /\ user'.todo = user.todo
    BY Zenon, <1>2, <1>4 DEF UserLong
  <2>2. /\ pages' \in [Bos -> Nat \cup {None}] /\ \A x \in Bos : x # b => pages'[x] = pages[x]
        /\ range' \in [Bos -> Nat \cup {None}] /\ \A x \in Bos : x # b => range'[x] = range[x]
        /\ pages'[b] = ver[b] /\ range'[b] = ver[b]
    BY Zenon, <1>2, <1>4 DEF UserTypes
  <2> HIDE DEF b
  <2>3. UserTypes' /\ LockTypes' /\ WorkerTypes'
    <3>1. UserTypes'
      BY Zenon, <1>1, <1>2, <1>4, <2>2 DEF UserTypes
    <3>2. LockTypes' /\ WorkerTypes'
      BY Zenon, <1>4, <2>1 DEF LockTypes, WorkerTypes
    <3> QED BY Zenon, <3>1, <3>2
  <2>4. LockIsHeld'
    BY Zenon, <1>1, <1>2, <1>4, <2>1 DEF LockIsHeld, Busy
  <2>5. /\ user'.bo \in system' /\ Fresh(user.bo)'
        /\ \A x \in Bos : Fresh(x) => Fresh(x)'
    <3>1. b \notin inv' /\ pages'[b] = ver'[b] /\ b \in system'
      BY Zenon, <1>1, <1>4, <2>2
    <3>2. \A x \in Bos : Fresh(x) => Fresh(x)'
      BY Zenon, <1>1, <2>2 DEF Fresh
    <3> QED BY Zenon, <2>1, <3>1, <3>2 DEF Fresh
  <2>6. ValidIsFresh'
    BY Zenon, <1>1, <1>2, <1>4, <2>5 DEF ValidIsFresh, UserTypes
  <2>7. MappedIsUpdated'
    BY Zenon, <1>1, <1>4, <2>2 DEF MappedIsUpdated, UserTypes
  <2>8. RangeIsPages'
    BY Zenon, <1>1, <1>2, <2>2 DEF RangeIsPages, UserTypes
  <2>9. InvalidIsCounted'
    <3>1. evicted_bos > 0
      BY <1>1, UserByPc DEF WorkerProgress, UserTypes
    <3> QED BY Zenon, <1>1, <3>1 DEF InvalidIsCounted
  <2>10. WorkerProgress'
    <3>1. /\ user'.n > 0 /\ evicted_bos' >= user'.n /\ user'.bo \in inval_list'
          /\ user'.todo \subseteq inval_list' /\ user'.bo \notin user'.todo
          /\ user'.invalid > 0 /\ invalid'[user'.bo] >= user'.invalid
          /\ evicted_bos' = user'.n =>
               \A x \in live' : invalid'[x] > 0 => x = user'.bo \/ x \in user'.todo
      BY Zenon, <1>1, <2>1 DEF WorkerProgress, b
    <3> QED BY Zenon, <2>1, <2>5, <3>1 DEF WorkerProgress
  <2> QED BY Zenon, <1>1, <1>3, <1>4, <2>3, <2>4, <2>6, <2>7, <2>8, <2>9, <2>10 DEF UserLockMoves
<1>5. CASE /\ UserLater /\ system' \in {system, system \cup {b}}
           /\ range' = [range EXCEPT ![b] = None] /\ UNCHANGED pages
  <2>1. /\ LockTypes' /\ WorkerTypes' /\ WorkerProgress' /\ LockIsHeld' /\ UserLockMoves
        /\ user_queued' \in BOOLEAN /\ lock'.by = "nobody"
    BY Zenon, <1>2, <1>5, UserLaterFacts
  <2>2. /\ range' \in [Bos -> Nat \cup {None}] /\ \A x \in Bos : x # b => range'[x] = range[x]
        /\ range'[b] = None
    BY Zenon, <1>2, <1>5 DEF UserTypes
  <2>3. system \subseteq system' /\ system' \subseteq system \cup {b}
    BY Zenon, <1>5
  <2>4. evicted_bos > 0
    BY <1>1, UserByPc DEF WorkerProgress, UserTypes
  <2> HIDE DEF b
  <2>5. UserTypes'
    BY Zenon, <1>1, <1>2, <1>5, <2>1, <2>2, <2>3 DEF UserTypes
  <2>6. ValidIsFresh' /\ MappedIsUpdated' /\ InvalidIsCounted'
    BY Zenon, <1>1, <1>2, <1>5, <2>1, <2>3, <2>4 DEF ValidIsFresh, Fresh, MappedIsUpdated, InvalidIsCounted
  <2>7. RangeIsPages'
    BY Zenon, <1>1, <1>2, <1>5, <2>2 DEF RangeIsPages, UserTypes
  <2> QED BY Zenon, <1>1, <1>3, <2>1, <2>5, <2>6, <2>7
<1> QED BY Zenon, <1>4, <1>5 DEF UserGetsPages

(* marks it valid unless it was invalidated again, *)
LEMMA UserMarksValidKeepsInv ==
    ASSUME UserInv, evicted \in Nat, UserMarksValid
    PROVE  UserInv' /\ UserLockMoves /\ Balanced(UserHolds, UserHolds')
<1> USE DEF UserInv
<1> DEFINE b == user.bo
<1>1. /\ user.pc = "mark"
      /\ UNCHANGED <<setup, evicted, ver, inv, live, mapped, freeing, pages, pte, range, inval_list, system,
                     evicted_bos, warned>>
  BY Zenon DEF UserMarksValid, mm
<1>2. /\ user.n \in Nat /\ b \in Bos /\ user.todo \in SUBSET Bos /\ user.todo \subseteq inval_list
      /\ b \in inval_list /\ b \in system /\ b \in live /\ user.pc \in Busy /\ lock.by = "userptr"
  BY Zenon, <1>1, UserByPc DEF WorkerProgress, UserTypes, Busy, LockIsHeld
<1>3. Balanced(UserHolds, UserHolds')
  BY Zenon, <1>1, UserStill
<1>4. RangeIsPages' /\ MappedIsUpdated' /\ InvalidIsCounted' /\ ValidIsFresh' /\ UserTypes'
      /\ LockTypes' /\ WorkerTypes' /\ WorkerProgress' /\ LockIsHeld' /\ UserLockMoves
  <2>1. CASE invalid[b] # user.invalid
    <3>1. UserLater /\ UNCHANGED invalid
      BY Zenon, <2>1 DEF UserMarksValid
    <3>2. /\ LockTypes' /\ WorkerTypes' /\ WorkerProgress' /\ LockIsHeld' /\ UserLockMoves
          /\ user_queued' \in BOOLEAN
      BY Zenon, <1>2, <3>1, UserLaterFacts
    <3>3. UserTypes' /\ RangeIsPages' /\ MappedIsUpdated' /\ InvalidIsCounted'
      BY Zenon, <1>1, <3>1, <3>2 DEF UserTypes, RangeIsPages, MappedIsUpdated, InvalidIsCounted
    <3>4. ValidIsFresh'
      BY Zenon, <1>1, <1>2, <3>1 DEF ValidIsFresh, Fresh
    <3> QED BY Zenon, <3>2, <3>3, <3>4
  <2>2. CASE invalid[b] = user.invalid
    <3>1. /\ invalid' = [invalid EXCEPT ![b] = 0]
          /\ user' = NextInvalid(user.n, user.todo, invalid', inval_list)
          /\ UNCHANGED <<lock, user_queued>>
      BY Zenon, <2>2 DEF UserMarksValid
    <3>2. /\ invalid' \in [Bos -> Nat] /\ invalid'[b] = 0
          /\ \A x \in Bos : x # b => invalid'[x] = invalid[x]
      BY <1>2, <3>1 DEF UserTypes
    <3>3. \A x \in Bos : invalid'[x] > 0 => x # b /\ invalid[x] > 0
      BY Zenon, <3>2, Positive
    <3>4. Fresh(b)
      BY Zenon, <1>1, <2>2 DEF WorkerProgress
    <3>5. /\ user.n > 0 /\ evicted_bos >= user.n
          /\ evicted_bos = user.n => \A x \in live : invalid'[x] > 0 => x \in user.todo
      BY Zenon, <1>1, <3>3 DEF WorkerProgress, UserTypes
    <3>6. UserTypes' /\ LockTypes' /\ UserLockMoves
      BY Zenon, <1>1, <3>1, <3>2 DEF UserTypes, LockTypes, UserLockMoves
    <3>7. ValidIsFresh'
      BY Zenon, <1>1, <1>2, <3>1, <3>2, <3>4 DEF ValidIsFresh, Fresh, UserTypes
    <3>8. MappedIsUpdated'
      BY Zenon, <1>1, <1>2, <3>2 DEF MappedIsUpdated, UserTypes
    <3>9. RangeIsPages' /\ InvalidIsCounted'
      BY Zenon, <1>1, <1>2, <3>2, <3>3 DEF RangeIsPages, InvalidIsCounted, UserTypes
    <3> HIDE DEF b
    <3>10. ASSUME InHand(user', user.n, user.todo, invalid')
           PROVE  WorkerTypes' /\ WorkerProgress' /\ user'.pc \in Busy
      <4>1. invalid'[user'.bo] >= user'.invalid
        BY <1>2, <3>2, <3>10 DEF InHand
      <4>2. WorkerTypes' /\ user'.pc \in Busy
        BY Zenon, <3>10 DEF WorkerTypes, Busy, InHand
      <4>3. WorkerProgress'
        BY Zenon, <1>1, <1>2, <3>5, <3>10, <4>1 DEF WorkerProgress, InHand
      <4> QED BY Zenon, <4>2, <4>3
    <3>11. ASSUME NoneLeft(user', user.n, user.todo, invalid', inval_list)
           PROVE  WorkerTypes' /\ WorkerProgress' /\ user'.pc \in Busy
      <4>1. evicted_bos = user.n => \A x \in live : invalid'[x] = 0
        BY Zenon, <3>2, <3>5, <3>11, Positive DEF UserTypes, NoneLeft
      <4>2. WorkerTypes' /\ user'.pc \in Busy
        BY Zenon, <3>11 DEF WorkerTypes, Busy, NoneLeft
      <4>3. WorkerProgress'
        BY Zenon, <1>1, <1>2, <3>5, <3>11, <4>1 DEF WorkerProgress, NoneLeft, UserTypes
      <4> QED BY Zenon, <4>2, <4>3
    <3>12. WorkerTypes' /\ WorkerProgress' /\ user'.pc \in Busy
      BY Zenon, <1>2, <3>1, <3>2, <3>10, <3>11, NextInvalidFacts
    <3>13. LockIsHeld'
      BY Zenon, <1>2, <3>1, <3>12 DEF LockIsHeld
    <3> QED BY Zenon, <3>6, <3>7, <3>8, <3>9, <3>12, <3>13
  <2> QED BY <2>1, <2>2
<1> QED BY Zenon, <1>1, <1>3, <1>4

(* updates the page table (a BO whose entry cannot be written is invalid again), *)
LEMMA UserValidatesKeepsInv ==
    ASSUME UserInv, evicted \in Nat, UserValidates
    PROVE  UserInv' /\ UserLockMoves /\ Balanced(UserHolds, UserHolds')
<1> USE DEF UserInv
<1>1. /\ user.pc = "validate"
      /\ UNCHANGED <<setup, evicted, ver, inv, live, mapped, freeing, pages, range, inval_list, evicted_bos,
                     warned>>
  BY Zenon DEF UserValidates, mm
<1>2. /\ user.n \in Nat /\ user.n > 0 /\ evicted_bos >= user.n /\ user.pc \in Busy
      /\ lock.by = "userptr" /\ evicted_bos \in Nat
  BY Zenon, <1>1, UserByPc DEF WorkerProgress, UserTypes, Busy, LockIsHeld
<1>3. evicted_bos > 0
  BY <1>2
<1>4. Balanced(UserHolds, UserHolds') /\ InvalidIsCounted'
  BY Zenon, <1>1, <1>3, UserStill DEF InvalidIsCounted
<1>5. ASSUME NEW done \in SUBSET inval_list, Validates(done),
             invalid' \in [Bos -> Nat], \A x \in Bos : invalid[x] > 0 => invalid'[x] > 0,
             \A x \in Bos \ live : x # freeing => invalid'[x] = 0
      PROVE  /\ MappedIsUpdated' /\ RangeIsPages' /\ system' = system \ done
             /\ pte' \in [Bos -> Nat \cup {None}]
             /\ \A b \in live : invalid'[b] = 0 => Fresh(b)'
  <2>1. /\ system' = system \ done /\ pte' \in [Bos -> Nat \cup {None}]
        /\ \A b \in Bos : pte'[b] = IF b \in done \cap mapped THEN pages[b] ELSE pte[b]
    BY Zenon, <1>5 DEF Validates, UserTypes
  <2>2. MappedIsUpdated'
    BY Zenon, <1>1, <1>5, <2>1 DEF MappedIsUpdated, UserTypes
  <2>3. RangeIsPages'
    BY Zenon, <1>1, <1>5 DEF RangeIsPages
  <2>4. \A b \in live : invalid'[b] = 0 => Fresh(b)'
    BY Zenon, <1>1, <1>2, <1>5, Positive DEF ValidIsFresh, Fresh, UserTypes
  <2> QED BY Zenon, <2>1, <2>2, <2>3, <2>4
<1>6. CASE /\ Validates(inval_list) /\ user' = [pc |-> "confirm", n |-> user.n]
           /\ UNCHANGED <<lock, user_queued, invalid>>
  <2>1. /\ MappedIsUpdated' /\ RangeIsPages' /\ system' = system \ inval_list
        /\ pte' \in [Bos -> Nat \cup {None}] /\ \A b \in live : invalid'[b] = 0 => Fresh(b)'
    BY Zenon, <1>5, <1>6 DEF UserTypes, RangeIsPages
  <2>2. user' \in UserShort /\ user'.pc = "confirm" /\ user'.n = user.n /\ system' = {}
    BY Zenon, <1>2, <1>6, <2>1 DEF UserShort, UserTypes
  <2>3. UserTypes' /\ LockTypes' /\ WorkerTypes' /\ UserLockMoves
    BY Zenon, <1>1, <1>6, <2>1, <2>2 DEF UserTypes, LockTypes, WorkerTypes, UserLockMoves
  <2>4. LockIsHeld' /\ ValidIsFresh'
    BY Zenon, <1>1, <1>2, <1>6, <2>1, <2>2 DEF LockIsHeld, ValidIsFresh, Busy
  <2>5. WorkerProgress'
    BY Zenon, <1>1, <1>2, <1>6, <2>2 DEF WorkerProgress
  <2> QED BY Zenon, <1>1, <1>4, <2>1, <2>3, <2>4, <2>5
<1>7. CASE /\ UserLater
           /\ \E done \in SUBSET inval_list :
                /\ Validates(done)
                /\ \/ UNCHANGED invalid
                   \/ \E b \in inval_list \ done : invalid' = [invalid EXCEPT ![b] = @ + 1]
  <2>1. PICK done \in SUBSET inval_list :
          /\ Validates(done)
          /\ \/ UNCHANGED invalid
             \/ \E b \in inval_list : invalid' = [invalid EXCEPT ![b] = @ + 1]
    BY Zenon, <1>7
  <2>2. /\ invalid' \in [Bos -> Nat] /\ \A x \in Bos : invalid[x] > 0 => invalid'[x] > 0
        /\ \A x \in Bos \ live : x # freeing => invalid'[x] = 0
    <3>1. CASE UNCHANGED invalid
      BY Zenon, <3>1 DEF UserTypes, RangeIsPages
    <3>2. CASE \E b \in inval_list : invalid' = [invalid EXCEPT ![b] = @ + 1]
      <4>1. PICK b \in inval_list : invalid' = [invalid EXCEPT ![b] = @ + 1]
        BY Zenon, <3>2
      <4>2. /\ b \in live /\ b \in Bos /\ invalid \in [Bos -> Nat]
            /\ \A x \in Bos \ live : x # freeing => invalid[x] = 0
        BY Zenon DEF UserTypes, RangeIsPages
      <4> QED BY <4>1, <4>2
    <3> QED BY Zenon, <2>1, <3>1, <3>2
  <2>3. /\ MappedIsUpdated' /\ RangeIsPages' /\ system' = system \ done
        /\ pte' \in [Bos -> Nat \cup {None}] /\ \A b \in live : invalid'[b] = 0 => Fresh(b)'
    BY Zenon, <1>5, <2>1, <2>2
  <2>4. /\ LockTypes' /\ WorkerTypes' /\ WorkerProgress' /\ LockIsHeld' /\ UserLockMoves
        /\ user_queued' \in BOOLEAN
    BY Zenon, <1>2, <1>7, UserLaterFacts
  <2>5. UserTypes' /\ ValidIsFresh'
    BY Zenon, <1>1, <2>2, <2>3, <2>4 DEF UserTypes, ValidIsFresh
  <2> QED BY Zenon, <1>1, <1>4, <2>3, <2>4, <2>5
<1> QED BY Zenon, <1>6, <1>7 DEF UserValidates

(* and, when no eviction came in between, confirms the pages, which are valid,
   and starts the queues. *)
LEMMA UserConfirmsKeepsInv ==
    ASSUME UserInv, evicted \in Nat, evicted >= UserHolds, UserConfirms
    PROVE  UserInv' /\ UserLockMoves /\ Balanced(UserHolds, UserHolds')
<1> USE DEF UserInv
<1> DEFINE has == {b \in inval_list : range[b] # None}
           bad == {b \in has : b \in inv \/ range[b] # ver[b] \/ invalid[b] > 0}
<1>1. /\ user.pc = "confirm"
      /\ UNCHANGED <<setup, ver, inv, live, mapped, freeing, pages, pte, invalid, system>>
  BY Zenon DEF UserConfirms, mm
<1>2. /\ user.n \in Nat /\ user.n > 0 /\ evicted_bos >= user.n /\ user.pc \in Busy
      /\ lock.by = "userptr" /\ evicted_bos \in Nat /\ system = {}
  BY Zenon, <1>1, UserByPc DEF WorkerProgress, UserTypes, Busy, LockIsHeld
<1>3. CASE evicted_bos # user.n
  <2>1. UserLater /\ UNCHANGED <<range, inval_list, warned, evicted, evicted_bos>>
    BY Zenon, <1>3 DEF UserConfirms
  <2>2. /\ LockTypes' /\ WorkerTypes' /\ WorkerProgress' /\ LockIsHeld' /\ UserLockMoves
        /\ user_queued' \in BOOLEAN
    BY Zenon, <1>2, <2>1, UserLaterFacts
  <2>3. UserTypes' /\ ValidIsFresh'
    BY Zenon, <1>1, <1>2, <2>1, <2>2 DEF UserTypes, ValidIsFresh, Fresh
  <2>4. MappedIsUpdated' /\ RangeIsPages' /\ InvalidIsCounted'
    BY Zenon, <1>1, <2>1 DEF MappedIsUpdated, RangeIsPages, InvalidIsCounted
  <2> QED BY Zenon, <2>1, <2>2, <2>3, <2>4, UserStill
<1>4. CASE evicted_bos = user.n
  <2>1. \A b \in live : invalid[b] = 0
    BY Zenon, <1>1, <1>4 DEF WorkerProgress
  <2>2. \A b \in live : Fresh(b)
    BY Zenon, <1>2, <2>1 DEF ValidIsFresh
  <2>3. bad = {}
    BY Zenon, <2>1, <2>2, Positive DEF Fresh, RangeIsPages, UserTypes
  <2>4. /\ range' = [b \in Bos |-> IF b \in has THEN None ELSE range[b]]
        /\ inval_list' = inval_list \ (has \ bad)
        /\ evicted_bos' = 0 /\ restore_queues /\ user' = UserIdle /\ lock' = Free
        /\ UNCHANGED <<warned, user_queued>>
    BY Zenon, <1>4, <2>3 DEF UserConfirms
  <2> HIDE DEF has, bad
  <2>5. lock'.by = "nobody" /\ user'.pc = "idle"
    BY <2>4 DEF Free, UserIdle
  <2>6. /\ range' \in [Bos -> Nat \cup {None}]
        /\ \A b \in Bos : range'[b] # None => range'[b] = range[b]
        /\ \A b \in Bos : range[b] = None => range'[b] = None
    BY Zenon, <2>4 DEF UserTypes
  <2>7. UserTypes'
    <3>1. 0 \in Nat
      OBVIOUS
    <3> QED BY Zenon, <1>1, <1>2, <2>4, <2>6, <3>1 DEF UserTypes
  <2>8. LockTypes' /\ WorkerTypes' /\ WorkerProgress' /\ LockIsHeld' /\ UserLockMoves
    BY Zenon, <1>2, <2>4, <2>5 DEF LockTypes, WorkerTypes, WorkerProgress, LockIsHeld, UserLockMoves, Busy
  <2>9. ValidIsFresh' /\ MappedIsUpdated' /\ InvalidIsCounted'
    BY Zenon, <1>1, <1>2, <2>1, <2>2, Positive
       DEF ValidIsFresh, Fresh, MappedIsUpdated, InvalidIsCounted
  <2>10. RangeIsPages'
    BY Zenon, <1>1, <2>6 DEF RangeIsPages, UserTypes
  <2>11. Balanced(UserHolds, UserHolds')
    BY <1>2, <2>4 DEF Balanced, UserHolds, Count, restore_queues
  <2> QED BY Zenon, <2>4, <2>7, <2>8, <2>9, <2>10, <2>11
<1> QED BY <1>3, <1>4

(***************************************************************************)
(* Steps with SVM ranges.                                                  *)
(***************************************************************************)
(* A step with a range leaves process_info->lock, takes it for its worker, or
   gives it back. *)
LockMoves ==
    \/ lock' = lock
    \/ lock.by \in {"nobody", "svm"} /\ lock' \in {Free, [by |-> "svm"]}

LEMMA SetupRanges == ASSUME setup \in Setups PROVE setup.ranges \subseteq Ranges
BY Zenon DEF Ranges

(* The record of the worker at each place. *)
LEMMA SvmByPc ==
    ASSUME SvmTypes
    PROVE  /\ svm.pc \in Scanning \cup {"idle", "lock", "resume"}
           /\ svm.pc = "scan" => svm \in SvmScanning
           /\ svm.pc = "pages" => svm \in SvmGetting
           /\ svm.pc \in {"map", "clear"} => svm \in SvmMapping
           /\ svm.pc \in Scanning => svm.n \in Nat /\ svm.todo \subseteq Ranges
           /\ svm.pc \in {"pages", "map", "clear"} => svm.r \in Ranges /\ svm.invalid \in Nat
           /\ svm.pc \in {"map", "clear"} => svm.got \in Nat
<1>1. svm \in SvmRests \/ svm \in SvmScanning \/ svm \in SvmGetting \/ svm \in SvmMapping
  BY Zenon DEF SvmTypes
<1>2. svm \in SvmRests => svm.pc \in {"idle", "lock", "resume"}
  BY Zenon DEF SvmRests
<1>3. svm \in SvmScanning => svm.pc = "scan" /\ svm.n \in Nat /\ svm.todo \subseteq Ranges
  BY Zenon DEF SvmScanning
<1>4. svm \in SvmGetting => /\ svm.pc = "pages" /\ svm.n \in Nat /\ svm.todo \subseteq Ranges
                            /\ svm.r \in Ranges /\ svm.invalid \in Nat
  BY Zenon DEF SvmGetting
<1>5. svm \in SvmMapping => /\ svm.pc \in {"map", "clear"} /\ svm.n \in Nat
                            /\ svm.todo \subseteq Ranges
                            /\ svm.r \in Ranges /\ svm.invalid \in Nat /\ svm.got \in Nat
  BY Zenon DEF SvmMapping
<1> QED BY Zenon, <1>1, <1>2, <1>3, <1>4, <1>5 DEF Scanning

(* svm_range_evict counts a range as invalid: it is about to be counted. *)
LEMMA RangeEvictKeepsInv ==
    ASSUME SvmInv, setup \in Setups, evicted \in Nat, NEW r \in setup.ranges, svm_range_evict(r)
    PROVE  SvmInv' /\ LockMoves /\ Balanced(SvmHolds, SvmHolds')
<1> USE DEF SvmInv
<1>1. /\ r \in Ranges /\ callback[r] = "none"
      /\ UNCHANGED <<setup, evicted, lock, rver, rpte, evicted_ranges, svm_queued, svm>>
  BY Zenon, SetupRanges DEF svm_range_evict, shared
<1>2. rinv' = rinv \cup {r}
  BY Zenon DEF svm_range_evict
<1>3. /\ rinvalid' \in [Ranges -> Nat] /\ rinvalid'[r] = rinvalid[r] + 1
      /\ \A s \in Ranges : s # r => rinvalid'[s] = rinvalid[s]
  BY <1>1 DEF svm_range_evict, SvmTypes
<1>4. /\ callback' \in [Ranges -> {"none", "count", "quiesce", "queue"}]
      /\ callback'[r] = "count" /\ \A s \in Ranges : s # r => callback'[s] = callback[s]
  BY Zenon, <1>1 DEF svm_range_evict, SvmTypes
<1>5. SvmTypes'
  BY Zenon, <1>1, <1>2, <1>3, <1>4 DEF SvmTypes
<1>6. \A s \in Ranges : callback'[s] \in {"quiesce", "queue"} <=> callback[s] \in {"quiesce", "queue"}
  BY Zenon, <1>1, <1>4
<1>7. OneInCharge' /\ SvmLock' /\ LockMoves
  BY Zenon, <1>1, <1>6 DEF OneInCharge, SvmLock, LockMoves
<1>8. rinvalid[r] \in Nat /\ rinvalid'[r] > rinvalid[r] /\ rinvalid'[r] # 0
  BY <1>1, <1>3 DEF SvmTypes
<1>9. ValidIsCurrent' /\ RangeIsCounted' /\ OtherRanges'
  BY Zenon, <1>1, <1>2, <1>3, <1>4, <1>8 DEF ValidIsCurrent, Current, RangeIsCounted, OtherRanges
<1>10. ScanProgress'
  <2>1. \A s \in Ranges, n \in Nat :
          rinvalid[s] >= n => rinvalid'[s] >= n /\ (s = r => rinvalid'[s] # n)
    BY <1>1, <1>3 DEF SvmTypes
  <2>2. svm.pc \in {"pages", "map", "clear"} => svm.r \in Ranges /\ svm.invalid \in Nat
    BY Zenon, SvmByPc
  <2>3. \A s \in Ranges : rinvalid'[s] > 0 /\ callback'[s] # "count" =>
          rinvalid[s] > 0 /\ callback[s] # "count"
    BY Zenon, <1>3, <1>4
  <2>4. \A s \in Ranges : s # r /\ Current(s) => s \notin rinv' /\ rpte'[s] = rver'[s]
    BY Zenon, <1>1, <1>2 DEF Current
  <2>5. svm'.pc = "clear" /\ rinvalid'[svm'.r] = svm'.invalid =>
          svm'.r \notin rinv' /\ rpte'[svm'.r] = rver'[svm'.r]
    <3> SUFFICES ASSUME svm.pc = "clear", rinvalid'[svm.r] = svm.invalid
                 PROVE  svm.r \notin rinv' /\ rpte'[svm.r] = rver'[svm.r]
      BY Zenon, <1>1
    <3>1. svm.r \in Ranges /\ svm.r # r
      BY Zenon, <2>1, <2>2 DEF ScanProgress
    <3>2. Current(svm.r)
      BY Zenon, <1>3, <3>1 DEF ScanProgress
    <3> QED BY Zenon, <2>4, <3>1, <3>2
  <2>6. svm'.pc \in {"pages", "map", "clear"} =>
          svm'.invalid > 0 /\ rinvalid'[svm'.r] >= svm'.invalid /\ svm'.r \notin svm'.todo
    BY Zenon, <1>1, <2>1, <2>2 DEF ScanProgress
  <2>7. svm'.pc \in Scanning =>
          /\ svm'.n > 0 /\ evicted_ranges' >= svm'.n
          /\ evicted_ranges' = svm'.n =>
               \A s \in Ranges : rinvalid'[s] > 0 /\ callback'[s] # "count" =>
                   s \in svm'.todo \/ (svm'.pc # "scan" /\ s = svm'.r)
    BY Zenon, <1>1, <2>3 DEF ScanProgress
  <2> QED BY Zenon, <2>5, <2>6, <2>7 DEF ScanProgress, Current
<1>11. Balanced(SvmHolds, SvmHolds')
  <2>1. SvmHolds' = SvmHolds
    BY Zenon, <1>1, <1>4 DEF SvmHolds, Count
  <2> QED BY <1>1, <2>1, HoldsTypes DEF Balanced
<1> QED BY Zenon, <1>5, <1>7, <1>9, <1>10, <1>11

(* A callback past that point: only callback[r] and the counters change. *)
CallbackAt(r, c) ==
    /\ callback' \in [Ranges -> {"none", "count", "quiesce", "queue"}] /\ callback'[r] = c
    /\ \A s \in Ranges : s # r => callback'[s] = callback[s]

LEMMA CallbackMoves ==
    ASSUME SvmTypes, NEW r \in Ranges, NEW c \in {"none", "count", "quiesce", "queue"},
           callback' = [callback EXCEPT ![r] = c]
    PROVE  CallbackAt(r, c)
BY Zenon DEF SvmTypes, CallbackAt

(* It counts the eviction; the first one has to stop the queues. *)
LEMMA EvictCountsKeepsInv ==
    ASSUME SvmInv, setup \in Setups, evicted \in Nat, NEW r \in setup.ranges, EvictCounts(r)
    PROVE  SvmInv' /\ LockMoves /\ Balanced(SvmHolds, SvmHolds')
<1> USE DEF SvmInv
<1> DEFINE c == IF evicted_ranges = 0 THEN "quiesce" ELSE "none"
<1>1. /\ r \in Ranges /\ callback[r] = "count"
      /\ UNCHANGED <<setup, evicted, lock, rver, rinv, rpte, rinvalid, svm_queued, svm>>
  BY Zenon, SetupRanges DEF EvictCounts, shared
<1>2. evicted_ranges \in Nat /\ evicted_ranges' = evicted_ranges + 1
  BY Zenon DEF EvictCounts, SvmTypes
<1>3. CallbackAt(r, c)
  BY Zenon, <1>1, CallbackMoves DEF EvictCounts
<1>4. /\ evicted_ranges' \in Nat /\ evicted_ranges' > evicted_ranges /\ evicted_ranges' > 0
      /\ evicted_ranges > 0 <=> evicted_ranges # 0
  BY <1>2
<1>5. SvmTypes'
  BY Zenon, <1>1, <1>3, <1>4 DEF SvmTypes, CallbackAt
<1>6. OneInCharge'
  BY Zenon, <1>1, <1>3, <1>4 DEF OneInCharge, CallbackAt
<1>7. SvmLock' /\ LockMoves /\ ValidIsCurrent' /\ OtherRanges'
  BY Zenon, <1>1 DEF SvmLock, LockMoves, ValidIsCurrent, Current, OtherRanges
<1>8. RangeIsCounted'
  BY Zenon, <1>4 DEF RangeIsCounted
<1>9. ScanProgress'
  <2>1. \A n \in Nat : evicted_ranges >= n => evicted_ranges' >= n /\ evicted_ranges' # n
    BY <1>2
  <2>2. svm.pc \in Scanning => svm.n \in Nat
    BY Zenon, SvmByPc
  <2> QED BY Zenon, <1>1, <2>1, <2>2 DEF ScanProgress, Current
<1>10. Balanced(SvmHolds, SvmHolds')
  <2> DEFINE P == evicted_ranges > 0 /\ \A s \in Ranges : callback[s] # "quiesce"
  <2>1. P' <=> P
    BY Zenon, <1>1, <1>3, <1>4 DEF CallbackAt
  <2>2. SvmHolds' = SvmHolds
    BY Zenon, <1>1, <2>1 DEF SvmHolds, Count
  <2> QED BY <1>1, <2>2, HoldsTypes DEF Balanced
<1> QED BY Zenon, <1>5, <1>6, <1>7, <1>8, <1>9, <1>10

(* It stops the queues, *)
LEMMA EvictQuiescesKeepsInv ==
    ASSUME SvmInv, setup \in Setups, evicted \in Nat, NEW r \in setup.ranges, EvictQuiesces(r)
    PROVE  SvmInv' /\ LockMoves /\ Balanced(SvmHolds, SvmHolds')
<1> USE DEF SvmInv
<1>1. /\ r \in Ranges /\ callback[r] = "quiesce"
      /\ UNCHANGED <<setup, lock, rver, rinv, rpte, rinvalid, evicted_ranges, svm_queued, svm>>
  BY Zenon, SetupRanges DEF EvictQuiesces
<1>2. evicted' = evicted + 1 /\ CallbackAt(r, "queue")
  BY Zenon, <1>1, CallbackMoves DEF EvictQuiesces, evict_queues
<1>3. SvmTypes'
  BY Zenon, <1>1, <1>2 DEF SvmTypes, CallbackAt
<1>4. OneInCharge'
  BY Zenon, <1>1, <1>2 DEF OneInCharge, CallbackAt
<1>5. SvmLock' /\ LockMoves /\ ValidIsCurrent' /\ OtherRanges'
  BY Zenon, <1>1 DEF SvmLock, LockMoves, ValidIsCurrent, Current, OtherRanges
<1>6. \A s \in Ranges : callback'[s] # "count" <=> callback[s] # "count"
  BY Zenon, <1>1, <1>2 DEF CallbackAt
<1>7. RangeIsCounted' /\ ScanProgress'
  BY Zenon, <1>1, <1>6 DEF RangeIsCounted, ScanProgress, Current
<1>8. Balanced(SvmHolds, SvmHolds')
  <2> DEFINE P == evicted_ranges > 0 /\ \A s \in Ranges : callback[s] # "quiesce"
  <2>1. ~ P /\ P'
    BY Zenon, <1>1, <1>2 DEF OneInCharge, CallbackAt
  <2>2. SvmHolds = 0 + Count(svm.pc = "resume") /\ SvmHolds' = 1 + Count(svm.pc = "resume")
    BY Zenon, <1>1, <2>1 DEF SvmHolds, Count
  <2>3. Count(svm.pc = "resume") \in Nat
    BY DEF Count
  <2> QED BY <1>2, <2>2, <2>3 DEF Balanced
<1> QED BY Zenon, <1>3, <1>4, <1>5, <1>7, <1>8

(* schedules the restore, *)
LEMMA EvictSchedulesKeepsInv ==
    ASSUME SvmInv, setup \in Setups, evicted \in Nat, NEW r \in setup.ranges, EvictSchedules(r)
    PROVE  SvmInv' /\ LockMoves /\ Balanced(SvmHolds, SvmHolds')
<1> USE DEF SvmInv
<1>1. /\ r \in Ranges /\ callback[r] = "queue" /\ svm_queued' = TRUE
      /\ UNCHANGED <<setup, evicted, lock, rver, rinv, rpte, rinvalid, evicted_ranges, svm>>
  BY Zenon, SetupRanges DEF EvictSchedules, shared
<1>2. CallbackAt(r, "none")
  BY Zenon, <1>1, CallbackMoves DEF EvictSchedules
<1>3. SvmTypes'
  BY Zenon, <1>1, <1>2 DEF SvmTypes, CallbackAt
<1>4. svm.pc \in {"idle", "resume"}
  BY Zenon, <1>1, SvmByPc DEF OneInCharge
<1>5. OneInCharge'
  BY Zenon, <1>1, <1>2, <1>4 DEF OneInCharge, CallbackAt
<1>6. SvmLock' /\ LockMoves /\ ValidIsCurrent' /\ OtherRanges'
  BY Zenon, <1>1 DEF SvmLock, LockMoves, ValidIsCurrent, Current, OtherRanges
<1>7. \A s \in Ranges : /\ callback'[s] # "count" <=> callback[s] # "count"
                        /\ callback'[s] # "quiesce" <=> callback[s] # "quiesce"
  BY Zenon, <1>1, <1>2 DEF CallbackAt
<1>8. RangeIsCounted' /\ ScanProgress'
  BY Zenon, <1>1, <1>7 DEF RangeIsCounted, ScanProgress, Current
<1>9. Balanced(SvmHolds, SvmHolds')
  <2>1. SvmHolds' = SvmHolds
    BY Zenon, <1>1, <1>7 DEF SvmHolds, Count
  <2> QED BY <1>1, <2>1, HoldsTypes DEF Balanced
<1> QED BY Zenon, <1>3, <1>5, <1>6, <1>8, <1>9

(* and has returned when the pages change: the range is invalid. *)
LEMMA RangeChangesKeepsInv ==
    ASSUME SvmInv, setup \in Setups, evicted \in Nat, NEW r \in setup.ranges, RangeChanges(r)
    PROVE  SvmInv' /\ LockMoves /\ Balanced(SvmHolds, SvmHolds')
<1> USE DEF SvmInv
<1>1. /\ r \in Ranges /\ r \in rinv /\ rinv' = rinv \ {r}
      /\ UNCHANGED <<setup, evicted, lock, rpte, rinvalid, callback, evicted_ranges, svm_queued, svm>>
  BY Zenon, SetupRanges DEF RangeChanges, shared
<1>2. rver' \in [Ranges -> Nat] /\ \A s \in Ranges : s # r => rver'[s] = rver[s]
  BY <1>1 DEF RangeChanges, SvmTypes
<1>3. SvmTypes'
  BY Zenon, <1>1, <1>2 DEF SvmTypes
<1>4. OneInCharge' /\ SvmLock' /\ LockMoves /\ RangeIsCounted' /\ OtherRanges'
  BY Zenon, <1>1 DEF OneInCharge, SvmLock, LockMoves, RangeIsCounted, OtherRanges
<1>5. \A s \in Ranges : Current(s) => Current(s)'
  BY Zenon, <1>1, <1>2 DEF Current
<1>6. ValidIsCurrent'
  BY Zenon, <1>1, <1>5 DEF ValidIsCurrent
<1>7. ScanProgress'
  BY Zenon, <1>1, <1>5, SvmByPc DEF ScanProgress, Scanning
<1>8. Balanced(SvmHolds, SvmHolds')
  <2>1. SvmHolds' = SvmHolds
    BY Zenon, <1>1 DEF SvmHolds, Count
  <2> QED BY <1>1, <2>1, HoldsTypes DEF Balanced
<1> QED BY Zenon, <1>3, <1>4, <1>6, <1>7, <1>8

(* The worker starts if there is something to restore, *)
LEMMA SvmStartKeepsInv ==
    ASSUME SvmInv, setup \in Setups, evicted \in Nat, SvmStart
    PROVE  SvmInv' /\ LockMoves /\ Balanced(SvmHolds, SvmHolds')
<1> USE DEF SvmInv
<1>1. /\ svm.pc = "idle" /\ svm_queued /\ svm_queued' = FALSE
      /\ UNCHANGED <<setup, evicted, lock, rver, rinv, rpte, rinvalid, callback, evicted_ranges>>
  BY Zenon DEF SvmStart, shared
<1>0. svm' = [pc |-> "lock"] /\ svm'.pc = "lock"
  <2>1. evicted_ranges # 0
    BY <1>1 DEF OneInCharge
  <2> QED BY Zenon, <2>1 DEF SvmStart
<1>2. SvmTypes'
  <2>1. svm' \in SvmRests
    BY Zenon, <1>0, <1>1 DEF SvmRests
  <2> QED BY Zenon, <1>1, <2>1 DEF SvmTypes
<1>3. OneInCharge'
  BY <1>0, <1>1 DEF SvmTypes, OneInCharge, Scanning
<1>4. SvmLock' /\ ScanProgress' /\ LockMoves
  BY Zenon, <1>0, <1>1 DEF SvmLock, ScanProgress, LockMoves, Scanning
<1>5. ValidIsCurrent' /\ RangeIsCounted' /\ OtherRanges'
  BY Zenon, <1>1 DEF ValidIsCurrent, Current, RangeIsCounted, OtherRanges
<1>6. Balanced(SvmHolds, SvmHolds')
  <2>1. SvmHolds' = SvmHolds
    BY Zenon, <1>0, <1>1 DEF SvmHolds, Count
  <2> QED BY <1>1, <2>1, HoldsTypes DEF Balanced
<1> QED BY Zenon, <1>2, <1>3, <1>4, <1>5, <1>6

(* gives up for now, *)
LEMMA SvmLaterKeepsInv ==
    ASSUME SvmInv, svm.pc \in Scanning, SvmLater, evicted \in Nat,
           UNCHANGED <<setup, evicted, rver, rinv, rpte, rinvalid, callback, evicted_ranges>>
    PROVE  SvmInv' /\ LockMoves /\ Balanced(SvmHolds, SvmHolds')
<1> USE SvmByPc DEF SvmInv, SvmLater, SvmIdle, Free
<1>1. svm' = [pc |-> "idle"] /\ svm_queued' = TRUE /\ lock'.by = "nobody" /\ svm'.pc = "idle"
  BY Zenon
<1>2. SvmTypes'
  <2>1. svm' \in SvmRests
    BY Zenon, <1>1 DEF SvmRests
  <2> QED BY Zenon, <1>1, <2>1 DEF SvmTypes
<1>3. OneInCharge'
  BY Zenon, <1>1 DEF SvmTypes, OneInCharge, Scanning
<1>4. SvmLock' /\ ScanProgress' /\ LockMoves
  BY Zenon, <1>1 DEF SvmLock, ScanProgress, LockMoves, Scanning
<1>5. ValidIsCurrent' /\ RangeIsCounted' /\ OtherRanges'
  BY Zenon DEF ValidIsCurrent, Current, RangeIsCounted, OtherRanges
<1>6. Balanced(SvmHolds, SvmHolds')
  <2>1. svm.pc # "resume"
    BY Zenon DEF Scanning
  <2>2. SvmHolds' = SvmHolds
    BY Zenon, <1>1, <2>1 DEF SvmHolds, Count
  <2> QED BY <2>2, HoldsTypes DEF Balanced
<1> QED BY Zenon, <1>2, <1>3, <1>4, <1>5, <1>6

(* or goes on to its next place. *)
LEMMA SvmGoesOn ==
    ASSUME SvmInv, svm.pc \in Scanning, svm'.pc \in Scanning, evicted \in Nat,
           UNCHANGED <<setup, evicted, lock, callback, evicted_ranges, svm_queued>>
    PROVE  OneInCharge' /\ SvmLock' /\ LockMoves /\ Balanced(SvmHolds, SvmHolds')
<1> USE DEF SvmInv
<1>1. OneInCharge' /\ SvmLock' /\ LockMoves
  BY Zenon DEF OneInCharge, SvmLock, LockMoves, Scanning
<1>2. svm.pc # "resume" /\ svm'.pc # "resume"
  BY Zenon DEF Scanning
<1>3. SvmHolds' = SvmHolds
  BY Zenon, <1>2 DEF SvmHolds, Count
<1> QED BY <1>1, <1>3, HoldsTypes DEF Balanced

(* It takes the lock and reads the count, *)
LEMMA SvmLocksKeepsInv ==
    ASSUME SvmInv, setup \in Setups, evicted \in Nat, SvmLocks
    PROVE  SvmInv' /\ LockMoves /\ Balanced(SvmHolds, SvmHolds')
<1> USE SetupRanges DEF SvmInv, SvmLocks, Free
<1>1. svm'.pc = "scan" /\ svm'.n = evicted_ranges /\ svm'.todo = setup.ranges /\ svm.pc = "lock"
  BY Zenon
<1>2. SvmTypes'
  <2>1. svm' \in SvmScanning
    BY Zenon DEF SvmTypes, SvmScanning
  <2> QED BY Zenon, <2>1 DEF SvmTypes
<1>3. OneInCharge' /\ SvmLock' /\ LockMoves
  BY Zenon, <1>1 DEF OneInCharge, SvmLock, LockMoves, Scanning
<1>4. ValidIsCurrent' /\ RangeIsCounted' /\ OtherRanges'
  BY Zenon DEF ValidIsCurrent, Current, RangeIsCounted, OtherRanges
<1>5. ScanProgress'
  <2>1. evicted_ranges > 0
    BY Zenon, <1>1 DEF OneInCharge
  <2>2. \A r \in Ranges : rinvalid[r] > 0 => r \in setup.ranges
    BY Zenon, Positive DEF OtherRanges, SvmTypes
  <2>3. evicted_ranges >= evicted_ranges
    BY DEF SvmTypes
  <2>4. UNCHANGED <<evicted_ranges, rinvalid, callback>>
    BY Zenon
  <2> QED BY Zenon, <1>1, <2>1, <2>2, <2>3, <2>4 DEF ScanProgress
<1>6. Balanced(SvmHolds, SvmHolds')
  <2>1. SvmHolds' = SvmHolds
    BY Zenon, <1>1 DEF SvmHolds, Count
  <2> QED BY <2>1, HoldsTypes DEF Balanced
<1> QED BY Zenon, <1>2, <1>3, <1>4, <1>5, <1>6

(* looks at a range, *)
LEMMA SvmScansKeepsInv ==
    ASSUME SvmInv, setup \in Setups, evicted \in Nat, SvmScans
    PROVE  SvmInv' /\ LockMoves /\ Balanced(SvmHolds, SvmHolds')
<1> USE SvmByPc DEF SvmInv, SvmScans, shared
<1> DEFINE r == First(svm.todo)
<1>1. /\ svm.pc = "scan" /\ svm \in SvmScanning /\ svm.todo \in SUBSET Ranges /\ svm.n \in Nat
      /\ UNCHANGED <<setup, evicted, lock, rver, rinv, rpte, rinvalid, callback, evicted_ranges,
                     svm_queued>>
  BY Zenon DEF SvmScanning
<1>2. r \in svm.todo /\ r \in Ranges /\ rinvalid[r] \in Nat
  BY Zenon, <1>1, SetsOfNat, NatHasLeast DEF SvmTypes
<1>3. CASE rinvalid[r] = 0
  <2>1. svm' = [svm EXCEPT !.todo = svm.todo \ {r}]
    BY Zenon, <1>3
  <2>2. svm' \in SvmScanning /\ svm'.pc = "scan" /\ svm'.n = svm.n /\ svm'.todo = svm.todo \ {r}
    BY Zenon, <1>1, <2>1 DEF SvmScanning
  <2>3. SvmTypes'
    BY Zenon, <1>1, <2>2 DEF SvmTypes
  <2>4. OneInCharge' /\ SvmLock' /\ LockMoves /\ Balanced(SvmHolds, SvmHolds')
    BY Zenon, <1>1, <2>2, SvmGoesOn DEF Scanning
  <2>5. ValidIsCurrent' /\ RangeIsCounted' /\ OtherRanges'
    BY Zenon, <1>1 DEF ValidIsCurrent, Current, RangeIsCounted, OtherRanges
  <2>6. ScanProgress'
    BY <1>1, <1>2, <1>3, <2>2 DEF ScanProgress, Scanning
  <2> QED BY Zenon, <2>3, <2>4, <2>5, <2>6
<1>4. CASE rinvalid[r] # 0
  <2>1. svm' = [pc |-> "pages", n |-> svm.n, todo |-> svm.todo \ {r}, r |-> r,
                invalid |-> rinvalid[r]]
    BY Zenon, <1>4
  <2>2. /\ svm' \in SvmGetting /\ svm'.pc = "pages" /\ svm'.n = svm.n
        /\ svm'.todo = svm.todo \ {r} /\ svm'.r = r /\ svm'.invalid = rinvalid[r]
    <3> HIDE SvmByPc DEF r, SvmScans, SvmInv, shared
    <3>1. svm.todo \ {r} \in SUBSET Ranges
      BY Zenon, <1>1
    <3> QED BY Zenon, <1>1, <1>2, <2>1, <3>1 DEF SvmGetting
  <2>3. SvmTypes'
    BY Zenon, <1>1, <2>2 DEF SvmTypes
  <2>4. OneInCharge' /\ SvmLock' /\ LockMoves /\ Balanced(SvmHolds, SvmHolds')
    BY Zenon, <1>1, <2>2, SvmGoesOn DEF Scanning
  <2>5. ValidIsCurrent' /\ RangeIsCounted' /\ OtherRanges'
    BY Zenon, <1>1 DEF ValidIsCurrent, Current, RangeIsCounted, OtherRanges
  <2>6. ScanProgress'
    BY <1>1, <1>2, <1>4, <2>2 DEF ScanProgress, Scanning
  <2> QED BY Zenon, <2>3, <2>4, <2>5, <2>6
<1> QED BY <1>3, <1>4

(* gets its pages, *)
LEMMA SvmGetsPagesKeepsInv ==
    ASSUME SvmInv, setup \in Setups, evicted \in Nat, SvmGetsPages
    PROVE  SvmInv' /\ LockMoves /\ Balanced(SvmHolds, SvmHolds')
<1> USE DEF SvmInv
<1>1. /\ svm.pc = "pages" /\ svm.n \in Nat /\ svm.todo \in SUBSET Ranges
      /\ svm.r \in Ranges /\ svm.invalid \in Nat
      /\ UNCHANGED <<setup, evicted, rver, rinv, rpte, rinvalid, callback, evicted_ranges>>
  BY Zenon, SvmByPc DEF SvmGetsPages, Scanning
<1>2. CASE SvmLater
  BY Zenon, <1>1, <1>2, SvmLaterKeepsInv DEF Scanning
<1>3. CASE ~ SvmLater
  <2>1. /\ svm' = [pc |-> "map", n |-> svm.n, todo |-> svm.todo, r |-> svm.r,
                   invalid |-> svm.invalid, got |-> rver[svm.r]]
        /\ UNCHANGED <<lock, svm_queued>>
    BY Zenon, <1>3 DEF SvmGetsPages
  <2>2. rver[svm.r] \in Nat
    BY Zenon, <1>1 DEF SvmTypes
  <2>3. /\ svm' \in SvmMapping /\ svm'.pc = "map" /\ svm'.n = svm.n /\ svm'.todo = svm.todo
        /\ svm'.r = svm.r /\ svm'.invalid = svm.invalid
    BY Zenon, <1>1, <2>1, <2>2 DEF SvmMapping
  <2>4. SvmTypes'
    BY Zenon, <1>1, <2>1, <2>3 DEF SvmTypes
  <2>5. OneInCharge' /\ SvmLock' /\ LockMoves /\ Balanced(SvmHolds, SvmHolds')
    BY Zenon, <1>1, <2>1, <2>3, SvmGoesOn DEF Scanning
  <2>6. ValidIsCurrent' /\ RangeIsCounted' /\ OtherRanges'
    BY Zenon, <1>1 DEF ValidIsCurrent, Current, RangeIsCounted, OtherRanges
  <2>7. ScanProgress'
    BY Zenon, <1>1, <2>3 DEF ScanProgress, Scanning
  <2> QED BY Zenon, <2>4, <2>5, <2>6, <2>7
<1> QED BY <1>2, <1>3

(* maps them if they are still valid, *)
LEMMA SvmMapsKeepsInv ==
    ASSUME SvmInv, setup \in Setups, evicted \in Nat, SvmMaps
    PROVE  SvmInv' /\ LockMoves /\ Balanced(SvmHolds, SvmHolds')
<1> USE DEF SvmInv
<1>1. /\ svm.pc = "map" /\ svm \in SvmMapping
      /\ svm.n \in Nat /\ svm.todo \in SUBSET Ranges
      /\ svm.r \in Ranges /\ svm.invalid \in Nat /\ svm.got \in Nat
      /\ UNCHANGED <<setup, evicted, rver, rinv, rinvalid, callback, evicted_ranges>>
  BY Zenon, SvmByPc DEF SvmMaps, Scanning
<1>2. CASE svm.r \in rinv \/ rver[svm.r] # svm.got
  <2>1. SvmLater /\ UNCHANGED rpte
    BY Zenon, <1>2 DEF SvmMaps
  <2> QED BY Zenon, <1>1, <2>1, SvmLaterKeepsInv DEF Scanning
<1>3. CASE svm.r \notin rinv /\ rver[svm.r] = svm.got
  <2>1. /\ rpte' = [rpte EXCEPT ![svm.r] = svm.got] /\ svm' = [svm EXCEPT !.pc = "clear"]
        /\ UNCHANGED <<lock, svm_queued>>
    BY Zenon, <1>3 DEF SvmMaps
  <2>2. /\ svm' \in SvmMapping /\ svm'.pc = "clear" /\ svm'.n = svm.n /\ svm'.todo = svm.todo
        /\ svm'.r = svm.r /\ svm'.invalid = svm.invalid
    BY Zenon, <1>1, <2>1 DEF SvmMapping
  <2>3. /\ rpte' \in [Ranges -> Nat] /\ rpte'[svm.r] = rver[svm.r]
        /\ \A r \in Ranges : r # svm.r => rpte'[r] = rpte[r]
    BY Zenon, <1>1, <1>3, <2>1 DEF SvmTypes
  <2>4. SvmTypes'
    BY Zenon, <1>1, <2>1, <2>2, <2>3 DEF SvmTypes
  <2>5. OneInCharge' /\ SvmLock' /\ LockMoves /\ Balanced(SvmHolds, SvmHolds')
    BY Zenon, <1>1, <2>1, <2>2, SvmGoesOn DEF Scanning
  <2>6. Current(svm.r)' /\ \A r \in Ranges : Current(r) => Current(r)'
    BY Zenon, <1>1, <1>3, <2>2, <2>3 DEF Current
  <2>7. ValidIsCurrent' /\ RangeIsCounted' /\ OtherRanges'
    BY Zenon, <1>1, <2>6 DEF ValidIsCurrent, RangeIsCounted, OtherRanges
  <2>8. ScanProgress'
    BY Zenon, <1>1, <2>2, <2>6 DEF ScanProgress, Scanning
  <2> QED BY Zenon, <2>4, <2>5, <2>7, <2>8
<1> QED BY <1>2, <1>3

(* clears prange->invalid unless it was counted again, *)
LEMMA SvmClearsKeepsInv ==
    ASSUME SvmInv, setup \in Setups, evicted \in Nat, SvmClears
    PROVE  SvmInv' /\ LockMoves /\ Balanced(SvmHolds, SvmHolds')
<1> USE DEF SvmInv
<1>1. /\ svm.pc = "clear" /\ svm.n \in Nat /\ svm.todo \in SUBSET Ranges
      /\ svm.r \in Ranges /\ svm.invalid \in Nat
      /\ UNCHANGED <<setup, evicted, rver, rinv, rpte, callback, evicted_ranges>>
  BY Zenon, SvmByPc DEF SvmClears, Scanning
<1>2. CASE rinvalid[svm.r] # svm.invalid
  <2>1. SvmLater /\ UNCHANGED rinvalid
    BY Zenon, <1>2 DEF SvmClears
  <2> QED BY Zenon, <1>1, <2>1, SvmLaterKeepsInv DEF Scanning
<1>3. CASE rinvalid[svm.r] = svm.invalid
  <2>1. /\ rinvalid' = [rinvalid EXCEPT ![svm.r] = 0]
        /\ svm' = [pc |-> "scan", n |-> svm.n, todo |-> svm.todo]
        /\ UNCHANGED <<lock, svm_queued>>
    BY Zenon, <1>3 DEF SvmClears
  <2>2. svm' \in SvmScanning /\ svm'.pc = "scan" /\ svm'.n = svm.n /\ svm'.todo = svm.todo
    BY Zenon, <1>1, <2>1 DEF SvmScanning
  <2>3. /\ rinvalid' \in [Ranges -> Nat] /\ rinvalid'[svm.r] = 0
        /\ \A r \in Ranges : r # svm.r => rinvalid'[r] = rinvalid[r]
    BY <1>1, <2>1 DEF SvmTypes
  <2>4. SvmTypes'
    BY Zenon, <1>1, <2>1, <2>2, <2>3 DEF SvmTypes
  <2>5. OneInCharge' /\ SvmLock' /\ LockMoves /\ Balanced(SvmHolds, SvmHolds')
    BY Zenon, <1>1, <2>1, <2>2, SvmGoesOn DEF Scanning
  <2>6. Current(svm.r) /\ \A r \in Ranges : Current(r)' <=> Current(r)
    BY Zenon, <1>1, <1>3 DEF Current, ScanProgress
  <2>7. ValidIsCurrent'
    BY Zenon, <1>1, <2>3, <2>6 DEF ValidIsCurrent
  <2>8. OtherRanges'
    BY Zenon, <1>1, <2>3 DEF OtherRanges
  <2>9. \A r \in Ranges : rinvalid'[r] > 0 => r # svm.r /\ rinvalid[r] > 0
    BY <2>3
  <2>10. RangeIsCounted'
    BY Zenon, <1>1, <2>9 DEF RangeIsCounted
  <2>11. ScanProgress'
    BY Zenon, <1>1, <2>2, <2>9 DEF ScanProgress, Scanning
  <2> QED BY Zenon, <2>4, <2>5, <2>7, <2>8, <2>10, <2>11
<1> QED BY <1>2, <1>3

(* resets the count unless there were evictions: then no range is invalid but
   those about to be counted, *)
LEMMA SvmFinishesKeepsInv ==
    ASSUME SvmInv, setup \in Setups, evicted \in Nat, SvmFinishes
    PROVE  SvmInv' /\ LockMoves /\ Balanced(SvmHolds, SvmHolds')
<1> USE DEF SvmInv
<1>1. /\ svm.pc = "scan" /\ svm.n \in Nat /\ svm.todo = {}
      /\ UNCHANGED <<setup, evicted, rver, rinv, rpte, rinvalid, callback>>
  BY Zenon, SvmByPc DEF SvmFinishes, Scanning
<1>2. CASE evicted_ranges # svm.n
  <2>1. SvmLater /\ UNCHANGED evicted_ranges
    BY Zenon, <1>2 DEF SvmFinishes
  <2> QED BY Zenon, <1>1, <2>1, SvmLaterKeepsInv DEF Scanning
<1>3. CASE evicted_ranges = svm.n
  <2>1. evicted_ranges' = 0 /\ svm' = [pc |-> "resume"] /\ UNCHANGED <<lock, svm_queued>>
    BY Zenon, <1>3 DEF SvmFinishes
  <2>2. svm' \in SvmRests /\ svm'.pc = "resume"
    BY Zenon, <2>1 DEF SvmRests
  <2>3. SvmTypes'
    BY <1>1, <2>1, <2>2 DEF SvmTypes
  <2>4. ~ svm_queued /\ \A r \in Ranges : callback[r] \notin {"quiesce", "queue"}
    BY Zenon, <1>1 DEF OneInCharge, Scanning
  <2>5. OneInCharge'
    BY Zenon, <1>1, <2>1, <2>2, <2>4, Positive DEF OneInCharge, Scanning
  <2>6. SvmLock' /\ LockMoves /\ ScanProgress'
    BY Zenon, <1>1, <2>1, <2>2 DEF SvmLock, LockMoves, ScanProgress, Scanning
  <2>7. \A r \in Ranges : rinvalid[r] > 0 => callback[r] = "count"
    BY Zenon, <1>1, <1>3 DEF ScanProgress, Scanning
  <2>8. RangeIsCounted'
    BY Zenon, <1>1, <2>7 DEF RangeIsCounted
  <2>9. ValidIsCurrent' /\ OtherRanges'
    BY Zenon, <1>1 DEF ValidIsCurrent, Current, OtherRanges
  <2>10. Balanced(SvmHolds, SvmHolds')
    <3>1. evicted_ranges > 0 /\ svm.n > 0
      BY Zenon, <1>1, <1>3 DEF ScanProgress, Scanning
    <3>2. SvmHolds = 1 /\ SvmHolds' = 1
      BY <1>1, <2>1, <2>2, <2>4, <3>1 DEF SvmHolds, Count
    <3> QED BY <1>1, <3>2 DEF Balanced
  <2> QED BY Zenon, <2>3, <2>5, <2>6, <2>8, <2>9, <2>10
<1> QED BY <1>2, <1>3

(* and starts the queues. *)
LEMMA SvmResumesKeepsInv ==
    ASSUME SvmInv, setup \in Setups, evicted \in Nat, evicted >= SvmHolds, SvmResumes
    PROVE  SvmInv' /\ LockMoves /\ Balanced(SvmHolds, SvmHolds')
<1> USE DEF SvmInv
<1>1. /\ svm.pc = "resume" /\ svm' = [pc |-> "idle"] /\ svm'.pc = "idle" /\ lock' = Free
      /\ UNCHANGED <<setup, rver, rinv, rpte, rinvalid, callback, evicted_ranges, svm_queued>>
      /\ restore_queues /\ lock'.by = "nobody"
  BY Zenon DEF SvmResumes, SvmIdle, Free
<1>2. SvmTypes'
  <2>1. svm' \in SvmRests
    BY Zenon, <1>1 DEF SvmRests
  <2> QED BY Zenon, <1>1, <2>1 DEF SvmTypes
<1>3. OneInCharge' /\ SvmLock' /\ ScanProgress' /\ LockMoves
  BY Zenon, <1>1 DEF OneInCharge, SvmLock, ScanProgress, LockMoves, Scanning
<1>4. ValidIsCurrent' /\ RangeIsCounted' /\ OtherRanges'
  BY Zenon, <1>1 DEF ValidIsCurrent, Current, RangeIsCounted, OtherRanges
<1>5. Balanced(SvmHolds, SvmHolds')
  <2> DEFINE P == evicted_ranges > 0 /\ \A r \in Ranges : callback[r] # "quiesce"
  <2>1. SvmHolds = Count(P) + 1 /\ SvmHolds' = Count(P) + 0
    BY Zenon, <1>1 DEF SvmHolds, Count
  <2>2. Count(P) \in Nat
    BY DEF Count
  <2> QED BY <1>1, <2>1, <2>2 DEF Balanced, restore_queues
<1> QED BY Zenon, <1>2, <1>3, <1>4, <1>5

(***************************************************************************)
(* The evictors together.                                                  *)
(***************************************************************************)
(* Each evictor by itself keeps its part of the invariant and the balance of
   what it holds. *)
LEMMA TtmNextKeepsInv ==
    ASSUME TtmInv, evicted \in Nat, evicted >= TtmHolds, TtmNext
    PROVE  TtmInv' /\ Balanced(TtmHolds, TtmHolds') /\ UNCHANGED <<setup, lock>>
<1>1. schedule_evict_and_restore_process \/ TtmMoves \/ EvictWorker \/ RestoreWorker
      \/ kgd2kfd_suspend \/ System
  BY Zenon DEF TtmNext
<1>2. UNCHANGED <<setup, lock>>
  <2>1. CASE schedule_evict_and_restore_process \/ TtmMoves \/ EvictWorker
    BY Zenon, <2>1 DEF schedule_evict_and_restore_process, TtmMoves, EvictWorker, EvictStops,
       EvictFails, EvictSignals, EvictSchedulesRestore, EvictUndoes, Fail, shared
  <2>2. CASE RestoreWorker \/ kgd2kfd_suspend
    BY Zenon, <2>2 DEF RestoreWorker, RestoreStarts, RestoreBos, RestoreQueues, kgd2kfd_suspend, shared
  <2>3. CASE System
    BY Zenon, <2>3 DEF System, SuspendSignals, kgd2kfd_resume, ResumeBos, ResumeQueues, shared
  <2> QED BY Zenon, <1>1, <2>1, <2>2, <2>3
<1>3. ASSUME schedule_evict_and_restore_process \/ TtmMoves
      PROVE  TtmInv' /\ Balanced(TtmHolds, TtmHolds')
  <2>1. TtmInv' /\ TtmHolds' = TtmHolds /\ evicted' = evicted
    BY Zenon, <1>3, AsksKeepsInv
  <2> QED BY <2>1 DEF Balanced
<1> QED BY Zenon, <1>1, <1>2, <1>3, EvictWorkerKeepsInv, RestoreWorkerKeepsInv, SystemKeepsInv

LEMMA UserptrNextKeepsInv ==
    ASSUME UserInv, setup \in Setups, evicted \in Nat, evicted >= UserHolds, UserptrNext
    PROVE  UserInv' /\ UserLockMoves /\ Balanced(UserHolds, UserHolds') /\ UNCHANGED setup
<1>1. CASE UserWorker
  <2>1. UserStart \/ UserLocks \/ UserGetsPages => UNCHANGED setup
    BY Zenon DEF UserStart, UserLocks, UserGetsPages, shared
  <2>2. UserMarksValid \/ UserValidates => UNCHANGED setup
    BY Zenon DEF UserMarksValid, UserValidates
  <2>3. UserConfirms => UNCHANGED setup
    BY Zenon DEF UserConfirms
  <2> QED BY Zenon, <1>1, <2>1, <2>2, <2>3, UserStartKeepsInv, UserLocksKeepsInv, UserGetsPagesKeepsInv,
       UserMarksValidKeepsInv, UserValidatesKeepsInv, UserConfirmsKeepsInv DEF UserWorker
<1>2. CASE InitGetsPages \/ InitValidated \/ MapUpdates \/ MapFails \/ FreeUnregisters
  <2>1. UNCHANGED setup
    BY Zenon, <1>2 DEF InitGetsPages, InitValidated, MapUpdates, MapFails, FreeUnregisters, shared
  <2> QED BY Zenon, <1>2, <2>1, InitGetsPagesKeepsInv, InitValidatedKeepsInv, MapUpdatesKeepsInv,
       MapFailsKeepsInv, FreeUnregistersKeepsInv
<1>3. ASSUME NEW b \in setup.bos,
             \/ init_user_pages(b) \/ MapLooks(b) \/ unmap_memory_from_gpu(b)
             \/ free_memory_of_gpu(b) \/ evict_userptr(b) \/ PagesChange(b)
      PROVE  UserInv' /\ UserLockMoves /\ Balanced(UserHolds, UserHolds') /\ UNCHANGED setup
  <2>1. UNCHANGED setup
    BY Zenon, <1>3 DEF init_user_pages, MapLooks, unmap_memory_from_gpu, free_memory_of_gpu,
       evict_userptr, PagesChange, shared
  <2> QED BY Zenon, <1>3, <2>1, InitUserPagesKeepsInv, MapLooksKeepsInv, UnmapKeepsInv, FreeKeepsInv,
       EvictUserptrKeepsInv, PagesChangeKeepsInv
<1> QED BY Zenon, <1>1, <1>2, <1>3 DEF UserptrNext

LEMMA SvmNextKeepsInv ==
    ASSUME SvmInv, setup \in Setups, evicted \in Nat, evicted >= SvmHolds, SvmNext
    PROVE  SvmInv' /\ LockMoves /\ Balanced(SvmHolds, SvmHolds') /\ UNCHANGED setup
<1>1. CASE SvmWorker
  <2>1. UNCHANGED setup
    BY Zenon, <1>1 DEF SvmWorker, SvmStart, SvmLocks, SvmScans, SvmGetsPages, SvmMaps, SvmClears,
       SvmFinishes, SvmResumes, shared
  <2> QED BY Zenon, <1>1, <2>1, SvmStartKeepsInv, SvmLocksKeepsInv, SvmScansKeepsInv,
       SvmGetsPagesKeepsInv, SvmMapsKeepsInv, SvmClearsKeepsInv, SvmFinishesKeepsInv,
       SvmResumesKeepsInv DEF SvmWorker
<1>2. ASSUME NEW r \in setup.ranges, svm_range_evict(r) \/ SvmCallback(r)
      PROVE  SvmInv' /\ LockMoves /\ Balanced(SvmHolds, SvmHolds') /\ UNCHANGED setup
  <2>1. UNCHANGED setup
    BY Zenon, <1>2 DEF svm_range_evict, SvmCallback, EvictCounts, EvictQuiesces, EvictSchedules,
       RangeChanges, shared
  <2> QED BY Zenon, <1>2, <2>1, RangeEvictKeepsInv, EvictCountsKeepsInv, EvictQuiescesKeepsInv,
       EvictSchedulesKeepsInv, RangeChangesKeepsInv DEF SvmCallback
<1> QED BY Zenon, <1>1, <1>2 DEF SvmNext

(* The others do not notice: TTM shares nothing but the count, *)
LEMMA TtmApart ==
    ASSUME TtmInv, UNCHANGED ttm PROVE TtmInv' /\ TtmHolds' = TtmHolds
<1>1. UNCHANGED <<signaled, moved, evict_queued, restore_queued, evict_pc, restore_pc, lost,
                  system_pc, kfd_locked>>
  BY Zenon DEF ttm, fence, works, system_vars
<1>2. TtmTypes'
  BY Zenon, <1>1 DEF TtmInv, TtmTypes
<1>3. SystemPhase' /\ (signaled \/ moved => WillRestore)'
  BY Zenon, <1>1 DEF TtmInv, SystemPhase, WillRestore
<1>4. TtmHolds' = TtmHolds
  BY Zenon, <1>1 DEF TtmHolds
<1> QED BY Zenon, <1>2, <1>3, <1>4 DEF TtmInv

(* the userptr BOs see the lock taken and given back by the SVM worker, *)
LEMMA UserApart ==
    ASSUME UserInv, UNCHANGED userptr, LockMoves PROVE UserInv' /\ UserHolds' = UserHolds
<1> USE DEF UserInv
<1>1. UNCHANGED <<ver, inv, live, mapped, freeing, pages, pte, invalid, range, inval_list, system,
                  evicted_bos, user_queued, user, warned>>
  BY Zenon DEF userptr, mm, bo, userWork
<1>2. /\ UserTypes' /\ WorkerTypes' /\ MappedIsUpdated' /\ RangeIsPages' /\ InvalidIsCounted'
      /\ UserHolds' = UserHolds
  BY Zenon, <1>1 DEF UserTypes, WorkerTypes, MappedIsUpdated, RangeIsPages, InvalidIsCounted, UserHolds
<1>3. WorkerProgress'
  BY Zenon, <1>1 DEF WorkerProgress, Fresh
<1>4. LockTypes' /\ LockIsHeld' /\ ValidIsFresh'
  <2>1. CASE lock' = lock
    BY Zenon, <1>1, <2>1 DEF LockTypes, LockIsHeld, ValidIsFresh, Fresh
  <2>2. CASE lock.by \in {"nobody", "svm"} /\ lock' \in {Free, [by |-> "svm"]}
    <3>1. lock'.by \in {"nobody", "svm"}
      BY <2>2 DEF Free
    <3>2. LockTypes'
      <4>1. [by |-> "svm"] \in LockWork
        BY DEF LockWork
      <4> QED BY Zenon, <2>2, <4>1 DEF LockTypes
    <3> QED BY Zenon, <1>1, <2>2, <3>1, <3>2 DEF LockIsHeld, ValidIsFresh, Fresh
  <2> QED BY Zenon, <2>1, <2>2 DEF LockMoves
<1> QED BY Zenon, <1>1, <1>2, <1>3, <1>4

(* and the SVM ranges that somebody else takes it. *)
LEMMA SvmApart ==
    ASSUME SvmInv, UNCHANGED <<setup, svms>>, UserLockMoves PROVE SvmInv' /\ SvmHolds' = SvmHolds
<1> USE DEF SvmInv
<1>1. UNCHANGED <<setup, rver, rinv, rpte, rinvalid, callback, evicted_ranges, svm_queued, svm>>
  BY Zenon DEF svms
<1>2. SvmTypes' /\ OneInCharge' /\ SvmHolds' = SvmHolds
  BY Zenon, <1>1 DEF SvmTypes, OneInCharge, SvmHolds
<1>3. ValidIsCurrent' /\ RangeIsCounted' /\ OtherRanges'
  BY Zenon, <1>1 DEF ValidIsCurrent, Current, RangeIsCounted, OtherRanges
<1>4. ScanProgress'
  BY Zenon, <1>1 DEF ScanProgress, Current
<1>5. SvmLock'
  BY Zenon, <1>1 DEF SvmLock, UserLockMoves
<1> QED BY Zenon, <1>2, <1>3, <1>4, <1>5

LEMMA HoldsAreCountedSum == HoldsAreCounted <=> evicted = TtmHolds + UserHolds + SvmHolds
<1> DEFINE h == Count(lost)
           a == Count(evict_pc # "idle")
           b == Count(restore_queued)
           c == Count(restore_pc # "idle")
           d == Count(kfd_locked > 0 \/ system_pc # "idle")
           e == Count(evicted_bos > 0)
           f == Count(evicted_ranges > 0 /\ \A r \in Ranges : callback[r] # "quiesce")
           g == Count(svm.pc = "resume")
<1>1. \A P : Count(P) \in {0, 1}
  BY Zenon DEF Count
<1>2. a \in {0, 1} /\ b \in {0, 1} /\ c \in {0, 1} /\ d \in {0, 1} /\ e \in {0, 1} /\ f \in {0, 1}
      /\ g \in {0, 1} /\ h \in {0, 1}
  BY Zenon, <1>1
<1>3. /\ TtmHolds = h + a + b + c + d /\ UserHolds = e /\ SvmHolds = f + g
      /\ HoldsAreCounted <=> evicted = h + a + b + c + d + e + f + g
  BY Zenon DEF TtmHolds, UserHolds, SvmHolds, HoldsAreCounted
<1> HIDE DEF a, b, c, d, e, f, g, h
<1>4. h + a + b + c + d + e + f + g = (h + a + b + c + d) + e + (f + g)
  BY <1>2
<1> QED BY Zenon, <1>3, <1>4

(* The same after a step. *)
LEMMA HoldsNext ==
    /\ TtmHolds' \in Nat /\ UserHolds' \in Nat /\ SvmHolds' \in Nat
    /\ HoldsAreCounted' <=> evicted' = TtmHolds' + UserHolds' + SvmHolds'
<1>1. (TtmHolds \in Nat /\ UserHolds \in Nat /\ SvmHolds \in Nat)'
  BY PTL, HoldsTypes
<1>2. (HoldsAreCounted <=> evicted = TtmHolds + UserHolds + SvmHolds)'
  BY PTL, HoldsAreCountedSum
<1> QED BY Zenon, <1>1, <1>2

-----------------------------------------------------------------------------
LEMMA EvInvInit == Init => EvInv
<1> SUFFICES ASSUME Init PROVE EvInv
  OBVIOUS
<1>1. /\ setup \in Setups /\ evicted = 0 /\ lock = Free /\ lock.by = "nobody" /\ 0 \in Nat
      /\ None \in Nat \cup {None}
  BY DEF Init, InitShared, Free
<1>2. TtmInv /\ TtmHolds = 0
  <2>1. /\ signaled = FALSE /\ moved = FALSE /\ evict_queued = FALSE /\ evict_pc = "idle"
        /\ restore_queued = FALSE /\ restore_pc = "idle" /\ lost = FALSE
        /\ kfd_locked = 0 /\ system_pc = "idle"
    BY Zenon DEF Init, InitTtm
  <2>2. TtmInv
    BY Zenon, <1>1, <2>1 DEF TtmInv, TtmTypes, SystemPhase
  <2>3. TtmHolds = 0
    BY <2>1 DEF TtmHolds, Count
  <2> QED BY <2>2, <2>3
<1>3. UserInv /\ UserHolds = 0
  <2>1. /\ ver = [b \in Bos |-> 0] /\ inv = {} /\ live = {} /\ mapped = {} /\ freeing = None
        /\ pages = [b \in Bos |-> None] /\ pte = [b \in Bos |-> None]
        /\ invalid = [b \in Bos |-> 0] /\ range = [b \in Bos |-> None]
        /\ inval_list = {} /\ system = {} /\ evicted_bos = 0
        /\ user_queued = FALSE /\ user = UserIdle /\ warned = FALSE
    BY Zenon DEF Init, InitUserptr
  <2>2. user.pc = "idle" /\ UserHolds = 0
    BY <2>1 DEF UserIdle, UserHolds, Count
  <2>3. UserTypes /\ LockTypes /\ WorkerTypes /\ ~ warned
    BY Zenon, <1>1, <2>1 DEF UserTypes, LockTypes, WorkerTypes
  <2>4. LockIsHeld /\ ValidIsFresh /\ MappedIsUpdated /\ RangeIsPages /\ InvalidIsCounted
    BY Zenon, <1>1, <2>1, <2>2
       DEF LockIsHeld, ValidIsFresh, MappedIsUpdated, RangeIsPages, InvalidIsCounted, Busy
  <2>5. WorkerProgress
    BY Zenon, <2>2 DEF WorkerProgress
  <2> QED BY Zenon, <2>2, <2>3, <2>4, <2>5 DEF UserInv
<1>4. SvmInv /\ SvmHolds = 0
  <2>1. /\ rver = [r \in Ranges |-> 0] /\ rpte = [r \in Ranges |-> 0] /\ rinv = {}
        /\ rinvalid = [r \in Ranges |-> 0] /\ callback = [r \in Ranges |-> "none"]
        /\ evicted_ranges = 0 /\ svm_queued = FALSE /\ svm = SvmIdle
    BY Zenon DEF Init, InitSvm
  <2>2. svm.pc = "idle" /\ svm \in SvmRests
    BY <2>1 DEF SvmIdle, SvmRests
  <2>3. SvmTypes
    BY Zenon, <1>1, <2>1, <2>2 DEF SvmTypes
  <2>4. \A r \in Ranges : rinvalid[r] = 0 /\ callback[r] = "none" /\ Current(r)
    BY Zenon, <2>1 DEF Current
  <2>5. SvmLock /\ ScanProgress /\ ValidIsCurrent /\ OtherRanges
    BY Zenon, <1>1, <2>2, <2>4 DEF SvmLock, ScanProgress, ValidIsCurrent, OtherRanges, Scanning
  <2>6. OneInCharge /\ RangeIsCounted
    BY Zenon, <2>1, <2>2, <2>4, Positive DEF OneInCharge, RangeIsCounted, Scanning
  <2>7. SvmHolds = 0
    BY <2>1, <2>2 DEF SvmHolds, Count
  <2> QED BY Zenon, <2>3, <2>5, <2>6, <2>7 DEF SvmInv
<1>5. HoldsAreCounted
  <2>1. evicted = TtmHolds + UserHolds + SvmHolds
    BY <1>1, <1>2, <1>3, <1>4
  <2> QED BY Zenon, <2>1, HoldsAreCountedSum
<1> QED BY Zenon, <1>1, <1>2, <1>3, <1>4, <1>5 DEF EvInv

LEMMA EvInvNext == EvInv /\ [Next]_vars => EvInv'
<1> SUFFICES ASSUME EvInv, [Next]_vars PROVE EvInv'
  OBVIOUS
<1> USE DEF EvInv
<1>1. /\ evicted = TtmHolds + UserHolds + SvmHolds
      /\ evicted >= TtmHolds /\ evicted >= UserHolds /\ evicted >= SvmHolds
  BY HoldsAreCountedSum, HoldsTypes
<1>2. /\ TtmHolds \in Nat /\ UserHolds \in Nat /\ SvmHolds \in Nat /\ evicted \in Nat
      /\ TtmHolds' \in Nat /\ UserHolds' \in Nat /\ SvmHolds' \in Nat
  BY Zenon, HoldsTypes, HoldsNext
<1>3. CASE TtmNext /\ UNCHANGED <<userptr, svms>>
  <2>1. TtmInv' /\ Balanced(TtmHolds, TtmHolds') /\ UNCHANGED <<setup, lock>>
    BY Zenon, <1>1, <1>3, TtmNextKeepsInv
  <2>2. UserInv' /\ UserHolds' = UserHolds
    BY Zenon, <1>3, <2>1, UserApart DEF LockMoves
  <2>3. SvmInv' /\ SvmHolds' = SvmHolds
    BY Zenon, <1>3, <2>1, SvmApart DEF UserLockMoves
  <2>4. evicted' \in Nat /\ evicted' = TtmHolds' + UserHolds' + SvmHolds'
    <3>1. evicted' \in Nat /\ evicted' - TtmHolds' = evicted - TtmHolds
      BY Zenon, <2>1 DEF Balanced
    <3>2. PICK f \in Nat, i \in Nat : f = evicted' /\ i = TtmHolds'
      BY Zenon, <1>2, <3>1
    <3>3. f - i = evicted - TtmHolds
      BY Zenon, <3>1, <3>2
    <3>4. f = i + UserHolds + SvmHolds
      BY <1>1, <1>2, <3>3
    <3> QED BY Zenon, <2>2, <2>3, <3>2, <3>4
  <2> QED BY Zenon, <2>1, <2>2, <2>3, <2>4, HoldsNext
<1>4. CASE UserptrNext /\ UNCHANGED <<ttm, svms>>
  <2>1. UserInv' /\ UserLockMoves /\ Balanced(UserHolds, UserHolds') /\ UNCHANGED setup
    BY Zenon, <1>1, <1>4, UserptrNextKeepsInv
  <2>2. TtmInv' /\ TtmHolds' = TtmHolds
    BY Zenon, <1>4, TtmApart
  <2>3. SvmInv' /\ SvmHolds' = SvmHolds
    BY Zenon, <1>4, <2>1, SvmApart
  <2>4. evicted' \in Nat /\ evicted' = TtmHolds' + UserHolds' + SvmHolds'
    <3>1. evicted' \in Nat /\ evicted' - UserHolds' = evicted - UserHolds
      BY Zenon, <2>1 DEF Balanced
    <3>2. PICK f \in Nat, i \in Nat : f = evicted' /\ i = UserHolds'
      BY Zenon, <1>2, <3>1
    <3>3. f - i = evicted - UserHolds
      BY Zenon, <3>1, <3>2
    <3>4. f = TtmHolds + i + SvmHolds
      BY <1>1, <1>2, <3>3
    <3> QED BY Zenon, <2>2, <2>3, <3>2, <3>4
  <2> QED BY Zenon, <2>1, <2>2, <2>3, <2>4, HoldsNext
<1>5. CASE SvmNext /\ UNCHANGED <<ttm, userptr>>
  <2>1. SvmInv' /\ LockMoves /\ Balanced(SvmHolds, SvmHolds') /\ UNCHANGED setup
    BY Zenon, <1>1, <1>5, SvmNextKeepsInv
  <2>2. TtmInv' /\ TtmHolds' = TtmHolds
    BY Zenon, <1>5, TtmApart
  <2>3. UserInv' /\ UserHolds' = UserHolds
    BY Zenon, <1>5, <2>1, UserApart
  <2>4. evicted' \in Nat /\ evicted' = TtmHolds' + UserHolds' + SvmHolds'
    <3>1. evicted' \in Nat /\ evicted' - SvmHolds' = evicted - SvmHolds
      BY Zenon, <2>1 DEF Balanced
    <3>2. PICK f \in Nat, i \in Nat : f = evicted' /\ i = SvmHolds'
      BY Zenon, <1>2, <3>1
    <3>3. f - i = evicted - SvmHolds
      BY Zenon, <3>1, <3>2
    <3>4. f = TtmHolds + UserHolds + i
      BY <1>1, <1>2, <3>3
    <3> QED BY Zenon, <2>2, <2>3, <3>2, <3>4
  <2> QED BY Zenon, <2>1, <2>2, <2>3, <2>4, HoldsNext
<1>6. CASE UNCHANGED vars
  <2>1. UNCHANGED <<setup, evicted, lock>> /\ UNCHANGED ttm /\ UNCHANGED userptr /\ UNCHANGED svms
    BY Zenon, <1>6 DEF vars, shared
  <2>2. TtmInv' /\ TtmHolds' = TtmHolds
    BY Zenon, <2>1, TtmApart
  <2>3. UserInv' /\ UserHolds' = UserHolds
    BY Zenon, <2>1, UserApart DEF LockMoves
  <2>4. SvmInv' /\ SvmHolds' = SvmHolds
    BY Zenon, <2>1, SvmApart DEF UserLockMoves
  <2> QED BY Zenon, <1>1, <2>1, <2>2, <2>3, <2>4, HoldsNext
<1> QED BY Zenon, <1>3, <1>4, <1>5, <1>6 DEF Next

LEMMA EvInvHolds == Spec => []EvInv
BY PTL, EvInvInit, EvInvNext DEF Spec

-----------------------------------------------------------------------------
(* evict_queues and restore_queues are paired: qpd->evicted is, at every moment,
   the number of evictors (eviction_work, restore_work, suspend, the userptr BOs,
   the SVM ranges) that have yet to restore the queues. *)
THEOREM EvictionsAreCounted == Spec => []HoldsAreCounted
<1>1. EvInv => HoldsAreCounted
  BY Zenon DEF EvInv
<1> QED BY PTL, <1>1, EvInvHolds

(* Nobody signals the eviction fence of a process, and TTM moves none of its
   memory, unless its queues are stopped, and they stay stopped until the memory
   is back: the comment at the head of amdgpu_amdkfd_fence.c. *)
THEOREM EvictionStopsFirst == Spec => []SignaledMeansStopped
<1>1. ASSUME EvInv PROVE SignaledMeansStopped
  <2>1. ASSUME signaled \/ moved PROVE evicted > 0
    <3>1. WillRestore
      BY Zenon, <1>1, <2>1 DEF EvInv, TtmInv
    <3>2. TtmHolds > 0
      BY <1>1, <3>1 DEF EvInv, TtmInv, TtmTypes, WillRestore, TtmHolds, Count
    <3> QED BY <1>1, <3>2, HoldsTypes, HoldsAreCountedSum DEF EvInv
  <2> QED BY Zenon, <2>1, Positive DEF SignaledMeansStopped
<1> QED BY PTL, <1>1, EvInvHolds

(* While the queues of a process may run, the GPU maps the pages its userptr BOs
   have, and nobody is changing them: amdgpu_amdkfd_evict_userptr, the restore
   worker, and mapping, unmapping and freeing of BOs in between. *)
THEOREM UserptrsAreCurrent == Spec => []UserPagesAreCurrent
<1>1. ASSUME EvInv PROVE UserPagesAreCurrent
  <2> SUFFICES ASSUME evicted = 0, NEW b \in mapped PROVE b \notin inv /\ pte[b] = ver[b]
    BY Zenon DEF UserPagesAreCurrent
  <2>1. UserInv
    BY Zenon, <1>1 DEF EvInv
  <2>2. evicted_bos \in Nat /\ b \in live /\ b \in Bos /\ invalid[b] \in Nat
    BY Zenon, <2>1 DEF UserInv, UserTypes
  <2>3. UserHolds = 0
    BY <1>1, HoldsTypes, HoldsAreCountedSum DEF EvInv
  <2>4. ~ (evicted_bos > 0)
    BY <2>3 DEF UserHolds, Count
  <2>5. invalid[b] = 0 /\ b \notin system
    BY Zenon, <2>1, <2>2, <2>4, Positive DEF UserInv, InvalidIsCounted
  <2>6. Fresh(b)
    BY Zenon, <2>1, <2>2, <2>5 DEF UserInv, ValidIsFresh, LockIsHeld
  <2>7. pte[b] = pages[b]
    BY Zenon, <2>1, <2>5, Positive DEF UserInv, MappedIsUpdated
  <2> QED BY Zenon, <2>6, <2>7 DEF Fresh
<1> QED BY PTL, <1>1, EvInvHolds

(* confirm_valid_user_pages_locked never meets pages that are "unexpectedly
   invalid": if evicted_bos is what it was when the worker began, no BO it
   validated was invalidated meanwhile. *)
THEOREM UserPagesAreExpected == Spec => []PagesNeverUnexpected
<1>1. EvInv => PagesNeverUnexpected
  BY Zenon DEF EvInv, UserInv, PagesNeverUnexpected
<1> QED BY PTL, <1>1, EvInvHolds

(* While the queues of a process may run, and no svm_range_evict is on its way to
   stop them, the GPU maps the pages its SVM ranges have. *)
THEOREM SvmRangesAreCurrent == Spec => []RangesAreCurrent
<1>1. ASSUME EvInv PROVE RangesAreCurrent
  <2> SUFFICES ASSUME evicted = 0, \A r \in Ranges : callback[r] \notin {"count", "quiesce"},
                      NEW r \in Ranges
               PROVE  r \notin rinv /\ rpte[r] = rver[r]
    BY Zenon DEF RangesAreCurrent
  <2>1. SvmInv
    BY Zenon, <1>1 DEF EvInv
  <2>2. rinvalid[r] \in Nat
    BY Zenon, <2>1 DEF SvmInv, SvmTypes
  <2>3. SvmHolds = 0
    BY <1>1, HoldsTypes, HoldsAreCountedSum DEF EvInv
  <2>4. ~ (evicted_ranges > 0)
    <3> DEFINE P == evicted_ranges > 0 /\ \A x \in Ranges : callback[x] # "quiesce"
    <3>1. Count(svm.pc = "resume") \in {0, 1} /\ Count(P) \in {0, 1} /\ (P => Count(P) = 1)
      BY Zenon DEF Count
    <3>2. SvmHolds = Count(P) + Count(svm.pc = "resume")
      BY Zenon DEF SvmHolds
    <3> HIDE DEF P
    <3>3. ~ P
      BY <2>3, <3>1, <3>2
    <3> QED BY Zenon, <3>3 DEF P
  <2>5. rinvalid[r] = 0
    BY Zenon, <2>1, <2>2, <2>4, Positive DEF SvmInv, RangeIsCounted
  <2> QED BY Zenon, <2>1, <2>5 DEF SvmInv, ValidIsCurrent, Current
<1> QED BY PTL, <1>1, EvInvHolds
=============================================================================
