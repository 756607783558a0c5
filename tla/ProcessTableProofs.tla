------------------------- MODULE ProcessTableProofs -------------------------
(***************************************************************************)
(* Proofs about ProcessTable, for any processes, address spaces, threads and *)
(* setups: the inductive invariant PTInv, what a reference is, that the    *)
(* steps of threads, lookups, works, callbacks and unloading keep PTInv,   *)
(* then WorksInv on the eviction and restore works, and at the end the     *)
(* theorems that follow.                                                   *)
(*                                                                         *)
(* Who may use a process is safe for one of four reasons.  It owns a       *)
(* reference (Counted); or it found the process in the table inside an srcu *)
(* section, and who removed the process waits for it (Found); or it is a   *)
(* callback or kfd_cleanup_processes, and the notifier, whose reference is *)
(* dropped last, is still registered or being put (Callbacks, Takers); or  *)
(* it is a work, and the process was not yet taken down (Quiet).           *)
(***************************************************************************)
EXTENDS ProcessTable, Integers, TLAPS

(***************************************************************************)
(* The inductive invariant.                                                *)
(***************************************************************************)
Enders == Mms \cup {Unload}
Before == {"check", "lock"}
Taking == {"sync", "cancel_evict", "cancel_restore", "clear", "put"}
NoProc == {"idle", "move", "next", "synchronize", "drain", "unloaded"}

OpenerRec == [pc : {"idle", "flush", "create", "register", "unwind", "open"},
              mm : Mms \cup {NULL}, proc : Procs \cup {NULL}, flush : SUBSET Procs]
LookerRec == [pc : {"idle", "found", "held", "put"}, proc : Procs \cup {NULL}]
EndingRec == [pc : Before \cup Taking \cup NoProc, proc : Procs \cup {NULL},
              wait : SUBSET (Lookers \cup Procs \cup Mms)]

ObjectTypes ==
    /\ setup \in Setups
    /\ allocated \subseteq Procs /\ table \subseteq Procs /\ cleanup_list \subseteq Procs
    /\ ref \in [Procs -> Int]
    /\ mm \in [Procs -> Mms \cup {NULL}]
    /\ notifier \in [Procs -> [state : {"none", "on", "put"}, mm : Mms \cup {NULL}]]
    /\ release \in [Procs -> {"none", "queued", "running"}]
    /\ space \in [Mms -> {"alive", "exiting", "gone"}]
OpenerTypes == opener \in [Openers -> OpenerRec]
LookerTypes == looker \in [Lookers -> LookerRec]
EndingTypes == ending \in [Enders -> EndingRec]

(* Where each actor has a process. *)
OpenerShape ==
    \A o \in Openers :
        /\ opener[o].proc = NULL <=> opener[o].pc \in {"idle", "flush", "create"}
        /\ opener[o].pc # "idle" => opener[o].mm \in Mms
        /\ opener[o].pc \in {"create", "register", "unwind"} <=> mutex = o
LookerShape ==
    \A l \in Lookers : looker[l].proc = NULL <=> looker[l].pc = "idle"
EndingShape ==
    /\ \A a \in Enders : ending[a].proc = NULL <=> ending[a].pc \in NoProc
    /\ \A m \in Mms : ending[m].pc \in Before \cup Taking \cup {"idle"}
    /\ ending[Unload].pc \notin Before

(* The thread that creates a process. *)
Creating ==
    \A o \in Openers :
        /\ opener[o].pc = "create" => ~ switching /\ \A p \in table : mm[p] # opener[o].mm
        /\ opener[o].pc \in {"register", "unwind"} =>
             /\ opener[o].proc \in table
             /\ notifier[opener[o].proc].state = "none"
             /\ \A i \in Openers : opener[i].proc = opener[o].proc => i = o

(* The processes in the table. *)
InTable ==
    \A p \in table :
        /\ p \in allocated /\ mm[p] \in Mms
        /\ notifier[p].state # "on" =>
             \E o \in Openers : opener[o].proc = p /\ opener[o].pc \in {"register", "unwind"}

(* kfd_cleanup_processes. *)
UnloadPhase ==
    /\ Unloading => \A o \in Openers : opener[o].pc = "idle"
    /\ ~ Unloading => cleanup_list = {}
    /\ mutex = Unload <=> ending[Unload].pc \in {"move", "sync"}
    /\ Unloading /\ mutex # Unload => table = {}
    /\ \A p \in cleanup_list : p \notin table /\ notifier[p].state = "on"

(* Who takes down a process. *)
Takes(a, p) == ending[a].proc = p /\ ending[a].pc \in Taking
Takers ==
    \A a \in Enders, p \in Procs : Takes(a, p) =>
        /\ p \notin table /\ p \notin cleanup_list /\ notifier[p].state = "on"
        /\ \A b \in Enders : Takes(b, p) => a = b
Callbacks ==
    \A m \in Mms : ending[m].proc # NULL =>
        /\ notifier[ending[m].proc].state # "none" /\ notifier[ending[m].proc].mm = m
        /\ space[m] = "exiting"
        /\ ending[m].pc \in Before => ending[m].proc \in table \/ Unloading
Registered ==
    \A p \in Procs : notifier[p].state = "on" =>
        p \in table \/ p \in cleanup_list \/ \E a \in Enders : Takes(a, p)

(* A process found is in the table, or who removed it waits. *)
Found ==
    \A l \in Lookers : looker[l].pc = "found" =>
        \/ looker[l].proc \in table
        \/ \E a \in Enders : /\ ending[a].proc = looker[l].proc
                             /\ ending[a].pc = "sync" /\ l \in ending[a].wait

Counted ==
    /\ \A p \in Procs : IsFiniteSet(Owners(p)) /\ ref[p] = Cardinality(Owners(p))
    /\ \A p \in Procs : ref[p] # 0 => p \in allocated
    /\ \A p \in Procs : release[p] # "none" => ref[p] = 0 /\ p \in allocated

(* A switch of partitions keeps KFD locked. *)
LockInv == kfd_locked \in Nat /\ switching \in BOOLEAN /\ (switching => kfd_locked > 0)

PTInv == /\ ObjectTypes /\ OpenerTypes /\ LookerTypes /\ EndingTypes
         /\ OpenerShape /\ LookerShape /\ EndingShape
         /\ Creating /\ InTable /\ OneProcessPerMm /\ UnloadPhase
         /\ Takers /\ Callbacks /\ Registered /\ Found /\ Counted

-----------------------------------------------------------------------------
(* The record of a step of kfd_cleanup_processes that has no process. *)
LEMMA NotEndingAt ==
    ASSUME NEW c
    PROVE  [NotEnding EXCEPT !.pc = c] = [pc |-> c, proc |-> NULL, wait |-> {}]
<1> DEFINE r == [pc : {"idle", c}, proc : {NULL}, wait : {{}}]
<1>1. NotEnding \in r
  BY Zenon DEF NotEnding
<1>2. [NotEnding EXCEPT !.pc = c] \in r
  BY Zenon, <1>1
<1> QED BY <1>1, <1>2 DEF NotEnding

USE ProcessTableAssumption DEF Unload

(* What a step does to those who end: a goes to c with process p. *)
MovesTo(a, c, p) ==
    /\ EndingTypes'
    /\ ending'[a].pc = c /\ ending'[a].proc = p
    /\ \A b \in Enders : b # a => /\ ending'[b].pc = ending[b].pc /\ ending'[b].proc = ending[b].proc
                                  /\ \A l \in Lookers : l \in ending'[b].wait <=> l \in ending[b].wait

(* Ends(a, c) moves a alone. *)
LEMMA EndsMoves ==
    ASSUME EndingTypes, NEW a \in Enders, NEW c \in Before \cup Taking \cup NoProc, Ends(a, c)
    PROVE  MovesTo(a, c, ending[a].proc) /\ ending'[a].wait = ending[a].wait
BY Zenon DEF EndingTypes, EndingRec, Ends, MovesTo

(* A step that gives a a new record moves a alone. *)
LEMMA RecordMoves ==
    ASSUME EndingTypes, NEW a \in Enders, NEW c \in Before \cup Taking \cup NoProc,
           NEW p \in Procs \cup {NULL}, NEW w \in SUBSET (Lookers \cup Procs \cup Mms),
           ending' = [ending EXCEPT ![a] = [pc |-> c, proc |-> p, wait |-> w]]
    PROVE  MovesTo(a, c, p) /\ ending'[a].wait = w
BY Zenon DEF EndingTypes, EndingRec, MovesTo

(* A notifier callback that returns stops being waited for by
   mmu_notifier_synchronize; nobody else moves. *)
LEMMA QuietMoves ==
    ASSUME EndingTypes, NEW m \in Mms, EndsQuietly(m)
    PROVE  MovesTo(m, "idle", NULL)
<1> DEFINE u == [ending[Unload] EXCEPT !.wait = @ \ {m}]
<1>1. u \in EndingRec /\ u.pc = ending[Unload].pc /\ u.proc = ending[Unload].proc
      /\ \A l \in Lookers : l \in u.wait <=> l \in ending[Unload].wait
  BY DEF EndingTypes, EndingRec, Enders
<1>2. NotEnding \in EndingRec /\ NotEnding.pc = "idle" /\ NotEnding.proc = NULL
  BY Zenon DEF EndingRec, NotEnding, NoProc
<1>3. ending' = [[ending EXCEPT ![m] = NotEnding] EXCEPT ![Unload] = u]
  BY Zenon DEF EndsQuietly, EndingTypes, Enders
<1>4. m \in Enders /\ Unload \in Enders /\ m # Unload
  BY Zenon DEF Enders
<1> HIDE DEF u
<1>5. /\ EndingTypes' /\ ending'[m] = NotEnding /\ ending'[Unload] = u
      /\ \A b \in Enders : b # m /\ b # Unload => ending'[b] = ending[b]
  BY <1>1, <1>2, <1>3, <1>4, Zenon DEF EndingTypes
<1> QED BY Zenon, <1>1, <1>2, <1>4, <1>5 DEF MovesTo

(* A step that only takes elements that are not lookups, or one lookup, from who waits. *)
LEMMA ShapeKept ==
    ASSUME EndingShape, NEW a \in Enders, NEW c, NEW p, MovesTo(a, c, p),
           p = NULL <=> c \in NoProc,
           a \in Mms => c \in Before \cup Taking \cup {"idle"}, a = Unload => c \notin Before
    PROVE  EndingShape'
BY Zenon DEF EndingShape, MovesTo, Enders

(* Found is kept as long as those that are found stay so, the table only grows,
   and who waits for a lookup goes on to wait for it. *)
LEMMA FoundKept ==
    ASSUME Found, table \subseteq table',
           \A l \in Lookers : looker'[l].pc = "found" =>
               looker[l].pc = "found" /\ looker'[l].proc = looker[l].proc,
           \A a \in Enders : ending[a].pc = "sync" =>
               /\ ending'[a].pc = "sync" /\ ending'[a].proc = ending[a].proc
               /\ \A l \in Lookers : looker'[l].pc = "found" /\ l \in ending[a].wait => l \in ending'[a].wait
    PROVE  Found'
<1> SUFFICES ASSUME NEW l \in Lookers, looker'[l].pc = "found"
             PROVE  \/ looker'[l].proc \in table'
                    \/ \E a \in Enders : /\ ending'[a].proc = looker'[l].proc
                                         /\ ending'[a].pc = "sync" /\ l \in ending'[a].wait
  BY Zenon DEF Found
<1>1. looker[l].pc = "found" /\ looker'[l].proc = looker[l].proc
  BY Zenon
<1>2. CASE looker[l].proc \in table
  BY Zenon, <1>1, <1>2
<1>3. CASE \E a \in Enders : /\ ending[a].proc = looker[l].proc
                             /\ ending[a].pc = "sync" /\ l \in ending[a].wait
  BY Zenon, <1>1, <1>3
<1> QED BY Zenon, <1>1, <1>2, <1>3 DEF Found

(* What does not depend on what a step changes. *)
LEMMA Frames ==
    ASSUME PTInv
    PROVE  /\ UNCHANGED setup /\ UNCHANGED opener /\ UNCHANGED mutex => OpenerTypes' /\ OpenerShape'
           /\ UNCHANGED setup /\ UNCHANGED looker => LookerTypes' /\ LookerShape'
           /\ UNCHANGED ending => EndingTypes' /\ EndingShape'
           /\ UNCHANGED table /\ UNCHANGED switching /\ UNCHANGED mm /\ UNCHANGED opener /\ UNCHANGED notifier
                => Creating'
           /\ UNCHANGED table /\ UNCHANGED allocated /\ UNCHANGED mm /\ UNCHANGED opener /\ UNCHANGED notifier
                => InTable'
           /\ UNCHANGED table /\ UNCHANGED mm /\ UNCHANGED switching => OneProcessPerMm'
           /\ UNCHANGED ending /\ UNCHANGED table /\ UNCHANGED cleanup_list /\ UNCHANGED notifier
                => Takers' /\ Registered'
           /\ UNCHANGED ending /\ UNCHANGED table /\ UNCHANGED notifier /\ UNCHANGED space => Callbacks'
           /\ UNCHANGED ending /\ UNCHANGED table /\ UNCHANGED looker => Found'
           /\ UNCHANGED ending /\ UNCHANGED table /\ UNCHANGED opener /\ UNCHANGED notifier
              /\ UNCHANGED cleanup_list /\ UNCHANGED mutex => UnloadPhase'
           /\ UNCHANGED ref /\ UNCHANGED opener /\ UNCHANGED looker /\ UNCHANGED notifier
              /\ UNCHANGED allocated /\ UNCHANGED release => Counted'
<1> USE DEF PTInv
<1>1. UNCHANGED setup /\ UNCHANGED opener /\ UNCHANGED mutex => OpenerTypes' /\ OpenerShape'
  BY Zenon DEF OpenerTypes, OpenerShape
<1>2. UNCHANGED setup /\ UNCHANGED looker => LookerTypes' /\ LookerShape'
  BY Zenon DEF LookerTypes, LookerShape
<1>3. UNCHANGED ending => EndingTypes' /\ EndingShape'
  BY Zenon DEF EndingTypes, EndingShape
<1>4. UNCHANGED table /\ UNCHANGED switching /\ UNCHANGED mm /\ UNCHANGED opener /\ UNCHANGED notifier
                => Creating'
  BY DEF Creating
<1>5. UNCHANGED table /\ UNCHANGED allocated /\ UNCHANGED mm /\ UNCHANGED opener /\ UNCHANGED notifier
                => InTable'
  BY DEF InTable
<1>6. UNCHANGED table /\ UNCHANGED mm /\ UNCHANGED switching => OneProcessPerMm'
  BY DEF OneProcessPerMm
<1>7. UNCHANGED ending /\ UNCHANGED table /\ UNCHANGED cleanup_list /\ UNCHANGED notifier
                => Takers' /\ Registered'
  <2> SUFFICES ASSUME UNCHANGED ending, UNCHANGED table, UNCHANGED cleanup_list, UNCHANGED notifier
               PROVE  Takers' /\ Registered'
    OBVIOUS
  <2>1. \A a, p : Takes(a, p)' <=> Takes(a, p)
    BY Zenon DEF Takes
  <2> QED BY Zenon, <2>1 DEF Takers, Registered
<1>8. UNCHANGED ending /\ UNCHANGED table /\ UNCHANGED notifier /\ UNCHANGED space => Callbacks'
  BY Zenon DEF Callbacks, Unloading
<1>9. UNCHANGED ending /\ UNCHANGED table /\ UNCHANGED looker => Found'
  BY Zenon DEF Found
<1>10. UNCHANGED ending /\ UNCHANGED table /\ UNCHANGED opener /\ UNCHANGED notifier
              /\ UNCHANGED cleanup_list /\ UNCHANGED mutex => UnloadPhase'
  BY Zenon DEF UnloadPhase, Unloading
<1>11. UNCHANGED ref /\ UNCHANGED opener /\ UNCHANGED looker /\ UNCHANGED notifier
              /\ UNCHANGED allocated /\ UNCHANGED release => Counted'
  <2> SUFFICES ASSUME UNCHANGED ref, UNCHANGED opener, UNCHANGED looker, UNCHANGED notifier,
                      UNCHANGED allocated, UNCHANGED release
               PROVE  Counted'
    OBVIOUS
  <2>1. \A p \in Procs : Owners(p)' = Owners(p)
    BY Zenon DEF Owners
  <2> QED BY Zenon, <2>1 DEF Counted
<1> QED BY Zenon, <1>1, <1>2, <1>3, <1>4, <1>5, <1>6, <1>7, <1>8, <1>9, <1>10, <1>11

-----------------------------------------------------------------------------
(* What the proofs use of finite sets.  The lemmas about steps take it as a
   hypothesis; FiniteSetFactsHold proves it. *)
FiniteSetFacts ==
    /\ IsFiniteSet({}) /\ Cardinality({}) = 0
    /\ \A S : IsFiniteSet(S) =>
         /\ Cardinality(S) \in Nat
         /\ Cardinality(S) = 0 => S = {}
         /\ \A x : x \notin S =>
              IsFiniteSet(S \cup {x}) /\ Cardinality(S \cup {x}) = Cardinality(S) + 1
         /\ \A x \in S : IsFiniteSet(S \ {x}) /\ Cardinality(S \ {x}) = Cardinality(S) - 1

(* What a step does to references: it adds the owner x, or takes it away. *)
OthersKept(p) == \A q \in Procs : q # p => Owners(q)' = Owners(q)

(* A finite set with a new element has one element more. *)
LEMMA OneMore ==
    ASSUME FiniteSetFacts, NEW S, NEW T, NEW x, IsFiniteSet(S), x \notin S, T = S \cup {x}
    PROVE  IsFiniteSet(T) /\ Cardinality(T) = Cardinality(S) + 1
<1>1. IsFiniteSet(S \cup {x}) /\ Cardinality(S \cup {x}) = Cardinality(S) + 1
  BY Zenon DEF FiniteSetFacts
<1> QED BY <1>1, Zenon

(* kref_get by a new owner x keeps the count exact. *)
LEMMA ReferenceTaken ==
    ASSUME FiniteSetFacts, Counted, ObjectTypes, NEW p \in Procs, NEW x, x \notin Owners(p),
           Owners(p)' = Owners(p) \cup {x}, OthersKept(p), ref' = [ref EXCEPT ![p] = @ + 1],
           release[p] = "none", p \in allocated, UNCHANGED <<allocated, release>>
    PROVE  Counted'
<1>1. IsFiniteSet(Owners(p)) /\ ref[p] = Cardinality(Owners(p))
  BY Zenon DEF Counted
<1>2. IsFiniteSet(Owners(p)') /\ Cardinality(Owners(p)') = Cardinality(Owners(p)) + 1
  BY <1>1, OneMore, Zenon
<1>3. ref'[p] = ref[p] + 1 /\ \A q \in Procs : q # p => ref'[q] = ref[q]
  BY Zenon DEF ObjectTypes
<1>4. \A q \in Procs : IsFiniteSet(Owners(q)') /\ ref'[q] = Cardinality(Owners(q)')
  BY <1>1, <1>2, <1>3, Zenon DEF Counted, OthersKept
<1> QED BY <1>3, <1>4, Zenon DEF Counted

(* kfd_unref_process by an owner x keeps the count exact, and queues the
   release only when x was the last. *)
LEMMA ReferenceDropped ==
    ASSUME FiniteSetFacts, Counted, ObjectTypes, NEW p \in Procs, NEW x \in Owners(p),
           Owners(p)' = Owners(p) \ {x}, OthersKept(p), kfd_unref_process(p), p \in allocated,
           UNCHANGED allocated
    PROVE  Counted'
<1>1. IsFiniteSet(Owners(p)) /\ ref[p] = Cardinality(Owners(p)) /\ Owners(p) # {}
  BY Zenon DEF Counted
<1>2. IsFiniteSet(Owners(p)') /\ Cardinality(Owners(p)') = Cardinality(Owners(p)) - 1
  BY SMTT(30), <1>1, Zenon DEF FiniteSetFacts
<1>3. ref[p] \in Nat /\ ref[p] # 0
  BY <1>1, Zenon DEF FiniteSetFacts
<1>4. ref'[p] = ref[p] - 1 /\ \A q \in Procs : q # p => ref'[q] = ref[q] /\ release'[q] = release[q]
  BY Zenon DEF ObjectTypes, kfd_unref_process
<1>5. release'[p] # "none" => ref'[p] = 0
  BY <1>3, <1>4 DEF Counted, ObjectTypes, kfd_unref_process
<1>6. \A q \in Procs : IsFiniteSet(Owners(q)') /\ ref'[q] = Cardinality(Owners(q)')
  BY <1>1, <1>2, <1>4, Zenon DEF Counted, OthersKept
<1> QED BY <1>4, <1>5, <1>6, Zenon DEF Counted

(* Without references, there is no owner. *)
LEMMA Unreferenced ==
    ASSUME FiniteSetFacts, Counted, NEW p \in Procs
    PROVE  ref[p] \in Nat /\ (ref[p] = 0 => Owners(p) = {})
<1>1. IsFiniteSet(Owners(p)) /\ ref[p] = Cardinality(Owners(p))
  BY Zenon DEF Counted
<1>2. Cardinality(Owners(p)) \in Nat /\ (Cardinality(Owners(p)) = 0 => Owners(p) = {})
  BY Zenon, <1>1 DEF FiniteSetFacts
<1> QED BY Zenon, <1>1, <1>2

(* Whoever knows a process keeps it from being freed. *)
InUse(p) ==
    \/ p \in table \/ p \in cleanup_list \/ notifier[p].state # "none"
    \/ \E o \in Openers : opener[o].proc = p
    \/ \E l \in Lookers : looker[l].proc = p
    \/ \E a \in Enders : ending[a].proc = p

(* A process that the table, a list, a file, a lookup or a callback knows
   has a reference, is allocated and is not being released. *)
LEMMA InUseIsReferenced ==
    ASSUME FiniteSetFacts, PTInv, NEW p \in Procs, InUse(p)
    PROVE  ref[p] > 0 /\ p \in allocated /\ release[p] = "none"
<1> USE DEF PTInv
<1>1. Owners(p) # {} => ref[p] > 0
  BY Unreferenced
<1>0. notifier[p].state # "none" => <<"notifier", p>> \in Owners(p)
  BY Zenon DEF Owners
<1>4. (\E o \in Openers : opener[o].proc = p) => ref[p] > 0
  <2>1. \A o \in Openers : opener[o].proc = p => <<"file", o>> \in Owners(p)
    BY Zenon DEF Owners
  <2> QED BY Zenon, <1>1, <2>1
<1>2. p \in table => ref[p] > 0
  BY Zenon, <1>0, <1>1, <1>4 DEF InTable
<1>3. p \in cleanup_list => ref[p] > 0
  BY Zenon, <1>0, <1>1 DEF UnloadPhase
<1>5. (\E a \in Enders : ending[a].proc = p) => ref[p] > 0
  BY <1>0, <1>1 DEF Takers, Takes, Callbacks, EndingShape, EndingTypes, EndingRec, Enders, Before, Taking
<1>6. (\E l \in Lookers : looker[l].proc = p) => ref[p] > 0
  <2>1. \A l \in Lookers : looker[l].proc = p /\ looker[l].pc # "found" => <<"lookup", l>> \in Owners(p)
    BY Zenon DEF Owners
  <2> QED BY Zenon, <1>1, <1>2, <1>5, <2>1 DEF Found
<1>7. ref[p] > 0
  BY Zenon, <1>0, <1>1, <1>2, <1>3, <1>4, <1>5, <1>6 DEF InUse
<1>8. ref[p] # 0
  BY <1>7
<1> QED BY <1>7, <1>8, Zenon DEF Counted

(* What a step does to a thread that opens: o goes to c with process p. *)
OpenerTo(o, c, m, p) ==
    /\ OpenerTypes'
    /\ opener'[o].pc = c /\ opener'[o].mm = m /\ opener'[o].proc = p
    /\ \A i \in Openers : i # o => opener'[i] = opener[i]

(* A thread in kfd_create_process that gets a process: nobody else moves. *)
LEMMA OpenerGets ==
    ASSUME OpenerTypes, NEW o \in Openers, NEW p \in Procs, NEW c \in {"open", "register"},
           opener' = [opener EXCEPT ![o].pc = c, ![o].proc = p]
    PROVE  OpenerTo(o, c, opener[o].mm, p)
<1> DEFINE q == [opener[o] EXCEPT !.pc = c]
<1> DEFINE r == [q EXCEPT !.proc = p]
<1>1. q \in OpenerRec /\ q.pc = c /\ q.mm = opener[o].mm
  BY DEF OpenerTypes, OpenerRec
<1>2. opener' = [opener EXCEPT ![o] = r]
  BY Zenon DEF OpenerTypes
<1> HIDE DEF q
<1>3. r \in OpenerRec /\ r.pc = c /\ r.mm = opener[o].mm /\ r.proc = p
  BY Zenon, <1>1 DEF OpenerRec
<1> HIDE DEF r
<1>4. OpenerTypes' /\ opener'[o] = r /\ \A i \in Openers : i # o => opener'[i] = opener[i]
  <2>1. opener \in [Openers -> OpenerRec]
    BY Zenon DEF OpenerTypes
  <2>2. opener' \in [Openers -> OpenerRec]
    BY Zenon, <1>2, <1>3, <2>1
  <2> QED BY Zenon, <1>2, <2>1, <2>2 DEF OpenerTypes
<1> QED BY Zenon, <1>3, <1>4 DEF OpenerTo

(* What kfd_unref_process does to the count and to the release work. *)
LEMMA UnrefCounts ==
    ASSUME ObjectTypes, NEW p \in Procs, kfd_unref_process(p)
    PROVE  ref' \in [Procs -> Int] /\ release' \in [Procs -> {"none", "queued", "running"}]
<1>1. ref' \in [Procs -> Int]
  BY DEF kfd_unref_process, ObjectTypes
<1>2. [release EXCEPT ![p] = "queued"] \in [Procs -> {"none", "queued", "running"}]
  BY Zenon DEF ObjectTypes
<1>3. release' \in [Procs -> {"none", "queued", "running"}]
  BY Zenon, <1>2 DEF kfd_unref_process, ObjectTypes
<1> QED BY Zenon, <1>1, <1>3

(* kfd_unref_process keeps the types. *)
LEMMA UnrefTypes ==
    ASSUME ObjectTypes, NEW p \in Procs, kfd_unref_process(p),
           UNCHANGED <<setup, allocated, table, cleanup_list, mm, notifier, space>>
    PROVE  ObjectTypes'
BY Zenon, UnrefCounts DEF ObjectTypes

(* kfd_create_process, until it waits for the releases under way. *)
LEMMA OpenStartsKeepsInv ==
    ASSUME FiniteSetFacts, PTInv, NEW o \in Openers, NEW m \in Mms, OpenStarts(o, m)
    PROVE  PTInv'
<1> USE DEF PTInv, objects, works, locking, system
<1>1. OpenerTo(o, "flush", m, NULL) /\ opener[o].pc = "idle" /\ opener[o].proc = NULL
  BY DEF OpenStarts, OpenerTo, OpenerTypes, OpenerRec, OpenerShape
<1>2. /\ UNCHANGED <<setup, allocated, table, ref, mm, notifier, release>>
      /\ UNCHANGED <<space, mutex, switching, looker, ending, cleanup_list>> /\ ~ Unloading
  BY Zenon DEF OpenStarts
<1>3. OpenerShape' /\ Creating' /\ InTable'
  BY <1>1, <1>2 DEF OpenerTo, OpenerShape, Creating, InTable
<1>4. UnloadPhase'
  BY Zenon, <1>1, <1>2 DEF UnloadPhase, Unloading
<1>5. \A p \in Procs : Owners(p)' = Owners(p)
  BY <1>1, <1>2 DEF Owners, OpenerTo
<1>6. Counted'
  BY Zenon, <1>2, <1>5 DEF Counted
<1> QED BY Zenon, <1>1, <1>2, <1>3, <1>4, <1>6, Frames DEF ObjectTypes, OpenerTo

(* kfd_create_process finds KFD locked, or a process of the mm, or keeps the
   mutex to create one. *)
LEMMA OpenLocksKeepsInv ==
    ASSUME FiniteSetFacts, PTInv, LockInv, NEW o \in Openers, OpenLocks(o)
    PROVE  PTInv'
<1> USE DEF PTInv, objects, works, locking
<1>0. /\ opener[o].proc = NULL /\ opener[o].mm \in Mms /\ mutex = NULL /\ ~ Unloading
      /\ \A i \in Openers : opener[i].pc \notin {"create", "register", "unwind"}
  BY Zenon DEF OpenLocks, OpenerShape, UnloadPhase
<1>1. /\ UNCHANGED <<setup, allocated, table, mm, notifier, release>>
      /\ UNCHANGED <<space, switching, looker, ending, cleanup_list>>
  BY Zenon DEF OpenLocks
<1>2. CASE kfd_locked > 0 /\ opener' = [opener EXCEPT ![o] = Idle] /\ UNCHANGED <<ref, mutex>>
  <2>1. OpenerTo(o, "idle", NULL, NULL)
    BY Zenon, <1>2 DEF OpenerTo, OpenerTypes, OpenerRec, Idle
  <2>2. OpenerShape' /\ Creating' /\ InTable'
    BY <1>0, <1>1, <1>2, <2>1 DEF OpenerTo, OpenerShape, Creating, InTable
  <2>3. UnloadPhase'
    BY Zenon, <1>0, <1>1, <1>2 DEF UnloadPhase, Unloading
  <2>4. \A p \in Procs : Owners(p)' = Owners(p)
    BY <1>0, <1>1, <2>1 DEF Owners, OpenerTo
  <2>5. Counted'
    BY Zenon, <1>1, <1>2, <2>4 DEF Counted
  <2> QED BY Zenon, <1>1, <1>2, <2>1, <2>2, <2>3, <2>5, Frames DEF ObjectTypes, OpenerTo
<1>3. ASSUME NEW p \in table, opener' = [opener EXCEPT ![o].pc = "open", ![o].proc = p],
             ref' = [ref EXCEPT ![p] = @ + 1], UNCHANGED mutex
      PROVE  PTInv'
  <2>0. p \in Procs /\ p # NULL
    BY Zenon DEF ObjectTypes
  <2>1. OpenerTo(o, "open", opener[o].mm, p)
    BY Zenon, <1>3, <2>0, OpenerGets
  <2>8. \A i \in Openers : opener'[i].pc \notin {"create", "register", "unwind"}
    BY Zenon, <1>0, <2>1 DEF OpenerTo
  <2>2. OpenerShape'
    <3>1. /\ opener'[o].proc # NULL /\ opener'[o].pc = "open" /\ opener'[o].mm \in Mms /\ mutex' # o
      BY <1>0, <1>1, <1>3, <2>0, <2>1 DEF OpenerTo, OpenerShape
    <3>2. \A i \in Openers : i # o => opener'[i] = opener[i]
      BY Zenon, <2>1 DEF OpenerTo
    <3>3. "open" \notin {"idle", "flush", "create", "register", "unwind"}
      OBVIOUS
    <3> QED BY ZenonT(60), <1>1, <1>3, <3>1, <3>2, <3>3 DEF OpenerShape
  <2>9. InTable'
    BY <1>0, <1>1, <2>8 DEF InTable
  <2>7. Creating'
    BY Zenon, <2>8 DEF Creating
  <2>3. UnloadPhase'
    BY Zenon, <1>0, <1>1, <1>3 DEF UnloadPhase, Unloading
  <2>4. /\ Owners(p)' = Owners(p) \cup {<<"file", o>>} /\ <<"file", o>> \notin Owners(p)
        /\ OthersKept(p)
    BY <1>0, <1>1, <2>0, <2>1 DEF Owners, OpenerTo, OthersKept
  <2>5. Counted'
    BY Zenon, <1>1, <1>3, <2>0, <2>4, ReferenceTaken, InUseIsReferenced DEF InUse
  <2>6. ObjectTypes'
    BY <1>1, <1>3 DEF ObjectTypes
  <2> QED BY Zenon, <1>1, <1>3, <2>1, <2>2, <2>3, <2>5, <2>6, <2>7, <2>9, Frames DEF OpenerTo
<1>4. CASE /\ kfd_locked = 0 /\ \A p \in table : mm[p] # opener[o].mm
           /\ opener' = [opener EXCEPT ![o].pc = "create"] /\ mutex' = o /\ UNCHANGED ref
  <2>1. OpenerTo(o, "create", opener[o].mm, NULL)
    BY <1>0, <1>4 DEF OpenerTo, OpenerTypes, OpenerRec
  <2>6. ~ switching
    BY <1>4 DEF LockInv
  <2>2. OpenerShape' /\ Creating' /\ InTable'
    BY <1>0, <1>1, <1>4, <2>1, <2>6 DEF OpenerTo, OpenerShape, Creating, InTable
  <2>3. UnloadPhase'
    BY Zenon, <1>0, <1>1, <1>4 DEF UnloadPhase, Unloading
  <2>4. \A p \in Procs : Owners(p)' = Owners(p)
    BY <1>0, <1>1, <2>1 DEF Owners, OpenerTo
  <2>5. Counted'
    BY Zenon, <1>1, <1>4, <2>4 DEF Counted
  <2> QED BY Zenon, <1>1, <1>4, <2>1, <2>2, <2>3, <2>5, Frames DEF ObjectTypes, OpenerTo
<1> QED BY Zenon, <1>2, <1>3, <1>4 DEF OpenLocks

(* create_process: a structure nobody knows becomes the one process of its
   mm, with two references. *)
LEMMA Create_processKeepsInv ==
    ASSUME FiniteSetFacts, PTInv, NEW o \in Openers, create_process(o)
    PROVE  PTInv'
<1> USE DEF PTInv, objects, works, locking
<1>0. opener[o].proc = NULL /\ opener[o].mm \in Mms /\ mutex = o /\ ~ Unloading /\ ~ switching
      /\ opener[o].pc = "create" /\ mutex # NULL
  BY Zenon DEF create_process, OpenerShape, UnloadPhase, Creating
<1>1. /\ UNCHANGED <<setup, notifier, release>>
      /\ UNCHANGED <<space, switching, looker, ending, cleanup_list>>
  BY Zenon DEF create_process
<1>2. CASE /\ opener' = [opener EXCEPT ![o] = Idle] /\ mutex' = NULL
           /\ UNCHANGED <<allocated, table, ref, mm>>
  <2>1. OpenerTo(o, "idle", NULL, NULL)
    BY Zenon, <1>2 DEF OpenerTo, OpenerTypes, OpenerRec, Idle
  <2>2. OpenerShape' /\ Creating' /\ InTable'
    BY <1>0, <1>1, <1>2, <2>1 DEF OpenerTo, OpenerShape, Creating, InTable
  <2>3. UnloadPhase'
    BY Zenon, <1>0, <1>1, <1>2 DEF UnloadPhase, Unloading
  <2>4. \A p \in Procs : Owners(p)' = Owners(p)
    BY <1>0, <1>1, <2>1 DEF Owners, OpenerTo
  <2>5. Counted'
    BY Zenon, <1>1, <1>2, <2>4 DEF Counted
  <2> QED BY Zenon, <1>1, <1>2, <2>1, <2>2, <2>3, <2>5, Frames DEF ObjectTypes, OpenerTo
<1>3. ASSUME NEW p \in Procs \ allocated, allocated' = allocated \cup {p}, table' = table \cup {p},
             ref' = [ref EXCEPT ![p] = 2], mm' = [mm EXCEPT ![p] = opener[o].mm],
             opener' = [opener EXCEPT ![o].pc = "register", ![o].proc = p], UNCHANGED mutex
      PROVE  PTInv'
  <2>0. p # NULL /\ ~ InUse(p) /\ release[p] = "none" /\ ref[p] = 0
    BY Zenon, InUseIsReferenced DEF Counted
  <2>1. OpenerTo(o, "register", opener[o].mm, p)
    BY Zenon, <1>3, <2>0, OpenerGets
  <2>2. mm'[p] = opener[o].mm /\ \A q \in Procs : q # p => mm'[q] = mm[q]
    BY Zenon, <1>3 DEF ObjectTypes
  <2>3. OpenerShape'
    BY ZenonT(60), <1>0, <1>1, <1>3, <2>0, <2>1 DEF OpenerTo, OpenerShape
  <2>4. Creating'
    <3>1. \A i \in Openers : i # o => opener'[i].pc \notin {"create", "register", "unwind"}
      BY Zenon, <1>0, <2>1 DEF OpenerTo, OpenerShape
    <3>2. \A i \in Openers : opener'[i].proc = p => i = o
      BY Zenon, <2>0, <2>1 DEF OpenerTo, InUse
    <3>3. p \in table' /\ notifier'[p].state = "none"
      BY Zenon, <1>1, <1>3, <2>0 DEF InUse
    <3> QED BY Zenon, <2>1, <3>1, <3>2, <3>3 DEF OpenerTo, Creating
  <2>5. InTable'
    <3>1. ASSUME NEW q \in table PROVE q # p /\ mm'[q] \in Mms
      BY <2>0, <2>2 DEF InTable, ObjectTypes, InUse
    <3>2. ASSUME NEW q \in table, NEW i \in Openers, opener[i].pc \in {"register", "unwind"} PROVE FALSE
      BY Zenon, <1>0, <3>2 DEF OpenerShape
    <3> QED BY Zenon, <1>0, <1>1, <1>3, <2>1, <2>2, <3>1, <3>2 DEF OpenerTo, InTable
  <2>13. OneProcessPerMm'
    BY <1>0, <1>1, <1>3, <2>0, <2>2 DEF OneProcessPerMm, Creating, ObjectTypes, InUse
  <2>6. UnloadPhase'
    BY Zenon, <1>0, <1>1, <1>3 DEF UnloadPhase, Unloading
  <2>7. /\ Owners(p)' = {<<"file", o>>, <<"register", o>>} /\ OthersKept(p)
    BY SMTT(30), <1>0, <1>1, <2>0, <2>1 DEF Owners, OpenerTo, OthersKept, InUse
  <2>8. IsFiniteSet(Owners(p)') /\ Cardinality(Owners(p)') = 2
    <3>1. IsFiniteSet({} \cup {<<"file", o>>}) /\ Cardinality({} \cup {<<"file", o>>}) = 0 + 1
      BY Zenon DEF FiniteSetFacts
    <3>2. {} \cup {<<"file", o>>} = {<<"file", o>>} /\ <<"register", o>> \notin {<<"file", o>>}
      OBVIOUS
    <3>3. /\ IsFiniteSet({<<"file", o>>} \cup {<<"register", o>>})
          /\ Cardinality({<<"file", o>>} \cup {<<"register", o>>}) = Cardinality({<<"file", o>>}) + 1
      BY <3>1, <3>2, Zenon DEF FiniteSetFacts
    <3>4. Owners(p)' = {<<"file", o>>} \cup {<<"register", o>>}
      BY Zenon, <2>7
    <3> QED BY <3>1, <3>2, <3>3, <3>4
  <2>9. Counted'
    <3>1. ref'[p] = 2 /\ \A q \in Procs : q # p => ref'[q] = ref[q]
      BY <1>1, <1>3, <2>0 DEF ObjectTypes
    <3>2. \A q \in Procs : IsFiniteSet(Owners(q)') /\ ref'[q] = Cardinality(Owners(q)')
      BY <2>7, <2>8, <3>1, Zenon DEF Counted, OthersKept
    <3> QED BY <1>1, <1>3, <2>0, <3>1, <3>2 DEF Counted
  <2>10. ObjectTypes'
    BY <1>0, <1>1, <1>3 DEF ObjectTypes
  <2>11. Takers'
    BY <1>1, <1>3, <2>0 DEF Takers, Takes, InUse
  <2>12. Callbacks' /\ Registered' /\ Found'
    BY Zenon, <1>1, <1>3, <2>0 DEF Callbacks, Unloading, Registered, Takes, Found
  <2> QED BY Zenon, <1>1, <1>3, <2>1, <2>3, <2>4, <2>5, <2>6, <2>9, <2>10, <2>11, <2>12, <2>13, Frames DEF OpenerTo
<1> QED BY Zenon, <1>2, <1>3 DEF create_process

(* mmu_notifier_get: the reference against free_notifier becomes that of the
   notifier. *)
LEMMA RegistersKeepsInv ==
    ASSUME FiniteSetFacts, PTInv, NEW o \in Openers, Registers(o)
    PROVE  PTInv'
<1> USE DEF PTInv, works, locking
<1>p. PICK p \in Procs : p = opener[o].proc
  BY Zenon DEF Registers, RegisterFails, Unwinds, kfd_release, OpenerShape, OpenerTypes, OpenerRec
<1>0. /\ p \in Procs /\ p \in table /\ notifier[p].state = "none" /\ opener[o].pc = "register"
      /\ opener[o].mm \in Mms /\ mutex = o /\ mutex # NULL /\ mutex # Unload
      /\ ~ Unloading /\ \A i \in Openers : opener[i].proc = p => i = o
  BY Zenon, <1>p DEF Registers, OpenerShape, Creating, UnloadPhase, ObjectTypes
<1>1. /\ UNCHANGED <<setup, allocated, table, ref, mm, release>>
      /\ UNCHANGED <<space, switching, looker, ending, cleanup_list>> /\ mutex' = NULL
  BY Zenon, <1>p DEF Registers
<1>2. OpenerTo(o, "open", opener[o].mm, p)
  BY <1>p DEF Registers, OpenerTo, OpenerTypes, OpenerRec
<1>3. /\ ObjectTypes' /\ notifier'[p].state = "on" /\ notifier'[p].mm = opener[o].mm
      /\ \A q \in Procs : q # p => notifier'[q] = notifier[q]
  BY Zenon, <1>p, <1>0, <1>1 DEF Registers, ObjectTypes
<1>4. \A i \in Openers : opener'[i].pc \notin {"create", "register", "unwind"}
  BY Zenon, <1>p, <1>0, <1>2 DEF OpenerShape, OpenerTo
<1>5. OpenerShape'
  BY <1>p, <1>0, <1>1, <1>2, <1>4 DEF OpenerShape, OpenerTo
<1>6. Creating'
  BY Zenon, <1>p, <1>4 DEF Creating
<1>7. InTable'
  <2> SUFFICES ASSUME NEW q \in table PROVE q \in allocated /\ mm[q] \in Mms /\ notifier'[q].state = "on"
    BY Zenon, <1>p, <1>1 DEF InTable
  <2>1. q # p => \A i \in Openers : opener[i].proc = q => opener[i].pc \notin {"register", "unwind"}
    BY Zenon, <1>p, <1>0 DEF OpenerShape
  <2> QED BY <1>p, <1>3, <2>1 DEF InTable, ObjectTypes
<1>8. UnloadPhase'
  BY Zenon, <1>p, <1>0, <1>1, <1>3 DEF UnloadPhase, Unloading, ObjectTypes
<1>9. Takers'
  <2>1. \A a, q : Takes(a, q)' <=> Takes(a, q)
    BY Zenon, <1>p, <1>1 DEF Takes
  <2>2. \A a \in Enders, q \in Procs : Takes(a, q) => q # p
    BY Zenon, <1>p, <1>0 DEF Takers
  <2> QED BY Zenon, <1>p, <1>1, <1>3, <2>1, <2>2 DEF Takers
<1>10. Callbacks'
  <2>1. \A m \in Mms : ending[m].proc # NULL => ending[m].proc \in Procs /\ ending[m].proc # p
    BY <1>p, <1>0 DEF Callbacks, EndingTypes, EndingRec, Enders
  <2> QED BY ZenonT(60), <1>p, <1>1, <1>3, <2>1 DEF Callbacks, Unloading
<1>11. Registered'
  BY <1>p, <1>0, <1>1, <1>3 DEF Registered, Takes
<1>12. Counted'
  <2>1. <<"register", o>> \in Owners(p) /\ <<"notifier", p>> \notin Owners(p)
    BY Zenon, <1>p, <1>0 DEF Owners
  <2>2. /\ Owners(p)' = (Owners(p) \ {<<"register", o>>}) \cup {<<"notifier", p>>}
        /\ OthersKept(p)
    BY SMTT(30), <1>p, <1>0, <1>1, <1>2, <1>3 DEF Owners, OpenerTo, OthersKept
  <2>3. IsFiniteSet(Owners(p)') /\ Cardinality(Owners(p)') = Cardinality(Owners(p))
    <3>0. IsFiniteSet(Owners(p)) /\ Cardinality(Owners(p)) \in Nat
      BY <1>p, Zenon DEF Counted, FiniteSetFacts
    <3>1. /\ IsFiniteSet(Owners(p) \ {<<"register", o>>})
          /\ Cardinality(Owners(p) \ {<<"register", o>>}) = Cardinality(Owners(p)) - 1
      BY <2>1, <3>0, Zenon DEF FiniteSetFacts
    <3>2. <<"notifier", p>> \notin Owners(p) \ {<<"register", o>>}
      BY Zenon, <2>1
    <3>3. /\ IsFiniteSet(Owners(p)')
          /\ Cardinality(Owners(p)') = Cardinality(Owners(p) \ {<<"register", o>>}) + 1
      BY <2>2, <3>1, <3>2, OneMore, Zenon
    <3> QED BY <3>0, <3>1, <3>3
  <2>4. \A q \in Procs : IsFiniteSet(Owners(q)') /\ ref'[q] = Cardinality(Owners(q)')
    BY Zenon, <1>p, <1>1, <2>2, <2>3 DEF Counted, OthersKept
  <2> QED BY Zenon, <1>p, <1>1, <2>4 DEF Counted
<1> QED BY Zenon, <1>1, <1>2, <1>3, <1>5, <1>6, <1>7, <1>8, <1>9, <1>10, <1>11, <1>12, Frames DEF OpenerTo

(* A failing mmu_notifier_get drops one of the two references. *)
LEMMA RegisterFailsKeepsInv ==
    ASSUME FiniteSetFacts, PTInv, NEW o \in Openers, RegisterFails(o)
    PROVE  PTInv'
<1> USE DEF PTInv, works, locking, system
<1>p. PICK p \in Procs : p = opener[o].proc
  BY Zenon DEF Registers, RegisterFails, Unwinds, kfd_release, OpenerShape, OpenerTypes, OpenerRec
<1>0. /\ p \in Procs /\ p \in table /\ notifier[p].state = "none" /\ opener[o].pc = "register"
      /\ mutex = o /\ ~ Unloading
  BY Zenon, <1>p DEF RegisterFails, OpenerShape, Creating, UnloadPhase, ObjectTypes
<1>1. /\ UNCHANGED <<setup, allocated, table, mm, notifier>> /\ kfd_unref_process(p)
      /\ UNCHANGED <<space, mutex, switching, looker, ending, cleanup_list>>
  BY Zenon, <1>p DEF RegisterFails
<1>2. OpenerTo(o, "unwind", opener[o].mm, p)
  BY <1>p DEF RegisterFails, OpenerTo, OpenerTypes, OpenerRec
<1>3. ObjectTypes'
  BY Zenon, <1>p, <1>0, <1>1, UnrefTypes
<1>4. OpenerShape' /\ Creating' /\ InTable'
  <2>1. OpenerShape'
    BY <1>p, <1>0, <1>1, <1>2 DEF OpenerShape, OpenerTo
  <2>2. Creating'
    BY <1>p, <1>0, <1>1, <1>2 DEF Creating, OpenerTo
  <2>3. InTable'
    BY SMTT(30), <1>p, <1>0, <1>1, <1>2 DEF InTable, OpenerTo
  <2> QED BY <2>1, <2>2, <2>3
<1>5. UnloadPhase'
  BY Zenon, <1>p, <1>0, <1>1 DEF UnloadPhase, Unloading
<1>6. Counted'
  <2>1. <<"register", o>> \in Owners(p) /\ p \in allocated
    BY Zenon, <1>p, <1>0 DEF Owners, InTable
  <2>2. Owners(p)' = Owners(p) \ {<<"register", o>>} /\ OthersKept(p)
    BY SMTT(30), <1>p, <1>0, <1>1, <1>2 DEF Owners, OpenerTo, OthersKept
  <2>3. Counted /\ ObjectTypes /\ p \in Procs /\ kfd_unref_process(p) /\ UNCHANGED allocated
    BY Zenon, <1>p, <1>0, <1>1
  <2> QED BY Zenon, <1>p, <2>1, <2>2, <2>3, ReferenceDropped
<1> QED BY Zenon, <1>1, <1>2, <1>3, <1>4, <1>5, <1>6, Frames DEF OpenerTo

(* err_register_notifier leaves the other processes alone. *)
LEMMA UnwindsOthers ==
    ASSUME PTInv, NEW o \in Openers, Unwinds(o), NEW p \in Procs, p = opener[o].proc
    PROVE  /\ OpenerTo(o, "idle", NULL, NULL) /\ OthersKept(p)
           /\ ObjectTypes' /\ ref'[p] = 0 /\ \A q \in Procs : q # p => ref'[q] = ref[q] /\ mm'[q] = mm[q]
           /\ OneProcessPerMm'
<1> USE DEF PTInv, works, locking
<1>0. /\ p # NULL /\ table' = table \ {p} /\ allocated' = allocated \ {p}
      /\ UNCHANGED <<setup, notifier, release, space, switching, looker, ending, cleanup_list>>
      /\ \A i \in Openers : opener[i].proc = p => i = o
  BY Zenon DEF Unwinds, Creating
<1>2. OpenerTo(o, "idle", NULL, NULL)
  BY Zenon DEF Unwinds, OpenerTo, OpenerTypes, OpenerRec, Idle
<1>3. /\ ObjectTypes' /\ ref'[p] = 0 /\ \A q \in Procs : q # p => ref'[q] = ref[q] /\ mm'[q] = mm[q]
  <2>1. ref' = [ref EXCEPT ![p] = 0] /\ mm' = [mm EXCEPT ![p] = NULL]
    BY Zenon DEF Unwinds
  <2>2. ref' \in [Procs -> Int]
    BY <2>1 DEF ObjectTypes
  <2>4. mm' \in [Procs -> Mms \cup {NULL}]
    BY Zenon, <2>1 DEF ObjectTypes
  <2>3. ref'[p] = 0 /\ \A q \in Procs : q # p => ref'[q] = ref[q] /\ mm'[q] = mm[q]
    BY Zenon, <1>0, <2>1 DEF ObjectTypes
  <2> QED BY Zenon, <1>0, <2>2, <2>3, <2>4 DEF ObjectTypes
<1>4. OneProcessPerMm'
  <2>1. table' \subseteq table /\ \A q \in table' : mm'[q] = mm[q]
    BY Zenon, <1>0, <1>3 DEF ObjectTypes
  <2>2. switching' = switching
    BY Zenon, <1>0
  <2>3. switching => table' = {}
    BY Zenon, <2>1 DEF OneProcessPerMm
  <2>4. \A q, r \in table' : mm'[q] = mm'[r] => q = r
    BY Zenon, <2>1 DEF OneProcessPerMm
  <2> QED BY Zenon, <2>2, <2>3, <2>4 DEF OneProcessPerMm
<1>5. OthersKept(p)
  <2>1. \A q \in Procs, i \in Openers : q # p => (opener'[i].proc = q <=> opener[i].proc = q) /\
                                      (opener'[i].proc = q => opener'[i].pc = opener[i].pc)
    BY ZenonT(60), <1>0, <1>2 DEF OpenerTo
  <2> QED BY SMTT(30), <1>0, <2>1 DEF Owners, OthersKept
<1> QED BY Zenon, <1>2, <1>3, <1>4, <1>5

(* err_register_notifier, when nobody else knows the process that is freed. *)
LEMMA UnwindsKeepsInv ==
    ASSUME FiniteSetFacts, PTInv, NEW o \in Openers, Unwinds(o), astray' # "unwind"
    PROVE  PTInv'
<1> USE DEF PTInv, works, locking
<1>p. PICK p \in Procs : p = opener[o].proc
  BY Zenon DEF Registers, RegisterFails, Unwinds, kfd_release, OpenerShape, OpenerTypes, OpenerRec
<1>0. /\ p \in Procs /\ p \in table /\ notifier[p].state = "none" /\ opener[o].pc = "unwind"
      /\ mutex = o /\ mutex # NULL /\ mutex # Unload /\ ~ Unloading
      /\ \A i \in Openers : opener[i].proc = p => i = o
  BY Zenon, <1>p DEF Unwinds, OpenerShape, Creating, UnloadPhase, ObjectTypes
<1>1. /\ table' = table \ {p} /\ allocated' = allocated \ {p}
      /\ UNCHANGED <<setup, notifier, release>>
      /\ UNCHANGED <<space, switching, looker, ending, cleanup_list>> /\ mutex' = NULL
  BY Zenon, <1>p DEF Unwinds
<1>2. /\ OpenerTo(o, "idle", NULL, NULL) /\ OthersKept(p) /\ OneProcessPerMm'
      /\ ObjectTypes' /\ ref'[p] = 0 /\ \A q \in Procs : q # p => ref'[q] = ref[q] /\ mm'[q] = mm[q]
  BY Zenon, <1>p, UnwindsOthers
<1>4. \A l \in Lookers : looker[l].proc # p
  BY Zenon, <1>p DEF Unwinds
<1>5. \A a \in Enders : ending[a].proc # p
  <2>1. \A m \in Mms : ending[m].proc # p
    BY <1>p, <1>0 DEF Callbacks
  <2>2. ending[Unload].proc # p
    BY Zenon, <1>p, <1>0 DEF EndingShape, Enders, Unloading, NoProc
  <2> QED BY Zenon, <1>p, <2>1, <2>2 DEF Enders
<1>6. release[p] = "none" /\ p # NULL
  BY Zenon, <1>p, <1>0, InUseIsReferenced DEF InUse
<1>7. \A i \in Openers : opener'[i].pc \notin {"create", "register", "unwind"}
  BY Zenon, <1>p, <1>0, <1>2 DEF OpenerShape, OpenerTo
<1>8. OpenerShape' /\ Creating'
  <2>1. ASSUME NEW i \in Openers
        PROVE  /\ opener'[i].proc = NULL <=> opener'[i].pc \in {"idle", "flush", "create"}
               /\ opener'[i].pc # "idle" => opener'[i].mm \in Mms
    <3>1. CASE i = o
      BY Zenon, <1>2, <3>1 DEF OpenerTo
    <3>2. CASE i # o
      <4>1. opener'[i] = opener[i]
        BY Zenon, <1>2, <3>2 DEF OpenerTo
      <4>2. /\ opener[i].proc = NULL <=> opener[i].pc \in {"idle", "flush", "create"}
            /\ opener[i].pc # "idle" => opener[i].mm \in Mms
        BY Zenon, <1>0 DEF OpenerShape
      <4> QED BY Zenon, <4>1, <4>2
    <3> QED BY Zenon, <3>1, <3>2
  <2>2. \A i \in Openers : opener'[i].pc \in {"create", "register", "unwind"} <=> mutex' = i
    <3>1. \A i \in Openers : mutex' # i
      BY Zenon, <1>1
    <3> QED BY Zenon, <1>7, <3>1
  <2>3. Creating'
    BY Zenon, <1>7 DEF Creating
  <2> QED BY Zenon, <2>1, <2>2, <2>3 DEF OpenerShape
<1>9. InTable'
  <2> SUFFICES ASSUME NEW q \in table, q # p
               PROVE q \in allocated' /\ mm'[q] \in Mms /\ notifier[q].state = "on"
    BY Zenon, <1>p, <1>1 DEF InTable
  <2>1. \A i \in Openers : opener[i].proc = q => opener[i].pc \notin {"register", "unwind"}
    BY Zenon, <1>p, <1>0 DEF OpenerShape
  <2> QED BY Zenon, <1>p, <1>1, <1>2, <2>1 DEF InTable, ObjectTypes
<1>11. UnloadPhase'
  BY Zenon, <1>p, <1>0, <1>1 DEF UnloadPhase, Unloading
<1>12. Takers'
  BY Zenon, <1>p, <1>1 DEF Takers, Takes
<1>13. Callbacks'
  BY Zenon, <1>p, <1>1, <1>5 DEF Callbacks, Unloading, Enders
<1>14. Registered'
  BY Zenon, <1>p, <1>0, <1>1 DEF Registered, Takes
<1>15. Found'
  BY Zenon, <1>p, <1>1, <1>4 DEF Found
<1>16. Owners(p)' = {} /\ OthersKept(p)
  <2>1. \A i \in Openers : opener'[i].proc # p
    BY Zenon, <1>p, <1>0, <1>2, <1>6 DEF OpenerTo
  <2>2. \A l \in Lookers : looker'[l].proc # p
    BY Zenon, <1>p, <1>1, <1>4, <1>6
  <2>3. Owners(p)' = {}
    BY Zenon, <1>p, <1>0, <1>1, <2>1, <2>2 DEF Owners
  <2> QED BY Zenon, <1>2, <2>3
<1>17. Counted'
  <2>1. IsFiniteSet(Owners(p)') /\ Cardinality(Owners(p)') = 0
    BY <1>16, Zenon DEF FiniteSetFacts
  <2>2. \A q \in Procs : IsFiniteSet(Owners(q)') /\ ref'[q] = Cardinality(Owners(q)')
    BY Zenon, <1>p, <1>2, <1>16, <2>1 DEF Counted, OthersKept
  <2> QED BY Zenon, <1>p, <1>1, <1>2, <1>6, <2>2 DEF Counted
<1> QED BY Zenon, <1>1, <1>2, <1>8, <1>9, <1>11, <1>12, <1>13, <1>14, <1>15, <1>17, Frames DEF OpenerTo

(* kfd_release drops the reference of its file. *)
LEMMA Kfd_releaseKeepsInv ==
    ASSUME FiniteSetFacts, PTInv, NEW o \in Openers, kfd_release(o)
    PROVE  PTInv'
<1> USE DEF PTInv, works, locking, system
<1>p. PICK p \in Procs : p = opener[o].proc
  BY Zenon DEF Registers, RegisterFails, Unwinds, kfd_release, OpenerShape, OpenerTypes, OpenerRec
<1>0. p \in Procs /\ opener[o].pc = "open"
  BY Zenon, <1>p DEF kfd_release, OpenerShape, OpenerTypes, OpenerRec
<1>1. /\ UNCHANGED <<setup, allocated, table, mm, notifier>> /\ kfd_unref_process(p)
      /\ UNCHANGED <<space, mutex, switching, looker, ending, cleanup_list>>
  BY Zenon, <1>p DEF kfd_release
<1>2. OpenerTo(o, "idle", NULL, NULL)
  BY Zenon, <1>p DEF kfd_release, OpenerTo, OpenerTypes, OpenerRec, Idle
<1>3. ObjectTypes'
  BY Zenon, <1>p, <1>0, <1>1, UnrefTypes
<1>4. OpenerShape' /\ Creating' /\ InTable'
  <2>1. OpenerShape'
    BY <1>p, <1>0, <1>1, <1>2 DEF OpenerShape, OpenerTo
  <2>2. Creating'
    <3>1. \A i \in Openers : opener[i].pc \in {"register", "unwind"} => opener[i].proc # NULL
      BY Zenon DEF OpenerShape
    <3> QED BY <1>0, <1>1, <1>2, <3>1 DEF Creating, OpenerTo
  <2>3. InTable'
    BY <1>p, <1>0, <1>1, <1>2 DEF InTable, OpenerTo
  <2> QED BY <2>1, <2>2, <2>3
<1>5. UnloadPhase'
  BY Zenon, <1>p, <1>0, <1>1, <1>2 DEF UnloadPhase, Unloading, OpenerTo
<1>6. Counted'
  <2>1. <<"file", o>> \in Owners(p) /\ p \in allocated
    BY Zenon, <1>p, <1>0, InUseIsReferenced DEF Owners, InUse
  <2>2. Owners(p)' = Owners(p) \ {<<"file", o>>}
    BY <1>p, <1>0, <1>1, <1>2 DEF Owners, OpenerTo
  <2>4. OthersKept(p)
    BY <1>p, <1>0, <1>1, <1>2 DEF Owners, OpenerTo, OthersKept
  <2>3. Counted /\ ObjectTypes /\ p \in Procs /\ kfd_unref_process(p) /\ UNCHANGED allocated
    BY Zenon, <1>p, <1>0, <1>1
  <2> QED BY Zenon, <1>p, <2>1, <2>2, <2>3, <2>4, ReferenceDropped
<1> QED BY Zenon, <1>1, <1>2, <1>3, <1>4, <1>5, <1>6, Frames DEF OpenerTo

-----------------------------------------------------------------------------
(* A lookup finds a process that is in the table. *)
LEMMA LookupFindsKeepsInv ==
    ASSUME FiniteSetFacts, PTInv, NEW l \in Lookers, LookupFinds(l)
    PROVE  PTInv'
<1> USE DEF PTInv, objects, works, locking, system
<1>1. PICK p \in table : looker' = [looker EXCEPT ![l] = [pc |-> "found", proc |-> p]]
  BY Zenon DEF LookupFinds
<1>2. /\ UNCHANGED <<setup, allocated, table, ref, mm, notifier, release>>
      /\ UNCHANGED <<space, mutex, switching, opener, ending, cleanup_list>> /\ looker[l].proc = NULL
  BY Zenon DEF LookupFinds, LookerShape
<1>3. p \in Procs /\ p # NULL
  BY Zenon DEF ObjectTypes
<1>4. LookerTypes' /\ looker'[l].pc = "found" /\ looker'[l].proc = p
      /\ \A k \in Lookers : k # l => looker'[k] = looker[k]
  BY Zenon, <1>1, <1>3 DEF LookerTypes, LookerRec
<1>5. LookerShape' /\ Found'
  BY <1>2, <1>3, <1>4 DEF LookerShape, Found
<1>6. \A q \in Procs : Owners(q)' = Owners(q)
  BY <1>2, <1>4 DEF Owners
<1>7. Counted'
  BY Zenon, <1>2, <1>6 DEF Counted
<1> QED BY Zenon, <1>2, <1>4, <1>5, <1>7, Frames DEF ObjectTypes

(* A lookup takes its reference before who removed the process may go on. *)
LEMMA LookupTakesKeepsInv ==
    ASSUME FiniteSetFacts, PTInv, NEW l \in Lookers, LookupTakes(l)
    PROVE  PTInv'
<1> USE DEF PTInv, works, locking, system
<1>0. /\ UNCHANGED <<setup, allocated, table, mm, notifier, release>> /\ looker[l].pc = "found"
      /\ UNCHANGED <<space, mutex, switching, opener, cleanup_list>>
  BY Zenon DEF LookupTakes
<1>1. PICK p \in Procs : p = looker[l].proc
  BY Zenon, <1>0 DEF LookerShape, LookerTypes, LookerRec
<1>2. p # NULL /\ p \in allocated /\ release[p] = "none"
  BY Zenon, <1>1, InUseIsReferenced DEF InUse
<1>3. ref' = [ref EXCEPT ![p] = @ + 1]
  BY Zenon, <1>1 DEF LookupTakes
<1>4. LookerTypes' /\ looker'[l].pc = "held" /\ looker'[l].proc = p
      /\ \A k \in Lookers : k # l => looker'[k] = looker[k]
  BY Zenon, <1>1 DEF LookupTakes, LookerTypes, LookerRec
<1>5. /\ EndingTypes'
      /\ \A a \in Enders : /\ ending'[a].pc = ending[a].pc /\ ending'[a].proc = ending[a].proc
                           /\ \A k \in Lookers : k # l => (k \in ending'[a].wait <=> k \in ending[a].wait)
  <2>1. DOMAIN ending = Enders /\ ending' = [a \in DOMAIN ending |-> [ending[a] EXCEPT !.wait = @ \ {l}]]
    BY Zenon DEF LookupTakes, EndingTypes
  <2>2. ASSUME NEW a \in Enders
        PROVE  /\ ending'[a] \in EndingRec /\ ending'[a].pc = ending[a].pc /\ ending'[a].proc = ending[a].proc
               /\ \A k \in Lookers : k # l => (k \in ending'[a].wait <=> k \in ending[a].wait)
    <3>1. ending'[a] = [ending[a] EXCEPT !.wait = @ \ {l}] /\ ending[a] \in EndingRec
      BY Zenon, <2>1 DEF EndingTypes
    <3> QED BY Zenon, <3>1 DEF EndingRec
  <2>3. EndingTypes'
    BY Zenon, <2>1, <2>2 DEF EndingTypes
  <2> QED BY Zenon, <2>2, <2>3
<1>6. ObjectTypes'
  <2>1. ref \in [Procs -> Int] /\ ref[p] \in Int
    BY Zenon DEF ObjectTypes
  <2>2. ref[p] + 1 \in Int
    BY <2>1
  <2>3. ref' \in [Procs -> Int]
    BY Zenon, <1>3, <2>1, <2>2
  <2> QED BY Zenon, <1>0, <2>3 DEF ObjectTypes
<1>7. LookerShape'
  <2>1. ASSUME NEW k \in Lookers
        PROVE  looker'[k].proc = NULL <=> looker'[k].pc = "idle"
    <3>1. CASE k = l
      <4>1. looker'[k].proc # NULL /\ looker'[k].pc # "idle"
        BY Zenon, <1>2, <1>4, <3>1
      <4> QED BY Zenon, <4>1
    <3>2. CASE k # l
      BY Zenon, <1>4, <3>2 DEF LookerShape
    <3> QED BY Zenon, <3>1, <3>2
  <2> QED BY Zenon, <2>1 DEF LookerShape
<1>8. EndingShape' /\ Callbacks'
  BY SMTT(30), <1>0, <1>5 DEF EndingShape, Callbacks, Unloading, Enders
<1>9. \A a \in Enders, q \in Procs : Takes(a, q)' <=> Takes(a, q)
  BY Zenon, <1>5 DEF Takes
<1>10. Takers' /\ Registered'
  BY Zenon, <1>0, <1>9 DEF Takers, Registered
<1>11. UnloadPhase'
  BY Zenon, <1>0, <1>5 DEF UnloadPhase, Unloading, Enders
<1>12. Found'
  <2>1. /\ \A k \in Lookers : looker'[k].pc = "found" =>
             k # l /\ looker[k].pc = "found" /\ looker'[k].proc = looker[k].proc
        /\ table \subseteq table'
    BY Zenon, <1>0, <1>4
  <2> QED BY Zenon, <1>5, <2>1, FoundKept
<1>13. /\ Owners(p)' = Owners(p) \cup {<<"lookup", l>>} /\ <<"lookup", l>> \notin Owners(p)
       /\ OthersKept(p)
  BY SMTT(30), <1>0, <1>1, <1>4 DEF Owners, OthersKept
<1>14. Counted'
  <2>1. Counted /\ ObjectTypes /\ UNCHANGED <<allocated, release>>
    BY Zenon, <1>0
  <2> QED BY Zenon, <1>2, <1>3, <1>13, <2>1, ReferenceTaken
<1> QED BY Zenon, <1>0, <1>4, <1>5, <1>6, <1>7, <1>8, <1>10, <1>11, <1>12, <1>14, Frames

(* A lookup that schedules an eviction keeps its reference. *)
LEMMA SchedulesEvictionKeepsInv ==
    ASSUME FiniteSetFacts, PTInv, NEW l \in Lookers, SchedulesEviction(l)
    PROVE  PTInv'
<1> USE DEF PTInv, objects, system, locking
<1>1. /\ UNCHANGED <<setup, allocated, table, ref, mm, notifier, release>> /\ looker[l].pc = "held"
      /\ UNCHANGED <<space, mutex, switching, opener, ending, cleanup_list>>
  BY Zenon DEF SchedulesEviction
<1>2. LookerTypes' /\ looker'[l].pc = "put" /\ looker'[l].proc = looker[l].proc
      /\ \A k \in Lookers : k # l => looker'[k] = looker[k]
  BY Zenon DEF SchedulesEviction, LookerTypes, LookerRec
<1>3. LookerShape' /\ Found'
  <2>1. LookerShape'
    <3>1. ASSUME NEW k \in Lookers
          PROVE  looker'[k].proc = NULL <=> looker'[k].pc = "idle"
      <4>1. CASE k = l
        BY Zenon, <1>1, <1>2, <4>1 DEF LookerShape
      <4>2. CASE k # l
        BY Zenon, <1>1, <1>2, <4>2 DEF LookerShape
      <4> QED BY Zenon, <4>1, <4>2
    <3> QED BY Zenon, <1>1, <1>2, <3>1 DEF LookerShape
  <2>2. /\ \A k \in Lookers : looker'[k].pc = "found" =>
             looker[k].pc = "found" /\ looker'[k].proc = looker[k].proc
        /\ table \subseteq table' /\ UNCHANGED ending
    BY Zenon, <1>1, <1>2
  <2>3. Found'
    BY Zenon, <2>2, FoundKept
  <2> QED BY Zenon, <2>1, <2>3
<1>4. \A q \in Procs : Owners(q)' = Owners(q)
  BY <1>1, <1>2 DEF Owners
<1>5. Counted'
  BY Zenon, <1>1, <1>4 DEF Counted
<1> QED BY Zenon, <1>1, <1>2, <1>3, <1>5, Frames DEF ObjectTypes

(* A lookup drops its reference. *)
LEMMA LookupEndsKeepsInv ==
    ASSUME FiniteSetFacts, PTInv, NEW l \in Lookers, LookupEnds(l)
    PROVE  PTInv'
<1> USE DEF PTInv, works, locking, system
<1>0. /\ UNCHANGED <<setup, allocated, table, mm, notifier>> /\ looker[l].pc \in {"held", "put"}
      /\ UNCHANGED <<space, mutex, switching, opener, ending, cleanup_list>>
  BY Zenon DEF LookupEnds
<1>1. PICK p \in Procs : p = looker[l].proc
  BY Zenon, <1>0 DEF LookerShape, LookerTypes, LookerRec
<1>2. p # NULL /\ p \in allocated /\ kfd_unref_process(p)
  BY Zenon, <1>1, InUseIsReferenced DEF InUse, LookupEnds
<1>3. LookerTypes' /\ looker'[l].pc = "idle" /\ looker'[l].proc = NULL
      /\ \A k \in Lookers : k # l => looker'[k] = looker[k]
  BY Zenon DEF LookupEnds, LookerTypes, LookerRec, Away
<1>4. ObjectTypes'
  BY Zenon, <1>0, <1>2, UnrefTypes
<1>5. LookerShape' /\ Found'
  <2>1. LookerShape'
    <3>1. ASSUME NEW k \in Lookers
          PROVE  looker'[k].proc = NULL <=> looker'[k].pc = "idle"
      <4>1. CASE k = l
        BY Zenon, <1>0, <1>3, <4>1 DEF LookerShape
      <4>2. CASE k # l
        BY Zenon, <1>0, <1>3, <4>2 DEF LookerShape
      <4> QED BY Zenon, <4>1, <4>2
    <3> QED BY Zenon, <1>0, <1>3, <3>1 DEF LookerShape
  <2>2. /\ \A k \in Lookers : looker'[k].pc = "found" =>
             looker[k].pc = "found" /\ looker'[k].proc = looker[k].proc
        /\ table \subseteq table' /\ UNCHANGED ending
    BY Zenon, <1>0, <1>3
  <2>3. Found'
    BY Zenon, <2>2, FoundKept
  <2> QED BY Zenon, <2>1, <2>3
<1>6. Counted'
  <2>1. <<"lookup", l>> \in Owners(p)
    BY Zenon, <1>0, <1>1 DEF Owners
  <2>2. Owners(p)' = Owners(p) \ {<<"lookup", l>>} /\ OthersKept(p)
    BY SMTT(30), <1>0, <1>1, <1>3 DEF Owners, OthersKept
  <2>3. Counted /\ ObjectTypes /\ UNCHANGED allocated
    BY Zenon, <1>0
  <2> QED BY Zenon, <1>2, <2>1, <2>2, <2>3, ReferenceDropped
<1> QED BY Zenon, <1>0, <1>3, <1>4, <1>5, <1>6, Frames

(* kfd_process_wq_release frees a process that nobody knows. *)
LEMMA Wq_releaseKeepsInv ==
    ASSUME FiniteSetFacts, PTInv, NEW p \in Procs, wq_release(p)
    PROVE  PTInv'
<1> USE DEF PTInv, works, locking, system
<1>0. /\ UNCHANGED <<setup, table, ref, notifier>> /\ release[p] # "none"
      /\ UNCHANGED <<space, mutex, switching, looker, ending, cleanup_list>>
  BY Zenon DEF wq_release
<1>1. ~ InUse(p) /\ ref[p] = 0 /\ p \in allocated
  BY Zenon, <1>0, InUseIsReferenced DEF Counted
<1>2. CASE release[p] = "queued"
  <2>1. UNCHANGED <<allocated, mm, opener>> /\ release' = [release EXCEPT ![p] = "running"]
    BY Zenon, <1>2 DEF wq_release
  <2>2. ObjectTypes'
    BY Zenon, <1>0, <2>1 DEF ObjectTypes
  <2>3. \A q \in Procs : Owners(q)' = Owners(q)
    BY Zenon, <1>0, <2>1 DEF Owners
  <2>4. Counted'
    BY <1>0, <1>1, <2>1, <2>3 DEF Counted, ObjectTypes
  <2> QED BY Zenon, <1>0, <2>1, <2>2, <2>4, Frames
<1>3. CASE release[p] = "running"
  <2>1. /\ release' = [release EXCEPT ![p] = "none"] /\ allocated' = allocated \ {p}
        /\ mm' = [mm EXCEPT ![p] = NULL]
        /\ opener' = [o \in Openers |-> [opener[o] EXCEPT !.flush = @ \ {p}]]
    BY Zenon, <1>3 DEF wq_release
  <2>2. ObjectTypes'
    BY Zenon, <1>0, <2>1 DEF ObjectTypes
  <2>3. OpenerTypes' /\ \A o \in Openers : /\ opener'[o].pc = opener[o].pc /\ opener'[o].mm = opener[o].mm
                                           /\ opener'[o].proc = opener[o].proc
    <3>1. ASSUME NEW o \in Openers
          PROVE  /\ opener'[o] \in OpenerRec /\ opener'[o].pc = opener[o].pc /\ opener'[o].mm = opener[o].mm
                 /\ opener'[o].proc = opener[o].proc
      <4>1. opener'[o] = [opener[o] EXCEPT !.flush = @ \ {p}] /\ opener[o] \in OpenerRec
        BY Zenon, <2>1 DEF OpenerTypes
      <4> QED BY Zenon, <4>1 DEF OpenerRec
    <3>2. OpenerTypes'
      BY Zenon, <2>1, <3>1 DEF OpenerTypes
    <3> QED BY Zenon, <3>1, <3>2
  <2>4. p \notin table /\ \A q \in Procs : q # p => mm'[q] = mm[q] /\ release'[q] = release[q]
    BY Zenon, <1>1, <2>1 DEF InUse, ObjectTypes
  <2>5. \A q \in table : q \in Procs /\ q # p /\ mm'[q] = mm[q]
    BY Zenon, <2>4 DEF ObjectTypes
  <2>6. OpenerShape' /\ Creating'
    BY SMTT(30), <1>0, <2>3, <2>5 DEF OpenerShape, Creating
  <2>7. InTable' /\ OneProcessPerMm'
    <3>1. \A q \in table : q \in allocated' /\ mm'[q] \in Mms
      BY Zenon, <2>1, <2>5 DEF InTable
    <3>2. InTable'
      BY SMTT(30), <1>0, <2>3, <3>1 DEF InTable
    <3>3. OneProcessPerMm'
      BY Zenon, <1>0, <2>5 DEF OneProcessPerMm
    <3> QED BY Zenon, <3>2, <3>3
  <2>8. UnloadPhase'
    BY Zenon, <1>0, <2>3 DEF UnloadPhase, Unloading
  <2>9. \A q \in Procs : Owners(q)' = Owners(q)
    BY SMTT(30), <1>0, <2>3 DEF Owners
  <2>10. Counted'
    BY <1>0, <1>1, <2>1, <2>4, <2>9 DEF Counted, ObjectTypes
  <2> QED BY Zenon, <1>0, <2>2, <2>3, <2>6, <2>7, <2>8, <2>10, Frames
<1> QED BY Zenon, <1>0, <1>2, <1>3 DEF ObjectTypes

(* The works, and the locking of KFD. *)
LEMMA WorksKeepInv ==
    ASSUME FiniteSetFacts, PTInv, NEW p \in Procs, Works(p)
    PROVE  PTInv'
<1>1. UNCHANGED <<objects, system, actors>>
  BY Zenon DEF Works, EvictWorks, RestoreWorks
<1> QED BY Zenon, <1>1, Frames DEF objects, system, locking, actors, PTInv, ObjectTypes

(* kgd2kfd_check_and_lock_kfd locks only with an empty table; suspends and resumes
   do not touch what it found. *)
Locks == check_and_lock_kfd \/ unlock_kfd \/ kgd2kfd_suspend \/ kgd2kfd_resume
LEMMA LockKeepsInv ==
    ASSUME FiniteSetFacts, PTInv, Locks
    PROVE  PTInv'
<1> USE DEF PTInv, objects, works, locking, actors, Locks
<1>1. /\ UNCHANGED <<objects, setup, space, mutex, actors>> /\ mutex = NULL
      /\ switching' => table = {}
  <2>1. CASE check_and_lock_kfd
    BY Zenon, <2>1 DEF check_and_lock_kfd
  <2>2. CASE unlock_kfd
    BY Zenon, <2>2 DEF unlock_kfd
  <2>3. CASE kgd2kfd_suspend \/ kgd2kfd_resume
    <3>1. UNCHANGED <<objects, setup, space, mutex, actors>> /\ mutex = NULL /\ switching' = switching
      BY Zenon, <2>3 DEF kgd2kfd_suspend, kgd2kfd_resume
    <3> QED BY Zenon, <3>1 DEF OneProcessPerMm
  <2> QED BY Zenon, <2>1, <2>2, <2>3
<1>2. OneProcessPerMm'
  BY Zenon, <1>1 DEF OneProcessPerMm
<1>3. Creating'
  BY <1>1 DEF Creating, OpenerShape
<1> QED BY Zenon, <1>1, <1>2, <1>3, Frames DEF ObjectTypes

(* Who takes a process down goes on. *)
LEMMA TakerGoesOn ==
    ASSUME FiniteSetFacts, PTInv, NEW a \in Enders, NEW c \in Taking \ {"sync"}, ending[a].pc \in Taking, Ends(a, c),
           ending[a].pc = "sync" => ending[a].wait = {} /\ a # Unload,
           UNCHANGED <<table, notifier, cleanup_list, space, looker, opener, mutex>>
    PROVE  EndingTypes' /\ EndingShape' /\ Takers' /\ Callbacks' /\ Registered' /\ Found' /\ UnloadPhase'
<1> USE DEF PTInv
<1>1. MovesTo(a, c, ending[a].proc)
  BY Zenon, EndsMoves
<1>2. EndingTypes' /\ \A b \in Enders : ending'[b].proc = ending[b].proc
  BY Zenon, <1>1 DEF MovesTo
<1>3. ending[a].proc # NULL /\ c \notin NoProc /\ c \notin Before /\ ending[a].pc \notin NoProc \cup Before
  BY Zenon DEF EndingShape, Taking, NoProc, Before
<1>4. EndingShape'
  BY Zenon, <1>1, <1>3, ShapeKept
<1>5. \A b \in Enders, q \in Procs : Takes(b, q)' <=> Takes(b, q)
  BY Zenon, <1>1 DEF MovesTo, Takes
<1>6. Takers' /\ Registered'
  BY Zenon, <1>5 DEF Takers, Registered
<1>7. Unloading' <=> Unloading
  BY Zenon, <1>1, <1>3 DEF MovesTo, Unloading, Enders, NoProc
<1>8. Callbacks'
  <2>1. \A m \in Mms : ending'[m].proc = ending[m].proc /\ (ending'[m].pc \in Before => ending[m].pc \in Before)
    BY Zenon, <1>1, <1>3 DEF MovesTo, Enders
  <2> QED BY Zenon, <1>7, <2>1 DEF Callbacks
<1>9. Found'
  BY <1>1 DEF MovesTo, Found, Taking
<1>10. UnloadPhase'
  <2>1. ending'[Unload].pc \in {"move", "sync"} <=> ending[Unload].pc \in {"move", "sync"}
    BY Zenon, <1>1 DEF MovesTo, Enders, Taking
  <2> QED BY Zenon, <1>7, <2>1 DEF UnloadPhase
<1> QED BY Zenon, <1>2, <1>4, <1>6, <1>8, <1>9, <1>10

(* A callback that takes nothing down begins, goes on or returns. *)
LEMMA CallbackMoves ==
    ASSUME FiniteSetFacts, PTInv, NEW m \in Mms, NEW c \in Before \cup {"idle"}, NEW q, ending[m].pc \notin Taking,
           MovesTo(m, c, q), q = NULL <=> c = "idle",
           UNCHANGED <<table, notifier, cleanup_list, looker, opener, mutex>>
    PROVE  EndingTypes' /\ EndingShape' /\ Takers' /\ Registered' /\ Found' /\ UnloadPhase'
<1> USE DEF PTInv
<1>1. m \in Enders /\ m # Unload /\ Unload \in Enders /\ EndingTypes'
  BY Zenon DEF Enders, MovesTo
<1>2. c \notin Taking /\ (c \in NoProc <=> c = "idle")
  BY Zenon DEF Before, Taking, NoProc
<1>3. EndingShape'
  BY Zenon, <1>1, <1>2, ShapeKept
<1>4. \A b \in Enders, p \in Procs : Takes(b, p)' <=> Takes(b, p)
  BY Zenon, <1>2 DEF MovesTo, Takes
<1>5. Takers' /\ Registered'
  BY Zenon, <1>4 DEF Takers, Registered
<1>6. ending'[Unload].pc = ending[Unload].pc
  BY Zenon, <1>1 DEF MovesTo
<1>7. UnloadPhase'
  BY Zenon, <1>6 DEF UnloadPhase, Unloading
<1>8. Found'
  BY SMTT(30) DEF MovesTo, Found, Taking
<1> QED BY Zenon, <1>1, <1>3, <1>5, <1>7, <1>8

(* The other callbacks do not notice. *)
LEMMA CallbacksKept ==
    ASSUME FiniteSetFacts, PTInv, NEW m \in Mms, NEW c, NEW q, MovesTo(m, c, q),
           \A b \in Mms : b # m => space'[b] = space[b],
           UNCHANGED <<table, notifier>>,
           q # NULL => /\ notifier[q].state # "none" /\ notifier[q].mm = m /\ space'[m] = "exiting"
                       /\ c \in Before => q \in table \/ Unloading
    PROVE  Callbacks'
<1> USE DEF PTInv
<1>1. m # Unload /\ Mms \subseteq Enders /\ Unload \in Enders
  BY Zenon DEF Enders
<1>2. Unloading' <=> Unloading
  BY Zenon, <1>1 DEF MovesTo, Unloading
<1> QED BY SMTT(30), <1>1, <1>2 DEF MovesTo, Callbacks

(* A callback that has taken nothing down, or has just put the notifier,
   returns. *)
LEMMA QuietEnd ==
    ASSUME FiniteSetFacts, PTInv, NEW m \in Mms, ending[m].pc \notin Taking, EndsQuietly(m),
           UNCHANGED <<objects, setup, mutex, switching, opener, looker, cleanup_list>>
    PROVE  PTInv'
<1> USE DEF PTInv, objects
<1>1. MovesTo(m, "idle", NULL)
  BY Zenon, QuietMoves
<1>2. space' \in [Mms -> {"alive", "exiting", "gone"}] /\ \A b \in Mms : b # m => space'[b] = space[b]
  BY Zenon DEF EndsQuietly, ObjectTypes
<1>3. Callbacks'
  BY Zenon, <1>1, <1>2, CallbacksKept
<1>4. EndingTypes' /\ EndingShape' /\ Takers' /\ Registered' /\ Found' /\ UnloadPhase'
  BY Zenon, <1>1, CallbackMoves
<1>5. ObjectTypes'
  BY Zenon, <1>2 DEF ObjectTypes
<1> QED BY Zenon, <1>3, <1>4, <1>5, Frames

(* exit_mmap calls the notifier registered for the mm, or none. *)
LEMMA Exit_mmapKeepsInv ==
    ASSUME FiniteSetFacts, PTInv, NEW m \in Mms, exit_mmap(m)
    PROVE  PTInv'
<1> USE DEF PTInv, objects, works, locking
<1>1. /\ UNCHANGED <<objects, setup, mutex, switching, opener, looker, cleanup_list>>
      /\ space[m] = "alive"
  BY Zenon DEF exit_mmap
<1>2. ending[m].pc \notin Taking
  BY Zenon, <1>1 DEF Callbacks, EndingShape, Enders, Taking, NoProc
<1>3. CASE EndsQuietly(m)
  BY Zenon, <1>1, <1>2, <1>3, QuietEnd
<1>4. ASSUME NEW p \in Procs, notifier[p] = [state |-> "on", mm |-> m],
             space' = [space EXCEPT ![m] = "exiting"],
             ending' = [ending EXCEPT ![m] = [pc |-> "check", proc |-> p, wait |-> {}]]
      PROVE  PTInv'
  <2>1. MovesTo(m, "check", p)
    <3>1. m \in Enders /\ "check" \in Before \cup Taking \cup NoProc /\ {} \in SUBSET (Lookers \cup Procs \cup Mms)
      BY Zenon DEF Enders, Before
    <3> QED BY Zenon, <1>4, <3>1, RecordMoves
  <2>2. ObjectTypes' /\ space'[m] = "exiting" /\ \A b \in Mms : b # m => space'[b] = space[b]
    BY Zenon, <1>1, <1>4 DEF ObjectTypes
  <2>3. p \in table \/ Unloading
    <3>1. CASE p \in cleanup_list
      BY Zenon, <3>1 DEF UnloadPhase
    <3>2. ASSUME NEW a \in Enders, Takes(a, p) PROVE Unloading
      <4>1. CASE a = Unload
        BY Zenon, <3>2, <4>1 DEF Takes, Unloading, Taking
      <4>2. CASE a \in Mms
        <5>1. ending[a].proc = p /\ p # NULL
          BY Zenon, <3>2 DEF Takes
        <5>2. notifier[p].mm = a /\ space[a] = "exiting"
          BY Zenon, <4>2, <5>1 DEF Callbacks
        <5>3. a = m
          BY <1>4, <5>2
        <5> QED BY Zenon, <1>1, <5>2, <5>3
      <4> QED BY Zenon, <4>1, <4>2 DEF Enders
    <3> QED BY <1>4, <3>1, <3>2 DEF Registered
  <2>4. Callbacks'
    BY <1>1, <1>4, <2>1, <2>2, <2>3, CallbacksKept
  <2>5. EndingTypes' /\ EndingShape' /\ Takers' /\ Registered' /\ Found' /\ UnloadPhase'
    <3>1. "check" \in Before \cup {"idle"} /\ p # NULL
      BY Zenon DEF Before
    <3> QED BY Zenon, <1>1, <1>2, <2>1, <3>1, CallbackMoves
  <2> QED BY Zenon, <1>1, <2>2, <2>4, <2>5, Frames
<1> QED BY Zenon, <1>3, <1>4 DEF exit_mmap

(* kfd_process_notifier_release, up to its WARN_ON. *)
LEMMA ReleaseChecksKeepsInv ==
    ASSUME FiniteSetFacts, PTInv, NEW m \in Mms, ReleaseChecks(m)
    PROVE  PTInv'
<1> USE DEF PTInv, objects, works, locking
<1>1. /\ UNCHANGED <<objects, setup, mutex, switching, opener, looker, cleanup_list>>
      /\ ending[m].pc = "check"
  BY Zenon DEF ReleaseChecks
<1>2. ending[m].pc \notin Taking /\ ending[m].pc \in Before /\ ending[m].proc # NULL
  BY Zenon, <1>1 DEF EndingShape, Enders, Taking, Before, NoProc
<1>3. CASE EndsQuietly(m)
  BY Zenon, <1>1, <1>2, <1>3, QuietEnd
<1>4. CASE Ends(m, "lock") /\ UNCHANGED space
  <2>1. MovesTo(m, "lock", ending[m].proc)
    <3>1. m \in Enders /\ "lock" \in Before \cup Taking \cup NoProc
      BY Zenon DEF Enders, Before
    <3> QED BY Zenon, <1>4, <3>1, EndsMoves
  <2>2. Callbacks'
    <3>1. \A b \in Mms : b # m => space'[b] = space[b]
      BY Zenon, <1>4
    <3>2. /\ notifier[ending[m].proc].state # "none" /\ notifier[ending[m].proc].mm = m /\ space'[m] = "exiting"
          /\ ending[m].proc \in table \/ Unloading
      BY Zenon, <1>2, <1>4 DEF Callbacks
    <3> QED BY Zenon, <1>1, <2>1, <3>1, <3>2, CallbacksKept
  <2>3. EndingTypes' /\ EndingShape' /\ Takers' /\ Registered' /\ Found' /\ UnloadPhase'
    <3>1. "lock" \in Before \cup {"idle"} /\ "lock" # "idle"
      BY Zenon DEF Before
    <3> QED BY Zenon, <1>1, <1>2, <2>1, <3>1, CallbackMoves
  <2> QED BY Zenon, <1>1, <1>4, <2>2, <2>3, Frames DEF ObjectTypes
<1> QED BY Zenon, <1>3, <1>4 DEF ReleaseChecks

(* synchronize_srcu ends: no lookup is left that found the process. *)
LEMMA ReleaseSynchronizesKeepsInv ==
    ASSUME FiniteSetFacts, PTInv, NEW m \in Mms, ReleaseSynchronizes(m)
    PROVE  PTInv'
<1> USE DEF PTInv, objects, works, locking, system
<1>1. /\ UNCHANGED <<objects, system, opener, looker, cleanup_list>>
      /\ ending[m].pc = "sync" /\ ending[m].wait = {} /\ Ends(m, "cancel_evict")
  BY Zenon DEF ReleaseSynchronizes
<1>2. m \in Enders /\ m # Unload /\ "cancel_evict" \in Taking \ {"sync"} /\ ending[m].pc \in Taking
  BY Zenon, <1>1 DEF Enders, Taking
<1>3. EndingTypes' /\ EndingShape' /\ Takers' /\ Callbacks' /\ Registered' /\ Found' /\ UnloadPhase'
  BY Zenon, <1>1, <1>2, TakerGoesOn
<1> QED BY Zenon, <1>1, <1>3, Frames DEF ObjectTypes

(* The delayed works are cancelled. *)
LEMMA CancelsKeepsInv ==
    ASSUME FiniteSetFacts, PTInv, NEW a \in Enders, Cancels(a)
    PROVE  PTInv'
<1> USE DEF PTInv, objects, works, locking, system
<1>1. UNCHANGED <<objects, system, opener, looker, cleanup_list>>
  BY Zenon DEF Cancels
<1>2. PICK c \in {"cancel_restore", "clear"} : ending[a].pc \in {"cancel_evict", "cancel_restore"} /\ Ends(a, c)
  BY Zenon DEF Cancels
<1>3. c \in Taking \ {"sync"} /\ ending[a].pc \in Taking /\ ending[a].pc # "sync"
  BY Zenon, <1>2 DEF Taking
<1>4. EndingTypes' /\ EndingShape' /\ Takers' /\ Callbacks' /\ Registered' /\ Found' /\ UnloadPhase'
  BY Zenon, <1>1, <1>2, <1>3, TakerGoesOn
<1> QED BY Zenon, <1>1, <1>4, Frames DEF ObjectTypes

(* p->mm is cleared: the process is no longer in the table. *)
LEMMA ClearsMmKeepsInv ==
    ASSUME FiniteSetFacts, PTInv, NEW a \in Enders, ClearsMm(a)
    PROVE  PTInv'
<1> USE DEF PTInv, works, locking, system
<1>1. UNCHANGED <<setup, space, mutex, switching, allocated, table, ref, notifier, release, opener, looker, cleanup_list>>
      /\ ending[a].pc = "clear" /\ Ends(a, "put")
  BY Zenon DEF ClearsMm
<1>2. "put" \in Taking \ {"sync"} /\ ending[a].pc \in Taking /\ ending[a].pc # "sync"
  BY Zenon, <1>1 DEF Taking
<1>3. EndingTypes' /\ EndingShape' /\ Takers' /\ Callbacks' /\ Registered' /\ Found' /\ UnloadPhase'
  BY Zenon, <1>1, <1>2, TakerGoesOn
<1>4. PICK p \in Procs : p = ending[a].proc
  BY Zenon, <1>1 DEF EndingTypes, EndingRec, EndingShape, NoProc
<1>5. p \notin table
  BY Zenon, <1>2, <1>4 DEF Takers, Takes
<1>6. ObjectTypes' /\ \A q \in table : mm'[q] = mm[q]
  BY Zenon, <1>1, <1>4, <1>5 DEF ObjectTypes, ClearsMm
<1>7. InTable'
  BY Zenon, <1>1, <1>6 DEF InTable
<1>8. OneProcessPerMm' /\ Creating'
  BY SMTT(30), <1>1, <1>6 DEF OneProcessPerMm, Creating
<1> QED BY Zenon, <1>1, <1>3, <1>6, <1>7, <1>8, Frames

(* mmu_notifier_put, once for each process. *)
LEMMA PutsNotifierKeepsInv ==
    ASSUME FiniteSetFacts, PTInv, NEW a \in Enders, PutsNotifier(a)
    PROVE  PTInv'
<1> USE DEF PTInv, works, locking
<1>1. /\ UNCHANGED <<allocated, table, ref, mm, release, setup, mutex, switching, opener, looker, cleanup_list>>
      /\ ending[a].pc = "put"
  BY Zenon DEF PutsNotifier
<1>2. PICK p \in Procs : p = ending[a].proc
  BY Zenon, <1>1 DEF EndingTypes, EndingRec, EndingShape, NoProc
<1>3. Takes(a, p) /\ p # NULL
  BY Zenon, <1>1, <1>2 DEF Takes, Taking
<1>4. /\ p \notin table /\ p \notin cleanup_list /\ notifier[p].state = "on"
      /\ \A b \in Enders : Takes(b, p) => a = b
  BY Zenon, <1>3 DEF Takers
<1>5. /\ notifier' \in [Procs -> [state : {"none", "on", "put"}, mm : Mms \cup {NULL}]]
      /\ notifier'[p].state = "put" /\ notifier'[p].mm = notifier[p].mm
      /\ \A q \in Procs : q # p => notifier'[q] = notifier[q]
  BY <1>2 DEF PutsNotifier, ObjectTypes
<1>6. PICK c \in {"idle", "next"} :
        /\ MovesTo(a, c, NULL) /\ (a \in Mms => c = "idle") /\ (a = Unload => c = "next")
        /\ space' \in [Mms -> {"alive", "exiting", "gone"}] /\ \A b \in Mms : b # a => space'[b] = space[b]
  <2>1. CASE a = Unload
    <3>1. ending' = [ending EXCEPT ![a] = [pc |-> "next", proc |-> NULL, wait |-> {}]] /\ UNCHANGED space
      BY Zenon, <2>1 DEF PutsNotifier, NotEnding
    <3>2. "next" \in Before \cup Taking \cup NoProc /\ {} \in SUBSET (Lookers \cup Procs \cup Mms)
      BY Zenon DEF NoProc
    <3>3. MovesTo(a, "next", NULL)
      BY Zenon, <3>1, <3>2, RecordMoves
    <3> QED BY Zenon, <2>1, <3>1, <3>3 DEF ObjectTypes
  <2>2. CASE a \in Mms
    <3>1. EndsQuietly(a) /\ a # Unload
      BY Zenon, <2>2 DEF PutsNotifier
    <3>2. MovesTo(a, "idle", NULL)
      BY Zenon, <2>2, <3>1, QuietMoves
    <3>3. space' \in [Mms -> {"alive", "exiting", "gone"}] /\ \A b \in Mms : b # a => space'[b] = space[b]
      BY Zenon, <2>2, <3>1 DEF EndsQuietly, ObjectTypes
    <3> QED BY Zenon, <2>2, <3>1, <3>2, <3>3
  <2> QED BY Zenon, <2>1, <2>2 DEF Enders
<1>7. ObjectTypes'
  BY Zenon, <1>1, <1>5, <1>6 DEF ObjectTypes
<1>8. c \in NoProc /\ c \notin Taking /\ c \notin Before /\ c # "move" /\ c # "sync"
  BY Zenon DEF NoProc, Taking, Before
<1>9. EndingTypes' /\ EndingShape'
  <2>1. EndingTypes'
    BY Zenon, <1>6 DEF MovesTo
  <2>2. EndingShape'
    BY Zenon, <1>6, <1>8, ShapeKept
  <2> QED BY Zenon, <2>1, <2>2
<1>10. \A b \in Enders, q \in Procs : Takes(b, q)' <=> Takes(b, q) /\ b # a
  BY Zenon, <1>6, <1>8 DEF MovesTo, Takes
<1>11. \A q \in Procs : Takes(a, q) => q = p
  BY Zenon, <1>2 DEF Takes
<1>12. Takers'
  BY <1>1, <1>4, <1>5, <1>10 DEF Takers
<1>13. Registered'
  BY Zenon, <1>1, <1>5, <1>10, <1>11 DEF Registered
<1>14. Unloading' <=> Unloading
  BY Zenon, <1>1, <1>6 DEF MovesTo, Unloading, Enders
<1>15. Callbacks'
  <2>1. ASSUME NEW m \in Mms, ending'[m].proc # NULL
        PROVE  /\ notifier'[ending'[m].proc].state # "none" /\ notifier'[ending'[m].proc].mm = m
               /\ space'[m] = "exiting"
               /\ ending'[m].pc \in Before => ending'[m].proc \in table' \/ Unloading'
    <3>1. m \in Enders /\ m # a /\ ending'[m].pc = ending[m].pc /\ ending'[m].proc = ending[m].proc
      BY Zenon, <1>6, <2>1 DEF MovesTo, Enders
    <3>2. ending[m].proc \in Procs
      BY Zenon, <2>1, <3>1 DEF EndingTypes, EndingRec
    <3>3. PICK q \in Procs : q = ending[m].proc /\ q # NULL
      BY Zenon, <2>1, <3>1, <3>2
    <3>4. /\ notifier[q].state # "none" /\ notifier[q].mm = m /\ space[m] = "exiting"
          /\ ending[m].pc \in Before => q \in table \/ Unloading
      BY Zenon, <3>3 DEF Callbacks
    <3>5. notifier'[q].state # "none" /\ notifier'[q].mm = notifier[q].mm
      BY Zenon, <1>5, <3>4
    <3>6. space'[m] = "exiting"
      BY Zenon, <1>6, <3>1, <3>4
    <3> QED BY Zenon, <1>1, <1>14, <3>1, <3>3, <3>4, <3>5, <3>6
  <2> QED BY Zenon, <2>1 DEF Callbacks
<1>16. UnloadPhase'
  <2>1. ending'[Unload].pc \in {"move", "sync"} <=> ending[Unload].pc \in {"move", "sync"}
    BY Zenon, <1>1, <1>6, <1>8 DEF MovesTo, Enders
  <2>2. \A q \in cleanup_list : q \in Procs /\ q # p
    BY Zenon, <1>4 DEF ObjectTypes
  <2> QED BY Zenon, <1>1, <1>5, <1>14, <2>1, <2>2 DEF UnloadPhase
<1>17. Found'
  BY <1>1, <1>6 DEF MovesTo, Found
<1>18. \A q \in table : notifier'[q] = notifier[q]
  BY Zenon, <1>4, <1>5 DEF ObjectTypes
<1>19. InTable' /\ Creating'
  BY SMTT(30), <1>1, <1>18 DEF InTable, Creating
<1>20. \A q \in Procs : Owners(q)' = Owners(q)
  <2>1. \A q \in Procs : notifier'[q].state # "none" <=> notifier[q].state # "none"
    BY Zenon, <1>4, <1>5
  <2> QED BY <1>1, <2>1 DEF Owners
<1>21. Counted'
  BY Zenon, <1>1, <1>20 DEF Counted
<1> QED BY Zenon, <1>1, <1>7, <1>9, <1>12, <1>13, <1>15, <1>16, <1>17, <1>19, <1>21, Frames

(* kfd_process_free_notifier drops the reference of a notifier that no
   callback uses. *)
LEMMA Free_notifierKeepsInv ==
    ASSUME FiniteSetFacts, PTInv, NEW p \in Procs, free_notifier(p)
    PROVE  PTInv'
<1> USE DEF PTInv, works, locking, system
<1>1. /\ UNCHANGED <<setup, space, mutex, switching, allocated, table, mm, opener, looker, cleanup_list>>
      /\ notifier[p].state = "put" /\ kfd_unref_process(p)
      /\ \A m \in Mms : ending[m].proc # p
  BY Zenon DEF free_notifier
<1>2. p \in allocated
  BY Zenon, <1>1, InUseIsReferenced DEF InUse
<1>3. p \notin table
  BY Zenon, <1>1 DEF InTable, Creating
<1>4. p \notin cleanup_list /\ \A a \in Enders : ~ Takes(a, p)
  BY Zenon, <1>1 DEF UnloadPhase, Takers
<1>5. /\ notifier' \in [Procs -> [state : {"none", "on", "put"}, mm : Mms \cup {NULL}]]
      /\ notifier'[p].state = "none" /\ \A q \in Procs : q # p => notifier'[q] = notifier[q]
  BY Zenon DEF free_notifier, ObjectTypes, NoNotifier
<1>6. /\ EndingTypes'
      /\ \A a \in Enders : /\ ending'[a].pc = ending[a].pc /\ ending'[a].proc = ending[a].proc
                           /\ \A l \in Lookers : l \in ending'[a].wait <=> l \in ending[a].wait
  BY DEF free_notifier, EndingTypes, EndingRec, Enders
<1>7. ObjectTypes'
  <2>1. ref' \in [Procs -> Int] /\ release' \in [Procs -> {"none", "queued", "running"}]
    BY Zenon, <1>1, UnrefCounts
  <2> QED BY Zenon, <1>1, <1>5, <2>1 DEF ObjectTypes
<1>8. EndingShape'
  BY Zenon, <1>6 DEF EndingShape, Enders
<1>9. \A a \in Enders, q \in Procs : Takes(a, q)' <=> Takes(a, q)
  BY Zenon, <1>6 DEF Takes
<1>10. Takers' /\ Registered'
  BY <1>1, <1>4, <1>5, <1>9 DEF Takers, Registered
<1>11. Unloading' <=> Unloading
  BY Zenon, <1>6 DEF Unloading, Enders
<1>12. Callbacks'
  <2>1. \A m \in Mms : ending'[m] .proc = ending[m].proc /\ ending'[m].pc = ending[m].pc
                       /\ ending[m].proc \in Procs \cup {NULL}
    BY Zenon, <1>6 DEF Enders, EndingTypes, EndingRec
  <2>2. \A m \in Mms : ending[m].proc # NULL => notifier'[ending[m].proc] = notifier[ending[m].proc]
    BY Zenon, <1>1, <1>5, <2>1
  <2> QED BY SMTT(30), <1>1, <1>11, <2>1, <2>2 DEF Callbacks
<1>13. UnloadPhase'
  <2>1. ending'[Unload].pc = ending[Unload].pc /\ \A q \in cleanup_list : q \in Procs /\ q # p
    BY Zenon, <1>4, <1>6 DEF Enders, ObjectTypes
  <2> QED BY Zenon, <1>1, <1>5, <1>11, <2>1 DEF UnloadPhase
<1>14. Found'
  <2>1. UNCHANGED looker /\ table \subseteq table'
    BY Zenon, <1>1
  <2> QED BY Zenon, <1>6, <2>1, FoundKept
<1>15. \A q \in table : notifier'[q] = notifier[q]
  BY Zenon, <1>3, <1>5 DEF ObjectTypes
<1>16. InTable' /\ Creating'
  BY SMTT(30), <1>1, <1>15 DEF InTable, Creating
<1>17. Counted'
  <2>1. <<"notifier", p>> \in Owners(p)
    BY Zenon, <1>1 DEF Owners
  <2>2. Owners(p)' = Owners(p) \ {<<"notifier", p>>} /\ OthersKept(p)
    <3>1. {q \in {p} : notifier'[q].state # "none"} = {}
      BY Zenon, <1>5
    <3>2. {q \in {p} : notifier[q].state # "none"} = {p}
      BY Zenon, <1>1
    <3>3. Owners(p)' = Owners(p) \ {<<"notifier", p>>}
      BY SMTT(30), <1>1, <3>1, <3>2 DEF Owners
    <3>4. ASSUME NEW r \in Procs, r # p PROVE Owners(r)' = Owners(r)
      <4>1. {q \in {r} : notifier'[q].state # "none"} = {q \in {r} : notifier[q].state # "none"}
        BY Zenon, <1>5, <3>4
      <4> QED BY Zenon, <1>1, <4>1 DEF Owners
    <3> QED BY Zenon, <3>3, <3>4 DEF OthersKept
  <2>3. Counted /\ ObjectTypes /\ UNCHANGED allocated
    BY Zenon, <1>1
  <2> QED BY Zenon, <1>1, <1>2, <2>1, <2>2, <2>3, ReferenceDropped
<1> QED BY Zenon, <1>1, <1>6, <1>7, <1>8, <1>10, <1>12, <1>13, <1>14, <1>16, <1>17, Frames

(* The callback takes its process from the table; with an empty table,
   kfd_cleanup_processes has it. *)
LEMMA ReleaseRemovesKeepsInv ==
    ASSUME FiniteSetFacts, PTInv, NEW m \in Mms, ReleaseRemoves(m)
    PROVE  PTInv'
<1> USE DEF PTInv, objects, works, locking
<1>1. /\ UNCHANGED <<allocated, ref, mm, notifier, release, setup, mutex, switching, opener, looker, cleanup_list>>
      /\ ending[m].pc = "lock" /\ mutex = NULL
  BY Zenon DEF ReleaseRemoves
<1>2. ending[m].pc \notin Taking /\ ending[m].pc \in Before
  BY Zenon, <1>1 DEF Taking, Before
<1>3. CASE EndsQuietly(m) /\ UNCHANGED table
  BY Zenon, <1>1, <1>2, <1>3, QuietEnd
<1>4. ASSUME table # {}, table' = table \ {ending[m].proc},
             ending' = [ending EXCEPT ![m].pc = "sync", ![m].wait = Reading], UNCHANGED space
      PROVE  PTInv'
  <2>1. PICK p \in Procs : p = ending[m].proc
    BY Zenon, <1>1 DEF EndingTypes, EndingRec, EndingShape, NoProc, Enders
  <2>2. ~ Unloading /\ p # NULL /\ p \in table
    <3>1. mutex # Unload
      BY Zenon, <1>1
    <3>2. ~ Unloading
      BY Zenon, <1>4, <3>1 DEF UnloadPhase
    <3> QED BY Zenon, <1>2, <2>1, <3>2 DEF Callbacks
  <2>3. notifier[p].state = "on" /\ notifier[p].mm = m /\ space[m] = "exiting"
    <3>1. notifier[p].state # "none" /\ notifier[p].mm = m /\ space[m] = "exiting"
      BY Zenon, <2>1, <2>2 DEF Callbacks
    <3>2. \A o \in Openers : opener[o].proc = p => opener[o].pc \notin {"register", "unwind"}
      BY Zenon, <3>1 DEF Creating
    <3> QED BY Zenon, <2>2, <3>1, <3>2 DEF InTable
  <2>4. /\ EndingTypes' /\ ending'[m].pc = "sync" /\ ending'[m].proc = p /\ ending'[m].wait = Reading
        /\ \A b \in Enders : b # m => ending'[b] = ending[b]
    <3>1. ending[m] \in EndingRec /\ m \in Enders
      BY Zenon DEF EndingTypes, Enders
    <3>2. PICK w \in SUBSET (Lookers \cup Procs \cup Mms) : w = Reading
      BY Zenon DEF Reading
    <3>3. [ending[m] EXCEPT !.pc = "sync", !.wait = w] \in EndingRec
      BY Zenon, <3>1 DEF EndingRec, Taking
    <3>4. ending' = [ending EXCEPT ![m] = [ending[m] EXCEPT !.pc = "sync", !.wait = w]]
      BY Zenon, <1>4, <3>1, <3>2 DEF EndingTypes
    <3> QED BY Zenon, <2>1, <3>1, <3>2, <3>3, <3>4 DEF EndingTypes, EndingRec
  <2>5. MovesTo(m, "sync", p) /\ m \in Enders /\ m # Unload /\ Unload \in Enders
    BY Zenon, <2>4 DEF MovesTo, Enders
  <2>6. EndingShape'
    <3>1. "sync" \in Taking /\ "sync" \notin NoProc
      BY Zenon DEF Taking, NoProc
    <3> QED BY Zenon, <2>2, <2>5, <3>1, ShapeKept
  <2>7. ObjectTypes' /\ OpenerTypes' /\ LookerTypes' /\ OpenerShape' /\ LookerShape'
    BY Zenon, <1>1, <1>4, Frames DEF ObjectTypes
  <2>8. \A o \in Openers : opener[o].pc \notin {"create", "register", "unwind"}
    BY Zenon, <1>1 DEF OpenerShape
  <2>9. Creating'
    BY Zenon, <1>1, <2>8 DEF Creating
  <2>10. InTable'
    BY Zenon, <1>1, <1>4 DEF InTable
  <2>11. OneProcessPerMm'
    BY Zenon, <1>1, <1>4 DEF OneProcessPerMm
  <2>12. cleanup_list = {} /\ ending'[Unload].pc = ending[Unload].pc
    BY Zenon, <2>2, <2>5 DEF UnloadPhase, MovesTo
  <2>13. UnloadPhase'
    BY Zenon, <1>1, <2>2, <2>12 DEF UnloadPhase, Unloading
  <2>14. \A b \in Enders, q \in Procs : Takes(b, q)' <=> Takes(b, q) \/ (b = m /\ q = p)
    BY Zenon, <1>2, <2>5 DEF MovesTo, Takes, Taking
  <2>15. \A b \in Enders : ~ Takes(b, p)
    BY Zenon, <2>2 DEF Takers
  <2>16. Takers'
    BY <1>1, <1>4, <2>1, <2>3, <2>12, <2>14, <2>15 DEF Takers
  <2>17. Registered'
    BY Zenon, <1>1, <1>4, <2>1, <2>5, <2>14 DEF Registered
  <2>18. Callbacks'
    <3>1. "sync" \notin Before /\ Mms \subseteq Enders
      BY Zenon DEF Before, Enders
    <3>2. ASSUME NEW b \in Mms, b # m, ending[b].proc = p PROVE FALSE
      BY Zenon, <2>2, <2>3, <3>2 DEF Callbacks
    <3>3. \A b \in Mms : b # m /\ ending[b].proc \in table => ending[b].proc \in table'
      BY Zenon, <1>4, <2>1, <3>2
    <3>4. Unloading' <=> Unloading
      BY Zenon, <2>12 DEF Unloading
    <3>5. ASSUME NEW b \in Mms, b # m, ending'[b].proc # NULL
          PROVE  /\ notifier'[ending'[b].proc].state # "none" /\ notifier'[ending'[b].proc].mm = b
                 /\ space'[b] = "exiting"
                 /\ ending'[b].pc \in Before => ending'[b].proc \in table' \/ Unloading'
      <4>1. ending'[b].proc = ending[b].proc /\ ending'[b].pc = ending[b].pc
        BY Zenon, <2>5, <3>1, <3>5 DEF MovesTo
      <4> QED BY Zenon, <1>1, <1>4, <3>3, <3>4, <3>5, <4>1 DEF Callbacks
    <3>6. /\ notifier'[ending'[m].proc].state # "none" /\ notifier'[ending'[m].proc].mm = m
          /\ space'[m] = "exiting" /\ ending'[m].pc \notin Before
      BY Zenon, <1>1, <1>4, <2>3, <2>4, <3>1
    <3> QED BY Zenon, <3>5, <3>6 DEF Callbacks
  <2>19. Found'
    <3>1. ASSUME NEW l \in Lookers, looker[l].pc = "found"
          PROVE  \/ looker[l].proc \in table'
                 \/ \E a \in Enders : /\ ending'[a].proc = looker[l].proc
                                      /\ ending'[a].pc = "sync" /\ l \in ending'[a].wait
      <4>1. CASE looker[l].proc = p
        BY Zenon, <2>4, <2>5, <3>1, <4>1 DEF Reading
      <4>2. CASE looker[l].proc # p
        <5>1. CASE looker[l].proc \in table
          BY Zenon, <1>4, <2>1, <4>2, <5>1
        <5>2. CASE \E a \in Enders : /\ ending[a].proc = looker[l].proc
                                    /\ ending[a].pc = "sync" /\ l \in ending[a].wait
          <6>1. PICK a \in Enders : /\ ending[a].proc = looker[l].proc
                                   /\ ending[a].pc = "sync" /\ l \in ending[a].wait
            BY Zenon, <5>2
          <6>2. a # m
            BY Zenon, <2>1, <4>2, <6>1
          <6>3. ending'[a].proc = ending[a].proc /\ ending'[a].pc = ending[a].pc /\ l \in ending'[a].wait
            BY Zenon, <2>5, <6>1, <6>2 DEF MovesTo
          <6> QED BY Zenon, <6>1, <6>3
        <5> QED BY Zenon, <3>1, <5>1, <5>2 DEF Found
      <4> QED BY Zenon, <4>1, <4>2
    <3> QED BY Zenon, <1>1, <3>1 DEF Found
  <2> QED BY Zenon, <1>1, <2>4, <2>6, <2>7, <2>9, <2>10, <2>11, <2>13, <2>16, <2>17, <2>18, <2>19, Frames
<1> QED BY Zenon, <1>3, <1>4 DEF ReleaseRemoves

(* The openers while the driver is unloaded. *)
LEMMA OpenersIdle ==
    ASSUME FiniteSetFacts, PTInv, \A o \in Openers : opener[o].pc = "idle", mutex' \in {NULL, Unload}, UNCHANGED <<setup, opener>>
    PROVE  OpenerTypes' /\ OpenerShape' /\ Creating'
BY DEF PTInv, OpenerTypes, OpenerShape, Creating

(* What a step of kfd_cleanup_processes leaves alone. *)
LEMMA UnloadFrame ==
    ASSUME FiniteSetFacts, PTInv, NEW c, NEW p, MovesTo(Unload, c, p), c # "idle",
           UNCHANGED notifier, UNCHANGED space
    PROVE  Unloading' /\ Callbacks'
<1> USE DEF PTInv
<1>1. Unload \in Enders /\ \A b \in Mms : b \in Enders /\ b # Unload
  BY Zenon DEF Enders
<1>2. Unloading'
  BY Zenon, <1>1 DEF MovesTo, Unloading
<1> QED BY <1>1, <1>2 DEF MovesTo, Callbacks

(* kfd_cleanup_processes takes the mutex when no file is open. *)
LEMMA UnloadLocksKeepsInv ==
    ASSUME FiniteSetFacts, PTInv, UnloadLocks
    PROVE  PTInv'
<1> USE DEF PTInv, objects, works, locking
<1>1. /\ UNCHANGED <<objects, setup, space, switching, opener, looker, cleanup_list>> /\ mutex' = Unload
      /\ ~ Unloading /\ mutex = NULL /\ Ends(Unload, "move") /\ \A o \in Openers : opener[o].pc = "idle"
  BY Zenon DEF UnloadLocks
<1>2. Unload \in Enders /\ "move" \in NoProc /\ "move" \notin Taking /\ "idle" \notin Taking /\ "idle" \in NoProc
  BY Zenon DEF Enders, NoProc, Taking
<1>3. ending[Unload].proc = NULL /\ ending[Unload].pc = "idle"
  BY Zenon, <1>1, <1>2 DEF EndingShape, Unloading
<1>4. MovesTo(Unload, "move", NULL)
  BY Zenon, <1>1, <1>2, <1>3, EndsMoves
<1>5. EndingTypes' /\ EndingShape'
  <2>1. EndingTypes'
    BY Zenon, <1>4 DEF MovesTo
  <2>2. Unload \notin Mms /\ "move" \notin Before
    BY Zenon DEF Before
  <2>3. EndingShape'
    BY Zenon, <1>2, <1>4, <2>2, ShapeKept
  <2> QED BY Zenon, <2>1, <2>3
<1>6. Unloading' /\ Callbacks'
  <2>1. UNCHANGED notifier /\ UNCHANGED space
    BY Zenon, <1>1
  <2> QED BY Zenon, <1>4, <2>1, UnloadFrame
<1>7. OpenerTypes' /\ OpenerShape' /\ Creating'
  BY Zenon, <1>1, OpenersIdle
<1>8. \A b \in Enders, q \in Procs : Takes(b, q)' <=> Takes(b, q)
  BY Zenon, <1>2, <1>3, <1>4 DEF MovesTo, Takes
<1>9. Takers' /\ Registered'
  BY Zenon, <1>1, <1>8 DEF Takers, Registered
<1>10. Found'
  <2>1. UNCHANGED looker /\ table \subseteq table'
    BY Zenon, <1>1
  <2>2. \A a \in Enders : ending[a].pc = "sync" => a # Unload
    BY Zenon, <1>3
  <2> QED BY Zenon, <1>4, <2>1, <2>2, FoundKept DEF MovesTo
<1>11. UnloadPhase'
  BY Zenon, <1>1, <1>4 DEF UnloadPhase, MovesTo
<1> QED BY Zenon, <1>1, <1>5, <1>6, <1>7, <1>9, <1>10, <1>11, Frames DEF ObjectTypes

(* kfd_cleanup_processes moves the table to its list. *)
LEMMA UnloadMovesKeepsInv ==
    ASSUME FiniteSetFacts, PTInv, UnloadMoves
    PROVE  PTInv'
<1> USE DEF PTInv, works, locking
<1>1. /\ UNCHANGED <<allocated, ref, mm, notifier, release, setup, space, switching, opener, looker>>
      /\ ending[Unload].pc \in {"move", "sync"}
  BY Zenon DEF UnloadMoves
<1>2. Unload \in Enders /\ Unload \notin Mms /\ {} \in SUBSET (Lookers \cup Procs \cup Mms)
  BY Zenon DEF Enders
<1>3. /\ Unloading /\ mutex = Unload /\ \A o \in Openers : opener[o].pc = "idle"
      /\ \A p \in cleanup_list : p \notin table /\ notifier[p].state = "on"
  BY Zenon, <1>1 DEF UnloadPhase, Unloading
<1>4. "move" \in NoProc /\ "move" \notin Taking /\ "sync" \in Taking /\ "sync" \notin NoProc
      /\ "next" \in NoProc /\ "next" \notin Taking /\ {"move", "sync", "next"} \cap Before = {}
  BY Zenon DEF NoProc, Taking, Before
<1>5. ASSUME NEW p \in table, table' = table \ {p}, ending[Unload].pc = "move",
             ending' = [ending EXCEPT ![Unload] = [pc |-> "sync", proc |-> p, wait |-> Reading]],
             UNCHANGED <<cleanup_list, mutex>>
      PROVE  PTInv'
  <2>1. p \in Procs /\ p # NULL /\ Reading \subseteq Lookers
    BY Zenon DEF ObjectTypes, Reading
  <2>2. MovesTo(Unload, "sync", p) /\ ending'[Unload].wait = Reading
    <3>1. PICK w \in SUBSET (Lookers \cup Procs \cup Mms) : w = Reading
      BY Zenon, <2>1
    <3> QED BY Zenon, <1>2, <1>4, <1>5, <2>1, <3>1, RecordMoves
  <2>3. ending[Unload].proc = NULL /\ notifier[p].state = "on"
    BY SMTT(30), <1>2, <1>3, <1>4, <1>5 DEF EndingShape, InTable
  <2>4. EndingTypes' /\ EndingShape'
    <3>1. EndingTypes'
      BY Zenon, <2>2 DEF MovesTo
    <3>2. EndingShape'
      BY Zenon, <1>2, <1>4, <2>1, <2>2, ShapeKept
    <3> QED BY Zenon, <3>1, <3>2
  <2>5. Unloading' /\ Callbacks'
    <3>1. UNCHANGED notifier /\ UNCHANGED space
      BY Zenon, <1>1
    <3> QED BY Zenon, <2>2, <3>1, UnloadFrame
  <2>6. ObjectTypes' /\ OpenerTypes' /\ OpenerShape' /\ Creating' /\ LookerTypes' /\ LookerShape'
    <3>1. ObjectTypes'
      BY Zenon, <1>1, <1>5 DEF ObjectTypes
    <3> QED BY Zenon, <1>1, <1>3, <1>5, <3>1, OpenersIdle, Frames
  <2>7. InTable'
    BY Zenon, <1>1, <1>5 DEF InTable
  <2>8. OneProcessPerMm'
    BY Zenon, <1>1, <1>5 DEF OneProcessPerMm
  <2>9. \A b \in Enders, q \in Procs : Takes(b, q)' <=> Takes(b, q) \/ (b = Unload /\ q = p)
    BY Zenon, <1>4, <1>5, <2>2 DEF MovesTo, Takes
  <2>10. \A b \in Enders : ~ Takes(b, p)
    BY Zenon, <2>1 DEF Takers
  <2>11. p \notin cleanup_list
    BY Zenon, <1>3
  <2>12. Takers'
    BY SMTT(30), <1>1, <1>5, <2>3, <2>9, <2>10, <2>11 DEF Takers
  <2>13. Registered'
    BY Zenon, <1>1, <1>2, <1>5, <2>9 DEF Registered
  <2>14. UnloadPhase'
    BY Zenon, <1>1, <1>3, <1>5, <2>2, <2>5 DEF UnloadPhase, MovesTo
  <2>15. Found'
    <3>1. ASSUME NEW l \in Lookers, looker[l].pc = "found"
          PROVE  \/ looker[l].proc \in table'
                 \/ \E a \in Enders : /\ ending'[a].proc = looker[l].proc
                                      /\ ending'[a].pc = "sync" /\ l \in ending'[a].wait
      <4>1. CASE looker[l].proc = p
        BY Zenon, <1>2, <2>2, <3>1, <4>1 DEF Reading, MovesTo
      <4>2. CASE looker[l].proc # p
        <5>1. ASSUME NEW a \in Enders, ending[a].proc = looker[l].proc, ending[a].pc = "sync",
                     l \in ending[a].wait
              PROVE  ending'[a].proc = looker[l].proc /\ ending'[a].pc = "sync" /\ l \in ending'[a].wait
          <6>1. a # Unload
            BY Zenon, <1>5, <5>1
          <6> QED BY Zenon, <2>2, <5>1, <6>1 DEF MovesTo
        <5>2. \/ looker[l].proc \in table
              \/ \E a \in Enders : /\ ending[a].proc = looker[l].proc
                                   /\ ending[a].pc = "sync" /\ l \in ending[a].wait
          BY Zenon, <3>1 DEF Found
        <5> QED BY Zenon, <1>5, <4>2, <5>1, <5>2
      <4> QED BY Zenon, <4>1, <4>2
    <3> QED BY Zenon, <1>1, <3>1 DEF Found
  <2> QED BY Zenon, <1>1, <2>4, <2>5, <2>6, <2>7, <2>8, <2>12, <2>13, <2>14, <2>15, Frames
<1>6. ASSUME ending[Unload].pc = "sync", ending[Unload].wait = {},
             cleanup_list' = cleanup_list \cup {ending[Unload].proc},
             ending' = [ending EXCEPT ![Unload] = [NotEnding EXCEPT !.pc = "move"]],
             UNCHANGED <<table, mutex>>
      PROVE  PTInv'
  <2>1. PICK p \in Procs : p = ending[Unload].proc
    BY <1>2, <1>4, <1>6 DEF EndingTypes, EndingRec, EndingShape
  <2>2. MovesTo(Unload, "move", NULL)
    <3>1. [NotEnding EXCEPT !.pc = "move"] = [pc |-> "move", proc |-> NULL, wait |-> {}]
      BY Zenon, NotEndingAt
    <3>2. ending' = [ending EXCEPT ![Unload] = [pc |-> "move", proc |-> NULL, wait |-> {}]]
      BY Zenon, <1>6, <3>1
    <3> QED BY Zenon, <1>2, <1>4, <3>2, RecordMoves
  <2>3. Takes(Unload, p) /\ p \notin table /\ notifier[p].state = "on" /\ \A b \in Enders : Takes(b, p) => b = Unload
    BY Zenon, <1>2, <1>4, <1>6, <2>1 DEF Takers, Takes
  <2>4. EndingTypes' /\ EndingShape'
    <3>1. EndingTypes'
      BY Zenon, <2>2 DEF MovesTo
    <3>2. EndingShape'
      BY Zenon, <1>2, <1>4, <2>2, ShapeKept
    <3> QED BY Zenon, <3>1, <3>2
  <2>5. Unloading' /\ Callbacks'
    <3>1. UNCHANGED notifier /\ UNCHANGED space
      BY Zenon, <1>1
    <3> QED BY Zenon, <2>2, <3>1, UnloadFrame
  <2>6. ObjectTypes' /\ OpenerTypes' /\ OpenerShape' /\ Creating' /\ LookerTypes' /\ LookerShape'
    <3>1. ObjectTypes'
      BY Zenon, <1>1, <1>6, <2>1 DEF ObjectTypes
    <3> QED BY Zenon, <1>1, <1>3, <1>6, <3>1, OpenersIdle, Frames
  <2>7. \A b \in Enders, q \in Procs : Takes(b, q)' <=> Takes(b, q) /\ b # Unload
    BY Zenon, <1>4, <2>2 DEF MovesTo, Takes
  <2>8. \A q \in Procs : Takes(Unload, q) => q = p
    BY Zenon, <2>1 DEF Takes
  <2>9. Takers'
    BY <1>1, <1>6, <2>1, <2>3, <2>7 DEF Takers
  <2>10. Registered'
    BY Zenon, <1>1, <1>6, <2>1, <2>7, <2>8 DEF Registered
  <2>11. UnloadPhase'
    BY Zenon, <1>1, <1>2, <1>3, <1>6, <2>1, <2>2, <2>3, <2>5 DEF UnloadPhase, MovesTo
  <2>12. Found'
    BY <1>1, <1>6, <2>2 DEF Found, MovesTo
  <2> QED BY Zenon, <1>1, <1>6, <2>4, <2>5, <2>6, <2>9, <2>10, <2>11, <2>12, Frames
<1>7. ASSUME ending[Unload].pc = "move", table = {}, mutex' = NULL, Ends(Unload, "next"),
             UNCHANGED <<table, cleanup_list>>
      PROVE  PTInv'
  <2>1. MovesTo(Unload, "next", NULL)
    <3>1. ending[Unload].proc = NULL
      BY Zenon, <1>2, <1>4, <1>7 DEF EndingShape
    <3> QED BY Zenon, <1>2, <1>4, <1>7, <3>1, EndsMoves
  <2>2. EndingTypes' /\ EndingShape'
    <3>1. EndingTypes'
      BY Zenon, <2>1 DEF MovesTo
    <3>2. EndingShape'
      BY Zenon, <1>2, <1>4, <2>1, ShapeKept
    <3> QED BY Zenon, <3>1, <3>2
  <2>3. Unloading' /\ Callbacks'
    <3>1. UNCHANGED notifier /\ UNCHANGED space
      BY Zenon, <1>1
    <3> QED BY Zenon, <2>1, <3>1, UnloadFrame
  <2>4. ObjectTypes' /\ OpenerTypes' /\ OpenerShape' /\ Creating' /\ LookerTypes' /\ LookerShape'
    <3>1. ObjectTypes'
      BY Zenon, <1>1, <1>7 DEF ObjectTypes
    <3> QED BY Zenon, <1>1, <1>3, <1>7, <3>1, OpenersIdle, Frames
  <2>5. \A b \in Enders, q \in Procs : Takes(b, q)' <=> Takes(b, q)
    BY Zenon, <1>4, <1>7, <2>1 DEF MovesTo, Takes
  <2>6. Takers' /\ Registered'
    BY Zenon, <1>1, <1>7, <2>5 DEF Takers, Registered
  <2>7. UnloadPhase'
    BY Zenon, <1>1, <1>2, <1>3, <1>7, <2>1, <2>3 DEF UnloadPhase, MovesTo
  <2>8. Found'
    <3>1. UNCHANGED looker /\ table \subseteq table'
      BY Zenon, <1>1, <1>7
    <3>2. \A a \in Enders : ending[a].pc = "sync" => a # Unload
      BY Zenon, <1>7
    <3> QED BY Zenon, <2>1, <3>1, <3>2, FoundKept DEF MovesTo
  <2> QED BY Zenon, <1>1, <1>7, <2>2, <2>3, <2>4, <2>6, <2>7, <2>8, Frames
<1> QED BY Zenon, <1>5, <1>6, <1>7 DEF UnloadMoves

(* kfd_cleanup_processes takes down the next process of its list. *)
LEMMA UnloadTakesNextKeepsInv ==
    ASSUME FiniteSetFacts, PTInv, UnloadTakesNext
    PROVE  PTInv'
<1> USE DEF PTInv, objects, works, locking, system
<1>1. UNCHANGED <<objects, system, opener, looker>> /\ ending[Unload].pc = "next"
  BY Zenon DEF UnloadTakesNext
<1>2. Unload \in Enders /\ Unload \notin Mms /\ {} \in SUBSET (Lookers \cup Procs \cup Mms)
  BY Zenon DEF Enders
<1>3. Unloading /\ mutex # Unload /\ table = {} /\ \A o \in Openers : opener[o].pc = "idle"
  BY Zenon, <1>1 DEF UnloadPhase, Unloading
<1>4. "next" \in NoProc /\ "next" \notin Taking /\ "cancel_evict" \in Taking /\ "cancel_evict" \notin NoProc
      /\ "synchronize" \in NoProc /\ "synchronize" \notin Taking /\ {"cancel_evict", "synchronize"} \cap Before = {}
  BY Zenon DEF NoProc, Taking, Before
<1>5. ASSUME NEW p \in cleanup_list, cleanup_list' = cleanup_list \ {p},
             ending' = [ending EXCEPT ![Unload] = [pc |-> "cancel_evict", proc |-> p, wait |-> {}]]
      PROVE  PTInv'
  <2>1. p \in Procs /\ p # NULL /\ p \notin table /\ notifier[p].state = "on" /\ \A b \in Enders : ~ Takes(b, p)
    BY Zenon DEF ObjectTypes, UnloadPhase, Takers
  <2>2. MovesTo(Unload, "cancel_evict", p)
    BY Zenon, <1>2, <1>4, <1>5, <2>1, RecordMoves
  <2>3. EndingTypes' /\ EndingShape'
    <3>1. EndingTypes'
      BY Zenon, <2>2 DEF MovesTo
    <3>2. EndingShape'
      BY Zenon, <1>2, <1>4, <2>1, <2>2, ShapeKept
    <3> QED BY Zenon, <3>1, <3>2
  <2>4. Unloading' /\ Callbacks'
    <3>1. UNCHANGED notifier /\ UNCHANGED space
      BY Zenon, <1>1
    <3> QED BY Zenon, <2>2, <3>1, UnloadFrame
  <2>5. ObjectTypes'
    BY Zenon, <1>1, <1>5 DEF ObjectTypes
  <2>6. \A b \in Enders, q \in Procs : Takes(b, q)' <=> Takes(b, q) \/ (b = Unload /\ q = p)
    BY Zenon, <1>1, <1>4, <2>2 DEF MovesTo, Takes
  <2>7. Takers'
    <3>1. ASSUME NEW a \in Enders, NEW q \in Procs, Takes(a, q)'
          PROVE  /\ q \notin table' /\ q \notin cleanup_list' /\ notifier'[q].state = "on"
                 /\ \A b \in Enders : Takes(b, q)' => a = b
      <4>1. CASE q = p
        BY Zenon, <1>1, <1>5, <2>1, <2>6, <3>1, <4>1 DEF Takers
      <4>2. CASE q # p
        BY Zenon, <1>1, <1>5, <2>1, <2>6, <3>1, <4>2 DEF Takers
      <4> QED BY Zenon, <4>1, <4>2
    <3> QED BY Zenon, <3>1 DEF Takers
  <2>8. Registered'
    BY Zenon, <1>1, <1>2, <1>5, <2>6 DEF Registered
  <2>9. UnloadPhase'
    BY Zenon, <1>1, <1>3, <1>5, <2>2, <2>4 DEF UnloadPhase, MovesTo
  <2>10. Found'
    BY <1>1, <2>2 DEF Found, MovesTo
  <2> QED BY Zenon, <1>1, <2>3, <2>4, <2>5, <2>7, <2>8, <2>9, <2>10, Frames
<1>6. ASSUME NEW w \in SUBSET (Lookers \cup Procs \cup Mms), UNCHANGED cleanup_list,
             ending' = [ending EXCEPT ![Unload] = [pc |-> "synchronize", proc |-> NULL, wait |-> w]]
      PROVE  PTInv'
  <2>1. MovesTo(Unload, "synchronize", NULL)
    BY Zenon, <1>2, <1>4, <1>6, RecordMoves
  <2>2. EndingTypes' /\ EndingShape'
    <3>1. EndingTypes'
      BY Zenon, <2>1 DEF MovesTo
    <3>2. EndingShape'
      BY Zenon, <1>2, <1>4, <2>1, ShapeKept
    <3> QED BY Zenon, <3>1, <3>2
  <2>3. Unloading' /\ Callbacks'
    <3>1. UNCHANGED notifier /\ UNCHANGED space
      BY Zenon, <1>1
    <3> QED BY Zenon, <2>1, <3>1, UnloadFrame
  <2>4. \A b \in Enders, q \in Procs : Takes(b, q)' <=> Takes(b, q)
    BY Zenon, <1>1, <1>4, <2>1 DEF MovesTo, Takes
  <2>5. Takers' /\ Registered'
    BY Zenon, <1>1, <1>6, <2>4 DEF Takers, Registered
  <2>6. UnloadPhase'
    BY Zenon, <1>1, <1>3, <1>6, <2>1, <2>3 DEF UnloadPhase, MovesTo
  <2>7. Found'
    <3>1. UNCHANGED looker /\ table \subseteq table'
      BY Zenon, <1>1
    <3>2. \A a \in Enders : ending[a].pc = "sync" => a # Unload
      BY Zenon, <1>1
    <3> QED BY Zenon, <2>1, <3>1, <3>2, FoundKept DEF MovesTo
  <2> QED BY Zenon, <1>1, <1>6, <2>2, <2>3, <2>5, <2>6, <2>7, Frames DEF ObjectTypes
<1>7. {p \in Procs : notifier[p].state = "put"} \cup {m \in Mms : ending[m].pc # "idle"}
         \in SUBSET (Lookers \cup Procs \cup Mms)
  OBVIOUS
<1> QED BY Zenon, <1>5, <1>6, <1>7 DEF UnloadTakesNext

(* mmu_notifier_synchronize and the end of the workqueue. *)
LEMMA UnloadFinishesKeepsInv ==
    ASSUME FiniteSetFacts, PTInv, UnloadFinishes
    PROVE  PTInv'
<1> USE DEF PTInv, objects, works, locking, system
<1>1. UNCHANGED <<objects, system, opener, looker, cleanup_list>>
  BY Zenon DEF UnloadFinishes
<1>2. PICK c \in {"drain", "unloaded"} : Ends(Unload, c) /\ ending[Unload].pc \in {"synchronize", "drain"}
  BY Zenon DEF UnloadFinishes
<1>3. Unload \in Enders /\ Unload \notin Mms
  BY Zenon DEF Enders
<1>4. /\ c \in NoProc /\ c \notin Taking /\ c \notin Before
      /\ ending[Unload].pc \in NoProc /\ ending[Unload].pc \notin Taking
  BY Zenon, <1>2 DEF NoProc, Taking, Before
<1>5. MovesTo(Unload, c, NULL)
  <2>1. ending[Unload].proc = NULL
    BY Zenon, <1>3, <1>4 DEF EndingShape
  <2> QED BY Zenon, <1>2, <1>3, <1>4, <2>1, EndsMoves
<1>6. EndingTypes' /\ EndingShape'
  <2>1. EndingTypes'
    BY Zenon, <1>5 DEF MovesTo
  <2>2. EndingShape'
    BY Zenon, <1>3, <1>4, <1>5, ShapeKept
  <2> QED BY Zenon, <2>1, <2>2
<1>7. Unloading' /\ Callbacks'
  <2>1. UNCHANGED notifier /\ UNCHANGED space
    BY Zenon, <1>1
  <2> QED BY Zenon, <1>5, <2>1, UnloadFrame
<1>8. \A b \in Enders, q \in Procs : Takes(b, q)' <=> Takes(b, q)
  BY Zenon, <1>4, <1>5 DEF MovesTo, Takes
<1>9. Takers' /\ Registered'
  BY Zenon, <1>1, <1>8 DEF Takers, Registered
<1>10. UnloadPhase'
  BY Zenon, <1>1, <1>2, <1>5, <1>7 DEF UnloadPhase, Unloading, MovesTo
<1>11. Found'
  BY <1>1, <1>2, <1>5 DEF Found, MovesTo
<1> QED BY Zenon, <1>1, <1>6, <1>7, <1>9, <1>10, <1>11, Frames DEF ObjectTypes

-----------------------------------------------------------------------------
(* The invariant holds initially. *)
LEMMA InitHolds ==
    ASSUME FiniteSetFacts, Init
    PROVE  PTInv
<1>1. ObjectTypes
  BY DEF Init, ObjectTypes, NoNotifier
<1>2. OpenerTypes /\ OpenerShape /\ Creating
  BY Zenon DEF Init, OpenerTypes, OpenerRec, OpenerShape, Creating, Idle
<1>3. LookerTypes /\ LookerShape /\ Found
  BY Zenon DEF Init, LookerTypes, LookerRec, LookerShape, Found, Away
<1>4. EndingTypes /\ EndingShape /\ ~ Unloading /\ \A a \in Enders : ending[a] = NotEnding
  BY Zenon DEF Init, EndingTypes, EndingRec, EndingShape, NotEnding, Enders, NoProc, Before, Taking, Unloading
<1>5. InTable /\ OneProcessPerMm
  BY Zenon DEF Init, InTable, OneProcessPerMm
<1>6. UnloadPhase
  BY Zenon, <1>4 DEF Init, UnloadPhase, Idle, Enders, NotEnding
<1>7. Takers /\ Callbacks /\ Registered
  BY Zenon, <1>4 DEF Init, Takers, Takes, Callbacks, Registered, NotEnding, NoNotifier, Taking, Enders
<1>8. Counted
  <2>1. \A p \in Procs : Owners(p) = {}
    BY Zenon DEF Init, Owners, Idle, Away, NoNotifier
  <2> QED BY <2>1, Zenon DEF Init, Counted, FiniteSetFacts
<1> QED BY Zenon, <1>1, <1>2, <1>3, <1>4, <1>5, <1>6, <1>7, <1>8 DEF PTInv

(* Steps of the rest of the system. *)
LEMMA StutterKeepsInv ==
    ASSUME FiniteSetFacts, PTInv, UNCHANGED vars
    PROVE  PTInv'
BY Zenon, Frames DEF PTInv, vars, objects, works, system, locking, actors, ObjectTypes

(* kfd_process_notifier_release_internal. *)
LEMMA EndingKeepsInv ==
    ASSUME FiniteSetFacts, PTInv, NEW a \in Enders, Ending(a)
    PROVE  PTInv'
BY Zenon, CancelsKeepsInv, ClearsMmKeepsInv, PutsNotifierKeepsInv DEF Ending

(* Every step keeps the invariant. *)
LEMMA NextKeepsInv ==
    ASSUME FiniteSetFacts, PTInv, LockInv, Next, astray' # "unwind"
    PROVE  PTInv'
<1>1. CASE \E o \in Openers : Opening(o) \/ kfd_release(o) \/ \E m \in Mms : OpenStarts(o, m)
  BY Zenon, <1>1, OpenStartsKeepsInv, OpenLocksKeepsInv, Create_processKeepsInv, RegistersKeepsInv,
     RegisterFailsKeepsInv, UnwindsKeepsInv, Kfd_releaseKeepsInv DEF Opening
<1>2. CASE \E l \in Lookers : LookupFinds(l) \/ Looking(l) \/ SchedulesEviction(l)
  BY Zenon, <1>2, LookupFindsKeepsInv, LookupTakesKeepsInv, LookupEndsKeepsInv, SchedulesEvictionKeepsInv DEF Looking
<1>3. CASE \E p \in Procs : Works(p) \/ wq_release(p) \/ free_notifier(p)
  BY Zenon, <1>3, WorksKeepInv, Wq_releaseKeepsInv, Free_notifierKeepsInv
<1>4. CASE \E m \in Mms : exit_mmap(m) \/ ReleaseSteps(m)
  BY Zenon, <1>4, Exit_mmapKeepsInv, ReleaseChecksKeepsInv, ReleaseRemovesKeepsInv, ReleaseSynchronizesKeepsInv,
     EndingKeepsInv DEF ReleaseSteps, Enders
<1>5. CASE Locks
  BY Zenon, <1>5, LockKeepsInv
<1>6. CASE UnloadLocks \/ UnloadSteps
  BY Zenon, <1>6, UnloadLocksKeepsInv, UnloadMovesKeepsInv, UnloadTakesNextKeepsInv, UnloadFinishesKeepsInv,
     EndingKeepsInv DEF UnloadSteps, Enders
<1> QED BY Zenon, <1>1, <1>2, <1>3, <1>4, <1>5, <1>6 DEF Next, Locks

(***************************************************************************)
(* The works.  Both are cancelled when a process is taken down, eviction   *)
(* before restore, and from then on none is pending, unless an eviction is *)
(* scheduled late; a process is freed only after it was taken down.        *)
(***************************************************************************)
Past == {"cancel_restore", "clear", "put"}
Registering(p) == \E o \in Openers : opener[o].proc = p /\ opener[o].pc \in {"register", "unwind"}
Cancelling(p) == \E a \in Enders : ending[a].proc = p /\ ending[a].pc = "cancel_restore"

WorkTypes == /\ evict \in [Procs -> SUBSET {"queued", "running"}]
             /\ restore \in [Procs -> SUBSET {"queued", "running"}]
TakenDown ==
    /\ \A p \in Procs : notifier[p].state = "put" => p \in cancelled
    /\ \A a \in Enders : ending[a].pc \in Past => ending[a].proc \in cancelled
    /\ \A p \in allocated : notifier[p].state = "none" => p \in cancelled \/ Registering(p)
Quiet ==
    \A p \in Procs : p \notin late =>
        /\ p \in cancelled => evict[p] = {} /\ (restore[p] = {} \/ Cancelling(p))
        /\ p \notin allocated => evict[p] = {} /\ restore[p] = {}
WorksInv == WorkTypes /\ TakenDown /\ Quiet

(* What the steps that leave the works alone do to the rest. *)
NotifierFrame ==
    \A p \in Procs : notifier'[p].state = notifier[p].state \/ notifier'[p].state = "on" \/ p \in cancelled
EndingFrame ==
    \A a \in Enders :
        \/ ending'[a].pc = ending[a].pc /\ ending'[a].proc = ending[a].proc
        \/ /\ ending[a].pc # "cancel_restore"
           /\ ending'[a].pc \in Past => ending[a].pc \in Past /\ ending'[a].proc = ending[a].proc
OpenerFrame ==
    \A o \in Openers : opener[o].pc \in {"register", "unwind"} =>
        \/ notifier'[opener[o].proc].state # "none"
        \/ opener'[o].proc = opener[o].proc /\ opener'[o].pc \in {"register", "unwind"}

(* Who takes a process down stays on its way past the cancelling. *)
LEMMA EndingKept ==
    ASSUME TakenDown, EndingFrame, UNCHANGED cancelled
    PROVE  /\ \A a \in Enders : ending'[a].pc \in Past => ending'[a].proc \in cancelled'
           /\ \A p : Cancelling(p) => Cancelling(p)'
<1>1. ASSUME NEW a \in Enders, ending'[a].pc \in Past
      PROVE  ending'[a].proc \in cancelled'
  BY Zenon, <1>1 DEF TakenDown, EndingFrame
<1>2. ASSUME NEW p, NEW a \in Enders, ending[a].proc = p, ending[a].pc = "cancel_restore"
      PROVE  ending'[a].proc = p /\ ending'[a].pc = "cancel_restore"
  BY Zenon, <1>2 DEF EndingFrame
<1> QED BY Zenon, <1>1, <1>2 DEF Cancelling

(* A process without a notifier is being registered or was taken down. *)
LEMMA NotifierKept ==
    ASSUME TakenDown, NotifierFrame, OpenerFrame, UNCHANGED cancelled, allocated' \subseteq allocated, allocated \subseteq Procs
    PROVE  /\ \A p \in Procs : notifier'[p].state = "put" => p \in cancelled'
           /\ \A p \in allocated' : notifier'[p].state = "none" => p \in cancelled' \/ Registering(p)'
<1>1. \A p \in Procs : notifier'[p].state = "put" => p \in cancelled'
  BY Zenon DEF TakenDown, NotifierFrame
<1>2. ASSUME NEW p \in allocated', notifier'[p].state = "none", p \notin cancelled
      PROVE  Registering(p)'
  <2>1. notifier[p].state = "none" /\ p \in allocated
    BY Zenon, <1>2 DEF NotifierFrame
  <2>2. PICK o \in Openers : opener[o].proc = p /\ opener[o].pc \in {"register", "unwind"}
    BY Zenon, <1>2, <2>1 DEF TakenDown, Registering
  <2>3. opener'[o].proc = p /\ opener'[o].pc \in {"register", "unwind"}
    BY Zenon, <1>2, <2>2 DEF OpenerFrame
  <2> QED BY Zenon, <2>3 DEF Registering
<1> QED BY Zenon, <1>1, <1>2

(* A step that leaves the works alone keeps WorksInv. *)
LEMMA WorksFrame ==
    ASSUME WorksInv, PTInv, UNCHANGED <<evict, restore, cancelled, late, allocated>>,
           NotifierFrame, EndingFrame, OpenerFrame
    PROVE  WorksInv'
<1>0. allocated \subseteq Procs /\ allocated' \subseteq allocated
  BY Zenon DEF PTInv, ObjectTypes
<1>1. WorkTypes'
  BY Zenon DEF WorksInv, WorkTypes
<1>2. TakenDown'
  BY Zenon, <1>0, EndingKept, NotifierKept DEF WorksInv, TakenDown
<1>3. Quiet'
  BY Zenon, EndingKept DEF WorksInv, Quiet
<1> QED BY Zenon, <1>1, <1>2, <1>3 DEF WorksInv

(* One of those who take processes down moves, elsewhere than past the cancelling. *)
LEMMA MoveFrame ==
    ASSUME NEW a \in Enders, NEW c, NEW p, MovesTo(a, c, p), ending[a].pc # "cancel_restore",
           c \in Past => ending[a].pc \in Past /\ p = ending[a].proc
    PROVE  EndingFrame
BY Zenon DEF MovesTo, EndingFrame

(* A thread moves that registers no process. *)
LEMMA OpenerElse ==
    ASSUME NEW o \in Openers, opener[o].pc \notin {"register", "unwind"},
           \A i \in Openers : i # o => opener'[i] = opener[i]
    PROVE  OpenerFrame
BY Zenon DEF OpenerFrame

(* kfd_create_process and kfd_release, other than creating and unwinding. *)
LEMMA OpenersKeepWorks ==
    ASSUME PTInv, WorksInv, NEW o \in Openers,
           \/ OpenLocks(o) \/ Registers(o) \/ RegisterFails(o) \/ kfd_release(o)
           \/ \E m \in Mms : OpenStarts(o, m)
    PROVE  WorksInv'
<1> USE DEF works, pending, objects
<1>1. UNCHANGED <<evict, restore, cancelled, late, allocated, ending>>
  BY Zenon DEF OpenLocks, Registers, RegisterFails, kfd_release, OpenStarts
<1>2. EndingFrame
  BY Zenon, <1>1 DEF EndingFrame
<1>3. CASE Registers(o)
  <2>1. PICK p \in Procs : p = opener[o].proc
    BY Zenon, <1>3 DEF Registers, PTInv, OpenerShape, OpenerTypes, OpenerRec
  <2>2. notifier' = [notifier EXCEPT ![p] = [state |-> "on", mm |-> opener[o].mm]]
    BY Zenon, <1>3, <2>1 DEF Registers
  <2>3. notifier'[p].state = "on" /\ \A q \in Procs : q # p => notifier'[q] = notifier[q]
    BY Zenon, <2>2 DEF PTInv, ObjectTypes
  <2>4. NotifierFrame
    BY Zenon, <2>3 DEF NotifierFrame
  <2>5. \A i \in Openers : i # o => opener'[i] = opener[i]
    BY Zenon, <1>3 DEF Registers, PTInv, OpenerTypes
  <2>6. notifier'[opener[o].proc].state # "none"
    BY Zenon, <2>1, <2>3
  <2>7. OpenerFrame
    BY Zenon, <2>5, <2>6 DEF OpenerFrame
  <2> QED BY Zenon, <1>1, <1>2, <2>4, <2>7, WorksFrame
<1>4. CASE RegisterFails(o)
  <2>1. UNCHANGED notifier
    BY Zenon, <1>4 DEF RegisterFails
  <2>2. opener'[o].pc = "unwind" /\ opener'[o].proc = opener[o].proc /\ \A i \in Openers : i # o => opener'[i] = opener[i]
    <3>1. opener' = [opener EXCEPT ![o].pc = "unwind"] /\ opener \in [Openers -> OpenerRec]
      BY Zenon, <1>4 DEF RegisterFails, PTInv, OpenerTypes
    <3>2. opener'[o] = [opener[o] EXCEPT !.pc = "unwind"] /\ opener[o] \in OpenerRec
      BY Zenon, <3>1
    <3>3. opener'[o].pc = "unwind" /\ opener'[o].proc = opener[o].proc
      BY Zenon, <3>2 DEF OpenerRec
    <3> QED BY Zenon, <3>1, <3>3
  <2>3. NotifierFrame /\ OpenerFrame
    BY Zenon, <2>1, <2>2 DEF NotifierFrame, OpenerFrame
  <2> QED BY Zenon, <1>1, <1>2, <2>3, WorksFrame
<1>5. CASE OpenLocks(o) \/ kfd_release(o) \/ \E m \in Mms : OpenStarts(o, m)
  <2>1. UNCHANGED notifier /\ opener[o].pc \notin {"register", "unwind"}
    BY Zenon, <1>5 DEF OpenLocks, kfd_release, OpenStarts
  <2>2. \A i \in Openers : i # o => opener'[i] = opener[i]
    BY Zenon, <1>5 DEF OpenLocks, kfd_release, OpenStarts, PTInv, OpenerTypes
  <2>3. NotifierFrame /\ OpenerFrame
    BY Zenon, <2>1, <2>2, OpenerElse DEF NotifierFrame
  <2> QED BY Zenon, <1>1, <1>2, <2>3, WorksFrame
<1> QED BY Zenon, <1>3, <1>4, <1>5

(* A new structure has no works. *)
LEMMA CreateKeepsWorks ==
    ASSUME FiniteSetFacts, PTInv, WorksInv, NEW o \in Openers, create_process(o)
    PROVE  WorksInv'
<1> USE DEF works, pending, objects
<1>0. UNCHANGED <<evict, restore, notifier, ending>> /\ opener[o].pc = "create"
  BY Zenon DEF create_process
<1>1. \A i \in Openers : i # o => opener'[i] = opener[i]
  BY Zenon DEF create_process, PTInv, OpenerTypes
<1>2. NotifierFrame /\ EndingFrame /\ OpenerFrame
  BY Zenon, <1>0, <1>1, OpenerElse DEF NotifierFrame, EndingFrame
<1>3. CASE UNCHANGED <<allocated, cancelled, late>>
  BY Zenon, <1>0, <1>2, <1>3, WorksFrame
<1>4. ASSUME NEW p \in Procs \ allocated, allocated' = allocated \cup {p}, cancelled' = cancelled \ {p},
             late' = late \ {p}, opener' = [opener EXCEPT ![o].pc = "register", ![o].proc = p]
      PROVE  WorksInv'
  <2>1. ~ InUse(p)
    BY Zenon, InUseIsReferenced
  <2>2. notifier[p].state = "none" /\ \A a \in Enders : ending[a].proc # p
    BY Zenon, <2>1 DEF InUse
  <2>3. opener'[o].proc = p /\ opener'[o].pc = "register"
    BY Zenon, <1>4, OpenerGets DEF PTInv, OpenerTo
  <2>4. WorkTypes'
    BY Zenon, <1>0 DEF WorksInv, WorkTypes
  <2>5. TakenDown'
    <3>1. \A q \in Procs : notifier'[q].state = "put" => q \in cancelled'
      BY Zenon, <1>0, <1>4, <2>2 DEF WorksInv, TakenDown
    <3>2. \A a \in Enders : ending'[a].pc \in Past => ending'[a].proc \in cancelled'
      BY Zenon, <1>0, <1>4, <2>2 DEF WorksInv, TakenDown
    <3>3. ASSUME NEW q \in allocated', notifier'[q].state = "none", q \notin cancelled'
          PROVE  Registering(q)'
      <4>1. CASE q = p
        BY Zenon, <2>3, <4>1 DEF Registering
      <4>2. CASE q # p
        <5>1. q \in allocated /\ q \notin cancelled /\ notifier[q].state = "none"
          BY Zenon, <1>0, <1>4, <3>3, <4>2
        <5>2. PICK i \in Openers : opener[i].proc = q /\ opener[i].pc \in {"register", "unwind"}
          BY Zenon, <5>1 DEF WorksInv, TakenDown, Registering
        <5>3. opener'[i] = opener[i]
          BY Zenon, <1>0, <1>1, <5>2
        <5> QED BY Zenon, <5>2, <5>3 DEF Registering
      <4> QED BY Zenon, <4>1, <4>2
    <3> QED BY Zenon, <3>1, <3>2, <3>3 DEF TakenDown
  <2>6. Quiet'
    <3>1. \A q : Cancelling(q)' <=> Cancelling(q)
      BY Zenon, <1>0 DEF Cancelling
    <3>2. ASSUME NEW q \in Procs, q \notin late'
          PROVE  /\ q \in cancelled' => evict'[q] = {} /\ (restore'[q] = {} \/ Cancelling(q)')
                 /\ q \notin allocated' => evict'[q] = {} /\ restore'[q] = {}
      <4>1. CASE q = p
        BY Zenon, <1>4, <4>1
      <4>2. CASE q # p
        BY Zenon, <1>0, <1>4, <3>1, <3>2, <4>2 DEF WorksInv, Quiet
      <4> QED BY Zenon, <4>1, <4>2
    <3> QED BY Zenon, <3>2 DEF Quiet
  <2> QED BY Zenon, <2>4, <2>5, <2>6 DEF WorksInv
<1> QED BY Zenon, <1>3, <1>4 DEF create_process

(* err_register_notifier, when no work of the process is pending. *)
LEMMA UnwindsKeepsWorks ==
    ASSUME PTInv, WorksInv, NEW o \in Openers, Unwinds(o), astray' # "unwind"
    PROVE  WorksInv'
<1> USE DEF pending
<1>p. PICK p \in Procs : p = opener[o].proc
  BY Zenon DEF Unwinds, PTInv, OpenerShape, OpenerTypes, OpenerRec
<1>0. UNCHANGED <<evict, restore, cancelled, late, notifier, ending>> /\ allocated' = allocated \ {p} /\ opener[o].pc = "unwind"
  BY Zenon, <1>p DEF Unwinds
<1>1. evict[p] \cup restore[p] = {}
  BY Zenon, <1>p DEF Unwinds
<1>2. \A i \in Openers : i # o => opener'[i] = opener[i]
  BY Zenon DEF Unwinds, PTInv, OpenerTypes
<1>3. WorkTypes'
  BY Zenon, <1>0 DEF WorksInv, WorkTypes
<1>4. TakenDown'
  <2>1. ASSUME NEW q \in allocated', notifier'[q].state = "none", q \notin cancelled'
        PROVE  Registering(q)'
    <3>1. q \in allocated /\ q # p /\ q \notin cancelled /\ notifier[q].state = "none"
      BY Zenon, <1>0, <2>1
    <3>2. PICK i \in Openers : opener[i].proc = q /\ opener[i].pc \in {"register", "unwind"}
      BY Zenon, <3>1 DEF WorksInv, TakenDown, Registering
    <3>3. opener'[i] = opener[i]
      BY Zenon, <1>p, <1>2, <3>1, <3>2
    <3> QED BY Zenon, <3>2, <3>3 DEF Registering
  <2> QED BY Zenon, <1>0, <2>1 DEF WorksInv, TakenDown
<1>5. Quiet'
  <2>1. \A q : Cancelling(q)' <=> Cancelling(q)
    BY Zenon, <1>0 DEF Cancelling
  <2>2. evict[p] = {} /\ restore[p] = {}
    BY Zenon, <1>1
  <2>3. ASSUME NEW q \in Procs, q \notin late, q \notin allocated'
        PROVE  evict[q] = {} /\ restore[q] = {}
    BY Zenon, <1>0, <2>2, <2>3 DEF WorksInv, Quiet
  <2> QED BY Zenon, <1>0, <2>1, <2>3 DEF WorksInv, Quiet
<1> QED BY Zenon, <1>3, <1>4, <1>5 DEF WorksInv

(* The steps of lookups, but for the scheduling of an eviction. *)
LEMMA LookersKeepWorks ==
    ASSUME PTInv, WorksInv, NEW l \in Lookers, LookupFinds(l) \/ Looking(l)
    PROVE  WorksInv'
<1> USE DEF works, pending, objects, Looking
<1>1. UNCHANGED <<evict, restore, cancelled, late, allocated, notifier, opener>>
  BY Zenon DEF LookupFinds, LookupTakes, LookupEnds
<1>2. \A a \in Enders : ending'[a].pc = ending[a].pc /\ ending'[a].proc = ending[a].proc
  <2>1. CASE UNCHANGED ending
    BY Zenon, <2>1
  <2>2. CASE ending' = [a \in DOMAIN ending |-> [ending[a] EXCEPT !.wait = @ \ {l}]]
    <3>1. ASSUME NEW a \in Enders
          PROVE  ending'[a] = [ending[a] EXCEPT !.wait = @ \ {l}] /\ ending[a] \in EndingRec
      BY Zenon, <2>2 DEF PTInv, EndingTypes
    <3> QED BY Zenon, <3>1 DEF EndingRec
  <2> QED BY Zenon, <2>1, <2>2 DEF LookupFinds, LookupTakes, LookupEnds
<1>3. NotifierFrame /\ EndingFrame /\ OpenerFrame
  BY Zenon, <1>1, <1>2 DEF NotifierFrame, EndingFrame, OpenerFrame
<1> QED BY Zenon, <1>1, <1>3, WorksFrame

(* An eviction is scheduled for an allocated process; it is late if the process
   is being taken down. *)
LEMMA ScheduleKeepsWorks ==
    ASSUME FiniteSetFacts, PTInv, WorksInv, NEW l \in Lookers, SchedulesEviction(l)
    PROVE  WorksInv'
<1> USE DEF objects
<1>p. PICK p \in Procs : p = looker[l].proc
  BY Zenon DEF SchedulesEviction, PTInv, LookerShape, LookerTypes, LookerRec
<1>0. /\ UNCHANGED <<restore, cancelled, allocated, notifier, opener, ending>>
      /\ evict' = [evict EXCEPT ![p] = @ \cup {"queued"}] /\ late' = late \cup ({p} \cap cancelled)
  BY Zenon, <1>p DEF SchedulesEviction
<1>1. p \in allocated
  BY Zenon, <1>p, InUseIsReferenced DEF InUse
<1>2. \A q \in Procs : q # p => evict'[q] = evict[q]
  BY Zenon, <1>0 DEF WorksInv, WorkTypes
<1>3. WorkTypes'
  <2>1. evict[p] \cup {"queued"} \in SUBSET {"queued", "running"}
    BY Zenon DEF WorksInv, WorkTypes
  <2>2. evict' \in [Procs -> SUBSET {"queued", "running"}]
    BY Zenon, <1>0, <2>1 DEF WorksInv, WorkTypes
  <2> QED BY Zenon, <1>0, <2>2 DEF WorksInv, WorkTypes
<1>4. TakenDown'
  <2>1. \A q : Registering(q)' <=> Registering(q)
    BY Zenon, <1>0 DEF Registering
  <2> QED BY Zenon, <1>0, <2>1 DEF WorksInv, TakenDown
<1>5. Quiet'
  <2>1. \A q : Cancelling(q)' <=> Cancelling(q)
    BY Zenon, <1>0 DEF Cancelling
  <2>2. ASSUME NEW q \in Procs, q \notin late'
        PROVE  /\ q \in cancelled' => evict'[q] = {} /\ (restore'[q] = {} \/ Cancelling(q)')
               /\ q \notin allocated' => evict'[q] = {} /\ restore'[q] = {}
    <3>1. CASE q = p
      BY Zenon, <1>0, <1>1, <2>2, <3>1
    <3>2. CASE q # p
      BY Zenon, <1>0, <1>2, <2>1, <2>2, <3>2 DEF WorksInv, Quiet
    <3> QED BY Zenon, <3>1, <3>2
  <2> QED BY Zenon, <2>2 DEF Quiet
<1> QED BY Zenon, <1>3, <1>4, <1>5 DEF WorksInv

(* A work that is pending makes only pending what a process that was not taken
   down may have pending. *)
LEMMA WorkersKeepWorks ==
    ASSUME PTInv, WorksInv, NEW p \in Procs, Works(p)
    PROVE  WorksInv'
<1> USE DEF objects, actors
<1>0. UNCHANGED <<cancelled, late, allocated, notifier, opener, ending>>
  BY Zenon DEF Works, EvictWorks, RestoreWorks
<1>1. TakenDown'
  <2>1. \A q : Registering(q)' <=> Registering(q)
    BY Zenon, <1>0 DEF Registering
  <2> QED BY Zenon, <1>0, <2>1 DEF WorksInv, TakenDown
<1>2. \E e, r \in SUBSET {"queued", "running"} :
        /\ evict' = [evict EXCEPT ![p] = e] /\ restore' = [restore EXCEPT ![p] = r]
        /\ evict[p] = {} => e = {}
        /\ restore[p] = {} /\ evict[p] = {} => r = {}
  <2>0. /\ evict \in [Procs -> SUBSET {"queued", "running"}] /\ restore \in [Procs -> SUBSET {"queued", "running"}]
        /\ evict = [evict EXCEPT ![p] = evict[p]] /\ restore = [restore EXCEPT ![p] = restore[p]]
    BY Zenon DEF WorksInv, WorkTypes
  <2>1. CASE EvictWorks(p)
    <3>1. PICK e \in {{"running"}, evict[p] \ {"running"}} : evict' = [evict EXCEPT ![p] = e] /\ evict[p] # {}
      BY Zenon, <2>1 DEF EvictWorks
    <3>2. PICK r \in {restore[p], restore[p] \cup {"queued"}} : restore' = [restore EXCEPT ![p] = r]
      BY Zenon, <2>0, <2>1 DEF EvictWorks
    <3>3. e \in SUBSET {"queued", "running"} /\ r \in SUBSET {"queued", "running"}
      BY Zenon, <2>0, <3>1, <3>2
    <3> QED BY Zenon, <3>1, <3>2, <3>3
  <2>2. CASE RestoreWorks(p)
    <3>1. PICK r \in {{"running"}, {"queued"}, restore[p] \ {"running"}} : restore' = [restore EXCEPT ![p] = r] /\ restore[p] # {}
      BY Zenon, <2>2 DEF RestoreWorks
    <3>2. r \in SUBSET {"queued", "running"}
      BY Zenon, <2>0, <3>1
    <3>3. evict' = [evict EXCEPT ![p] = evict[p]] /\ evict[p] \in SUBSET {"queued", "running"}
      BY Zenon, <2>0, <2>2 DEF RestoreWorks
    <3> QED BY Zenon, <3>1, <3>2, <3>3
  <2> QED BY Zenon, <2>1, <2>2 DEF Works
<1>3. PICK e, r \in SUBSET {"queued", "running"} :
        /\ evict' = [evict EXCEPT ![p] = e] /\ restore' = [restore EXCEPT ![p] = r]
        /\ evict[p] = {} => e = {}
        /\ restore[p] = {} /\ evict[p] = {} => r = {}
  BY Zenon, <1>2
<1>4. /\ WorkTypes' /\ evict'[p] = e /\ restore'[p] = r
      /\ \A q \in Procs : q # p => evict'[q] = evict[q] /\ restore'[q] = restore[q]
  BY Zenon, <1>3 DEF WorksInv, WorkTypes
<1>5. Quiet'
  <2>1. \A q : Cancelling(q)' <=> Cancelling(q)
    BY Zenon, <1>0 DEF Cancelling
  <2>2. ASSUME NEW q \in Procs, q \notin late'
        PROVE  /\ q \in cancelled' => evict'[q] = {} /\ (restore'[q] = {} \/ Cancelling(q)')
               /\ q \notin allocated' => evict'[q] = {} /\ restore'[q] = {}
    <3>1. CASE q = p
      BY Zenon, <1>0, <1>3, <1>4, <2>1, <2>2, <3>1 DEF WorksInv, Quiet
    <3>2. CASE q # p
      BY Zenon, <1>0, <1>4, <2>1, <2>2, <3>2 DEF WorksInv, Quiet
    <3> QED BY Zenon, <3>1, <3>2
  <2> QED BY Zenon, <2>2 DEF Quiet
<1> QED BY Zenon, <1>1, <1>4, <1>5 DEF WorksInv

(* A process is freed after it was taken down, when nobody takes it down. *)
LEMMA FreeKeepsWorks ==
    ASSUME FiniteSetFacts, PTInv, WorksInv, NEW p \in Procs, wq_release(p)
    PROVE  WorksInv'
<1> USE DEF pending
<1>0. UNCHANGED <<evict, restore, cancelled, late, notifier, ending>> /\ release[p] # "none"
      /\ (UNCHANGED <<allocated, opener>> \/ (allocated' = allocated \ {p} /\ opener' = [o \in Openers |-> [opener[o] EXCEPT !.flush = @ \ {p}]]))
  BY Zenon DEF wq_release
<1>1. \A i \in Openers : opener'[i].pc = opener[i].pc /\ opener'[i].proc = opener[i].proc
  <2>1. \A i \in Openers : opener[i] \in OpenerRec /\ (opener'[i] = opener[i] \/ opener'[i] = [opener[i] EXCEPT !.flush = @ \ {p}])
    BY Zenon, <1>0 DEF PTInv, OpenerTypes
  <2> QED BY Zenon, <2>1 DEF OpenerRec
<1>2. ~ InUse(p)
  BY Zenon, <1>0, InUseIsReferenced
<1>3. p \in allocated
  BY Zenon, <1>0 DEF PTInv, Counted
<1>4. p \notin late => evict[p] = {} /\ restore[p] = {}
  <2>1. notifier[p].state = "none" /\ ~ Registering(p) /\ ~ Cancelling(p)
    BY Zenon, <1>2 DEF InUse, Registering, Cancelling
  <2>2. p \in cancelled
    BY Zenon, <1>3, <2>1 DEF WorksInv, TakenDown
  <2> QED BY Zenon, <2>1, <2>2 DEF WorksInv, Quiet
<1>5. WorkTypes'
  BY Zenon, <1>0 DEF WorksInv, WorkTypes
<1>6. TakenDown'
  <2>1. allocated' \subseteq allocated /\ allocated \subseteq Procs
    BY Zenon, <1>0 DEF PTInv, ObjectTypes
  <2>2. NotifierFrame /\ EndingFrame /\ OpenerFrame
    BY Zenon, <1>0, <1>1 DEF NotifierFrame, EndingFrame, OpenerFrame
  <2> QED BY Zenon, <1>0, <2>1, <2>2, NotifierKept, EndingKept DEF WorksInv, TakenDown
<1>7. Quiet'
  <2>1. \A q : Cancelling(q)' <=> Cancelling(q)
    BY Zenon, <1>0 DEF Cancelling
  <2>2. \A q \in Procs : q \notin allocated' => q \notin allocated \/ q = p
    BY Zenon, <1>0
  <2> QED BY Zenon, <1>0, <1>4, <2>1, <2>2 DEF WorksInv, Quiet
<1> QED BY Zenon, <1>5, <1>6, <1>7 DEF WorksInv

(* One of those who take processes down moves and leaves the works alone. *)
LEMMA EnderKeepsWorks ==
    ASSUME PTInv, WorksInv, NEW a \in Enders, NEW c, NEW p, MovesTo(a, c, p), ending[a].pc # "cancel_restore",
           c \in Past => ending[a].pc \in Past /\ p = ending[a].proc, NotifierFrame,
           UNCHANGED <<evict, restore, cancelled, late, allocated, opener>>
    PROVE  WorksInv'
<1>1. EndingFrame
  BY Zenon, MoveFrame
<1>2. OpenerFrame
  BY Zenon DEF OpenerFrame
<1> QED BY Zenon, <1>1, <1>2, WorksFrame

(* cancel_delayed_work_sync of both works: eviction first, which might schedule
   the other. *)
LEMMA CancelsKeepsWorks ==
    ASSUME PTInv, WorksInv, NEW a \in Enders, Cancels(a)
    PROVE  WorksInv'
<1> USE DEF objects
<1>p. PICK p \in Procs : p = ending[a].proc
  BY Zenon DEF Cancels, PTInv, EndingShape, EndingTypes, EndingRec, NoProc
<1>0. UNCHANGED <<late, allocated, notifier, opener>>
  BY Zenon DEF Cancels
<1>r. \A q : Registering(q)' <=> Registering(q)
  BY Zenon, <1>0 DEF Registering
<1>1. CASE /\ ending[a].pc = "cancel_evict" /\ evict' = [evict EXCEPT ![p] = {}]
           /\ cancelled' = cancelled \cup {p} /\ Ends(a, "cancel_restore") /\ UNCHANGED restore
  <2>1. MovesTo(a, "cancel_restore", p)
    BY Zenon, <1>p, <1>1, EndsMoves DEF PTInv, Taking
  <2>2. /\ evict' \in [Procs -> SUBSET {"queued", "running"}] /\ evict'[p] = {}
        /\ \A q \in Procs : q # p => evict'[q] = evict[q]
    BY Zenon, <1>1 DEF WorksInv, WorkTypes
  <2>3. WorkTypes'
    BY Zenon, <1>1, <2>2 DEF WorksInv, WorkTypes
  <2>4. TakenDown'
    <3>1. \A b \in Enders : ending'[b].pc \in Past => ending'[b].proc \in cancelled'
      BY Zenon, <1>1, <2>1 DEF MovesTo, WorksInv, TakenDown
    <3> QED BY Zenon, <1>0, <1>1, <1>r, <3>1 DEF WorksInv, TakenDown
  <2>5. Quiet'
    <3>1. Cancelling(p)'
      BY Zenon, <2>1 DEF MovesTo, Cancelling
    <3>2. ASSUME NEW q, Cancelling(q) PROVE Cancelling(q)'
      <4>1. PICK b \in Enders : ending[b].proc = q /\ ending[b].pc = "cancel_restore"
        BY Zenon, <3>2 DEF Cancelling
      <4>2. b # a
        BY Zenon, <1>1, <4>1
      <4> QED BY Zenon, <2>1, <4>1, <4>2 DEF MovesTo, Cancelling
    <3>3. ASSUME NEW q \in Procs, q \notin late'
          PROVE  /\ q \in cancelled' => evict'[q] = {} /\ (restore'[q] = {} \/ Cancelling(q)')
                 /\ q \notin allocated' => evict'[q] = {} /\ restore'[q] = {}
      <4>1. CASE q = p
        BY Zenon, <1>0, <1>1, <2>2, <3>1, <3>3, <4>1 DEF WorksInv, Quiet
      <4>2. CASE q # p
        BY Zenon, <1>0, <1>1, <2>2, <3>2, <3>3, <4>2 DEF WorksInv, Quiet
      <4> QED BY Zenon, <4>1, <4>2
    <3> QED BY Zenon, <3>3 DEF Quiet
  <2> QED BY Zenon, <2>3, <2>4, <2>5 DEF WorksInv
<1>2. CASE /\ ending[a].pc = "cancel_restore" /\ restore' = [restore EXCEPT ![p] = {}]
           /\ Ends(a, "clear") /\ UNCHANGED <<evict, cancelled>>
  <2>1. MovesTo(a, "clear", p)
    BY Zenon, <1>p, <1>2, EndsMoves DEF PTInv, Taking
  <2>2. /\ restore' \in [Procs -> SUBSET {"queued", "running"}] /\ restore'[p] = {}
        /\ \A q \in Procs : q # p => restore'[q] = restore[q]
    BY Zenon, <1>2 DEF WorksInv, WorkTypes
  <2>3. WorkTypes'
    BY Zenon, <1>2, <2>2 DEF WorksInv, WorkTypes
  <2>4. TakenDown'
    <3>1. p \in cancelled
      BY Zenon, <1>p, <1>2 DEF WorksInv, TakenDown, Past
    <3>2. \A b \in Enders : ending'[b].pc \in Past => ending'[b].proc \in cancelled'
      BY Zenon, <1>2, <2>1, <3>1 DEF MovesTo, WorksInv, TakenDown
    <3> QED BY Zenon, <1>0, <1>2, <1>r, <3>2 DEF WorksInv, TakenDown
  <2>5. Quiet'
    <3>1. ASSUME NEW q, q # p, Cancelling(q) PROVE Cancelling(q)'
      <4>1. PICK b \in Enders : ending[b].proc = q /\ ending[b].pc = "cancel_restore"
        BY Zenon, <3>1 DEF Cancelling
      <4>2. b # a
        BY Zenon, <1>p, <3>1, <4>1
      <4> QED BY Zenon, <2>1, <4>1, <4>2 DEF MovesTo, Cancelling
    <3>2. ASSUME NEW q \in Procs, q \notin late'
          PROVE  /\ q \in cancelled' => evict'[q] = {} /\ (restore'[q] = {} \/ Cancelling(q)')
                 /\ q \notin allocated' => evict'[q] = {} /\ restore'[q] = {}
      <4>1. CASE q = p
        BY Zenon, <1>0, <1>2, <2>2, <3>2, <4>1 DEF WorksInv, Quiet
      <4>2. CASE q # p
        BY Zenon, <1>0, <1>2, <2>2, <3>1, <3>2, <4>2 DEF WorksInv, Quiet
      <4> QED BY Zenon, <4>1, <4>2
    <3> QED BY Zenon, <3>2 DEF Quiet
  <2> QED BY Zenon, <2>3, <2>4, <2>5 DEF WorksInv
<1> QED BY Zenon, <1>p, <1>1, <1>2 DEF Cancels

(* p->mm is cleared; then the notifier is put, of a process whose works were cancelled. *)
LEMMA PutKeepsWorks ==
    ASSUME PTInv, WorksInv, NEW a \in Enders, ClearsMm(a) \/ PutsNotifier(a)
    PROVE  WorksInv'
<1> USE DEF works, pending
<1>p. PICK p \in Procs : p = ending[a].proc
  BY Zenon DEF ClearsMm, PutsNotifier, PTInv, EndingShape, EndingTypes, EndingRec, NoProc
<1>0. UNCHANGED <<evict, restore, cancelled, late, allocated, opener>> /\ ending[a].pc \in {"clear", "put"}
  BY Zenon DEF ClearsMm, PutsNotifier
<1>1. ending[a].pc \in Past /\ ending[a].pc # "cancel_restore" /\ p \in cancelled /\ "put" \in Taking
  BY Zenon, <1>p, <1>0 DEF WorksInv, TakenDown, Past, Taking
<1>2. CASE ClearsMm(a)
  <2>1. MovesTo(a, "put", p) /\ UNCHANGED notifier
    BY Zenon, <1>p, <1>1, <1>2, EndsMoves DEF PTInv, ClearsMm
  <2>2. NotifierFrame
    BY Zenon, <2>1 DEF NotifierFrame
  <2> QED BY Zenon, <1>p, <1>0, <1>1, <2>1, <2>2, EnderKeepsWorks
<1>3. CASE PutsNotifier(a)
  <2>1. notifier' = [notifier EXCEPT ![p].state = "put"]
    BY Zenon, <1>p, <1>3 DEF PutsNotifier
  <2>2. NotifierFrame
    BY Zenon, <1>1, <2>1 DEF NotifierFrame, PTInv, ObjectTypes
  <2>3. CASE a = Unload
    <3>1. ending' = [ending EXCEPT ![a] = [pc |-> "next", proc |-> NULL, wait |-> {}]]
      BY Zenon, <1>3, <2>3, NotEndingAt DEF PutsNotifier
    <3>2. MovesTo(a, "next", NULL) /\ "next" \notin Past
      <4>1. "next" \in Before \cup Taking \cup NoProc /\ {} \in SUBSET (Lookers \cup Procs \cup Mms) /\ NULL \in Procs \cup {NULL}
        BY Zenon DEF NoProc
      <4> QED BY Zenon, <3>1, <4>1, RecordMoves DEF PTInv, Past
    <3> QED BY Zenon, <1>0, <1>1, <2>2, <3>2, EnderKeepsWorks
  <2>4. CASE a # Unload
    <3>1. a \in Mms /\ EndsQuietly(a)
      BY Zenon, <1>3, <2>4 DEF PutsNotifier, Enders
    <3>2. MovesTo(a, "idle", NULL) /\ "idle" \notin Past
      BY Zenon, <3>1, QuietMoves DEF PTInv, Past
    <3> QED BY Zenon, <1>0, <1>1, <2>2, <3>2, EnderKeepsWorks
  <2> QED BY Zenon, <2>3, <2>4
<1> QED BY Zenon, <1>2, <1>3

(* The end of an address space, and its callback until it cancels. *)
LEMMA ReleaseKeepsWorks ==
    ASSUME PTInv, WorksInv, NEW m \in Mms,
           exit_mmap(m) \/ ReleaseChecks(m) \/ ReleaseRemoves(m) \/ ReleaseSynchronizes(m)
    PROVE  WorksInv'
<1> USE DEF works, pending, objects
<1>0. /\ UNCHANGED <<evict, restore, cancelled, late, allocated, notifier, opener>>
      /\ m \in Enders /\ ending[m].pc \notin Past
  <2>1. UNCHANGED <<evict, restore, cancelled, late, allocated, notifier, opener>>
    BY Zenon DEF exit_mmap, ReleaseChecks, ReleaseRemoves, ReleaseSynchronizes
  <2>2. CASE exit_mmap(m)
    <3>1. space[m] = "alive" /\ "alive" # "exiting"
      BY Zenon, <2>2 DEF exit_mmap
    <3>2. ending[m].proc = NULL
      BY Zenon, <3>1 DEF PTInv, Callbacks
    <3> QED BY Zenon, <2>1, <3>2 DEF PTInv, EndingShape, Enders, NoProc, Past
  <2>3. CASE ReleaseChecks(m) \/ ReleaseRemoves(m) \/ ReleaseSynchronizes(m)
    BY Zenon, <2>1, <2>3 DEF ReleaseChecks, ReleaseRemoves, ReleaseSynchronizes, Enders, Past
  <2> QED BY Zenon, <2>2, <2>3
<1>1. \E c \in {"check", "lock", "sync", "cancel_evict", "idle"}, p \in Procs \cup {NULL} : MovesTo(m, c, p)
  <2>1. {"check", "lock", "sync", "cancel_evict", "idle"} \subseteq Before \cup Taking \cup NoProc
    BY Zenon DEF Before, Taking, NoProc
  <2>2. CASE EndsQuietly(m)
    BY Zenon, <2>2, QuietMoves DEF PTInv
  <2>3. ASSUME NEW c \in {"lock", "cancel_evict"}, Ends(m, c)
        PROVE  MovesTo(m, c, ending[m].proc)
    BY Zenon, <1>0, <2>1, <2>3, EndsMoves DEF PTInv
  <2>4. ASSUME NEW p \in Procs, ending' = [ending EXCEPT ![m] = [pc |-> "check", proc |-> p, wait |-> {}]]
        PROVE  MovesTo(m, "check", p)
    <3>1. {} \in SUBSET (Lookers \cup Procs \cup Mms) /\ p \in Procs \cup {NULL} /\ "check" \in Before \cup Taking \cup NoProc
      BY Zenon, <2>1
    <3> QED BY Zenon, <1>0, <2>4, <3>1, RecordMoves DEF PTInv
  <2>5. ASSUME ending' = [ending EXCEPT ![m].pc = "sync", ![m].wait = Reading]
        PROVE  MovesTo(m, "sync", ending[m].proc)
    <3>1. ending \in [Enders -> EndingRec] /\ ending[m] \in EndingRec /\ Reading \in SUBSET (Lookers \cup Procs \cup Mms)
      BY Zenon, <1>0 DEF PTInv, EndingTypes, Reading
    <3>2. PICK r : r = [[ending[m] EXCEPT !.pc = "sync"] EXCEPT !.wait = Reading]
      BY Zenon
    <3>3. ending' = [ending EXCEPT ![m] = r]
      BY Zenon, <1>0, <2>5, <3>1, <3>2
    <3>4. r \in EndingRec /\ r.pc = "sync" /\ r.proc = ending[m].proc
      BY <2>1, <3>1, <3>2 DEF EndingRec
    <3>5. EndingTypes' /\ ending'[m] = r /\ \A b \in Enders : b # m => ending'[b] = ending[b]
      BY Zenon, <1>0, <3>1, <3>3, <3>4 DEF EndingTypes
    <3> QED BY Zenon, <3>4, <3>5 DEF MovesTo
  <2>6. ending[m].proc \in Procs \cup {NULL}
    BY Zenon, <1>0 DEF PTInv, EndingTypes, EndingRec
  <2> QED BY Zenon, <2>2, <2>3, <2>4, <2>5, <2>6 DEF exit_mmap, ReleaseChecks, ReleaseRemoves, ReleaseSynchronizes
<1>2. PICK c \in {"check", "lock", "sync", "cancel_evict", "idle"}, p \in Procs \cup {NULL} : MovesTo(m, c, p)
  BY Zenon, <1>1
<1>3. c \notin Past /\ ending[m].pc # "cancel_restore"
  BY Zenon, <1>0 DEF Past
<1>4. NotifierFrame
  BY Zenon, <1>0 DEF NotifierFrame
<1> QED BY Zenon, <1>0, <1>2, <1>3, <1>4, EnderKeepsWorks

(* The notifier that is freed was put. *)
LEMMA Free_notifierKeepsWorks ==
    ASSUME PTInv, WorksInv, NEW p \in Procs, free_notifier(p)
    PROVE  WorksInv'
<1> USE DEF works, pending
<1>0. UNCHANGED <<evict, restore, cancelled, late, allocated, opener>> /\ notifier' = [notifier EXCEPT ![p] = NoNotifier]
  BY Zenon DEF free_notifier
<1>1. p \in cancelled
  BY Zenon DEF free_notifier, WorksInv, TakenDown
<1>2. NotifierFrame
  BY Zenon, <1>0, <1>1 DEF NotifierFrame, PTInv, ObjectTypes
<1>3. EndingFrame
  <2>1. Unload \in Enders /\ ending \in [Enders -> EndingRec] /\ ending[Unload] \in EndingRec
    BY Zenon DEF PTInv, EndingTypes, Enders
  <2>2. ending' = [ending EXCEPT ![Unload] = [ending[Unload] EXCEPT !.wait = @ \ {p}]]
    BY Zenon, <2>1 DEF free_notifier
  <2>3. ending'[Unload] = [ending[Unload] EXCEPT !.wait = @ \ {p}] /\ \A a \in Enders : a # Unload => ending'[a] = ending[a]
    BY Zenon, <2>1, <2>2
  <2>4. ending'[Unload].pc = ending[Unload].pc /\ ending'[Unload].proc = ending[Unload].proc
    BY Zenon, <2>1, <2>3 DEF EndingRec
  <2> QED BY Zenon, <2>3, <2>4 DEF EndingFrame
<1>4. OpenerFrame
  BY Zenon, <1>0 DEF OpenerFrame
<1> QED BY Zenon, <1>0, <1>2, <1>3, <1>4, WorksFrame

(* kfd_cleanup_processes, but for what it shares with the callbacks. *)
LEMMA UnloadKeepsWorks ==
    ASSUME PTInv, WorksInv, UnloadLocks \/ UnloadMoves \/ UnloadTakesNext \/ UnloadFinishes
    PROVE  WorksInv'
<1> USE DEF works, pending, objects
<1>0. /\ UNCHANGED <<evict, restore, cancelled, late, allocated, notifier, opener>>
      /\ \A a \in Enders : a # Unload => ending'[a] = ending[a]
  BY Zenon DEF UnloadLocks, UnloadMoves, UnloadTakesNext, UnloadFinishes, Ends, PTInv, EndingTypes
<1>1. Unload \in Enders /\ ending[Unload].pc # "cancel_restore"
  BY Zenon DEF UnloadLocks, UnloadMoves, UnloadTakesNext, UnloadFinishes, Unloading, Enders
<1>2. ending'[Unload].pc \notin Past
  <2>1. ASSUME NEW c \in {"move", "next", "drain", "unloaded"}, c \notin Past, Ends(Unload, c)
        PROVE  ending'[Unload].pc \notin Past
    <3>1. c \in Before \cup Taking \cup NoProc
      BY Zenon DEF NoProc
    <3> QED BY Zenon, <1>1, <2>1, <3>1, EndsMoves DEF PTInv, MovesTo
  <2>2. ASSUME NEW c, c \notin Past, NEW p, NEW w, ending' = [ending EXCEPT ![Unload] = [pc |-> c, proc |-> p, wait |-> w]]
        PROVE  ending'[Unload].pc \notin Past
    BY Zenon, <1>1, <2>2 DEF PTInv, EndingTypes
  <2>3. \A c \in {"move", "sync", "next", "cancel_evict", "synchronize", "drain", "unloaded"} : c \notin Past
    BY Zenon DEF Past
  <2>4. [NotEnding EXCEPT !.pc = "move"] = [pc |-> "move", proc |-> NULL, wait |-> {}]
    BY Zenon, NotEndingAt
  <2>5. CASE UnloadLocks
    BY Zenon, <2>1, <2>3, <2>5 DEF UnloadLocks
  <2>6. CASE UnloadMoves
    <3>1. CASE Ends(Unload, "next")
      BY Zenon, <2>1, <2>3, <3>1
    <3>2. ASSUME NEW p, ending' = [ending EXCEPT ![Unload] = [pc |-> "sync", proc |-> p, wait |-> Reading]]
          PROVE  ending'[Unload].pc \notin Past
      BY Zenon, <2>2, <2>3, <3>2
    <3>3. CASE ending' = [ending EXCEPT ![Unload] = [NotEnding EXCEPT !.pc = "move"]]
      BY Zenon, <2>2, <2>3, <2>4, <3>3
    <3> QED BY Zenon, <2>6, <3>1, <3>2, <3>3 DEF UnloadMoves
  <2>7. CASE UnloadTakesNext
    BY Zenon, <2>2, <2>3, <2>7 DEF UnloadTakesNext
  <2>8. CASE UnloadFinishes
    BY Zenon, <2>1, <2>3, <2>8 DEF UnloadFinishes
  <2> QED BY Zenon, <2>5, <2>6, <2>7, <2>8
<1>3. NotifierFrame /\ EndingFrame /\ OpenerFrame
  BY Zenon, <1>0, <1>1, <1>2 DEF NotifierFrame, EndingFrame, OpenerFrame
<1> QED BY Zenon, <1>0, <1>3, WorksFrame

(* Steps that change neither processes nor works. *)
LEMMA OthersKeepWorks ==
    ASSUME PTInv, WorksInv, Locks \/ UNCHANGED vars
    PROVE  WorksInv'
<1>0. UNCHANGED <<evict, restore, cancelled, late, allocated, notifier, opener, ending>>
  BY Zenon DEF Locks, check_and_lock_kfd, unlock_kfd, kgd2kfd_suspend, kgd2kfd_resume, vars, objects, works, pending, actors
<1>1. NotifierFrame /\ EndingFrame /\ OpenerFrame
  BY Zenon, <1>0 DEF NotifierFrame, EndingFrame, OpenerFrame
<1> QED BY Zenon, <1>0, <1>1, WorksFrame

(* Every step keeps WorksInv, unless create_process frees what others use. *)
LEMMA NextKeepsWorks ==
    ASSUME FiniteSetFacts, PTInv, WorksInv, Next, astray' # "unwind"
    PROVE  WorksInv'
<1>1. CASE \E o \in Openers : Opening(o) \/ kfd_release(o) \/ \E m \in Mms : OpenStarts(o, m)
  BY Zenon, <1>1, OpenersKeepWorks, CreateKeepsWorks, UnwindsKeepsWorks DEF Opening
<1>2. CASE \E l \in Lookers : LookupFinds(l) \/ Looking(l) \/ SchedulesEviction(l)
  BY Zenon, <1>2, LookersKeepWorks, ScheduleKeepsWorks
<1>3. CASE \E p \in Procs : Works(p) \/ wq_release(p) \/ free_notifier(p)
  BY Zenon, <1>3, WorkersKeepWorks, FreeKeepsWorks, Free_notifierKeepsWorks
<1>4. CASE \E m \in Mms : exit_mmap(m) \/ ReleaseSteps(m)
  BY Zenon, <1>4, ReleaseKeepsWorks, CancelsKeepsWorks, PutKeepsWorks DEF ReleaseSteps, Ending, Enders
<1>5. CASE Locks
  BY Zenon, <1>5, OthersKeepWorks
<1>6. CASE UnloadLocks \/ UnloadSteps
  BY Zenon, <1>6, UnloadKeepsWorks, CancelsKeepsWorks, PutKeepsWorks DEF UnloadSteps, Ending, Enders
<1> QED BY Zenon, <1>1, <1>2, <1>3, <1>4, <1>5, <1>6 DEF Next, Locks

(* What is left of a step that locks nothing, and of one that frees nothing in use. *)
LEMMA StepsLeave ==
    ASSUME Next
    PROVE  /\ Locks \/ UNCHANGED locking
           /\ (\E o \in Openers : Unwinds(o)) \/ astray' \in {astray, "work"}
<1> USE DEF works, system
<1>1. CASE \E o \in Openers : Opening(o) \/ kfd_release(o) \/ \E m \in Mms : OpenStarts(o, m)
  BY Zenon, <1>1 DEF Opening, OpenLocks, create_process, Registers, RegisterFails, Unwinds, kfd_release, OpenStarts
<1>2. CASE \E l \in Lookers : LookupFinds(l) \/ Looking(l) \/ SchedulesEviction(l)
  BY Zenon, <1>2 DEF Looking, LookupFinds, LookupTakes, LookupEnds, SchedulesEviction
<1>3. CASE \E p \in Procs : Works(p) \/ wq_release(p) \/ free_notifier(p)
  BY Zenon, <1>3 DEF Works, EvictWorks, RestoreWorks, wq_release, free_notifier
<1>4. CASE \E m \in Mms : exit_mmap(m) \/ ReleaseSteps(m)
  BY Zenon, <1>4 DEF ReleaseSteps, Ending, exit_mmap, ReleaseChecks, ReleaseRemoves, ReleaseSynchronizes,
     Cancels, ClearsMm, PutsNotifier
<1>5. CASE Locks
  BY Zenon, <1>5 DEF Locks, check_and_lock_kfd, unlock_kfd, kgd2kfd_suspend, kgd2kfd_resume
<1>6. CASE UnloadLocks \/ UnloadSteps
  BY Zenon, <1>6 DEF UnloadSteps, Ending, UnloadLocks, UnloadMoves, UnloadTakesNext, UnloadFinishes,
     Cancels, ClearsMm, PutsNotifier
<1> QED BY Zenon, <1>1, <1>2, <1>3, <1>4, <1>5, <1>6 DEF Next, Locks

(* A switch of partitions keeps KFD locked, whatever suspends and resumes do. *)
LEMMA NextKeepsLocks ==
    ASSUME LockInv, [Next]_vars
    PROVE  LockInv'
<1>1. CASE UNCHANGED locking
  BY Zenon, <1>1 DEF LockInv, locking
<1>2. CASE Locks
  <2>1. kfd_locked \in Nat /\ switching \in BOOLEAN /\ (switching => kfd_locked > 0)
    BY Zenon DEF LockInv
  <2>2. CASE check_and_lock_kfd
    BY <2>1, <2>2 DEF check_and_lock_kfd, LockInv
  <2>3. CASE unlock_kfd
    <3>1. kfd_locked' = kfd_locked - 1 /\ switching' = FALSE /\ kfd_locked > 0
      BY Zenon, <2>1, <2>3 DEF unlock_kfd
    <3>2. kfd_locked' \in Nat
      BY <2>1, <3>1
    <3> QED BY Zenon, <3>1, <3>2 DEF LockInv
  <2>4. CASE kgd2kfd_suspend
    BY <2>1, <2>4 DEF kgd2kfd_suspend, LockInv
  <2>5. CASE kgd2kfd_resume
    BY <2>1, <2>5 DEF kgd2kfd_resume, LockInv
  <2> QED BY Zenon, <1>2, <2>2, <2>3, <2>4, <2>5 DEF Locks
<1> QED BY Zenon, <1>1, <1>2, StepsLeave DEF vars, system

-----------------------------------------------------------------------------
INSTANCE FiniteSetTheorems

(* The facts on finite sets, from the library. *)
LEMMA FiniteSetFactsHold == FiniteSetFacts
<1>1. IsFiniteSet({}) /\ Cardinality({}) = 0
  BY Zenon, FS_EmptySet
<1>2. ASSUME NEW S, IsFiniteSet(S)
      PROVE  /\ Cardinality(S) \in Nat
             /\ Cardinality(S) = 0 => S = {}
             /\ \A x : x \notin S =>
                  IsFiniteSet(S \cup {x}) /\ Cardinality(S \cup {x}) = Cardinality(S) + 1
             /\ \A x \in S : IsFiniteSet(S \ {x}) /\ Cardinality(S \ {x}) = Cardinality(S) - 1
  <2>1. Cardinality(S) \in Nat
    BY Zenon, <1>2, FS_CardinalityType
  <2>2. Cardinality(S) = 0 => S = {}
    BY Zenon, <1>2, FS_EmptySet
  <2>3. \A x : x \notin S => IsFiniteSet(S \cup {x}) /\ Cardinality(S \cup {x}) = Cardinality(S) + 1
    BY Zenon, <1>2, FS_AddElement
  <2>4. \A x \in S : IsFiniteSet(S \ {x}) /\ Cardinality(S \ {x}) = Cardinality(S) - 1
    BY Zenon, <1>2, FS_RemoveElement
  <2> QED BY Zenon, <2>1, <2>2, <2>3, <2>4
<1> QED BY Zenon, <1>1, <1>2 DEF FiniteSetFacts

(***************************************************************************)
(* What the invariants show, and what is left when create_process frees a  *)
(* process in use, where a behaviour ends.                                 *)
(***************************************************************************)
Safe == RefsAreExact /\ OneProcessPerMm /\ OneReleaser
IInv == LockInv /\ ((PTInv /\ WorksInv) \/ (astray = "unwind" /\ Safe))

(* Who takes a process down is alone. *)
LEMMA InvReleaser == PTInv => OneReleaser
<1>1. ASSUME PTInv, NEW p \in Procs,
             NEW by, by = {a \in DOMAIN ending : ending[a].proc = p /\ ending[a].pc \notin {"check", "lock"}}
      PROVE  /\ Cardinality(by) <= 1
             /\ by # {} => p \notin cleanup_list
             /\ by # {} \/ p \in cleanup_list => notifier[p].state = "on"
  <2>1. DOMAIN ending = Enders
    BY Zenon, <1>1 DEF PTInv, EndingTypes
  <2>2. \A a \in by : Takes(a, p) /\ a \in Enders
    BY Zenon, <1>1, <2>1 DEF PTInv, EndingTypes, EndingRec, EndingShape, Takes, Before
  <2>3. \A a \in by : p \notin cleanup_list /\ notifier[p].state = "on" /\ \A b \in by : a = b
    BY Zenon, <1>1, <2>2 DEF PTInv, Takers
  <2>4. by = {} \/ \E a \in by : by = {a}
    BY Zenon, <2>3
  <2>5. Cardinality(by) \in {0, 1}
    BY Zenon, <2>4, FS_EmptySet, FS_Singleton
  <2>6. p \in cleanup_list => notifier[p].state = "on"
    BY Zenon, <1>1 DEF PTInv, UnloadPhase
  <2> QED BY <2>3, <2>5, <2>6
<1> QED BY Zenon, <1>1 DEF OneReleaser

(* The invariant gives the three properties. *)
LEMMA InvIsSafe == PTInv => Safe
<1>1. PTInv => RefsAreExact /\ OneProcessPerMm
  BY Zenon DEF PTInv, Counted, RefsAreExact, ObjectTypes
<1> QED BY Zenon, <1>1, InvReleaser DEF Safe

(* They hold also after create_process has freed a process that others use. *)
LEMMA UnwindsIsSafe ==
    ASSUME PTInv, NEW o \in Openers, Unwinds(o)
    PROVE  Safe'
<1>1. PICK p \in Procs : p = opener[o].proc
  BY Zenon DEF Unwinds, PTInv, OpenerShape, OpenerTypes, OpenerRec
<1>2. /\ OthersKept(p) /\ OneProcessPerMm' /\ \A q \in Procs : q # p => ref'[q] = ref[q]
  BY Zenon, <1>1, UnwindsOthers
<1>3. allocated' = allocated \ {p} /\ UNCHANGED <<ending, cleanup_list, notifier>>
  BY Zenon, <1>1 DEF Unwinds
<1>4. RefsAreExact'
  <2>1. ASSUME NEW q \in allocated'
        PROVE  ref'[q] = Cardinality(Owners(q)')
    <3>1. q \in Procs /\ q # p
      BY Zenon, <1>3 DEF PTInv, ObjectTypes
    <3> QED BY Zenon, <1>2, <3>1 DEF OthersKept, PTInv, Counted
  <2> QED BY Zenon, <2>1 DEF RefsAreExact
<1>5. OneReleaser'
  BY Zenon, <1>3, InvReleaser DEF OneReleaser
<1> QED BY Zenon, <1>2, <1>4, <1>5 DEF Safe

(* Init and every step. *)
LEMMA InitIsSafe == Init => IInv
<1> SUFFICES ASSUME Init PROVE IInv
  OBVIOUS
<1>1. PTInv
  BY Zenon, FiniteSetFactsHold, InitHolds
<1>2. LockInv
  BY DEF Init, LockInv
<1>3. WorkTypes
  BY Zenon DEF Init, WorkTypes
<1>4. TakenDown
  <2>1. \A a \in Enders : ending[a].pc \notin Past
    BY Zenon DEF Init, NotEnding, Enders, Past
  <2> QED BY Zenon, <2>1 DEF Init, NoNotifier, TakenDown
<1>5. Quiet
  BY Zenon DEF Init, Quiet
<1>6. WorksInv
  BY Zenon, <1>3, <1>4, <1>5 DEF WorksInv
<1> QED BY Zenon, <1>1, <1>2, <1>6 DEF IInv

LEMMA StepIsSafe == IInv /\ [Next]_vars => IInv'
<1> SUFFICES ASSUME IInv, [Next]_vars PROVE IInv'
  OBVIOUS
<1>1. LockInv /\ LockInv'
  BY Zenon, NextKeepsLocks DEF IInv
<1>2. CASE UNCHANGED vars
  <2>1. CASE PTInv /\ WorksInv
    <3>1. PTInv'
      BY Zenon, <1>2, <2>1, FiniteSetFactsHold, StutterKeepsInv
    <3>2. WorksInv'
      BY Zenon, <1>2, <2>1, OthersKeepWorks
    <3> QED BY Zenon, <1>1, <3>1, <3>2 DEF IInv
  <2>2. CASE astray = "unwind" /\ Safe
    <3>1. UNCHANGED <<allocated, table, ref, mm, notifier, opener, looker, ending, cleanup_list, switching, astray>>
      BY Zenon, <1>2 DEF vars, objects, works, system, locking, actors
    <3>2. \A p : Owners(p)' = Owners(p)
      BY Zenon, <3>1 DEF Owners
    <3>3. Safe'
      BY Zenon, <2>2, <3>1, <3>2 DEF Safe, RefsAreExact, OneProcessPerMm, OneReleaser
    <3> QED BY Zenon, <1>1, <2>2, <3>1, <3>3 DEF IInv
  <2> QED BY Zenon, <2>1, <2>2 DEF IInv
<1>3. CASE Next
  <2>1. astray = NULL /\ NULL # "unwind" /\ NULL # "work"
    BY Zenon, <1>3 DEF Next, Over
  <2>2. PTInv /\ WorksInv
    BY Zenon, <2>1 DEF IInv
  <2>3. CASE astray' # "unwind"
    <3>1. PTInv'
      BY Zenon, <1>1, <1>3, <2>2, <2>3, FiniteSetFactsHold, NextKeepsInv
    <3>2. WorksInv'
      BY Zenon, <1>3, <2>2, <2>3, FiniteSetFactsHold, NextKeepsWorks
    <3> QED BY Zenon, <1>1, <3>1, <3>2 DEF IInv
  <2>4. CASE astray' = "unwind"
    <3>1. \E o \in Openers : Unwinds(o)
      BY Zenon, <1>3, <2>1, <2>4, StepsLeave
    <3> QED BY Zenon, <1>1, <2>2, <2>4, <3>1, UnwindsIsSafe DEF IInv
  <2> QED BY Zenon, <2>3, <2>4
<1> QED BY Zenon, <1>2, <1>3

(* IInv holds in every behaviour, with any number of processes, address
   spaces, files and lookups, and failures of create_process. *)
THEOREM Invariance == Spec => []IInv
BY InitIsSafe, StepIsSafe, PTL DEF Spec

(* The kref of a process counts its owners exactly, so that
   kfd_process_ref_release runs when the last one is gone. *)
THEOREM ReferencesAreExact == Spec => []RefsAreExact
<1>1. IInv => RefsAreExact
  BY Zenon, InvIsSafe DEF IInv, Safe
<1> QED BY Invariance, <1>1, PTL

(* Whoever has a pointer to a kfd_process has an allocated one: files,
   lookups inside their srcu section, notifier callbacks, the release work,
   kfd_cleanup_processes, and the eviction and restore works of a process for
   which no eviction was scheduled after kfd_process_notifier_release_internal
   had cancelled it; until create_process frees one that a lookup has found. *)
THEOREM UsesAreBeforeFree == Spec => []NoUseAfterFree
<1>1. ASSUME PTInv, WorksInv PROVE NoUseAfterFree
  <2>1. DOMAIN ending = Enders
    BY Zenon, <1>1 DEF PTInv, EndingTypes
  <2>2. \A p \in Procs : InUse(p) => p \in allocated
    BY Zenon, <1>1, FiniteSetFactsHold, InUseIsReferenced
  <2>3. \A p \in Procs : release[p] # "none" => p \in allocated
    BY Zenon, <1>1 DEF PTInv, Counted
  <2>4. \A p \in Procs : Holders(p) # {} => InUse(p)
    BY Zenon, <2>1 DEF Holders, InUse
  <2>5. \A p \in Procs : p \in table \/ p \in cleanup_list \/ notifier[p].state # "none" => InUse(p)
    BY Zenon DEF InUse
  <2>6. table \subseteq Procs /\ cleanup_list \subseteq Procs
    BY Zenon, <1>1 DEF PTInv, ObjectTypes
  <2>7. \A p \in Procs : evict[p] \cup restore[p] # {} => p \in allocated \/ p \in late
    BY Zenon, <1>1 DEF WorksInv, Quiet
  <2> QED BY Zenon, <2>2, <2>3, <2>4, <2>5, <2>6, <2>7 DEF NoUseAfterFree
<1>2. IInv => NoUseAfterFree
  BY Zenon, <1>1 DEF IInv, NoUseAfterFree
<1> QED BY Invariance, <1>2, PTL

(* Two threads of a process never create two kfd_process structures, and
   none is in the table while partitions are switched, whatever suspends and
   resumes add to and take from kfd_locked meanwhile. *)
THEOREM OneProcess == Spec => []OneProcessPerMm
<1>1. IInv => OneProcessPerMm
  BY Zenon, InvIsSafe DEF IInv, Safe
<1> QED BY Invariance, <1>1, PTL

(* A process is taken down by its notifier or by kfd_cleanup_processes,
   never by both. *)
THEOREM OneTakesDown == Spec => []OneReleaser
<1>1. IInv => OneReleaser
  BY Zenon, InvIsSafe DEF IInv, Safe
<1> QED BY Invariance, <1>1, PTL
=============================================================================
