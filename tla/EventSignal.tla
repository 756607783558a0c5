---------------------------- MODULE EventSignal ----------------------------
(***************************************************************************)
(* Event ids, the signal page and the interrupt handler (kfd_events.c).    *)
(*                                                                         *)
(* A signal event has a slot in the signal page, indexed by its id.  The   *)
(* GPU marks the slot and sends an interrupt that carries some of the bits *)
(* of the id; a handler (the interrupt worker of one GPU) looks for a      *)
(* marked slot, clears it and sets the event.  Handlers hold only          *)
(* rcu_read_lock: events come and go under them.  An Event is one struct   *)
(* kfd_event; what set_event does to waiters is module EventWait.          *)
(***************************************************************************)
EXTENDS Integers, FiniteSets, FiniteSetsExt

CONSTANTS
    Events,       \* struct kfd_event of types SIGNAL and DEBUG
    NULL,         \* the null pointer
    Limit,        \* KFD_SIGNAL_EVENT_LIMIT
    MappedSizes,  \* the sizes of the page in slots: the least one before kfd_event_mmap
    FewEvents,    \* KFD_SIGNAL_EVENT_LIMIT / 64
    Strides,      \* 1 << valid_id_bits of the kinds of interrupts; 0 for no id
    Handlers,     \* the interrupt workers of the GPUs
    Destroys,     \* when events are destroyed: never, not under a handler, any time
    MaxInterrupts \* bound of this model on the interrupts in flight

ASSUME EventSignalAssumption ==
    /\ NULL \notin Events
    /\ Limit \in Nat \ {0}
    /\ MappedSizes \subseteq 1 .. Limit /\ MappedSizes # {}
    /\ FewEvents \in Nat /\ Strides \subseteq Nat
    /\ Destroys \in {"never", "quiet", "any"}
    /\ MaxInterrupts \in Nat

VARIABLES
    idr,         \* p->event_idr below Limit: the event of each id; id 0 is reserved
    slots,       \* page_slots: TRUE if not UNSIGNALED_EVENT_SLOT
    count,       \* p->signal_event_count
    mapped,      \* p->signal_mapped_size / 8, 0 before there is a page
    event_id,    \* ev->event_id, 0 for an event that was never created
    creating,    \* the event kfd_event_create has published, slot not cleared yet
    irq,         \* interrupts sent and not handled: how many of each kind and partial id
    pc, id, ev,  \* each handler: where it is, the id it looks at, the event found
    search,      \* what it goes through: matching ids, all slots, or the idr
    stride,      \* its distance between matching ids
    unseen       \* history: the events the GPU signaled and that were not set since

handlerVars == <<pc, id, ev, search, stride>>
vars == <<idr, slots, count, mapped, event_id, creating, irq, handlerVars, unseen>>

Ids == 0 .. Limit - 1

Live == {e \in Events : \E i \in Ids : idr[i] = e}
Used == {i \in Ids : i = 0 \/ idr[i] # NULL}

(* What an interrupt of the kind s says of an id. *)
Partial(i, s) == IF s = 0 THEN 0 ELSE i % s

-----------------------------------------------------------------------------
(* kfd_event_init_process: id 0 is taken, and counted. *)
Init ==
    /\ idr = [i \in Ids |-> NULL]
    /\ slots = [i \in Ids |-> FALSE]
    /\ count = 1
    /\ mapped = 0
    /\ event_id = [e \in Events |-> 0]
    /\ creating = NULL
    /\ irq = [k \in Ids \X Strides |-> 0]
    /\ pc = [h \in Handlers |-> "idle"]
    /\ id = [h \in Handlers |-> 0]
    /\ ev = [h \in Handlers |-> NULL]
    /\ search = [h \in Handlers |-> "partial"]
    /\ stride = [h \in Handlers |-> 0]
    /\ unseen = {}

(* The test at the head of create_signal_event. *)
AtLimit == mapped # 0 /\ count = mapped

(* kfd_event_create for a signal event, first part: a page if there is none,
   and the lowest free id below the mapped size. *)
create_signal_event(e) ==
    LET size == IF mapped = 0 THEN Min(MappedSizes) ELSE mapped
        free == (0 .. size - 1) \ Used
    IN
    /\ creating = NULL
    /\ event_id[e] = 0
    /\ ~ AtLimit
    /\ mapped' = size
    /\ free # {}
    /\ idr' = [idr EXCEPT ![Min(free)] = e]
    /\ event_id' = [event_id EXCEPT ![e] = Min(free)]
    /\ creating' = e
    /\ UNCHANGED <<slots, count, irq, handlerVars, unseen>>

(* ... second part: clear the slot and count the event. *)
ClearSlot ==
    /\ creating # NULL
    /\ slots' = [slots EXCEPT ![event_id[creating]] = FALSE]
    /\ count' = count + 1
    /\ creating' = NULL
    /\ UNCHANGED <<idr, mapped, event_id, irq, handlerVars, unseen>>

(* kfd_event_mmap: every call decides how much of the page is used, also one
   that maps less than a call before.  One page of memory already holds more
   slots than are used before the first call. *)
kfd_event_mmap(size) ==
    /\ mapped # 0
    /\ size # Min(MappedSizes)
    /\ mapped' = size
    /\ UNCHANGED <<idr, slots, count, event_id, creating, irq, handlerVars, unseen>>

(* The destroys this model lets the user make. *)
MayDestroy ==
    \/ Destroys = "any"
    \/ Destroys = "quiet" /\ \A h \in Handlers : pc[h] = "idle"

(* Mutant: a destroyed event stays counted. *)
destroy_event_StaysCounted(e) ==
    /\ MayDestroy /\ creating = NULL /\ e \in Live
    /\ idr' = [idr EXCEPT ![event_id[e]] = NULL]
    /\ unseen' = unseen \ {e}
    /\ UNCHANGED <<slots, count, mapped, event_id, creating, irq, handlerVars>>

(* destroy_event: the id is free again at once, the structure after a grace
   period. *)
destroy_event(e) ==
    /\ MayDestroy /\ creating = NULL /\ e \in Live
    /\ count' = count - 1
    /\ idr' = [idr EXCEPT ![event_id[e]] = NULL]
    /\ unseen' = unseen \ {e}
    /\ UNCHANGED <<slots, mapped, event_id, creating, irq, handlerVars>>

(* External: the GPU marks the slot of an event of the user, then sends an
   interrupt. *)
GPUSignal(e, s) ==
    /\ e \in Live /\ e # creating
    /\ FoldSet(LAMBDA k, n : irq[k] + n, 0, Ids \X Strides) < MaxInterrupts
    /\ slots' = [slots EXCEPT ![event_id[e]] = TRUE]
    /\ irq' = [irq EXCEPT ![Partial(event_id[e], s), s] = @ + 1]
    /\ unseen' = unseen \cup {e}
    /\ UNCHANGED <<idr, count, mapped, event_id, creating, handlerVars>>

-----------------------------------------------------------------------------
HandlerUnchanged == UNCHANGED <<idr, count, mapped, event_id, creating>>

StartsExhaustive == IF count < FewEvents THEN "idr" ELSE "slots"

(* kfd_signal_event_interrupt: without id bits the search is exhaustive. *)
kfd_signal_event_interrupt(h, p, s) ==
    /\ pc[h] = "idle" /\ irq[p, s] > 0
    /\ irq' = [irq EXCEPT ![p, s] = @ - 1]
    /\ pc' = [pc EXCEPT ![h] = "look"]
    /\ id' = [id EXCEPT ![h] = IF s = 0 THEN 1 ELSE p]
    /\ search' = [search EXCEPT ![h] = IF s = 0 THEN StartsExhaustive ELSE "partial"]
    /\ stride' = [stride EXCEPT ![h] = s]
    /\ UNCHANGED <<slots, ev, unseen>> /\ HandlerUnchanged

(* Mutant: the search by partial id does not advance. *)
Following_Same(h) == id[h] + IF search[h] = "partial" THEN 0 ELSE 1

(* The id after id[h] in lookup_signaled_event_by_partial_id, or in the
   exhaustive search. *)
Following(h) == id[h] + IF search[h] = "partial" THEN stride[h] ELSE 1

Marked(h) == slots[id[h]]

(* A turn of a loop over slots: skip an unmarked one. *)
LookAtSlot(h) ==
    /\ pc[h] = "look" /\ search[h] # "idr" /\ id[h] < Limit
    /\ IF Marked(h) THEN pc' = [pc EXCEPT ![h] = "find"] /\ UNCHANGED id
                    ELSE id' = [id EXCEPT ![h] = Following(h)] /\ UNCHANGED pc
    /\ UNCHANGED <<slots, irq, ev, search, stride, unseen>> /\ HandlerUnchanged

(* idr_find of a marked slot: there may be no event any more. *)
FindEvent(h) ==
    /\ pc[h] = "find"
    /\ IF idr[id[h]] = NULL
         THEN /\ pc' = [pc EXCEPT ![h] = "look"]
              /\ id' = [id EXCEPT ![h] = Following(h)]
              /\ UNCHANGED ev
         ELSE /\ pc' = [pc EXCEPT ![h] = "ack"]
              /\ ev' = [ev EXCEPT ![h] = idr[id[h]]]
              /\ UNCHANGED id
    /\ UNCHANGED <<slots, irq, search, stride, unseen>> /\ HandlerUnchanged

(* A turn of the loop over the idr: the next event ... *)
LookAtEntry(h) ==
    /\ pc[h] = "look" /\ search[h] = "idr" /\ id[h] < Limit
    /\ IF idr[id[h]] = NULL
         THEN id' = [id EXCEPT ![h] = Following(h)] /\ UNCHANGED <<pc, ev>>
         ELSE /\ ev' = [ev EXCEPT ![h] = idr[id[h]]]
              /\ pc' = [pc EXCEPT ![h] = "check"]
              /\ UNCHANGED id
    /\ UNCHANGED <<slots, irq, search, stride, unseen>> /\ HandlerUnchanged

(* ... and its slot. *)
CheckSlot(h) ==
    /\ pc[h] = "check"
    /\ IF Marked(h)
         THEN pc' = [pc EXCEPT ![h] = "ack"] /\ UNCHANGED <<id, ev>>
         ELSE /\ pc' = [pc EXCEPT ![h] = "look"]
              /\ ev' = [ev EXCEPT ![h] = NULL]
              /\ id' = [id EXCEPT ![h] = Following(h)]
    /\ UNCHANGED <<slots, irq, search, stride, unseen>> /\ HandlerUnchanged

(* The end of the ids: a partial id that found nothing starts the exhaustive
   search, which then ends the handler. *)
EndOfIds(h) ==
    /\ pc[h] = "look" /\ id[h] >= Limit
    /\ IF search[h] = "partial"
         THEN /\ id' = [id EXCEPT ![h] = 1]
              /\ search' = [search EXCEPT ![h] = StartsExhaustive]
              /\ UNCHANGED pc
         ELSE pc' = [pc EXCEPT ![h] = "idle"] /\ UNCHANGED <<id, search>>
    /\ UNCHANGED <<slots, irq, ev, stride, unseen>> /\ HandlerUnchanged

(* Mutant: the slot is left marked. *)
acknowledge_signal_Not(h) ==
    /\ pc[h] = "ack"
    /\ pc' = [pc EXCEPT ![h] = "set"]
    /\ UNCHANGED <<slots, irq, id, ev, search, stride, unseen>> /\ HandlerUnchanged

(* set_event_from_interrupt clears the slot of the event it found ... *)
acknowledge_signal(h) ==
    /\ pc[h] = "ack"
    /\ slots' = [slots EXCEPT ![event_id[ev[h]]] = FALSE]
    /\ pc' = [pc EXCEPT ![h] = "set"]
    /\ UNCHANGED <<irq, id, ev, search, stride, unseen>> /\ HandlerUnchanged

(* ... and then sets it.  An exhaustive search goes on. *)
set_event_from_interrupt(h) ==
    /\ pc[h] = "set"
    /\ unseen' = unseen \ {ev[h]}
    /\ ev' = [ev EXCEPT ![h] = NULL]
    /\ IF search[h] = "partial"
         THEN pc' = [pc EXCEPT ![h] = "idle"] /\ UNCHANGED id
         ELSE pc' = [pc EXCEPT ![h] = "look"] /\ id' = [id EXCEPT ![h] = Following(h)]
    /\ UNCHANGED <<slots, irq, search, stride>> /\ HandlerUnchanged

HandlerStep(h) ==
    \/ \E p \in Ids, s \in Strides : kfd_signal_event_interrupt(h, p, s)
    \/ LookAtSlot(h) \/ FindEvent(h) \/ LookAtEntry(h) \/ CheckSlot(h) \/ EndOfIds(h)
    \/ acknowledge_signal(h) \/ set_event_from_interrupt(h)

Next ==
    \/ \E e \in Events : create_signal_event(e) \/ destroy_event(e)
    \/ \E e \in Events, s \in Strides : GPUSignal(e, s)
    \/ ClearSlot
    \/ \E size \in MappedSizes : kfd_event_mmap(size)
    \/ \E h \in Handlers : HandlerStep(h)

Spec == Init /\ [][Next]_vars

(* The interrupt workers run. *)
FairSpec == Spec /\ \A h \in Handlers : WF_vars(HandlerStep(h))
-----------------------------------------------------------------------------
(* p->signal_event_count, by which create_signal_event refuses events and
   kfd_signal_event_interrupt chooses how to search, is the number of signal ids
   in the idr, the reserved id 0 included, whatever is created, destroyed and
   mapped in between. *)
CountIsExact == creating = NULL => count = Cardinality(Used)

(* "As long as the number of interrupts is correct, all signaled events will
   be seen by the driver": when every interrupt has been handled, no event
   that the GPU signaled is still to be set. *)
SignalsAreSeen ==
    (\A k \in Ids \X Strides : irq[k] = 0) /\ (\A h \in Handlers : pc[h] = "idle") => unseen = {}

(* Once the GPU falls silent, every event it signaled is set.  (While the GPU
   keeps signaling an event with a lower id and the same partial id, the lookup
   may find that one for every interrupt.) *)
SignaledIsSet ==
    <>[][\A e \in Events, s \in Strides : ~ GPUSignal(e, s)]_vars => []<>(unseen = {})
=============================================================================
