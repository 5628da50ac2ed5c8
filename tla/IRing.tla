-------------------------------- MODULE IRing --------------------------------
(***************************************************************************)
(* The interruption ring embedded in every event ring (ring.h r_iring).    *)
(* Its producer is a signal handler of the ring's thread: when the handler *)
(* returns it queues one interruption record (rvp_ring_put_interruption,   *)
(* ring.c, modelled from spec.md 4.4).  The consumer helpers of ring.h,    *)
(* rvp_ring_first_interruption, rvp_ring_next_interruption and             *)
(* rvp_ring_drop_interruption, are driven here by a harness that walks the *)
(* published records and then drops them: serialize() and                  *)
(* rvp_thread_flush_to_fd of this repository never read r_iring, so the    *)
(* harness is not the serializer's code and no property rests on when it  *)
(* runs.                                                                   *)
(*                                                                         *)
(* Record k is the k-th record queued; its fields do not matter here.  A   *)
(* handler with a full ring requests service at idepth > 0, which is       *)
(* rvp_wake_relay (relay.h, modelled from spec.md 4.6), and spins.  The    *)
(* harness may also start a walk at any time.                             *)
(***************************************************************************)
EXTENDS Integers, Sequences, SequencesExt

CONSTANTS
    ISlots,     \* __arraycount(ir_items)
    MaxRecs     \* bound on the records queued in one behaviour

ASSUME ISlots \in Nat /\ ISlots >= 2 /\ MaxRecs \in Nat

VARIABLES
    iitems,     \* ir_items[0..ISlots-1]: the number of the record in a slot
    iproducer,  \* ir_producer - ir_items
    iconsumer,  \* ir_consumer - ir_items
    hpc,        \* the returning signal handler: "idle", "spin", "write", "publish"
    relayed,    \* relay wakes not yet taken by the serializer
    spc,        \* serializer: "sleep", "first", "walk", "drop"
    cur,        \* the record the serializer's walk is at
    walked,     \* records read by the walk and not yet dropped
    dropped,    \* records the serializer has released, in order (history)
    sent        \* records queued so far (history)

vars == <<iitems, iproducer, iconsumer, hpc, relayed, spc, cur, walked,
          dropped, sent>>

Slots == 0..(ISlots - 1)
Null == -1

\* rvp_iring_nfull
INFull(p, c) == IF p >= c THEN p - c ELSE ISlots - (c - p)

\* mutant: the capacity forgets the slot kept empty
ICapacityAll == ISlots

\* rvp_iring_capacity
ICapacity == ISlots - 1

\* rvp_iring_nempty
INEmpty(p, c) == ICapacity - INFull(p, c)

\* mutant: the wrap compares with one past rvp_iring_last
SuccPastLast(s) == IF s = ISlots THEN 0 ELSE s + 1

\* the slot after s: ir_items[0] after rvp_iring_last, else s + 1
Succ(s) == IF s = ISlots - 1 THEN 0 ELSE s + 1

\* mutant: the walk does not stop at the producer
NextInterruptionNoStop(prev) == Succ(prev)

\* rvp_ring_next_interruption: NULL once the walk reaches ir_producer
NextInterruption(prev) == IF Succ(prev) = iproducer THEN Null ELSE Succ(prev)

\* rvp_ring_first_interruption
FirstInterruption == IF iconsumer = iproducer THEN Null ELSE iconsumer

\* rvp_ring_request_service with r_idepth > 0: rvp_wake_relay
RequestService == relayed' = relayed + 1

\* records between the consumer and the producer, oldest first
IUnread == [i \in 1..INFull(iproducer, iconsumer) |->
               iitems[(iconsumer + i - 1) % ISlots]]

Init ==
    /\ iitems = [s \in Slots |-> 0]
    /\ iproducer = 0 /\ iconsumer = 0
    /\ hpc = "idle" /\ relayed = 0
    /\ spc = "sleep" /\ cur = Null /\ walked = <<>>
    /\ dropped = <<>> /\ sent = 0

-----------------------------------------------------------------------------
(* Producer: a signal handler returning, rvp_ring_put_interruption        *)

\* a free slot: go and write the record; none: the caller (ring.c, from
\* spec.md) calls rvp_iring_await_one_empty, which requests service and
\* then spins
PutInterruption ==
    /\ hpc = "idle" /\ sent < MaxRecs
    /\ IF INEmpty(iproducer, iconsumer) >= 1
         THEN hpc' = "write" /\ UNCHANGED relayed
         ELSE hpc' = "spin" /\ RequestService
    /\ UNCHANGED <<iitems, iproducer, iconsumer, spc, cur, walked, dropped,
                   sent>>

\* rvp_iring_wait_for_one_empty returns once a slot is free
Spin ==
    /\ hpc = "spin"
    /\ INEmpty(iproducer, iconsumer) >= 1
    /\ hpc' = "write"
    /\ UNCHANGED <<iitems, iproducer, iconsumer, relayed, spc, cur, walked,
                   dropped, sent>>

Write ==
    /\ hpc = "write"
    /\ iitems' = [iitems EXCEPT ![iproducer] = sent + 1]
    /\ hpc' = "publish"
    /\ UNCHANGED <<iproducer, iconsumer, relayed, spc, cur, walked, dropped,
                   sent>>

\* release store of ir_producer
Publish ==
    /\ hpc = "publish"
    /\ iproducer' = Succ(iproducer)
    /\ sent' = sent + 1
    /\ hpc' = "idle"
    /\ UNCHANGED <<iitems, iconsumer, relayed, spc, cur, walked, dropped>>

-----------------------------------------------------------------------------
(* Consumer: a harness over the ring.h consumer helpers                    *)

WakeByRelay ==
    /\ spc = "sleep" /\ relayed > 0
    /\ relayed' = relayed - 1
    /\ spc' = "first"
    /\ UNCHANGED <<iitems, iproducer, iconsumer, hpc, cur, walked, dropped,
                   sent>>

\* a walk started for any other reason
WakeByOther ==
    /\ spc = "sleep"
    /\ spc' = "first"
    /\ UNCHANGED <<iitems, iproducer, iconsumer, hpc, relayed, cur, walked,
                   dropped, sent>>

First ==
    /\ spc = "first"
    /\ IF FirstInterruption = Null
         THEN spc' = "sleep" /\ UNCHANGED <<cur, walked>>
         ELSE spc' = "walk" /\ cur' = FirstInterruption /\ walked' = <<>>
    /\ UNCHANGED <<iitems, iproducer, iconsumer, hpc, relayed, dropped, sent>>

\* read the record at cur, then rvp_ring_next_interruption
Walk ==
    /\ spc = "walk"
    /\ walked' = Append(walked, iitems[cur])
    /\ IF NextInterruption(cur) = Null
         THEN spc' = "drop" /\ UNCHANGED cur
         ELSE cur' = NextInterruption(cur) /\ UNCHANGED spc
    /\ UNCHANGED <<iitems, iproducer, iconsumer, hpc, relayed, dropped, sent>>

\* rvp_ring_drop_interruption of each record walked, oldest first
Drop ==
    /\ spc = "drop"
    /\ iconsumer' = Succ(iconsumer)
    /\ dropped' = Append(dropped, iitems[iconsumer])
    /\ walked' = Tail(walked)
    /\ spc' = IF Tail(walked) = <<>> THEN "first" ELSE "drop"
    /\ UNCHANGED <<iitems, iproducer, hpc, relayed, cur, sent>>

Handler == PutInterruption \/ Spin \/ Write \/ Publish

Serializer == WakeByRelay \/ WakeByOther \/ First \/ Walk \/ Drop

Next == Handler \/ Serializer

\* safety only: when a handler returns, and when the harness walks, are
\* left open
Spec == Init /\ [][Next]_vars

-----------------------------------------------------------------------------
(* Properties                                                              *)

TypeOK ==
    /\ iitems \in [Slots -> 0..MaxRecs]
    /\ iproducer \in Slots /\ iconsumer \in Slots
    /\ hpc \in {"idle", "spin", "write", "publish"}
    /\ spc \in {"sleep", "first", "walk", "drop"}
    /\ relayed \in Nat /\ cur \in Slots \cup {Null}

\* The interruption ring is the bounded FIFO of RingQueue: a record is
\* queued only into a free slot and the serializer releases exactly the
\* records queued, oldest first, each once.
Abstract == INSTANCE RingQueue WITH
    Cap <- ICapacity, Sizes <- {1}, MaxWords <- MaxRecs,
    q <- IUnread, out <- dropped, sent <- sent

RefinesRingQueue == Abstract!Spec

\* While the handler queues more records concurrently, the serializer's
\* walk with first/next_interruption reads the queued records in order and
\* never a slot the handler has not published.
WalkFollowsQueue == IsPrefix(walked, IUnread)
=============================================================================
