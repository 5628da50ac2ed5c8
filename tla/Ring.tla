-------------------------------- MODULE Ring --------------------------------
(***************************************************************************)
(* One per-thread event ring (src/llvm/ngrt/ring.h) with its producer, the *)
(* owning thread running rvp_ring_put_multiple, and its consumer, the     *)
(* serializer thread of src/llvm/ngrt/thread.c flushing it with           *)
(* rvp_thread_flush_to_fd (src/llvm/ngrt/trace.c).                        *)
(*                                                                         *)
(* The slots are explicit: items is the ring array, producer and consumer *)
(* are the indices of r_producer and r_consumer.  Word k of the stream    *)
(* carries the number k, so the trace can be compared with the commits.   *)
(* Each step of put_multiple that another thread can observe is its own   *)
(* action: the capacity check, the copy into the slots, the release store *)
(* of r_producer, and the milestone checks that follow it.  A service     *)
(* request is rvp_wake_transmitter: it takes thread_mutex, which the      *)
(* serializer holds for the whole of a flushing pass.                     *)
(***************************************************************************)
EXTENDS Integers, Sequences

CONSTANTS
    NSlots,       \* words per ring: the page of r_items (capacity + 1)
    Sizes,        \* nitems of the put_multiple calls the thread makes
    Log2NThreads, \* the values rvp_log2_nthreads may have
    MaxWords,     \* bound on the words committed in one behaviour
    HdrLen        \* write(2) units in the trace header

ASSUME NSlots \in Nat /\ NSlots >= 2
ASSUME Sizes \subseteq 1..(NSlots - 1) /\ Sizes /= {}
ASSUME Log2NThreads \subseteq Nat /\ MaxWords \in Nat /\ HdrLen \in Nat

VARIABLES
    items,      \* r_items[0..NSlots-1]
    producer,   \* r_producer - r_items
    consumer,   \* r_consumer - r_items
    ppc,        \* where the producer is inside put_multiple
    prev,       \* put_multiple's local prev
    next,       \* put_multiple's local next
    nitems,     \* put_multiple's argument
    ret,        \* where the producer resumes after a service request
    ggen,       \* rvp_ggen
    nwake,      \* thread.c nwake
    spc,        \* serializer: "open", "sleep" in pthread_cond_wait, "pass",
                \* "store" between writev and the store of r_consumer, or
                \* "dead" once the process has exited
    snap,       \* rvp_thread_flush_to_fd's local producer
    hdr,        \* header units in the trace file
    out,        \* words written to the trace file, in order (history)
    written,    \* words committed so far (history)
    fault,      \* the process took an arithmetic trap
    log2nthreads \* rvp_log2_nthreads, set before the thread runs

vars == <<items, producer, consumer, ppc, prev, next, nitems, ret, ggen,
          nwake, spc, out, written, fault, log2nthreads, hdr, snap>>

Slots == 0..(NSlots - 1)

-----------------------------------------------------------------------------
(* Index arithmetic of ring.h                                              *)

\* rvp_ring_nfull
NFull(p, c) == IF p >= c THEN p - c ELSE NSlots - (c - p)

\* rvp_ring_capacity: one slot always stays empty
Capacity == NSlots - 1

\* rvp_ring_nempty
NEmpty(p, c) == Capacity - NFull(p, c)

\* mutant: the wrap test lets next land one past r_last
AdvancedByPastEnd(p, n) ==
    IF p + n <= NSlots THEN p + n ELSE p + (n - NSlots)

\* the wrap computation of next at the top of rvp_ring_put_multiple
AdvancedBy(p, n) == IF p + n <= NSlots - 1 THEN p + n ELSE p + (n - NSlots)

\* mutant: the wait loop lets a batch in with one slot too few
HasRoomOffByOne(p, c, n) == NEmpty(p, c) >= n - 1

\* the capacity test of the wait loop of rvp_ring_put_multiple
HasRoom(p, c, n) == NEmpty(p, c) >= n

\* C integer division, which truncates towards zero
CDiv(a, b) == IF a >= 0 THEN a \div b ELSE -((-a) \div b)

\* mutant: the shift forgets the 1 +
GgenThresholdNoHalf == NSlots \div (2 ^ log2nthreads)

\* nslots >> (1 + rvp_log2_nthreads)
GgenThreshold == NSlots \div (2 ^ (1 + log2nthreads))

\* nslots / 2
ServiceThreshold == NSlots \div 2

\* the test that increases rvp_ggen after a commit, evaluated as C does:
\* the || stops at nitems >= ggen_threshold, and a division by a zero
\* threshold traps (SIGFPE)
GgenTest(p, nx, n) ==
    IF n >= GgenThreshold THEN "yes"
    ELSE IF GgenThreshold = 0 THEN "trap"
    ELSE IF p \div GgenThreshold < nx \div GgenThreshold THEN "yes"
    ELSE "no"

\* the test that requests service after a commit
PassesServiceMilestone(nf, n) ==
    CDiv(nf - n, ServiceThreshold) < nf \div ServiceThreshold

\* the memcpy (one or two segments) of n words numbered from w+1 at p
CopyInto(its, p, n, w) ==
    [i \in Slots |-> IF (i - p) % NSlots < n THEN w + ((i - p) % NSlots) + 1
                                            ELSE its[i]]

\* mutant: the wrap test of the consumer index is strict
ConsumerIndexAdvancedByStrict(c, n) ==
    IF c + n < NSlots - 1 THEN c + n ELSE c + (n - NSlots)

\* rvp_ring_consumer_index_advanced_by: the slot n words past the consumer
ConsumerIndexAdvancedBy(c, n) ==
    IF c + n <= NSlots - 1 THEN c + n ELSE c + (n - NSlots)

\* the words between index c and the producer, oldest first
UnreadFrom(c) == [i \in 1..NFull(producer, c) |-> items[(c + i - 1) % NSlots]]

\* the words not yet in the trace file: between writev and the store of
\* r_consumer they start at the flush's snapshot of the producer
Unread == UnreadFrom(IF spc = "store" THEN snap ELSE consumer)

-----------------------------------------------------------------------------
(* Producer: rvp_ring_put_multiple                                        *)

Init ==
    /\ items = [i \in Slots |-> 0]          \* calloc'd page, rvp_ring_init
    /\ producer = 0 /\ consumer = 0
    /\ ppc = "idle" /\ prev = 0 /\ next = 0 /\ nitems = 0 /\ ret = "idle"
    /\ ggen = 0 /\ nwake = 0 /\ spc = "open" /\ hdr = 0
    /\ out = <<>> /\ written = 0 /\ fault = FALSE /\ snap = 0
    /\ log2nthreads \in Log2NThreads

\* entry: prev and next are computed before the capacity is checked
PutMultiple(n) ==
    /\ ppc = "idle"
    /\ written + n <= MaxWords
    /\ nitems' = n
    /\ prev' = producer
    /\ next' = AdvancedBy(producer, n)
    /\ ppc' = "check"
    /\ UNCHANGED <<items, producer, consumer, ret, ggen, nwake, spc, out,
                   written, fault, log2nthreads, hdr, snap>>

\* while (nempty < nitems): enough room, go on to the copy
Check ==
    /\ ppc = "check"
    /\ HasRoom(producer, consumer, nitems)
    /\ ppc' = "copy"
    /\ UNCHANGED <<items, producer, consumer, prev, next, nitems, ret, ggen,
                   nwake, spc, out, written, fault, log2nthreads, hdr, snap>>

\* not enough room: rvp_ring_await_nempty requests service, then spins
Full ==
    /\ ppc = "check"
    /\ ~HasRoom(producer, consumer, nitems)
    /\ ppc' = "wake"
    /\ ret' = "spin"
    /\ UNCHANGED <<items, producer, consumer, prev, next, nitems, ggen, nwake,
                   spc, out, written, fault, log2nthreads, hdr, snap>>

\* rvp_ring_wait_for_nempty: spins while the ring is full and returns once
\* the serializer has made room
Spin ==
    /\ ppc = "spin"
    /\ \/ ~HasRoom(producer, consumer, nitems) /\ UNCHANGED ppc
       \/ HasRoom(producer, consumer, nitems) /\ ppc' = "copy"
    /\ UNCHANGED <<items, producer, consumer, prev, next, nitems, ret, ggen,
                   nwake, spc, out, written, fault, log2nthreads, hdr, snap>>

Copy ==
    /\ ppc = "copy"
    /\ items' = CopyInto(items, prev, nitems, written)
    /\ ppc' = "publish"
    /\ UNCHANGED <<producer, consumer, prev, next, nitems, ret, ggen, nwake,
                   spc, out, written, fault, log2nthreads, hdr, snap>>

\* release store of r_producer
Publish ==
    /\ ppc = "publish"
    /\ producer' = next
    /\ written' = written + nitems
    /\ ppc' = "milestones"
    /\ UNCHANGED <<items, consumer, prev, next, nitems, ret, ggen, nwake, spc,
                   out, fault, log2nthreads, hdr, snap>>

\* the ggen and service milestones, with nfull read afresh
Milestones ==
    /\ ppc = "milestones"
    /\ ggen' = IF GgenTest(prev, next, nitems) = "yes" THEN ggen + 1
                                                        ELSE ggen
    /\ fault' = (GgenTest(prev, next, nitems) = "trap")
    /\ IF PassesServiceMilestone(NFull(producer, consumer), nitems)
         THEN ppc' = "wake" /\ ret' = "idle"
         ELSE ppc' = "idle" /\ ret' = ret
    /\ UNCHANGED <<items, producer, consumer, prev, next, nitems, nwake, spc,
                   out, written, log2nthreads, hdr, snap>>

\* mutant: rvp_wake_transmitter signals wakecond without nwake++
WakeTransmitterLost ==
    /\ ppc = "wake"
    /\ spc = "sleep"
    /\ nwake' = nwake
    /\ ppc' = ret
    /\ UNCHANGED <<items, producer, consumer, prev, next, nitems, ret, ggen,
                   spc, out, written, fault, log2nthreads, hdr, snap>>

\* rvp_ring_request_service at idepth 0: rvp_wake_transmitter, which waits
\* for thread_mutex, so never while the serializer is in a pass
WakeTransmitter ==
    /\ ppc = "wake"
    /\ spc = "sleep"
    /\ nwake' = nwake + 1
    /\ ppc' = ret
    /\ UNCHANGED <<items, producer, consumer, prev, next, nitems, ret, ggen,
                   spc, out, written, fault, log2nthreads, hdr, snap>>

-----------------------------------------------------------------------------
(* Consumer: serialize() over a registry holding this one ring            *)

\* pthread_cond_wait returns with nwake > 0 and thread_mutex held
Wake ==
    /\ spc = "sleep"
    /\ nwake > 0
    /\ nwake' = nwake - 1
    /\ spc' = "pass"
    /\ UNCHANGED <<items, producer, consumer, ppc, prev, next, nitems, ret,
                   ggen, out, written, fault, log2nthreads, hdr, snap>>

\* rvp_thread_flush_to_fd up to its writev: the producer is read once into
\* the local producer, and [consumer, producer) is written; the slots it
\* writes are unread, so the owner cannot change them meanwhile.  An empty
\* ring returns false and ends the do-while loop.
FlushWrite ==
    /\ spc = "pass"
    /\ IF producer = consumer
         THEN /\ spc' = "sleep"
              /\ UNCHANGED <<out, snap>>
         ELSE /\ out' = out \o UnreadFrom(consumer)
              /\ snap' = producer
              /\ spc' = "store"
    /\ UNCHANGED <<items, producer, consumer, ppc, prev, next, nitems, ret,
                   ggen, nwake, written, fault, log2nthreads, hdr>>

\* mutant: r_consumer is set from r_producer read again after the writev
FlushStoreReread ==
    /\ spc = "store"
    /\ consumer' = producer
    /\ spc' = "pass"
    /\ UNCHANGED <<items, producer, ppc, prev, next, nitems, ret, ggen, nwake,
                   out, written, fault, log2nthreads, hdr, snap>>

\* r->r_consumer = producer: the snapshot, whatever the owner has committed
\* since
FlushStore ==
    /\ spc = "store"
    /\ consumer' = snap
    /\ spc' = "pass"
    /\ UNCHANGED <<items, producer, ppc, prev, next, nitems, ret, ggen, nwake,
                   out, written, fault, log2nthreads, hdr, snap>>

\* mutant: the flush goes on without the assert, as built with NDEBUG
FlushFailsNoAssert ==
    /\ spc = "pass" /\ producer /= consumer
    /\ \E w \in 0..(NFull(producer, consumer) - 1) :
         out' = out \o SubSeq(UnreadFrom(consumer), 1, w)
    /\ snap' = producer
    /\ spc' = "store"
    /\ UNCHANGED <<items, producer, consumer, ppc, prev, next, nitems, ret,
                   ggen, nwake, written, fault, log2nthreads, hdr>>

\* writev(2) fails or writes only part of the iovec (a full disk, a
\* signal): nwritten minus the iov_len of each vector is not 0 and the
\* assert aborts the process, leaving r_consumer where it was.  What the
\* short write put in the file is not recorded.
FlushFails ==
    /\ spc = "pass" /\ producer /= consumer
    /\ spc' = "dead"
    /\ UNCHANGED <<items, producer, consumer, ppc, prev, next, nitems, ret,
                   ggen, nwake, hdr, out, written, fault, log2nthreads, snap>>

-----------------------------------------------------------------------------
(* rvp_serializer_create: rvp_trace_open writes the header with writeall   *)
(* before the serializer exists and before the program's own code runs    *)
(* (__rvpredict_init); the flush of thread 0's ring that follows finds it *)
(* empty here.                                                             *)

\* one turn of writeall's loop: write(2) writes k of the nleft units, and
\* the loop ends when nleft is 0
WriteHeader ==
    /\ spc = "open"
    /\ \E k \in 1..(HdrLen - hdr) :
         /\ hdr' = hdr + k
         /\ spc' = IF hdr + k = HdrLen THEN "sleep" ELSE "open"
    /\ UNCHANGED <<items, producer, consumer, ppc, prev, next, nitems, ret,
                   ggen, nwake, out, written, fault, log2nthreads, snap>>

\* write(2) returns -1: writeall and rvp_trace_open return -1, and
\* rvp_serializer_create calls err(3)
WriteHeaderFails ==
    /\ spc = "open"
    /\ spc' = "dead"
    /\ UNCHANGED <<items, producer, consumer, ppc, prev, next, nitems, ret,
                   ggen, nwake, hdr, out, written, fault, log2nthreads, snap>>

\* the program runs once rvp_init has returned, and stops with the process
Producer ==
    /\ spc \notin {"open", "dead"}
    /\ \/ \E n \in Sizes : PutMultiple(n)
       \/ Check \/ Full \/ Spin \/ Copy \/ Publish \/ Milestones
       \/ WakeTransmitter

Serializer ==
    \/ WriteHeader \/ WriteHeaderFails
    \/ Wake \/ FlushWrite \/ FlushStore \/ FlushFails

\* the process has exited
Exited ==
    /\ spc = "dead"
    /\ UNCHANGED vars

\* the thread has made all its calls and the serializer sleeps
Finished ==
    /\ ppc = "idle" /\ \A n \in Sizes : written + n > MaxWords
    /\ spc = "sleep" /\ nwake = 0
    /\ UNCHANGED vars

Next == Producer \/ Serializer \/ Finished \/ Exited

Spec == Init /\ [][Next]_vars /\ WF_vars(Producer) /\ WF_vars(Serializer)

-----------------------------------------------------------------------------
(* Properties                                                              *)

TypeOK ==
    /\ items \in [Slots -> 0..MaxWords]
    /\ producer \in Slots /\ consumer \in Slots
    /\ ppc \in {"idle", "check", "spin", "copy", "publish", "milestones",
                "wake"}
    /\ ret \in {"idle", "spin"}
    /\ nitems \in Sizes \cup {0}
    /\ nwake \in Nat /\ ggen \in Nat /\ hdr \in 0..HdrLen
    /\ spc \in {"open", "sleep", "pass", "store", "dead"} /\ snap \in Slots
    /\ fault \in BOOLEAN /\ log2nthreads \in Log2NThreads

\* The ring behaves as the bounded FIFO of RingQueue: every commit of
\* put_multiple lands behind the unread words without overwriting any of
\* them, and every flush writes exactly the unread words, oldest first.
Abstract == INSTANCE RingQueue WITH
    Cap <- Capacity, q <- Unread, out <- out, sent <- written

RefinesRingQueue == Abstract!Spec

\* A producer that found its ring full and requested service is eventually
\* given room by the serializer: the wake from rvp_ring_await_nempty is
\* never lost, even when it waits for thread_mutex behind a pass.  (A
\* process that has exited waits for nothing.)
FullRingDrains == ppc = "spin" ~> (ppc = "copy" \/ spc = "dead")

\* However commits straddle the wrap of the ring, ggen advances at least
\* once per lap of the ring: the milestone ggen_threshold slots into each
\* lap is always passed by a commit that does not wrap, or by one of at
\* least ggen_threshold words (until the process traps).
GgenOncePerLap ==
    ppc /= "milestones" /\ ~fault =>
        LET first == IF GgenThreshold = 0 THEN 1 ELSE GgenThreshold
        IN  ggen >= (written + NSlots - first) \div NSlots

\* spec.md 8, S1 and S3: every word a thread commits reaches the trace
\* file.  Service is only requested when a commit crosses half the ring or
\* the ring is full, so nothing else moves the last words of a ring.
AllWordsWritten ==
    \A k \in 1..MaxWords : written >= k ~> (Len(out) >= k \/ spc = "dead")

\* For every n below the number of full slots (the assert of
\* rvp_ring_consumer_index_advanced_by), the index it returns is a slot of
\* the ring that holds the (n+1)-th unread word, whichever side of r_last
\* the consumer and the producer are on.
ConsumerIndexNamesUnread ==
    \A n \in 0..(NFull(producer, consumer) - 1) :
        /\ ConsumerIndexAdvancedBy(consumer, n) \in Slots
        /\ items[ConsumerIndexAdvancedBy(consumer, n)] = UnreadFrom(consumer)[n + 1]
=============================================================================
