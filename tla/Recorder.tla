------------------------------ MODULE Recorder ------------------------------
(***************************************************************************)
(* The recorder of src/llvm/ngrt: application threads that emit their     *)
(* lifecycle events (BEGIN, FORK, JOIN) into their own event ring, the     *)
(* thread registry of thread.c (thread_head, next_id, thread_mutex), and   *)
(* the serializer thread that drains every registered ring into           *)
(* ./rvpredict.trace with thread-switch markers between threads.          *)
(*                                                                         *)
(* A ring is seen through its RingQueue abstraction (Ring.tla shows the   *)
(* slot arithmetic of ring.h implements it): ring[t] is the sequence of    *)
(* its unread words.  Every event is put one word at a time, as           *)
(* trace.c does through rvp_ring_put and rvp_ring_put_addr; each put      *)
(* checks for room, requests service and spins when there is none, and    *)
(* checks the half-full milestone after the commit.                       *)
(*                                                                         *)
(* Every thread_lock()..thread_unlock() section of an application thread  *)
(* is one action; the serializer holds thread_mutex from the return of    *)
(* pthread_cond_wait until it waits again, so those actions are enabled   *)
(* only while it sleeps.                                                  *)
(***************************************************************************)
EXTENDS Integers, Sequences, FiniteSetsExt

CONSTANTS
    Threads,     \* addresses of rvp_thread_t records (model values)
    Main,        \* the record rvp_thread0_create makes for the main thread
    Handles,     \* pthread_t values pthread_create may hand out
    MainHandle,  \* pthread_self() of the main thread
    NoHandle,    \* t_pthread of a record calloc'd but not yet started
    NoThread,    \* NULL
    NSlots,      \* words per ring page (capacity + 1)
    PtrWords,    \* sizeof(uintptr_t) / sizeof(uint32_t)
    IdBits,      \* width of next_id (32 in the code)
    MaxCreates,  \* bound on __rvpredict_pthread_create calls
    Creators,    \* the threads whose code calls pthread_create and pthread_join
    PcFar        \* whether a FORK/JOIN pc may be out of the deltop jump range

ASSUME Main \in Threads /\ MainHandle \notin Handles /\ Creators \subseteq Threads
ASSUME NSlots \in Nat /\ 2 * PtrWords + 1 <= NSlots - 1
ASSUME IdBits \in Nat \ {0} /\ MaxCreates \in Nat /\ PcFar \subseteq BOOLEAN

VARIABLES
    live,        \* records allocated by rvp_thread_create and not freed
    tid,         \* t_id
    handle,      \* t_pthread
    ring,        \* unread words of each record's ring
    threadList,  \* the thread_head list, head first
    nextId,      \* next_id
    nwake,       \* nwake
    spc,         \* serializer: "init" before rvp_serializer_create has started
                 \* it, "sleep" in pthread_cond_wait, or "pass"
    cursor,      \* serializer's t, as a position in threadList
    lastT,       \* serializer's last_t
    anyEmptied,  \* serializer's any_emptied
    trace,       \* the trace file's last write, after the item before it
    rtid,        \* the thread a reader attributes trace[1] to
    tpc,         \* control point of the OS thread started on each record
    pend,        \* words of the thread's current event not yet put
    ppc,         \* control point inside the ring put of each thread
    wret,        \* where the put resumes after a service request
    arg,         \* the record a thread is creating or joining
    jh,          \* the handle a thread is joining
    kids,        \* handles a thread created and has not joined
    ncreated,    \* create calls so far (bounds the model)
    aborted,     \* the process exited through err(3) or errx(3)
    lost         \* words freed with their ring before being flushed

vars == <<live, tid, handle, ring, threadList, nextId, nwake, spc, cursor,
          lastT, anyEmptied, trace, rtid, tpc, pend, ppc, wret, arg, jh, kids,
          ncreated, aborted, lost>>

thr == <<tpc, pend, ppc, wret, arg, jh, kids>>
reg == <<live, tid, handle, threadList, nextId, ncreated>>
ser == <<spc, cursor, lastT, anyEmptied, trace, rtid>>

-----------------------------------------------------------------------------
(* Words and events (trace.c)                                              *)

\* a word of an event of the thread with id t; part is its place in the event
Word(t, op, part, len) == [tid |-> t, op |-> op, part |-> part, len |-> len]

EventWords(t, op, len) == [i \in 1..len |-> Word(t, op, i, len)]

\* rvp_ring_put_begin: BEGIN deltop, the id, the anchoring pc
BeginEvent(t) == EventWords(t, "BEGIN", 2 * PtrWords + 1)

\* rvp_ring_put_pc_and_op, then rvp_ring_put of the operand: a pc out of the
\* deltop table's jump range is first put as a literal pointer
PcOpEvent(t, op, far) ==
    EventWords(t, op, (IF far THEN 2 * PtrWords ELSE PtrWords) + 1)

\* the threadswitch_t of rvp_thread_flush_to_fd
Switch(t) == [tid |-> t, op |-> "SWITCH", part |-> 0, len |-> 0]

-----------------------------------------------------------------------------
(* Ring and registry helpers                                               *)

Capacity == NSlots - 1

\* nslots / 2 and the half-full test after a commit of one word
ServiceThreshold == NSlots \div 2
PassesServiceMilestone(nf) == (nf - 1) \div ServiceThreshold < nf \div ServiceThreshold

\* the registry lock is free: the serializer is not yet started or waits on
\* wakecond
MutexFree == spc \in {"init", "sleep"}

\* ++next_id in a uint32_t-like counter of IdBits bits
IdAfter(n) == (n + 1) % (2 ^ IdBits)

\* mutant: rvp_thread_attach without its test for a wrapped next_id
OutOfIdsUnchecked(n) == FALSE

\* (t->t_id = ++next_id) == 0: out of thread IDs
OutOfIds(n) == IdAfter(n) = 0

\* mutant: the room test of the put admits a word into a full ring
HasRoomOffByOne(r) == Len(ring[r]) <= Capacity

\* nempty >= 1: the ring has room for the word
HasRoom(r) == Len(ring[r]) < Capacity

\* mutant: a marker only before the first ring flushed in a pass
NeedsSwitchFirstOnly(t, last) == last = NoThread

\* the trace_switch argument of rvp_thread_flush_to_fd
NeedsSwitch(t, last) == t /= last

\* handles of OS threads started and not yet joined
HandlesInUse == {handle[x] : x \in {y \in Threads : tpc[y] \in
                    {"begin", "run", "fork", "spawn", "lookup", "join",
                     "destroy", "exited"}}}

\* the first record on thread_head's list whose t_pthread is h
FirstWithHandle(h) ==
    LET idx == {i \in DOMAIN threadList : handle[threadList[i]] = h}
    IN  IF idx = {} THEN NoThread ELSE threadList[Min(idx)]

\* splice record t out of the list
Without(l, t) == SelectSeq(l, LAMBDA x : x /= t)

\* the thread a reader of the file attributes trace[i] to: the one named by
\* the last switch marker before it (the file opens with thread 1's BEGIN)
ReaderTid(i) ==
    LET sw == {j \in 1..(i - 1) : trace[j].op = "SWITCH"}
    IN  IF sw = {} THEN rtid ELSE trace[Max(sw)].tid

Init ==
    \* rvp_init in rvp_thread0_create: the main thread's record is attached
    \* with id 1 and t_pthread = pthread_self(), and it is about to put BEGIN;
    \* the trace file holds the header only
    /\ live = [x \in Threads |-> x = Main]
    /\ tid = [x \in Threads |-> IF x = Main THEN 1 ELSE 0]
    /\ handle = [x \in Threads |-> IF x = Main THEN MainHandle ELSE NoHandle]
    /\ ring = [x \in Threads |-> <<>>]
    /\ threadList = <<Main>>
    /\ nextId = 1
    /\ nwake = 0
    /\ spc = "init" /\ cursor = 1 /\ lastT = NoThread /\ anyEmptied = FALSE
    /\ trace = <<>> /\ rtid = 1
    /\ tpc = [x \in Threads |-> IF x = Main THEN "begin" ELSE "none"]
    /\ pend = [x \in Threads |-> IF x = Main THEN BeginEvent(1) ELSE <<>>]
    /\ ppc = [x \in Threads |-> "idle"]
    /\ wret = [x \in Threads |-> "idle"]
    /\ arg = [x \in Threads |-> NoThread]
    /\ jh = [x \in Threads |-> NoHandle]
    /\ kids = [x \in Threads |-> {}]
    /\ ncreated = 0 /\ aborted = FALSE /\ lost = 0

-----------------------------------------------------------------------------
(* rvp_ring_put of one word by the thread running on record r             *)

\* commit the word (release store of r_producer), then the half-full
\* milestone with nfull read after the commit; Ring.tla has the read of
\* r_consumer as a step of its own
CommitWord(r) ==
    /\ ring' = [ring EXCEPT ![r] = Append(@, Head(pend[r]))]
    /\ pend' = [pend EXCEPT ![r] = Tail(@)]
    /\ IF PassesServiceMilestone(Len(ring[r]) + 1)
         THEN ppc' = [ppc EXCEPT ![r] = "wake"] /\ wret' = [wret EXCEPT ![r] = "idle"]
         ELSE ppc' = [ppc EXCEPT ![r] = "idle"] /\ UNCHANGED wret

\* the capacity test of the put: commit, or request service and spin
PutWord(r) ==
    /\ ppc[r] = "idle" /\ pend[r] /= <<>>
    /\ IF HasRoom(r)
         THEN CommitWord(r)
         ELSE /\ ppc' = [ppc EXCEPT ![r] = "wake"]
              /\ wret' = [wret EXCEPT ![r] = "spin"]
              /\ UNCHANGED <<ring, pend>>
    /\ UNCHANGED <<reg, nwake, ser, tpc, arg, jh, kids, aborted, lost>>

\* rvp_ring_wait_for_nempty returns once the serializer made room
Spin(r) ==
    /\ ppc[r] = "spin"
    /\ HasRoom(r)
    /\ CommitWord(r)
    /\ UNCHANGED <<reg, nwake, ser, tpc, arg, jh, kids, aborted, lost>>

\* mutant: rvp_wake_transmitter signals wakecond without nwake++
WakeTransmitterLost(r) ==
    /\ ppc[r] = "wake"
    /\ MutexFree
    /\ nwake' = nwake
    /\ ppc' = [ppc EXCEPT ![r] = wret[r]]
    /\ UNCHANGED <<reg, ring, ser, tpc, pend, wret, arg, jh, kids, aborted,
                   lost>>

\* rvp_ring_request_service at idepth 0 is rvp_wake_transmitter
WakeTransmitter(r) ==
    /\ ppc[r] = "wake"
    /\ MutexFree
    /\ nwake' = nwake + 1
    /\ ppc' = [ppc EXCEPT ![r] = wret[r]]
    /\ UNCHANGED <<reg, ring, ser, tpc, pend, wret, arg, jh, kids, aborted,
                   lost>>
-----------------------------------------------------------------------------
(* Thread lifecycle (thread.c)                                             *)

\* the event the thread was putting is complete: go on after it
EventDone(r) ==
    /\ spc /= "init"
    /\ tpc[r] \in {"begin", "fork", "join"}
    /\ pend[r] = <<>> /\ ppc[r] = "idle"
    /\ tpc' = [tpc EXCEPT ![r] = IF @ = "join" THEN "destroy" ELSE "run"]
    /\ UNCHANGED <<reg, ring, nwake, ser, pend, ppc, wret, arg, jh, kids,
                   aborted, lost>>

\* __rvpredict_pthread_create, first part: rvp_thread_create callocs a
\* record c and rvp_thread_attach numbers it and pushes it on the list
CreateAttach(r, c) ==
    /\ r \in Creators
    /\ tpc[r] = "run" /\ pend[r] = <<>>
    /\ ncreated < MaxCreates
    /\ ~live[c] /\ tpc[c] \in {"none", "reaped"}
    /\ MutexFree
    /\ ncreated' = ncreated + 1
    /\ nextId' = IdAfter(nextId)
    /\ IF OutOfIds(nextId)
         THEN /\ aborted' = TRUE            \* errx: out of thread IDs
              /\ UNCHANGED <<live, tid, handle, ring, threadList, tpc, arg>>
         ELSE /\ live' = [live EXCEPT ![c] = TRUE]
              /\ tid' = [tid EXCEPT ![c] = IdAfter(nextId)]
              /\ handle' = [handle EXCEPT ![c] = NoHandle]
              /\ ring' = [ring EXCEPT ![c] = <<>>]
              /\ threadList' = <<c>> \o threadList
              /\ arg' = [arg EXCEPT ![r] = c]
              /\ tpc' = [tpc EXCEPT ![r] = "spawn", ![c] = "none"]
              /\ UNCHANGED aborted
    /\ UNCHANGED <<nwake, ser, pend, ppc, wret, jh, kids, lost>>

\* rvp_thread_create cannot calloc the ring or the record: nothing is
\* attached and __rvpredict_pthread_create returns ENOMEM
CreateNoMem(r) ==
    /\ r \in Creators
    /\ tpc[r] = "run" /\ pend[r] = <<>>
    /\ ncreated < MaxCreates
    /\ ncreated' = ncreated + 1
    /\ UNCHANGED <<live, tid, handle, threadList, nextId, ring, nwake, ser, thr,
                   aborted, lost>>

\* pthread_create succeeds with a handle no unjoined thread holds; the child
\* runs __rvpredict_thread_wrapper and puts BEGIN, the parent puts FORK
Spawn(r) ==
    /\ tpc[r] = "spawn"
    /\ \E h \in Handles \ HandlesInUse, far \in PcFar :
         LET c == arg[r] IN
         /\ handle' = [handle EXCEPT ![c] = h]
         /\ kids' = [kids EXCEPT ![r] = @ \cup {h}]
         /\ tpc' = [tpc EXCEPT ![c] = "begin", ![r] = "fork"]
         /\ pend' = [pend EXCEPT ![c] = BeginEvent(tid[c]),
                                 ![r] = PcOpEvent(tid[r], "FORK", far)]
    /\ UNCHANGED <<live, tid, ring, threadList, nextId, ncreated, nwake, ser,
                   ppc, wret, arg, jh, aborted, lost>>

\* mutant: the failed create frees the record without detaching it
SpawnFailsNoDetach(r) ==
    /\ tpc[r] = "spawn"
    /\ MutexFree
    /\ LET c == arg[r] IN
       /\ live' = [live EXCEPT ![c] = FALSE]
       /\ lost' = lost + Len(ring[c])
    /\ tpc' = [tpc EXCEPT ![r] = "run"]
    /\ UNCHANGED <<tid, handle, ring, threadList, nextId, ncreated, nwake, ser,
                   pend, ppc, wret, arg, jh, kids, aborted>>

\* pthread_create fails: rvp_thread_destroy detaches and frees the record
SpawnFails(r) ==
    /\ tpc[r] = "spawn"
    /\ MutexFree
    /\ LET c == arg[r] IN
       /\ threadList' = Without(threadList, c)
       /\ live' = [live EXCEPT ![c] = FALSE]
       /\ lost' = lost + Len(ring[c])
    /\ tpc' = [tpc EXCEPT ![r] = "run"]
    /\ UNCHANGED <<tid, handle, ring, nextId, ncreated, nwake, ser, pend, ppc,
                   wret, arg, jh, kids, aborted>>

\* __rvpredict_pthread_exit: pthread_exit(3) ends the thread, so the
\* rvp_trace_end() after it never runs
Exit(r) ==
    /\ r /= Main
    /\ tpc[r] = "run" /\ pend[r] = <<>>
    /\ tpc' = [tpc EXCEPT ![r] = "exited"]
    /\ UNCHANGED <<reg, ring, nwake, ser, pend, ppc, wret, arg, jh, kids,
                   aborted, lost>>

\* __rvpredict_pthread_join: pthread_join(3) returns once the thread with
\* handle h has exited, and h may be handed out again from then on
JoinWait(r, h) ==
    /\ tpc[r] = "run" /\ pend[r] = <<>>
    /\ h \in kids[r]
    /\ \E x \in Threads :
         /\ handle[x] = h /\ tpc[x] = "exited"
         /\ tpc' = [tpc EXCEPT ![x] = "reaped", ![r] = "lookup"]
    /\ kids' = [kids EXCEPT ![r] = @ \ {h}]
    /\ jh' = [jh EXCEPT ![r] = h]
    /\ UNCHANGED <<reg, ring, nwake, ser, pend, ppc, wret, arg, aborted, lost>>

\* rvp_pthread_to_thread under the lock, then the JOIN event of its t_id
Lookup(r) ==
    /\ tpc[r] = "lookup"
    /\ MutexFree
    /\ \E far \in PcFar :
         LET t == FirstWithHandle(jh[r]) IN
         IF t = NoThread
           THEN /\ aborted' = TRUE          \* err: ESRCH
                /\ UNCHANGED <<tpc, pend, arg>>
           ELSE /\ arg' = [arg EXCEPT ![r] = t]
                /\ pend' = [pend EXCEPT ![r] = PcOpEvent(tid[r], "JOIN", far)]
                /\ tpc' = [tpc EXCEPT ![r] = "join"]
                /\ UNCHANGED aborted
    /\ UNCHANGED <<reg, ring, nwake, ser, ppc, wret, jh, kids, lost>>

\* rvp_thread_destroy: rvp_thread_detach under the lock, then free the
\* ring and the record, whatever is still unread in the ring
Destroy(r) ==
    /\ tpc[r] = "destroy"
    /\ MutexFree
    /\ LET t == arg[r] IN
       IF \E i \in DOMAIN threadList : threadList[i] = t
         THEN /\ threadList' = Without(threadList, t)
              /\ live' = [live EXCEPT ![t] = FALSE]
              /\ lost' = lost + Len(ring[t])
              /\ tpc' = [tpc EXCEPT ![r] = "run"]
              /\ UNCHANGED aborted
         ELSE /\ aborted' = TRUE            \* err: ENOENT
              /\ UNCHANGED <<threadList, live, lost, tpc>>
    /\ UNCHANGED <<tid, handle, ring, nextId, ncreated, nwake, ser, pend, ppc,
                   wret, arg, jh, kids>>

-----------------------------------------------------------------------------
(* The serializer thread: rvp_serializer_create, then serialize()          *)

\* rvp_serializer_create, once thread 0 has put BEGIN: the trace opened, the
\* main thread flushes its own ring with no switch marker, so BEGIN of id 1
\* directly follows the header, and then starts the serializer thread
SerializerCreate ==
    /\ spc = "init"
    /\ tpc[Main] = "begin" /\ pend[Main] = <<>> /\ ppc[Main] = "idle"
    /\ trace' = ring[Main]
    /\ ring' = [ring EXCEPT ![Main] = <<>>]
    /\ spc' = "sleep"
    /\ tpc' = [tpc EXCEPT ![Main] = "run"]
    /\ UNCHANGED <<reg, nwake, cursor, lastT, anyEmptied, rtid, pend, ppc, wret,
                   arg, jh, kids, aborted, lost>>

\* rvp_trace_open fails, or pthread_create of the serializer does: err(3)
SerializerCreateFails ==
    /\ spc = "init"
    /\ tpc[Main] = "begin" /\ pend[Main] = <<>> /\ ppc[Main] = "idle"
    /\ aborted' = TRUE
    /\ UNCHANGED <<reg, ring, nwake, ser, thr, lost>>

\* pthread_cond_wait returns with nwake > 0; nwake--; a pass begins
SerWake ==
    /\ spc = "sleep" /\ nwake > 0
    /\ nwake' = nwake - 1
    /\ spc' = "pass" /\ cursor' = 1 /\ lastT' = NoThread
    /\ anyEmptied' = FALSE
    /\ UNCHANGED <<reg, ring, trace, rtid, thr, aborted, lost>>

\* rvp_thread_flush_to_fd of the ring at the cursor, with a switch marker
\* when the ring is not the one last flushed in this pass
SerFlush ==
    /\ spc = "pass" /\ cursor <= Len(threadList)
    /\ LET t == threadList[cursor] IN
       IF ring[t] = <<>>
         THEN UNCHANGED <<ring, trace, rtid, lastT, anyEmptied>>
         ELSE /\ trace' = <<trace[Len(trace)]>>
                         \o (IF NeedsSwitch(t, lastT) THEN <<Switch(tid[t])>> ELSE <<>>)
                         \o ring[t]
              /\ rtid' = ReaderTid(Len(trace))
              /\ ring' = [ring EXCEPT ![t] = <<>>]
              /\ lastT' = t
              /\ anyEmptied' = TRUE
    /\ cursor' = cursor + 1
    /\ UNCHANGED <<reg, nwake, spc, thr, aborted, lost>>

\* end of the list: another pass if any ring was emptied, else wait again
SerEndPass ==
    /\ spc = "pass" /\ cursor > Len(threadList)
    /\ IF anyEmptied
         THEN cursor' = 1 /\ lastT' = NoThread /\ anyEmptied' = FALSE
              /\ UNCHANGED spc
         ELSE spc' = "sleep" /\ UNCHANGED <<cursor, lastT, anyEmptied>>
    /\ UNCHANGED <<reg, ring, nwake, trace, rtid, thr, aborted, lost>>

-----------------------------------------------------------------------------

Put(r) == PutWord(r) \/ Spin(r) \/ WakeTransmitter(r)

Serializer == SerWake \/ SerFlush \/ SerEndPass

Startup == SerializerCreate \/ SerializerCreateFails

Thread(r) ==
    \/ Put(r) \/ EventDone(r)
    \/ \E c \in Threads : CreateAttach(r, c)
    \/ CreateNoMem(r)
    \/ Spawn(r) \/ SpawnFails(r) \/ Exit(r)
    \/ \E h \in Handles : JoinWait(r, h)
    \/ Lookup(r) \/ Destroy(r)

\* every thread is in its own code or gone, and the serializer sleeps: the
\* program may stop here; after err(3) the process is gone
Quiescent ==
    \/ aborted
    \/ /\ \A x \in Threads : tpc[x] \in {"none", "run", "exited", "reaped"}
                              /\ pend[x] = <<>> /\ ppc[x] = "idle"
       /\ spc = "sleep" /\ nwake = 0

Next ==
    \/ ~aborted /\ (Startup \/ Serializer \/ \E r \in Threads : Thread(r))
    \/ Quiescent /\ UNCHANGED vars

\* threads and the serializer are OS threads: the ring put machinery, the
\* rest of rvp_init and the serializer make progress; what the program does
\* next does not have to
Spec ==
    /\ Init /\ [][Next]_vars
    /\ \A r \in Threads : WF_vars(~aborted /\ (Put(r) \/ EventDone(r)))
    /\ WF_vars(~aborted /\ Serializer)
    /\ WF_vars(~aborted /\ Startup)

-----------------------------------------------------------------------------
(* Properties                                                              *)

TypeOK ==
    /\ live \in [Threads -> BOOLEAN]
    /\ tid \in [Threads -> 0..(2 ^ IdBits - 1)]
    /\ handle \in [Threads -> Handles \cup {MainHandle, NoHandle}]
    /\ \A x \in Threads : Len(ring[x]) <= Capacity
    /\ nextId \in 0..(2 ^ IdBits - 1)
    /\ spc \in {"init", "sleep", "pass"} /\ nwake \in Nat
    /\ ppc \in [Threads -> {"idle", "wake", "spin"}]
    /\ lastT \in Threads \cup {NoThread}

\* The trace can be demultiplexed: every word in the file belongs to the
\* thread named by the switch marker before it.  The serializer's last_t
\* bookkeeping across the rings of a pass, and across passes, must put a
\* marker wherever the contributing ring changes.
DemuxByMarkers ==
    \A i \in DOMAIN trace :
        trace[i].op /= "SWITCH" => trace[i].tid = ReaderTid(i)

\* spec.md 4.2 and 8.2: the serializer never sees part of an event, so no
\* switch marker can fall between two words of one event.
EventsUnbroken ==
    \A i \in 2..Len(trace) :
        trace[i].op /= "SWITCH" /\ trace[i].part > 1 =>
            trace[i - 1].op = trace[i].op /\ trace[i - 1].tid = trace[i].tid

\* Thread ids of the records in use are distinct and never 0, also once
\* next_id has gone round its width: rvp_thread_attach must refuse id 0.
TidsUnique ==
    /\ \A x \in Threads : live[x] => tid[x] /= 0
    /\ \A x, y \in Threads : live[x] /\ live[y] /\ x /= y => tid[x] /= tid[y]

\* The serializer's walk of thread_head only meets allocated records: a
\* record is taken off the list under thread_mutex before it is freed,
\* on the pthread_create failure path of __rvpredict_pthread_create as on
\* join, so no pass flushes a freed ring or follows a freed t_next.
ListedRecordsLive == \A i \in DOMAIN threadList : live[threadList[i]]

\* No committed word is lost: a ring is freed only when all it held has
\* reached the trace file (spec.md 8, S2 and S3).
NoLostWords == lost = 0

\* __rvpredict_pthread_join destroys only the record of the thread it has
\* joined: no record is freed while the OS thread started on it is alive.
FreedOnlyWhenReaped ==
    \A x \in Threads : ~live[x] => tpc[x] \in {"none", "reaped"}

\* A thread that found its ring full and requested service gets its word
\* in: the wake is not lost although rvp_wake_transmitter may have to wait
\* for the serializer's pass to release thread_mutex.
FullRingDrains ==
    \A r \in Threads : ppc[r] = "spin" ~> (ppc[r] /= "spin" \/ aborted)

=============================================================================
