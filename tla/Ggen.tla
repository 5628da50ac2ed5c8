-------------------------------- MODULE Ggen --------------------------------
(***************************************************************************)
(* The global generation clock of ring.h and the change-of-generation      *)
(* (COG) events that stamp each thread's accesses.                         *)
(*                                                                         *)
(* Each thread makes traced loads and stores.  A store reads rvp_ggen     *)
(* before the instrumented store (rvp_ggen_before_store), a load after it  *)
(* (rvp_ggen_after_load); rvp_buf_trace_cog then emits a COG into the      *)
(* event buffer when the value exceeds the ring's r_lgen.  The buffer,     *)
(* with the access event after it, is committed to the thread's ring;      *)
(* Ring.tla shows a ring delivers its words in order, so a thread's        *)
(* stream stands for its ring.  rvp_ggen is advanced by the milestones of  *)
(* every ring's put_multiple, here at any time.  The callers (the load     *)
(* and store instrumentation and buf.h) are not in this repository and    *)
(* follow spec.md 4.3.                                                     *)
(*                                                                         *)
(* at is the instant of the instrumented access itself: the real order of  *)
(* accesses that a reader of the trace tries to bound.                    *)
(***************************************************************************)
EXTENDS Integers, Sequences

CONSTANTS
    Threads,
    MaxGen,     \* bound on rvp_ggen
    MaxAcc      \* bound on the accesses of one thread

VARIABLES
    ggen,       \* rvp_ggen
    lgen,       \* r_lgen of each thread's ring
    pc,         \* where each thread is in its current access
    kind,       \* "LOAD" or "STORE"
    gread,      \* the ggen value the thread read
    at,         \* the instant of the thread's current access
    buf,        \* the event buffer being filled
    stream,     \* events committed to each thread's ring (history)
    clock,      \* instants handed out (history)
    nacc        \* accesses made by each thread

vars == <<ggen, lgen, pc, kind, gread, at, buf, stream, clock, nacc>>

Kinds == {"LOAD", "STORE"}

CogEvent(g) == [type |-> "COG", gen |-> g]
AccEvent(k, t) == [type |-> k, at |-> t]

\* mutant: a store reads ggen after the store, as a load does
StepsStoreLikeLoad(k) == <<"access", "read", "cog">>

\* which side of the instrumented access ggen is read on:
\* rvp_ggen_before_store for a store, rvp_ggen_after_load for a load
Steps(k) == IF k = "STORE" THEN <<"read", "cog", "access">>
                           ELSE <<"access", "read", "cog">>

\* the step after s in an access of kind k, "put" after the last
After(k, s) == LET i == CHOOSE j \in 1..3 : Steps(k)[j] = s
               IN  IF i = 3 THEN "put" ELSE Steps(k)[i + 1]

\* rvp_buf_trace_cog: a COG only when the value read exceeds r_lgen
TraceCog(t) ==
    IF lgen[t] < gread[t]
      THEN /\ lgen' = [lgen EXCEPT ![t] = gread[t]]
           /\ buf' = [buf EXCEPT ![t] = Append(@, CogEvent(gread[t]))]
      ELSE UNCHANGED <<lgen, buf>>

Init ==
    /\ ggen = 0
    /\ lgen = [t \in Threads |-> 0]        \* calloc'd ring
    /\ pc = [t \in Threads |-> "idle"]
    /\ kind = [t \in Threads |-> "LOAD"]
    /\ gread = [t \in Threads |-> 0]
    /\ at = [t \in Threads |-> 0]
    /\ buf = [t \in Threads |-> <<>>]
    /\ stream = [t \in Threads |-> <<>>]
    /\ clock = 0
    /\ nacc = [t \in Threads |-> 0]

-----------------------------------------------------------------------------

\* the instrumentation of a load or store begins
Begin(t, k) ==
    /\ pc[t] = "idle" /\ nacc[t] < MaxAcc
    /\ kind' = [kind EXCEPT ![t] = k]
    /\ pc' = [pc EXCEPT ![t] = Steps(k)[1]]
    /\ UNCHANGED <<ggen, lgen, gread, at, buf, stream, clock, nacc>>

\* the instrumented load or store itself
Access(t) ==
    /\ pc[t] = "access"
    /\ at' = [at EXCEPT ![t] = clock + 1]
    /\ clock' = clock + 1
    /\ pc' = [pc EXCEPT ![t] = After(kind[t], "access")]
    /\ UNCHANGED <<ggen, lgen, kind, gread, buf, stream, nacc>>

\* rvp_ggen_before_store or rvp_ggen_after_load: an acquire load of ggen
ReadGgen(t) ==
    /\ pc[t] = "read"
    /\ gread' = [gread EXCEPT ![t] = ggen]
    /\ pc' = [pc EXCEPT ![t] = After(kind[t], "read")]
    /\ UNCHANGED <<ggen, lgen, kind, at, buf, stream, clock, nacc>>

EmitCog(t) ==
    /\ pc[t] = "cog"
    /\ TraceCog(t)
    /\ pc' = [pc EXCEPT ![t] = After(kind[t], "cog")]
    /\ UNCHANGED <<ggen, kind, gread, at, stream, clock, nacc>>

\* the access event joins the buffer, which rvp_ring_put_buf commits
Put(t) ==
    /\ pc[t] = "put"
    /\ stream' = [stream EXCEPT ![t] =
                     @ \o Append(buf[t], AccEvent(kind[t], at[t]))]
    /\ buf' = [buf EXCEPT ![t] = <<>>]
    /\ nacc' = [nacc EXCEPT ![t] = @ + 1]
    /\ pc' = [pc EXCEPT ![t] = "idle"]
    /\ UNCHANGED <<ggen, lgen, kind, gread, at, clock>>

\* rvp_increase_ggen, from the ggen milestone of some ring's put_multiple
IncreaseGgen ==
    /\ ggen < MaxGen
    /\ ggen' = ggen + 1
    /\ UNCHANGED <<lgen, pc, kind, gread, at, buf, stream, clock, nacc>>

Done ==
    /\ \A t \in Threads : pc[t] = "idle" /\ nacc[t] = MaxAcc
    /\ UNCHANGED vars

Next ==
    \/ \E t \in Threads :
         \/ \E k \in Kinds : Begin(t, k)
         \/ Access(t) \/ ReadGgen(t) \/ EmitCog(t) \/ Put(t)
    \/ IncreaseGgen
    \/ Done

Spec == Init /\ [][Next]_vars

-----------------------------------------------------------------------------
(* The reader's view                                                       *)

\* the generation a reader gives event i of thread t: that of the last COG
\* before it in the thread's stream, or the ring's initial 0
Stamp(t, i) ==
    LET cogs == {j \in 1..(i - 1) : stream[t][j].type = "COG"}
    IN  IF cogs = {} THEN 0
        ELSE stream[t][CHOOSE j \in cogs : \A j2 \in cogs : j2 <= j].gen

\* the accesses in the streams, as <<thread, index>>
Accesses(k) == {<<t, i>> \in Threads \X (1..(2 * MaxAcc)) :
                   i <= Len(stream[t]) /\ stream[t][i].type = k}

Time(e) == stream[e[1]][e[2]].at

-----------------------------------------------------------------------------
(* Properties                                                              *)

\* A load stamped with an earlier generation than a store, in any two
\* threads, really happened before the store: the ggen read before every
\* store and after every load, and the COG emitted when it passes r_lgen,
\* keep the stamps on the right side of the accesses.
LoadBeforeStoreStamped ==
    \A l \in Accesses("LOAD"), s \in Accesses("STORE") :
        Stamp(l[1], l[2]) < Stamp(s[1], s[2]) => Time(l) < Time(s)
=============================================================================
