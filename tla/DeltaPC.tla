------------------------------ MODULE DeltaPC ------------------------------
(***************************************************************************)
(* The delta-PC encoding of src/llvm/ngrt/trace.c: one thread's stream of  *)
(* events as rvp_ring_put_begin and rvp_ring_put_pc_and_op write it, and   *)
(* the reader's replay of that stream (spec.md 3 and 4.1; the reader is    *)
(* not in this repository).                                                *)
(*                                                                         *)
(* Addresses are PtrBits wide.  The deltops table sits at TableBase and   *)
(* holds NJmps rows of NOps deltops; a word is a deltop exactly when it    *)
(* points into the table.  A jump is computed as a pointer difference and  *)
(* stored in an int of IntBits bits, as "int jmpvec = pc - r->r_lastpc"   *)
(* does.  Each stream word is one pointer or one 32-bit operand; how a    *)
(* pointer is split into 32-bit words does not matter here.               *)
(***************************************************************************)
EXTENDS Integers, Sequences

CONSTANTS
    PtrBits,    \* width of a pointer and of ptrdiff_t
    IntBits,    \* width of int
    NJmps,      \* RVP_NJMPS
    NOps,       \* RVP_NOPS; op 0 is RVP_OP_BEGIN
    TableBase,  \* &deltops.matrix[0][0]
    Pcs,        \* return addresses events may be traced from
    Tid,        \* the id BEGIN carries
    MaxEvents   \* bound on the events of the stream

ASSUME NJmps % 2 = 0 /\ NOps >= 2
ASSUME TableBase + NJmps * NOps <= 2 ^ PtrBits
\* code addresses never point into the deltops table
ASSUME \A pc \in Pcs : pc < TableBase \/ pc >= TableBase + NJmps * NOps

BeginOp == 0
Null == -1

VARIABLES
    lastpc,     \* r_lastpc
    stream,     \* words put in the ring, in order
    pcs         \* pc of each event put so far (history)

vars == <<lastpc, stream, pcs>>

\* a two's-complement value x reduced to a signed integer of the given width
Trunc(x, bits) ==
    LET m == x % (2 ^ bits)
    IN  IF m >= 2 ^ (bits - 1) THEN m - 2 ^ bits ELSE m

\* int jmpvec = pc - r->r_lastpc: a ptrdiff_t narrowed to an int
JmpVec(pc, lp) == Trunc(Trunc(pc - lp, PtrBits), IntBits)

\* mutant: only the lower end of the table is checked
VecAndOpToDeltopNoUpperBound(jmpvec, op) ==
    LET d == TableBase + (NJmps \div 2 + jmpvec) * NOps + op
    IN  IF d < TableBase THEN Null ELSE d

\* rvp_vec_and_op_to_deltop: &matrix[NJMPS/2 + jmpvec][op], or NULL when
\* that lies outside the table
VecAndOpToDeltop(jmpvec, op) ==
    LET d == TableBase + (NJmps \div 2 + jmpvec) * NOps + op
    IN  IF d < TableBase \/ TableBase + NJmps * NOps - 1 < d THEN Null ELSE d

\* rvp_ring_put_begin, at the start of the thread
Init ==
    \E pc \in Pcs :
        /\ lastpc = pc
        /\ stream = <<VecAndOpToDeltop(0, BeginOp), Tid, pc>>
        /\ pcs = <<pc>>

\* mutant: a far pc is put after its zero-jump deltop instead of before it
PutPcAndOpSwapped(pc, op) ==
    /\ Len(pcs) < MaxEvents
    /\ LET d == VecAndOpToDeltop(JmpVec(pc, lastpc), op)
       IN  stream' = stream \o IF d = Null
                               THEN <<VecAndOpToDeltop(0, op), pc>>
                               ELSE <<d>>
    /\ lastpc' = pc
    /\ pcs' = Append(pcs, pc)

\* rvp_ring_put_pc_and_op: a deltop carrying the jump from the last pc, or
\* the literal pc followed by a deltop with a zero jump
PutPcAndOp(pc, op) ==
    /\ Len(pcs) < MaxEvents
    /\ LET d == VecAndOpToDeltop(JmpVec(pc, lastpc), op)
       IN  stream' = stream \o IF d = Null
                               THEN <<pc, VecAndOpToDeltop(0, op)>>
                               ELSE <<d>>
    /\ lastpc' = pc
    /\ pcs' = Append(pcs, pc)

Next == \E pc \in Pcs, op \in 1..(NOps - 1) : PutPcAndOp(pc, op)

\* the stream has reached its bound
Done == Len(pcs) = MaxEvents /\ UNCHANGED vars

Spec == Init /\ [][Next \/ Done]_vars

-----------------------------------------------------------------------------
(* The reader (spec.md 4.1)                                                *)

InTable(w) == w >= TableBase /\ w < TableBase + NJmps * NOps

\* replay the words from position i on, with lp the last pc seen: a deltop
\* moves the pc by its jump, BEGIN is followed by the id and the pc, and a
\* word outside the table is a literal pc before a zero-jump deltop
RECURSIVE Replay(_, _, _)
Replay(s, i, lp) ==
    IF i > Len(s) THEN <<>>
    ELSE IF ~InTable(s[i]) THEN <<s[i]>> \o Replay(s, i + 2, s[i])
    ELSE IF (s[i] - TableBase) % NOps = BeginOp
         THEN <<s[i + 2]>> \o Replay(s, i + 3, s[i + 2])
    ELSE LET pc == (lp + (s[i] - TableBase) \div NOps - NJmps \div 2)
                     % (2 ^ PtrBits)
         IN  <<pc>> \o Replay(s, i + 1, pc)

-----------------------------------------------------------------------------
(* Properties                                                              *)

TypeOK ==
    /\ lastpc \in Pcs
    /\ stream \in Seq(0..(2 ^ PtrBits - 1))
    /\ Len(pcs) <= MaxEvents

\* spec.md 8.4: replaying the stream gives back, event by event, the pc
\* each event was put with, whatever the jumps between them.
PcsRecovered == Replay(stream, 1, 0) = pcs
=============================================================================
