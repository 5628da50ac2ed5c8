----------------------------- MODULE RingQueue -----------------------------
(***************************************************************************)
(* What a ring promises (spec.md 4.3, 4.4, 5): a bounded FIFO.  The     *)
(* producer commits a batch of entries at once when the batch fits; the    *)
(* consumer drains everything committed so far, or only the oldest entry.  *)
(* Entries are numbered 1, 2, ... in commit order, so "the output followed *)
(* by the queue is 1..sent" says that nothing is lost, duplicated or       *)
(* reordered.  Event rings (Ring) and interruption rings (IRing) refine it. *)
(***************************************************************************)
EXTENDS Naturals, Sequences

CONSTANTS
    Cap,        \* ring capacity in words (slots minus the one kept empty)
    Sizes,      \* sizes of the batches a producer commits
    MaxWords    \* bound on the words committed in one behaviour

VARIABLES
    q,          \* committed words not yet drained
    out,        \* words drained to the trace, in trace order
    sent        \* number of words committed so far

vars == <<q, out, sent>>

Batch(n) == [i \in 1..n |-> sent + i]

Init ==
    /\ q = <<>>
    /\ out = <<>>
    /\ sent = 0

Commit(n) ==
    /\ Len(q) + n <= Cap
    /\ sent + n <= MaxWords
    /\ q' = q \o Batch(n)
    /\ sent' = sent + n
    /\ UNCHANGED out

Drain ==
    /\ q /= <<>>
    /\ out' = out \o q
    /\ q' = <<>>
    /\ UNCHANGED sent

\* the consumer takes the oldest word alone
DrainHead ==
    /\ q /= <<>>
    /\ out' = Append(out, Head(q))
    /\ q' = Tail(q)
    /\ UNCHANGED sent

Next == (\E n \in Sizes : Commit(n)) \/ Drain \/ DrainHead

Spec == Init /\ [][Next]_vars

\* Everything committed is, in commit order, either in the trace or queued.
NoLossNoReorder == out \o q = [i \in 1..sent |-> i]
=============================================================================
