----------------------------- MODULE MCRecorder -----------------------------
(* Three thread records (the main thread's and two for children), rings   *)
(* of four slots (capacity 3, so one BEGIN fills a ring), 32-bit pointers, *)
(* thread ids of two bits so that next_id wraps after three creates.      *)
EXTENDS Recorder, TLC

CONSTANTS m, a, b, c, h1, h2, h3, hm, nohandle, nothread

MCThreads3 == {m, a, b}
MCThreads4 == {m, a, b, c}
MCHandles2 == {h1, h2}
MCHandles3 == {h1, h2, h3}
MCThreads2 == {m, a}
MCHandles1 == {h1}
Symmetry3 == Permutations({a, b}) \cup Permutations(MCHandles2)
SymmetryBC == Permutations({b, c})

\* Behaviours in which the serializer never gets to run.  The race in
\* __rvpredict_pthread_join needs no serializer step, so a violation found
\* among them is a behaviour of the full model.
SerializerStalled == spc /= "pass"
=============================================================================
