------------------------------ MODULE MCGgen ------------------------------
EXTENDS Ggen, TLC

CONSTANTS t1, t2

MCThreads == {t1, t2}

\* the threads are interchangeable
ThreadSymmetry == Permutations(MCThreads)
=============================================================================
