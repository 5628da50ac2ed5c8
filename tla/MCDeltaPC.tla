------------------------------ MODULE MCDeltaPC ------------------------------
(* A deltops table of 4 jumps (-2..1) by 2 ops at the top of the address    *)
(* space, and code addresses below it.                                      *)
EXTENDS DeltaPC

\* 32-bit build scaled down: pointers and int of 5 bits
ILP32Pcs == 0..23
\* 64-bit build scaled down: pointers of 6 bits, int of 4 bits
LP64Pcs == 0..55
=============================================================================
