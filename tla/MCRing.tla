------------------------------- MODULE MCRing -------------------------------
(* A ring of 8 slots (capacity 7) written by one thread in batches of 1 or *)
(* 3 words for two and a half laps; a header of 3 write(2) units.        *)
EXTENDS Ring

MCNSlots == 8
MCSizes == {1, 3}
MCMaxWords == 20
MCHdrLen == 3
=============================================================================
