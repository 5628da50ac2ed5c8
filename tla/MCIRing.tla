------------------------------ MODULE MCIRing ------------------------------
(* The 8 slots of ir_items and enough records to fill and wrap them.       *)
EXTENDS IRing
=============================================================================
