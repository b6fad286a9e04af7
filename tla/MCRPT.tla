-------------------------------- MODULE MCRPT --------------------------------
(* Model-checking instance of RPT: two threads of two pages each, sharing *)
(* two frames and a TLB of two slots.                                      *)
EXTENDS RPT

CONSTANTS t1, t2

MCTids == {t1, t2}

(* The threads' IDs are interchangeable: nothing compares or orders them. *)
MCSymmetry == Permutations(MCTids)
=============================================================================
