------------------------------- MODULE MCMMU -------------------------------
(* Model-checking instance of MMU: three pages sharing two frames, a TLB   *)
(* of two slots.                                                           *)
EXTENDS MMU

(* Every page has a frame: page 2 shares frame 0 with page 0.              *)
MCInitPPNShared == [v \in 0..2 |-> v % 2]
(* Only page 0 has a frame; pages 1 and 2 are paged in by PageFault.       *)
MCInitPPNFault == [v \in 0..2 |-> IF v = 0 THEN 0 ELSE -1]
=============================================================================
