--------------------------- MODULE TestTermination ---------------------------
(***************************************************************************)
(* What the wait loop of the kernel's test programs promises, as a         *)
(* termination-detection problem: the test's threads are started (by main  *)
(* or by one another), run and finish; the detector is main, whose         *)
(* while(!isReadyListEmpty()) Yield() loop ends the test. Detection must   *)
(* come only once no thread is still running its code, and no thread is  *)
(* started after it.                                                       *)
(***************************************************************************)
CONSTANT Nodes   \* the test's threads

VARIABLES
  active,     \* the thread has been started and has not yet returned
  detected    \* the test has ended

vars == <<active, detected>>

terminated == \A n \in Nodes : ~active[n]

Init ==
  /\ active = [n \in Nodes |-> FALSE]
  /\ detected = FALSE

(* A thread is started, before the test has ended.                         *)
Activate(n) ==
  /\ ~detected /\ ~active[n]
  /\ active' = [active EXCEPT ![n] = TRUE]
  /\ UNCHANGED detected

(* A thread returns from its function.                                     *)
Terminate(n) ==
  /\ active[n]
  /\ active' = [active EXCEPT ![n] = FALSE]
  /\ UNCHANGED detected

(* The detector sees that no thread runs and ends the test.                *)
Detect ==
  /\ ~detected /\ terminated
  /\ detected' = TRUE
  /\ UNCHANGED active

Next == (\E n \in Nodes : Activate(n) \/ Terminate(n)) \/ Detect

Spec == Init /\ [][Next]_vars
=============================================================================
