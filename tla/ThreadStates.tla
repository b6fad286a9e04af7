----------------------------- MODULE ThreadStates -----------------------------
(***************************************************************************)
(* What the thread dispatcher promises, without its queues: one thread     *)
(* runs; a thread runs only after it was ready; the running thread leaves  *)
(* the CPU only to a ready thread, by yielding (it becomes ready),         *)
(* blocking or exiting; a blocked thread becomes ready only when woken;    *)
(* an exited thread never comes back. When the running thread blocks or    *)
(* exits and nothing is ready, the machine stops.                          *)
(***************************************************************************)
CONSTANTS Threads, Main

VARIABLES st, running, stopped

avars == <<st, running, stopped>>

Init ==
  /\ st = [t \in Threads |-> IF t = Main THEN "RUNNING" ELSE "NONE"]
  /\ running = Main
  /\ stopped = FALSE

Ready == {t \in Threads : st[t] = "READY"}

(* The running thread goes to state leave and the ready thread n runs.     *)
SwitchTo(n, leave) ==
  /\ n \in Ready
  /\ st' = [st EXCEPT ![running] = leave, ![n] = "RUNNING"]
  /\ running' = n
  /\ UNCHANGED stopped

Create(t) ==
  /\ st[t] = "NONE"
  /\ st' = [st EXCEPT ![t] = "READY"]
  /\ UNCHANGED <<running, stopped>>

(* A creation followed at once by a yield of the creator.                  *)
CreateAndYield(t) ==
  /\ st[t] = "NONE"
  /\ \E n \in Ready \cup {t} :
       /\ st' = [st EXCEPT ![t] = "READY", ![running] = "READY", ![n] = "RUNNING"]
       /\ running' = n
  /\ UNCHANGED stopped

Yield == \E n \in Ready : SwitchTo(n, "READY")

Block == \E n \in Ready : SwitchTo(n, "BLOCKED")

Exit == \E n \in Ready : SwitchTo(n, "DESTROYED")

Wake(b) ==
  /\ st[b] = "BLOCKED"
  /\ st' = [st EXCEPT ![b] = "READY"]
  /\ UNCHANGED <<running, stopped>>

Stop ==
  /\ Ready = {}
  /\ st' = [st EXCEPT ![running] = "BLOCKED"]
  /\ stopped' = TRUE
  /\ UNCHANGED running

Next ==
  /\ ~stopped
  /\ \/ \E t \in Threads : Create(t) \/ CreateAndYield(t) \/ Wake(t)
     \/ Yield \/ Block \/ Exit \/ Stop

Spec == Init /\ [][Next]_avars
=============================================================================
