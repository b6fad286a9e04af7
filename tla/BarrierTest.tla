----------------------------- MODULE BarrierTest -----------------------------
(***************************************************************************)
(* The barrier test of threads/kernel.cc (MyBarrier, testBarrier) on the   *)
(* harness of SyncTest.tla: each of the TEST_THREAD_NUM threads acquires  *)
(* barrierMutex, prints its "before" line, calls                          *)
(* barrier->Barrier(barrierMutex), prints its "after" line and releases   *)
(* barrierMutex. The condition "barrier" and the lock "barrierMutex" are   *)
(* entries of sync; the condition's value is the barrier's counter.       *)
(***************************************************************************)
EXTENDS SyncTest

CONSTANTS
  BarrierThreads,   \* the TEST_THREAD_NUM test threads
  BarrierN          \* the arrival at which Condition::Barrier broadcasts

(* Kernel::SyncTest's type for MyBarrier.                                  *)
BarrierType == 2

ASSUME ToSet(ForkOrder[BarrierType]) = BarrierThreads
ASSUME SyncInit["barrier"] = 0 /\ SyncInit["barrierMutex"] = 1
ASSUME BarrierN \in Nat \ {0}

(* barrier->Barrier(barrierMutex) by t: the last arrival goes on to print  *)
(* its "after" line; every other one sleeps in the condition's Wait and    *)
(* reacquires barrierMutex when it runs again.                             *)
BarrierW(w, t) ==
  LET r == Barrier(w.k, w.sync["barrier"], w.sync["barrierMutex"], BarrierN)
  IN  Goto([w EXCEPT !.k = r.k, !.sync["barrier"] = r.c, !.sync["barrierMutex"] = r.l],
           t, IF r.waits THEN "B3" ELSE "B4")

(* Fault variant of testBarrierStep: the woken thread does not reacquire   *)
(* barrierMutex before it goes on.                                         *)
testBarrierStepNoReacquire(w, t) ==
  CASE w.pc[t] = "B1" -> Goto(AcquireW(w, t, "barrierMutex"), t, "B2")
    [] w.pc[t] = "B2" -> BarrierW(w, t)
    [] w.pc[t] = "B3" -> Goto(w, t, "B4")
    [] w.pc[t] = "B4" -> EndRound(ReleaseW(w, "barrierMutex"), t, "B1")

(* testBarrier, one step per statement group. B3 is the rest of the        *)
(* condition's Wait: reacquiring barrierMutex after the wake-up.           *)
testBarrierStep(w, t) ==
  CASE w.pc[t] = "B1" -> Goto(AcquireW(w, t, "barrierMutex"), t, "B2")
    [] w.pc[t] = "B2" -> BarrierW(w, t)
    [] w.pc[t] = "B3" -> Goto(AcquireW(w, t, "barrierMutex"), t, "B4")
    [] w.pc[t] = "B4" -> EndRound(ReleaseW(w, "barrierMutex"), t, "B1")

StartBarrier(t) == "B1"

Arrive(t) == WorkerRuns(t) /\ CommitW(testBarrierStep(world, t))
-----------------------------------------------------------------------------
(* A test thread has not yet called Barrier, or has printed its "after"    *)
(* line (B4 without a pending Acquire, or done).                           *)
BeforeBarrier(t) == pc[t] \in {"B1", "B2"}
PastBarrier(t) == (pc[t] = "B4" /\ waking[t] = NoLock) \/ pc[t] = "exit"

(* testBarrier's "after" lines all come after every "before" line: while   *)
(* some test thread has not reached the barrier, none is past it. The     *)
(* Barrier's count, Broadcast's wake-ups and the Mesa reacquire of         *)
(* barrierMutex under timer preemption all bear on it.                     *)
BarrierSafe ==
  testType = BarrierType =>
    \A t, u \in BarrierThreads : PastBarrier(t) => ~BeforeBarrier(u)

(* barrierMutex guards both print statements: at most one test thread is  *)
(* between its Acquire (or the reacquire in Wait) and its Release.         *)
InMutex(t) == pc[t] \in {"B2", "B4"} /\ waking[t] = NoLock

BarrierMutexExclusion ==
  testType = BarrierType =>
    \A t, u \in BarrierThreads : InMutex(t) /\ InMutex(u) => t = u
=============================================================================
