------------------------------ MODULE SelfTest ------------------------------
(***************************************************************************)
(* Kernel::ThreadSelfTest (threads/kernel.cc), which runs                  *)
(* Thread::MyThreadTest (threads/thread.cc) for typeno 1..3: main forks    *)
(* thread 1, then yields while the ready list is not empty. Each thread    *)
(* runs SimpleThread(which): thread 1 forks thread 2, thread 2 forks       *)
(* thread 3, and each then loops, printing once per iteration with         *)
(* interrupts off. The timer may preempt it only between two iterations,  *)
(* when SetLevel turns interrupts back on. The harness is SyncTest.tla,    *)
(* which gives main's fork and loop; SelfChain[i] is the thread that runs  *)
(* SimpleThread(i).                                                        *)
(***************************************************************************)
EXTENDS SyncTest

CONSTANT SelfChain   \* <<thread 1, thread 2, thread 3>> of MyThreadTest

(* main() runs ThreadSelfTest instead of SyncTest; -1 is no SyncTest type. *)
SelfTestType == -1

ASSUME SelfChain \in Seq(Workers) /\ Len(SelfChain) = 3
ASSUME ForkOrder[SelfTestType] = <<SelfChain[1]>>

(* The which of SimpleThread(which) that thread t runs.                    *)
Which(t) == CHOOSE i \in 1..3 : SelfChain[i] = t

(* SimpleThread loops Rounds[t] times: 5 under typeno 1, 100 under RR,    *)
(* 500, 100 and 20 for threads 1, 2 and 3 under MLFQ (scaled in the MC).   *)

(* SimpleThread's first statement: threads 1 and 2 fork the next thread   *)
(* unless typeno is 0; thread 3 goes straight to its loop.                 *)
StartSelf(t) == IF typeno # 0 /\ Which(t) < 3 THEN "S1" ELSE "S2"

(* new Thread; [setPriority;] Fork((VoidFunctionPtr)SimpleThread, which+1) *)
(* by thread t: the child will run SimpleThread(which+1); under static     *)
(* priority a child that outranks t runs at once.                          *)
ForkNext(w, t) ==
  LET c == SelfChain[Which(t) + 1]
  IN  [Goto(w, t, "S2") EXCEPT !.k = Fork(NewThread(@, c, SetPriority[c]), c),
                               !.pc[c] = StartSelf(c)]

(* SimpleThread, one step per statement group: the fork, then one step per *)
(* iteration of its for loop (SetLevel(IntOff), cerr, SetLevel(oldLevel)), *)
(* whose end returns into Thread::Finish.                                  *)
SimpleThreadStep(w, t) ==
  CASE w.pc[t] = "S1" -> ForkNext(w, t)
    [] w.pc[t] = "S2" -> EndRound(w, t, "S2")

SimpleThreadRuns(t) ==
  /\ WorkerRuns(t)
  /\ pc[t] = "S1" => addAThread(kernel) # -1
  /\ CommitW(SimpleThreadStep(world, t))
=============================================================================
