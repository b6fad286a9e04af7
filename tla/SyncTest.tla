------------------------------- MODULE SyncTest -------------------------------
(***************************************************************************)
(* What the synchronisation tests of threads/kernel.cc share: main forks   *)
(* the worker threads in order, then runs                                  *)
(*     while(!kernel->scheduler->isReadyListEmpty())                       *)
(*         kernel->currentThread->Yield();                                 *)
(* and returns, after which main() halts the machine. Each worker runs its *)
(* loop on the thread system of Thread.tla, using the semaphores and locks *)
(* of Synch.tla. Only the current thread executes, one statement group per *)
(* step; under RR the timer may preempt it between any two steps.          *)
(*                                                                         *)
(* A step ends at every semaphore or lock operation; the statements up to  *)
(* the next one go with it, since they touch only the test's own state,    *)
(* which the lock held protects. A test keeps that state in its own field *)
(* of the record "data".                                                   *)
(*                                                                         *)
(* Kernel::SyncTest(type) runs one test, chosen by its type: 0             *)
(* MyProducerConsumer1, 2 MyBarrier, 3 MyReaderWriter (1,                  *)
(* MyProducerConsumer2, needs SynchList, which is not in the source tree). *)
(***************************************************************************)
EXTENDS Synch

CONSTANTS
  Workers,    \* the threads the tests fork
  ForkOrder,  \* test type -> the threads that test forks, in order
  Rounds,     \* loop iterations of each worker
  SyncInit,   \* the tests' semaphores, locks and conditions, name -> initial value
  SetPriority \* the priority a test sets on each worker before its Fork (8,
              \* the constructor's, where the test calls no setPriority)

ASSUME Main \notin Workers
ASSUME \A ty \in DOMAIN ForkOrder : ForkOrder[ty] \in Seq(Workers)
ASSUME Rounds \in [Workers -> Nat \ {0}]
ASSUME SetPriority \in [Workers -> Nat]

SyncNames == DOMAIN SyncInit
NoLock == "none"

VARIABLES
  pc,           \* the statement each thread executes next
  done,         \* loop iterations each worker has completed
  forked,       \* how many threads of ForkOrder main has forked
  sync,         \* each primitive: [value, queue, holder]
  waking,       \* the lock whose Acquire a woken thread is still inside
  assertFailed, \* an ASSERT failed and aborted the machine
  data,         \* the tests' own globals
  testType      \* the type Kernel::SyncTest was called with

testVars == <<pc, done, forked, sync, waking, assertFailed, data, testType>>
allVars == <<vars, testVars>>

(* The whole state as one record, so that a step is a composition of      *)
(* operators on it.                                                        *)
world == [k |-> kernel, pc |-> pc, done |-> done, forked |-> forked,
          sync |-> sync, waking |-> waking, failed |-> assertFailed, d |-> data]

CommitW(w) ==
  /\ Commit(w.k)
  /\ pc' = w.pc /\ done' = w.done /\ forked' = w.forked /\ sync' = w.sync
  /\ waking' = w.waking /\ assertFailed' = w.failed /\ data' = w.d
  /\ UNCHANGED testType

Goto(w, t, l) == [w EXCEPT !.pc[t] = l]

(* Semaphore::P and V by t.                                                *)
PW(w, S) == LET r == P(w.k, w.sync[S]) IN [w EXCEPT !.k = r.k, !.sync[S] = r.s]
VW(w, S) == LET r == V(w.k, w.sync[S]) IN [w EXCEPT !.k = r.k, !.sync[S] = r.s]

(* Lock::Acquire by t.                                                     *)
AcquireW(w, t, L) ==
  LET r == Acquire(w.k, w.sync[L])
  IN  [w EXCEPT !.k = r.k, !.sync[L] = r.l,
                !.waking[t] = IF r.blocked THEN L ELSE NoLock]

(* Lock::Release: ASSERT(IsHeldByCurrentThread()), whose failure aborts    *)
(* the machine.                                                            *)
ReleaseW(w, L) ==
  IF ~IsHeldByCurrentThread(w.k, w.sync[L])
  THEN [w EXCEPT !.k.halted = TRUE, !.failed = TRUE]
  ELSE LET r == Release(w.k, w.sync[L])
       IN  [w EXCEPT !.k = r.k, !.sync[L] = r.l]

(* Fault variant of EndRound: the loop runs once more (<= for <).         *)
EndRoundOffByOne(w, t, first) ==
  IF w.failed THEN w
  ELSE IF w.done[t] + 1 <= Rounds[t]
  THEN Goto([w EXCEPT !.done[t] = @ + 1], t, first)
  ELSE [Goto([w EXCEPT !.done[t] = @ + 1], t, "exit") EXCEPT !.k = Finish(@)]

(* The end of a loop iteration: loop again at "first", or return from the  *)
(* thread's function, which ends in Thread::Finish.                        *)
EndRound(w, t, first) ==
  IF w.failed THEN w
  ELSE IF w.done[t] + 1 < Rounds[t]
  THEN Goto([w EXCEPT !.done[t] = @ + 1], t, first)
  ELSE [Goto([w EXCEPT !.done[t] = @ + 1], t, "exit") EXCEPT !.k = Finish(@)]
-----------------------------------------------------------------------------
(* The test function's setup is the initial state: main RUNNING, the      *)
(* workers not yet constructed, every primitive fresh. A thread no test of *)
(* this type forks is at "exit" from the start.                           *)
InitTest(ty, pc0, d0) ==
  /\ Init
  /\ testType = ty
  /\ pc = [t \in Threads |-> IF t = Main THEN "fork"
                             ELSE IF t \in ToSet(ForkOrder[ty]) THEN pc0[t] ELSE "exit"]
  /\ done = [t \in Workers |-> 0]
  /\ forked = 0
  /\ sync = [S \in SyncNames |-> [value |-> SyncInit[S], queue |-> <<>>, holder |-> NULL]]
  /\ waking = [t \in Threads |-> NoLock]
  /\ assertFailed = FALSE
  /\ data = d0

Running(t) == ~halted /\ currentThread = t

(* new Thread(name), [setPriority(p),] Fork(...) for the next thread of   *)
(* ForkOrder.                                                              *)
MainFork ==
  /\ Running(Main) /\ pc[Main] = "fork"
  /\ LET t  == ForkOrder[testType][forked + 1]
         k1 == Fork(NewThread(kernel, t, SetPriority[t]), t)
     IN  /\ addAThread(kernel) # -1
         /\ CommitW([world EXCEPT !.k = k1, !.forked = @ + 1,
                                  !.pc[Main] = IF forked + 1 = Len(ForkOrder[testType])
                                               THEN "loop" ELSE "fork"])

(* while(!isReadyListEmpty()) Yield(); then main() halts the machine.     *)
MainLoop ==
  /\ Running(Main) /\ pc[Main] = "loop"
  /\ IF isReadyListEmpty(kernel)
     THEN CommitW([world EXCEPT !.k.halted = TRUE, !.pc[Main] = "halt"])
     ELSE CommitW([world EXCEPT !.k = Yield(@)])

(* A thread woken by V finishes its Lock::Acquire: it becomes the holder. *)
Resume(t) ==
  /\ Running(t) /\ waking[t] # NoLock
  /\ CommitW([world EXCEPT !.sync[waking[t]].holder = t, !.waking[t] = NoLock])

(* The current worker t may execute its next statement group.            *)
WorkerRuns(t) == Running(t) /\ waking[t] = NoLock /\ pc[t] # "exit"

TickTest == Tick /\ UNCHANGED testVars

Stopped == halted /\ UNCHANGED allVars

TypeOKTest ==
  /\ TypeOK
  /\ done \in [Workers -> Nat]
  /\ \A t \in Workers : done[t] <= Rounds[t]
  /\ testType \in DOMAIN ForkOrder
  /\ forked \in 0..Len(ForkOrder[testType])
  /\ sync \in [SyncNames -> [value : Nat, queue : Seq(Threads),
                             holder : Threads \cup {NULL}]]
  /\ waking \in [Threads -> SyncNames \cup {NoLock}]
  /\ assertFailed \in BOOLEAN
=============================================================================
