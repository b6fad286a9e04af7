------------------------------ MODULE Scheduler ------------------------------
(***************************************************************************)
(* The dispatcher of threads/scheduler.cc and the thread-table helpers of  *)
(* threads/thread.cc, written as operators on a kernel state record k with *)
(* the fields                                                              *)
(*   status, priority, remainTime      per-thread fields of class Thread   *)
(*   readyList, sortedReadyList,       the ready structures of Scheduler   *)
(*   threadArrQueue                    (one used per policy)               *)
(*   currentThread, toBeDestroyed      kernel->currentThread, Scheduler    *)
(*   threadArray, tid                  kernel->threadArray, Thread::threadID*)
(* Every operator takes a record and returns the record after the call, so *)
(* that a handler calling several of them (Yield = FindNextToRun, then     *)
(* ReadyToRun, then Run) is their composition, taken as one atomic step:   *)
(* all of these run with interrupts disabled on a uniprocessor.            *)
(***************************************************************************)
EXTENDS Integers, Sequences, SequencesExt

CONSTANTS
  Threads,            \* thread control blocks, model values
  NULL,               \* the null Thread pointer
  typeno,             \* policy: 0 FIFO, 1 static priority, 2 RR, 3 MLFQ
  QueueNum,           \* MLFQ levels (scheduler.h: 5)
  timeSlice,          \* RR quantum (scheduler.h: 3)
  threadArrTimeSlice, \* MLFQ quantum of each level (scheduler.h: {3,4,5,6,7})
  MaxThreadNum        \* capacity of kernel->threadArray

ASSUME typeno \in 0..3
ASSUME QueueNum \in Nat \ {0} /\ timeSlice \in Nat \ {0}
ASSUME threadArrTimeSlice \in [0..QueueNum-1 -> Nat \ {0}]
ASSUME NULL \notin Threads

Levels == 0..QueueNum-1
Slots  == 0..MaxThreadNum-1

(* Fault variant of SortedInsert for mutation analysis: cmp reversed.      *)
SortedInsertDesc(s, t, prio) ==
  LET smaller == {i \in 1..Len(s) : prio[s[i]] < prio[t]}
  IN  InsertAt(s, IF smaller = {} THEN Len(s) + 1 ELSE Min(smaller), t)

(* cmp (scheduler.cc 32-37) compares priorities; SortedList::Insert puts   *)
(* the new thread before the first one that compares strictly greater, so  *)
(* equal priorities stay in FIFO order.                                    *)
SortedInsert(s, t, prio) ==
  LET greater == {i \in 1..Len(s) : prio[s[i]] > prio[t]}
  IN  InsertAt(s, IF greater = {} THEN Len(s) + 1 ELSE Min(greater), t)

(* Fault variant of ReadyToRun: Prepend instead of Append (LIFO).          *)
ReadyToRunPushFront(k, t) ==
  LET p  == IF typeno = 3 /\ k.priority[t] # QueueNum - 1
            THEN k.priority[t] + 1 ELSE k.priority[t]
      rt == CASE typeno = 2 -> timeSlice
              [] typeno = 3 -> threadArrTimeSlice[p]
              [] OTHER      -> k.remainTime[t]
  IN [k EXCEPT !.status[t]     = "READY",
               !.priority[t]   = p,
               !.remainTime[t] = rt,
               !.sortedReadyList = IF typeno = 1 THEN SortedInsert(@, t, k.priority) ELSE @,
               !.readyList       = IF typeno \in {0, 2} THEN <<t>> \o @ ELSE @,
               !.threadArrQueue  = IF typeno = 3 THEN [@ EXCEPT ![p] = <<t>> \o @] ELSE @]

(* Scheduler::ReadyToRun: status READY, then enqueue by policy. MLFQ       *)
(* demotes by one level on every call (capped at QueueNum-1) and reloads  *)
(* the quantum of the new level; RR reloads timeSlice.                     *)
ReadyToRun(k, t) ==
  LET p  == IF typeno = 3 /\ k.priority[t] # QueueNum - 1
            THEN k.priority[t] + 1 ELSE k.priority[t]
      rt == CASE typeno = 2 -> timeSlice
              [] typeno = 3 -> threadArrTimeSlice[p]
              [] OTHER      -> k.remainTime[t]
  IN [k EXCEPT !.status[t]     = "READY",
               !.priority[t]   = p,
               !.remainTime[t] = rt,
               !.sortedReadyList = IF typeno = 1 THEN SortedInsert(@, t, k.priority) ELSE @,
               !.readyList       = IF typeno \in {0, 2} THEN Append(@, t) ELSE @,
               !.threadArrQueue  = IF typeno = 3 THEN [@ EXCEPT ![p] = Append(@, t)] ELSE @]

(* The MLFQ levels that hold a thread; FindNextToRun scans from level 0.   *)
NonEmptyLevels(k) == {i \in Levels : k.threadArrQueue[i] # <<>>}

(* Scheduler::FindNextToRun: remove and return the head of the policy's   *)
(* structure, or NULL. Result: [next |-> thread or NULL, k |-> new state]. *)
FindNextToRun(k) ==
  CASE typeno \in {0, 2} /\ k.readyList # <<>> ->
         [next |-> Head(k.readyList), k |-> [k EXCEPT !.readyList = Tail(@)]]
    [] typeno = 1 /\ k.sortedReadyList # <<>> ->
         [next |-> Head(k.sortedReadyList), k |-> [k EXCEPT !.sortedReadyList = Tail(@)]]
    [] typeno = 3 /\ NonEmptyLevels(k) # {} ->
         LET i == Min(NonEmptyLevels(k))
         IN  [next |-> Head(k.threadArrQueue[i]),
              k |-> [k EXCEPT !.threadArrQueue[i] = Tail(@)]]
    [] OTHER -> [next |-> NULL, k |-> k]

(* Scheduler::getReadyListFront: the thread FindNextToRun would return.    *)
getReadyListFront(k) == FindNextToRun(k).next

(* Scheduler::isReadyListEmpty.                                            *)
isReadyListEmpty(k) == getReadyListFront(k) = NULL

(* Thread::addAThread: the lowest free slot of kernel->threadArray, or -1. *)
addAThread(k) ==
  LET free == {i \in Slots : k.threadArray[i] = NULL}
  IN  IF free = {} THEN -1 ELSE Min(free)

(* Fault variant of DeleteThread: removeAThread is not called.            *)
DeleteThreadKeepSlot(k, t) == [k EXCEPT !.status[t] = "DESTROYED"]

(* Thread::~Thread: free the thread-table slot (removeAThread); the stack  *)
(* and address space are storage and are not modelled.                     *)
DeleteThread(k, t) ==
  [k EXCEPT !.status[t] = "DESTROYED", !.threadArray[k.tid[t]] = NULL]

(* Scheduler::CheckToBeDestroyed.                                          *)
CheckToBeDestroyed(k) ==
  IF k.toBeDestroyed # NULL
  THEN [DeleteThread(k, k.toBeDestroyed) EXCEPT !.toBeDestroyed = NULL]
  ELSE k

(* Fault variant of Run: marks the incoming thread for destruction.        *)
RunMarkNext(k, next, finishing) ==
  CheckToBeDestroyed(
    [k EXCEPT !.toBeDestroyed  = IF finishing THEN next ELSE @,
              !.currentThread  = next,
              !.status[next]   = "RUNNING"])

(* Scheduler::Run: mark the old thread for destruction when finishing,     *)
(* make next current and RUNNING, SWITCH. The thread switched to resumes   *)
(* either after SWITCH in its own Run or, if new, in Thread::Begin; both   *)
(* call CheckToBeDestroyed before anything else, with interrupts still off.*)
Run(k, next, finishing) ==
  LET old == k.currentThread
  IN  CheckToBeDestroyed(
        [k EXCEPT !.toBeDestroyed  = IF finishing THEN old ELSE @,
                  !.currentThread  = next,
                  !.status[next]   = "RUNNING"])
=============================================================================
