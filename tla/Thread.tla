-------------------------------- MODULE Thread --------------------------------
(***************************************************************************)
(* Thread lifecycle of threads/thread.cc (Thread::Thread, Fork, Yield,     *)
(* Sleep, Finish, ~Thread) driving the dispatcher of Scheduler.tla, under  *)
(* one of the four policies chosen by typeno.                              *)
(*                                                                         *)
(* The running thread is the only actor: at every point it may create and  *)
(* fork a thread, yield, block, wake a blocked thread (what Semaphore::V   *)
(* and Condition::Signal do with ReadyToRun), or finish; for RR and MLFQ   *)
(* the timer interrupt may also fire. Each handler is one atomic step: the *)
(* code runs it with interrupts off on a single CPU.                       *)
(***************************************************************************)
EXTENDS Scheduler, FiniteSets

CONSTANTS
  Main,            \* the thread Kernel::Initialize creates for main()
  ForkPriorities   \* priorities a creator may setPriority before Fork

ASSUME Main \in Threads

VARIABLES
  status,          \* Thread::status, plus "NONE" (not yet constructed)
                   \* and "DESTROYED" (deleted by CheckToBeDestroyed)
  priority,        \* Thread::priority (static priority, or MLFQ level)
  remainTime,      \* Thread::timeSliceRemain
  readyList,       \* Scheduler::readyList        (FIFO, RR)
  sortedReadyList, \* Scheduler::sortedReadyList  (static priority)
  threadArrQueue,  \* Scheduler::threadArrQueue   (MLFQ)
  currentThread,   \* kernel->currentThread
  toBeDestroyed,   \* Scheduler::toBeDestroyed
  threadArray,     \* kernel->threadArray
  tid,             \* Thread::threadID
  halted           \* Interrupt::Idle found nothing to run: the machine halted

vars == <<status, priority, remainTime, readyList, sortedReadyList,
          threadArrQueue, currentThread, toBeDestroyed, threadArray, tid, halted>>

Status == {"NONE", "JUST_CREATED", "READY", "RUNNING", "BLOCKED", "DESTROYED"}
MaxSlice == Max({timeSlice} \cup Range(threadArrTimeSlice))

(* The kernel's state as the record the Scheduler operators work on.       *)
kernel == [status |-> status, priority |-> priority, remainTime |-> remainTime,
           readyList |-> readyList, sortedReadyList |-> sortedReadyList,
           threadArrQueue |-> threadArrQueue, currentThread |-> currentThread,
           toBeDestroyed |-> toBeDestroyed, threadArray |-> threadArray,
           tid |-> tid, halted |-> halted]

Commit(n) ==
  LET m == n IN
  /\ status' = m.status           /\ priority' = m.priority
  /\ remainTime' = m.remainTime   /\ readyList' = m.readyList
  /\ sortedReadyList' = m.sortedReadyList
  /\ threadArrQueue' = m.threadArrQueue
  /\ currentThread' = m.currentThread
  /\ toBeDestroyed' = m.toBeDestroyed
  /\ threadArray' = m.threadArray /\ tid' = m.tid /\ halted' = m.halted

-----------------------------------------------------------------------------
(* Thread::Thread with the callers' setPriority before Fork: take the      *)
(* lowest free thread-table slot; static priority starts at 8 (then p),    *)
(* MLFQ at -1 so that the first ReadyToRun enters level 0.                 *)
NewThread(k, t, p) ==
  LET id == addAThread(k)
  IN  [k EXCEPT !.tid[t] = id, !.threadArray[id] = t,
                !.status[t] = "JUST_CREATED",
                !.priority[t] = CASE typeno = 1 -> p [] typeno = 3 -> -1 [] OTHER -> @,
                !.remainTime[t] = IF typeno = 1 THEN timeSlice ELSE @]

(* Fault variant of Yield for mutation analysis: ready the caller even     *)
(* when there is no thread to switch to.                                   *)
YieldReadyAlways(k) ==
  LET f == FindNextToRun(k)
  IN  IF f.next = NULL THEN ReadyToRun(k, k.currentThread)
      ELSE Run(ReadyToRun(f.k, k.currentThread), f.next, FALSE)

(* Fault variant of Yield: switch without readying the caller.             *)
YieldDropCaller(k) ==
  LET f == FindNextToRun(k)
  IN  IF f.next = NULL THEN k ELSE Run(f.k, f.next, FALSE)

(* Thread::Yield: take the next thread first; only if there is one, ready  *)
(* the caller and switch to it.                                            *)
Yield(k) ==
  LET f == FindNextToRun(k)
  IN  IF f.next = NULL THEN k
      ELSE Run(ReadyToRun(f.k, k.currentThread), f.next, FALSE)

(* Fault variant of Fork: no preemption check.                            *)
ForkNoPreempt(k, t) == ReadyToRun(k, t)

(* Thread::Fork: ReadyToRun the new thread; under static priority the      *)
(* creator yields at once if the ready front outranks it.                  *)
Fork(k, t) ==
  LET k1 == ReadyToRun(k, t)
  IN  IF typeno = 1
         /\ k1.priority[getReadyListFront(k1)] < k1.priority[k1.currentThread]
      THEN Yield(k1) ELSE k1

(* Scheduler::blockAThread, whose body is not in the source tree: the      *)
(* caller becomes BLOCKED (spec section 3).                                *)
blockAThread(k, t) == [k EXCEPT !.status[t] = "BLOCKED"]

(* Thread::Sleep: block the caller, then switch to the next thread; with   *)
(* none, Interrupt::Idle has no interrupt that could ready one (the only   *)
(* wakers are threads) and halts the machine.                              *)
Sleep(k, finishing) ==
  LET k1 == blockAThread(k, k.currentThread)
      f  == FindNextToRun(k1)
  IN  IF f.next = NULL THEN [k1 EXCEPT !.halted = TRUE]
      ELSE Run(f.k, f.next, finishing)

(* Thread::Finish.                                                         *)
Finish(k) == Sleep(k, TRUE)

(* Fault variant of TimerTick: the quantum is decremented below zero.      *)
TimerTickNoFloor(k) ==
  LET c  == k.currentThread
      k1 == [k EXCEPT !.remainTime[c] = @ - 1]
  IN  IF k1.remainTime[c] <= 0 THEN Yield(k1) ELSE k1

(* The timer interrupt of RR and MLFQ (Alarm, not in the source tree;      *)
(* spec section 4.5): spend one unit of the running thread's quantum and   *)
(* yield when it is used up.                                               *)
TimerTick(k) ==
  LET c  == k.currentThread
      r  == IF k.remainTime[c] > 0 THEN k.remainTime[c] - 1 ELSE 0
      k1 == [k EXCEPT !.remainTime[c] = r]
  IN  IF r = 0 THEN Yield(k1) ELSE k1

-----------------------------------------------------------------------------
(* Kernel::Initialize runs new Thread("main"), whose timeSliceRemain is    *)
(* only initialised under static priority; under RR and MLFQ it holds      *)
(* whatever the heap held, here any small value.                           *)
MainRemainTime == IF typeno \in {2, 3} THEN 0..timeSlice ELSE {timeSlice}

(* Kernel::Initialize: main is thread 0 and RUNNING without ReadyToRun.    *)
Init ==
  /\ status = [t \in Threads |-> IF t = Main THEN "RUNNING" ELSE "NONE"]
  /\ priority = [t \in Threads |->
                   IF t = Main THEN (CASE typeno = 1 -> 8 [] typeno = 3 -> -1 [] OTHER -> 0)
                   ELSE 0]
  /\ \E r \in MainRemainTime :
        remainTime = [t \in Threads |-> IF t = Main THEN r ELSE 0]
  /\ readyList = <<>> /\ sortedReadyList = <<>>
  /\ threadArrQueue = [i \in Levels |-> <<>>]
  /\ currentThread = Main
  /\ toBeDestroyed = NULL
  /\ threadArray = [i \in Slots |-> IF i = 0 THEN Main ELSE NULL]
  /\ tid = [t \in Threads |-> IF t = Main THEN 0 ELSE -1]
  /\ halted = FALSE

(* new Thread(name); [setPriority(p);] Fork(...) by the running thread.    *)
(* Each identity is constructed once, so the number of threads is bounded. *)
ForkThread(t, p) ==
  /\ ~halted
  /\ status[t] = "NONE"
  /\ addAThread(kernel) # -1
  /\ Commit(Fork(NewThread(kernel, t, p), t))

YieldThread == ~halted /\ Commit(Yield(kernel))

SleepThread == ~halted /\ Commit(Sleep(kernel, FALSE))

FinishThread == ~halted /\ Commit(Finish(kernel))

(* A V or Signal by the running thread readies a blocked thread.           *)
WakeThread(b) ==
  /\ ~halted
  /\ status[b] = "BLOCKED"
  /\ Commit(ReadyToRun(kernel, b))

Tick == ~halted /\ typeno \in {2, 3} /\ Commit(TimerTick(kernel))

(* The machine has halted; nothing happens any more.                       *)
Halted == halted /\ UNCHANGED vars

Next ==
  \/ \E t \in Threads, p \in ForkPriorities : ForkThread(t, p)
  \/ YieldThread
  \/ SleepThread
  \/ FinishThread
  \/ \E b \in Threads : WakeThread(b)
  \/ Tick
  \/ Halted

(* Only the timer is guaranteed to keep happening: the periodic interrupt  *)
(* fires whatever the running thread does.                                 *)
Spec == Init /\ [][Next]_vars /\ WF_vars(Tick)

-----------------------------------------------------------------------------
TypeOK ==
  /\ status \in [Threads -> Status]
  /\ priority \in [Threads -> -1..8]
  /\ remainTime \in [Threads -> 0..MaxSlice]
  /\ readyList \in Seq(Threads) /\ sortedReadyList \in Seq(Threads)
  /\ threadArrQueue \in [Levels -> Seq(Threads)]
  /\ currentThread \in Threads
  /\ toBeDestroyed \in Threads \cup {NULL}
  /\ threadArray \in [Slots -> Threads \cup {NULL}]
  /\ tid \in [Threads -> -1..MaxThreadNum-1]
  /\ halted \in BOOLEAN

(* The sequences of the ready structure the policy uses.                   *)
ReadyQueues ==
  CASE typeno \in {0, 2} -> <<readyList>>
    [] typeno = 1        -> <<sortedReadyList>>
    [] OTHER             -> [i \in 1..QueueNum |-> threadArrQueue[i-1]]

Occurrences(t) ==
  SumFunction([i \in DOMAIN ReadyQueues |-> Len(SelectSeq(ReadyQueues[i], LAMBDA x : x = t))])

(* Across every Fork, Yield, Sleep, Finish, wake-up and timer preemption   *)
(* (scheduler.cc, thread.cc): a thread is in the ready structure exactly   *)
(* once when READY and not at all otherwise; until the machine halts the   *)
(* current thread is the one RUNNING thread; an MLFQ queue holds only      *)
(* threads of its level, and the static-priority list stays sorted.        *)
ReadyConsistent ==
  /\ \A t \in Threads : Occurrences(t) = IF status[t] = "READY" THEN 1 ELSE 0
  /\ ~halted => /\ status[currentThread] = "RUNNING"
                /\ \A t \in Threads \ {currentThread} : status[t] # "RUNNING"
  /\ typeno = 3 => \A i \in Levels : \A j \in 1..Len(threadArrQueue[i]) :
                     priority[threadArrQueue[i][j]] = i
  /\ typeno = 1 => \A i, j \in 1..Len(sortedReadyList) :
                     i < j => priority[sortedReadyList[i]] <= priority[sortedReadyList[j]]

(* Thread::Thread takes a kernel->threadArray slot (addAThread) and        *)
(* ~Thread frees it (removeAThread), but a finishing thread is deleted      *)
(* only later, by the next thread's CheckToBeDestroyed: the table holds     *)
(* every constructed thread not yet deleted, each in the slot of its       *)
(* threadID, and no other pointer, so a freed slot is reused safely.       *)
ThreadTableConsistent ==
  /\ \A t \in Threads : status[t] \notin {"NONE", "DESTROYED"} <=>
                         tid[t] # -1 /\ threadArray[tid[t]] = t
  /\ \A i \in Slots : threadArray[i] # NULL =>
                     status[threadArray[i]] \notin {"NONE", "DESTROYED"}

(* The ready threads, as the ready structures hold them.                   *)
ReadySet == UNION {ToSet(ReadyQueues[i]) : i \in DOMAIN ReadyQueues}

(* thread.cc 193-198: "Relinquish the CPU if any other thread is ready to  *)
(* run ... returns immediately if no other thread on the ready queue": a   *)
(* Yield with a thread ready hands the CPU to another thread and leaves    *)
(* the caller ready; under MLFQ and static priority the caller re-enters   *)
(* the ready structure where it could be picked before the others.         *)
YieldRelinquishes ==
  [][YieldThread /\ ReadySet # {} =>
       /\ currentThread' # currentThread
       /\ currentThread \in ReadySet']_vars

(* Under static priority, when Fork returns to the thread that called it   *)
(* (thread.cc 113-116; spec section 8, scenario 4) no ready thread has a   *)
(* better (smaller) priority than the thread then running.                 *)
NoReadyOutranksRunning ==
  \A r \in ReadySet : priority[currentThread] <= priority[r]

ForkPreempts ==
  [][(\E t \in Threads, p \in ForkPriorities : ForkThread(t, p)) =>
       NoReadyOutranksRunning']_vars

(* Under RR and MLFQ, with the timer interrupt firing, every ready thread  *)
(* eventually runs, whatever the running threads do: MLFQ demotes on every *)
(* ReadyToRun, so the threads that keep returning sink to the last level   *)
(* and queue behind the waiting one.                                       *)
NoStarvation == \A t \in Threads : status[t] = "READY" ~> status[t] = "RUNNING"

(* Refinement: the dispatcher implements ThreadStates, a thread being      *)
(* ready there exactly when some ready structure holds it.                 *)
AbsStatus ==
  [t \in Threads |-> IF t \in ReadySet THEN "READY"
                     ELSE IF status[t] = "READY" THEN "LOST" ELSE status[t]]

Abs == INSTANCE ThreadStates WITH st <- AbsStatus, running <- currentThread,
                                   stopped <- halted

(* Every step of the kernel is a step of ThreadStates (or leaves it        *)
(* unchanged).                                                             *)
RefinesThreadStates == Abs!Spec
=============================================================================
