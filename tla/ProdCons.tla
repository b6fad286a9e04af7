------------------------------- MODULE ProdCons -------------------------------
(***************************************************************************)
(* The producer/consumer test of threads/kernel.cc (MyProducerConsumer1,   *)
(* Produce, Consume) on the harness of SyncTest.tla: one producer writes   *)
(* its loop index i to produceArray[high++], consumers read                *)
(* produceArray[++low], with the counting semaphores isEmpty and isFull   *)
(* and the lock produceArrayLock. produceArray is not a ring: high and low *)
(* only grow. data.buf holds high, low, produceArray and, as an auxiliary  *)
(* history, the values the consumers have read, in order.                  *)
(***************************************************************************)
EXTENDS SyncTest

CONSTANTS
  Producers,          \* the PRODUCER_NUM producer threads
  Consumers,          \* the CONSUMER_NUM consumer threads
  MAX_PRODUCE_ARRAY_NUM,
  debugS              \* debug->IsEnabled('s'): the -d s flag is given

ASSUME debugS \in BOOLEAN
(* Kernel::SyncTest's type for MyProducerConsumer1.                       *)
PCType == 0

ASSUME ToSet(ForkOrder[PCType]) = Producers \cup Consumers /\ Producers \cap Consumers = {}
ASSUME /\ SyncInit["isFull"] = 0 /\ SyncInit["isEmpty"] = MAX_PRODUCE_ARRAY_NUM
       /\ SyncInit["produceArrayLock"] = 1

Index == 0..MAX_PRODUCE_ARRAY_NUM-1

high == data.buf.high
low == data.buf.low
produceArray == data.buf.arr
consumed == data.buf.consumed

(* produceArray[high++] = i: a store past the end of the array changes     *)
(* nothing the model tracks, but high still moves on.                      *)
Store(d, i) ==
  [d EXCEPT !.arr = IF d.high \in Index THEN [@ EXCEPT ![d.high] = i] ELSE @,
            !.high = @ + 1]

(* produceArray[++low]: the read, and the increment of low, are part of   *)
(* the cerr statement, which runs only when debug flag 's' is enabled.     *)
Load(d) ==
  IF debugS
  THEN [d EXCEPT !.low = @ + 1,
                 !.consumed = Append(@, IF d.low + 1 \in Index THEN d.arr[d.low + 1] ELSE -1)]
  ELSE d
-----------------------------------------------------------------------------
(* Fault variant of ProducerStep: isFull->V() moves before the store, up  *)
(* with produceArrayLock->Release().                                       *)
ProducerStepSignalEarly(w, t) ==
  CASE w.pc[t] = "P1" -> Goto(PW(w, "isEmpty"), t, "P2")
    [] w.pc[t] = "P2" -> Goto(AcquireW(w, t, "produceArrayLock"), t, "P3")
    [] w.pc[t] = "P3" ->
         Goto(VW(ReleaseW(w, "produceArrayLock"), "isFull"), t, "P4")
    [] w.pc[t] = "P4" ->
         EndRound([w EXCEPT !.d.buf = Store(@, w.done[t])], t, "P1")

(* Produce, one step per statement group of the loop body; i = done[t].   *)
ProducerStep(w, t) ==
  CASE w.pc[t] = "P1" -> Goto(PW(w, "isEmpty"), t, "P2")
    [] w.pc[t] = "P2" -> Goto(AcquireW(w, t, "produceArrayLock"), t, "P3")
    [] w.pc[t] = "P3" ->
         Goto(ReleaseW([w EXCEPT !.d.buf = Store(@, w.done[t])], "produceArrayLock"), t, "P4")
    [] w.pc[t] = "P4" -> EndRound(VW(w, "isFull"), t, "P1")

(* Fault variant of ConsumerStep: Consume does not wait on isFull.        *)
ConsumerStepNoWait(w, t) ==
  CASE w.pc[t] = "C1" -> Goto(w, t, "C2")
    [] w.pc[t] = "C2" -> Goto(AcquireW(w, t, "produceArrayLock"), t, "C3")
    [] w.pc[t] = "C3" ->
         Goto(ReleaseW([w EXCEPT !.d.buf = Load(@)], "produceArrayLock"), t, "C4")
    [] w.pc[t] = "C4" -> EndRound(VW(w, "isEmpty"), t, "C1")

(* Consume.                                                                *)
ConsumerStep(w, t) ==
  CASE w.pc[t] = "C1" -> Goto(PW(w, "isFull"), t, "C2")
    [] w.pc[t] = "C2" -> Goto(AcquireW(w, t, "produceArrayLock"), t, "C3")
    [] w.pc[t] = "C3" ->
         Goto(ReleaseW([w EXCEPT !.d.buf = Load(@)], "produceArrayLock"), t, "C4")
    [] w.pc[t] = "C4" -> EndRound(VW(w, "isEmpty"), t, "C1")
-----------------------------------------------------------------------------
(* MyProducerConsumer1: high = 0, low = -1, memset(produceArray, -1).     *)
StartPC(t) == IF t \in Producers THEN "P1" ELSE "C1"
DataPC == [buf |-> [high |-> 0, low |-> -1, arr |-> [i \in Index |-> -1],
                    consumed |-> <<>>]]

InitPC == InitTest(PCType, [t \in Threads |-> StartPC(t)], DataPC)

Produce(t) == WorkerRuns(t) /\ CommitW(ProducerStep(world, t))

Consume(t) == WorkerRuns(t) /\ CommitW(ConsumerStep(world, t))

StepPC ==
  \/ MainFork
  \/ MainLoop
  \/ \E t \in Threads : Resume(t)
  \/ \E t \in Producers : Produce(t)
  \/ \E t \in Consumers : Consume(t)

NextPC == StepPC \/ TickTest \/ Stopped

(* The running thread keeps executing its code, and the timer keeps       *)
(* firing.                                                                 *)
SpecPC == InitPC /\ [][NextPC]_allVars /\ WF_allVars(StepPC) /\ WF_allVars(TickTest)
-----------------------------------------------------------------------------
Produced == SumFunction([t \in Producers |-> Rounds[t]])

(* The threads of T that are past S->P() (at a label of L and not asleep  *)
(* on S's wait list) and have not yet done the matching V.                 *)
Holding(T, S, L) ==
  Cardinality({t \in T : pc[t] \in L /\ t \notin ToSet(sync[S].queue)})

(* Produce and Consume keep the semaphores in step with the buffer: isFull *)
(* is the number of items in produceArray (high-low-1) less those a        *)
(* producer stored but has not yet signalled and those a consumer has      *)
(* claimed but not yet read; isEmpty is the free room less the slots a     *)
(* producer has claimed and not yet filled and those a consumer has read   *)
(* and not yet given back. A V done before its store or after the wake-up *)
(* of a waiter, or a P that does not count, breaks it. low moves only      *)
(* under -d s (kernel.cc 297).                                             *)
SemaphoresCountBuffer ==
  testType = PCType /\ debugS /\ ~assertFailed =>
    LET items == high - low - 1
    IN  /\ sync["isFull"].value =
             items - Holding(Producers, "isFull", {"P4"})
                   - Holding(Consumers, "isFull", {"C2", "C3"})
        /\ sync["isEmpty"].value =
             MAX_PRODUCE_ARRAY_NUM - items - Holding(Producers, "isEmpty", {"P2", "P3"})
                                   - Holding(Consumers, "isEmpty", {"C4"})

(* isFull counts the items stored and not yet taken, and isEmpty the free *)
(* room: every consumer read (produceArray[++low]) returns the next item   *)
(* the producer stored, in order, never an unwritten -1 and never an item  *)
(* another consumer read already.                                          *)
ConsumedInOrder ==
  \A j \in 1..Len(consumed) : consumed[j] = j - 1

(* The test ends (main's loop finds nothing ready and main halts) only     *)
(* after every item has been consumed: the buffer is empty (high-low-1 =   *)
(* 0) and every thread ran its loop to the end (spec section 8, scenario  *)
(* 6).                                                                     *)
AllConsumedAtHalt ==
  halted /\ ~assertFailed /\ testType = PCType =>
    /\ Len(consumed) = Produced
    /\ high - low - 1 = 0
    /\ \A t \in Workers : pc[t] = "exit"
=============================================================================
