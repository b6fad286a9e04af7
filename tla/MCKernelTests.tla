---------------------------- MODULE MCKernelTests ----------------------------
(* Model-checking instance of KernelTests: the three tests of kernel.cc at *)
(* the sizes of MCProdCons, two readers and one writer, MyBarrier with     *)
(* three threads and a barrier of three (TEST_THREAD_NUM scaled from 5),   *)
(* and ThreadSelfTest's three threads with two iterations each.            *)
EXTENDS KernelTests

CONSTANTS r1, r2, w1, p1, c1, c2, b1, b2, b3, s1, s2, s3

MCReaders == {r1, r2}
MCWriters == {w1}
MCProducers == {p1}
MCConsumers == {c1, c2}
MCBarrierThreads == {b1, b2, b3}
MCSelfChain == <<s1, s2, s3>>
MCWorkers == MCReaders \cup MCWriters \cup MCProducers \cup MCConsumers \cup MCBarrierThreads
             \cup ToSet(MCSelfChain)
MCForkOrder == (PCType :> <<p1, c1, c2>>) @@ (BarrierType :> <<b1, b2, b3>>)
                 @@ (RWType :> <<r1, r2, w1>>) @@ (SelfTestType :> <<s1>>)
MCRounds == [t \in MCWorkers |->
               CASE t \in MCProducers -> 4 [] t \in MCBarrierThreads -> 1 [] OTHER -> 2]
MCSync == [wLock |-> 1, rwMutex |-> 1, isFull |-> 0, isEmpty |-> 4, produceArrayLock |-> 1,
           barrier |-> 0, barrierMutex |-> 1]
(* MyThreadTest's setPriority: 7, 4 and 7 for threads 1, 2 and 3; the     *)
(* other tests call none.                                                  *)
MCSetPriority == [t \in MCWorkers |-> CASE t = s2 -> 4 [] t \in {s1, s3} -> 7 [] OTHER -> 8]
(* The three SyncTest types modelled, and ThreadSelfTest.                  *)
MCTestTypes == {PCType, BarrierType, RWType, SelfTestType}
MCKThreads == {Main} \cup MCWorkers
MCArrTimeSlice == [i \in 0..4 |-> i + 3]
=============================================================================
