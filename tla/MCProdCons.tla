------------------------------ MODULE MCProdCons ------------------------------
(* Model-checking instance of ProdCons: one producer and two consumers,   *)
(* forked in the order of MyProducerConsumer1, with the kernel.cc relation *)
(* PRODUCE_TIMES = MAX_PRODUCE_ARRAY_NUM = CONSUMER_NUM * CONSUME_TIMES    *)
(* scaled down from 50 to 4.                                               *)
EXTENDS ProdCons

CONSTANTS p1, c1, c2

MCProducers == {p1}
MCConsumers == {c1, c2}
MCWorkers == MCProducers \cup MCConsumers
MCForkOrder == PCType :> <<p1, c1, c2>>
MCRounds == [t \in MCWorkers |-> IF t \in MCProducers THEN 4 ELSE 2]
MCPCSync == [isFull |-> 0, isEmpty |-> 4, produceArrayLock |-> 1]
MCPCThreads == {Main} \cup MCWorkers
MCArrTimeSlice == [i \in 0..4 |-> i + 3]
(* None of these tests calls setPriority.                                *)
MCSetPriority == [t \in MCWorkers |-> 8]
=============================================================================
