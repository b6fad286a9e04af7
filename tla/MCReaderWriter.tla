---------------------------- MODULE MCReaderWriter ----------------------------
(* Model-checking instance of ReaderWriter: two readers and two writers,  *)
(* forked in the order of MyReaderWriter, two loop iterations each.        *)
EXTENDS ReaderWriter

CONSTANTS r1, r2, w1, w2

MCReaders == {r1, r2}
MCWriters == {w1, w2}
MCWorkers == MCReaders \cup MCWriters
MCForkOrder == RWType :> <<r1, r2, w1, w2>>
MCRounds == [t \in MCWorkers |-> 2]
MCRWSync == [L \in {"wLock", "rwMutex"} |-> 1]
MCRWThreads == {Main} \cup MCWorkers
MCArrTimeSlice == [i \in 0..4 |-> i + 3]
(* None of these tests calls setPriority.                                *)
MCSetPriority == [t \in MCWorkers |-> 8]
=============================================================================
