------------------------------- MODULE MCThread -------------------------------
(* Model-checking instance of Thread: the scheduler.h constants, and a     *)
(* small set of threads besides main.                                      *)
EXTENDS Thread

CONSTANTS t1, t2, t3

MCThreads == {Main, t1, t2, t3}
MCThreads3 == {Main, t1, t2}
MCArrTimeSlice == [i \in 0..4 |-> i + 3]
MCArrTimeSlice3 == [i \in 0..2 |-> i + 1]
MCArrTimeSlice2 == [i \in 0..1 |-> i + 1]
=============================================================================
