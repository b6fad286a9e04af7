----------------------------- MODULE KernelTests -----------------------------
(***************************************************************************)
(* Kernel::SyncTest(type) (threads/kernel.cc): the synchronisation test    *)
(* the kernel runs is chosen by its type, and runs alone on the thread     *)
(* system: MyProducerConsumer1 (ProdCons.tla), MyBarrier                   *)
(* (BarrierTest.tla) or MyReaderWriter (ReaderWriter.tla); or, instead,   *)
(* Kernel::ThreadSelfTest (SelfTest.tla). The threads of every test exist  *)
(* as identities; only those of the chosen one are forked.                 *)
(***************************************************************************)
EXTENDS ReaderWriter, ProdCons, BarrierTest, SelfTest

CONSTANT TestTypes   \* the types SyncTest may be called with, and SelfTestType

ASSUME TestTypes \subseteq {PCType, BarrierType, RWType, SelfTestType}
ASSUME SelfTestType \in TestTypes => typeno \in 1..3

(* Where each test's threads start.                                        *)
Start(t) ==
  CASE t \in Readers \cup Writers     -> StartRW(t)
    [] t \in Producers \cup Consumers -> StartPC(t)
    [] t \in ToSet(SelfChain)         -> StartSelf(t)
    [] OTHER                          -> StartBarrier(t)

(* SyncTest(type): the setup of the test of that type.                    *)
InitK == \E ty \in TestTypes : InitTest(ty, [t \in Threads |-> Start(t)], DataRW @@ DataPC)

(* The next step of thread t, whichever test it belongs to.               *)
ThreadStep(t) ==
  \/ t = Main /\ (MainFork \/ MainLoop)
  \/ Resume(t)
  \/ t \in Readers /\ Read(t)
  \/ t \in Writers /\ Write(t)
  \/ t \in Producers /\ Produce(t)
  \/ t \in Consumers /\ Consume(t)
  \/ t \in BarrierThreads /\ Arrive(t)
  \/ t \in ToSet(SelfChain) /\ SimpleThreadRuns(t)

StepK == \E t \in Threads : ThreadStep(t)

NextK == StepK \/ TickTest \/ Stopped

(* The timer keeps firing, and a thread that keeps being scheduled runs   *)
(* its next statement: simulated time advances only in OneTick, which the  *)
(* running thread itself reaches by turning interrupts back on, so a timer *)
(* interrupt cannot come before the thread has run up to that point. A     *)
(* thread is enabled only while it is the current one, hence strong        *)
(* fairness per thread. (No run checks liveness under it: with a strong   *)
(* fairness condition per thread TLC's liveness check of this instance     *)
(* does not end in minutes.)                                               *)
SpecK == InitK /\ [][NextK]_allVars /\ WF_allVars(TickTest)
           /\ \A t \in Threads : SF_allVars(ThreadStep(t))

-----------------------------------------------------------------------------
(* A worker has been forked and has not yet returned from its function.   *)
TestActive == [t \in Workers |-> status[t] # "NONE" /\ pc[t] # "exit"]

Term == INSTANCE TestTermination
          WITH Nodes <- Workers, active <- TestActive, detected <- halted /\ ~assertFailed

(* Every test is a termination detection by main: main's                  *)
(* while(!isReadyListEmpty()) Yield() loop, and with it the test, ends     *)
(* only once no worker is still running its code, whether the workers     *)
(* were forked by main or (in ThreadSelfTest) by one another, and no       *)
(* worker is forked after the end. A worker left BLOCKED when main finds   *)
(* the ready list empty violates it.                                       *)
RefinesTestTermination == Term!Spec
=============================================================================
