----------------------------- MODULE ReaderWriter -----------------------------
(***************************************************************************)
(* The reader/writer test of threads/kernel.cc: MyReaderWriter forks the  *)
(* readers, then the writers, on the harness of SyncTest.tla; MyReader and *)
(* MyWriter loop over wLock and rwMutex. data.rw is the global readerCount.*)
(* readContent is left out: which value a reader prints does not matter to *)
(* the locking, only whether it reads while a writer writes.               *)
(***************************************************************************)
EXTENDS SyncTest

CONSTANTS
  Readers,    \* the READER_NUM reader threads
  Writers     \* the WRITER_NUM writer threads

(* Kernel::SyncTest's type for MyReaderWriter.                            *)
RWType == 3

ASSUME ToSet(ForkOrder[RWType]) = Readers \cup Writers /\ Readers \cap Writers = {}
ASSUME SyncInit["wLock"] = 1 /\ SyncInit["rwMutex"] = 1

readerCount == data.rw

-----------------------------------------------------------------------------
(* Fault variant of ReaderStep: readerCount==1 tested before the          *)
(* increment, so the first reader in never takes wLock.                    *)
ReaderStepTestFirst(w, t) ==
  CASE w.pc[t] = "R1" -> Goto(AcquireW(w, t, "rwMutex"), t, "R2")
    [] w.pc[t] = "R2" ->
         LET w1 == [w EXCEPT !.d.rw = @ + 1]
         IN  Goto(IF w.d.rw = 1 THEN AcquireW(w1, t, "wLock") ELSE w1, t, "R3")
    [] w.pc[t] = "R3" -> Goto(ReleaseW(w, "rwMutex"), t, "R4")
    [] w.pc[t] = "R4" -> Goto(w, t, "R5")
    [] w.pc[t] = "R5" -> Goto(AcquireW(w, t, "rwMutex"), t, "R6")
    [] w.pc[t] = "R6" ->
         LET w1 == [w EXCEPT !.d.rw = @ - 1]
         IN  Goto(IF w1.d.rw = 0 THEN ReleaseW(w1, "wLock") ELSE w1, t, "R7")
    [] w.pc[t] = "R7" -> EndRound(ReleaseW(w, "rwMutex"), t, "R1")

(* Fault variant of ReaderStep: the reader leaves without --readerCount.  *)
ReaderStepNoDecrement(w, t) ==
  CASE w.pc[t] = "R1" -> Goto(AcquireW(w, t, "rwMutex"), t, "R2")
    [] w.pc[t] = "R2" ->
         LET w1 == [w EXCEPT !.d.rw = @ + 1]
         IN  Goto(IF w1.d.rw = 1 THEN AcquireW(w1, t, "wLock") ELSE w1, t, "R3")
    [] w.pc[t] = "R3" -> Goto(ReleaseW(w, "rwMutex"), t, "R4")
    [] w.pc[t] = "R4" -> Goto(w, t, "R5")
    [] w.pc[t] = "R5" -> Goto(AcquireW(w, t, "rwMutex"), t, "R6")
    [] w.pc[t] = "R6" -> Goto(IF w.d.rw = 0 THEN ReleaseW(w, "wLock") ELSE w, t, "R7")
    [] w.pc[t] = "R7" -> EndRound(ReleaseW(w, "rwMutex"), t, "R1")

(* MyReader, one step per statement group of the loop body.               *)
ReaderStep(w, t) ==
  CASE w.pc[t] = "R1" -> Goto(AcquireW(w, t, "rwMutex"), t, "R2")
    [] w.pc[t] = "R2" ->
         LET w1 == [w EXCEPT !.d.rw = @ + 1]
         IN  Goto(IF w1.d.rw = 1 THEN AcquireW(w1, t, "wLock") ELSE w1, t, "R3")
    [] w.pc[t] = "R3" -> Goto(ReleaseW(w, "rwMutex"), t, "R4")
    [] w.pc[t] = "R4" -> Goto(w, t, "R5")     \* reads readContent[i]
    [] w.pc[t] = "R5" -> Goto(AcquireW(w, t, "rwMutex"), t, "R6")
    [] w.pc[t] = "R6" ->
         LET w1 == [w EXCEPT !.d.rw = @ - 1]
         IN  Goto(IF w1.d.rw = 0 THEN ReleaseW(w1, "wLock") ELSE w1, t, "R7")
    [] w.pc[t] = "R7" -> EndRound(ReleaseW(w, "rwMutex"), t, "R1")

(* MyWriter.                                                               *)
WriterStep(w, t) ==
  CASE w.pc[t] = "W1" -> Goto(AcquireW(w, t, "wLock"), t, "W2")
    [] w.pc[t] = "W2" -> Goto(w, t, "W3")     \* writes readContent[i]
    [] w.pc[t] = "W3" -> EndRound(ReleaseW(w, "wLock"), t, "W1")
-----------------------------------------------------------------------------
(* MyReader starts at R1 and MyWriter at W1; readerCount starts at 0.     *)
StartRW(t) == IF t \in Readers THEN "R1" ELSE "W1"
DataRW == [rw |-> 0]

InitRW == InitTest(RWType, [t \in Threads |-> StartRW(t)], DataRW)

Read(t) == WorkerRuns(t) /\ CommitW(ReaderStep(world, t))

Write(t) == WorkerRuns(t) /\ CommitW(WriterStep(world, t))

Step ==
  \/ MainFork
  \/ MainLoop
  \/ \E t \in Threads : Resume(t)
  \/ \E t \in Readers : Read(t)
  \/ \E t \in Writers : Write(t)

NextRW == Step \/ TickTest \/ Stopped

(* The running thread keeps executing its code, and the timer keeps       *)
(* firing.                                                                 *)
SpecRW == InitRW /\ [][NextRW]_allVars /\ WF_allVars(Step) /\ WF_allVars(TickTest)
-----------------------------------------------------------------------------
LabelsRW == {"exit", "R1", "R2", "R3", "R4", "R5", "R6", "R7", "W1", "W2", "W3"}

TypeOKRW ==
  /\ TypeOKTest
  /\ pc[Main] \in {"fork", "loop", "halt"}
  /\ \A t \in Readers \cup Writers : pc[t] \in LabelsRW
  /\ readerCount \in 0..Cardinality(Readers)
(* Readers-preference locking of MyReader/MyWriter: the first reader in   *)
(* takes wLock and the last one out releases it, so while a writer writes  *)
(* readContent no reader is reading it and no other writer is writing.     *)
(* A thread asleep inside Acquire has not yet entered the section its pc   *)
(* names.                                                                  *)
Reading(r) == pc[r] \in {"R4", "R5"}
Writing(w) == pc[w] \in {"W2", "W3"} /\ waking[w] = NoLock

ReadWriteExclusion ==
  \A w \in Writers : Writing(w) =>
     /\ \A r \in Readers : ~Reading(r)
     /\ \A v \in Writers \ {w} : ~Writing(v)

(* Lock::Release "requires holder == currentThread" (spec section 5):      *)
(* the reader that releases wLock is the one that acquired it.             *)
NoForeignRelease == ~assertFailed
=============================================================================
