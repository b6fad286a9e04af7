# TLA+ models of MyNachos 4.1

This directory holds TLA+ models of the kernel in `src/code`, together with the TLC
configurations that check them. The kernel is a Nachos 4.1 instructional OS. It adds
four scheduling policies, a thread table, a TLB with forward and reverse page tables,
page swapping and a few synchronisation test programs. Each module translates the
source. `PROJECT.json` maps every definition to the lines it models.

## The system and its parts

| Part | Source | Module | Status |
|---|---|---|---|
| Dispatcher: ready structures, FindNextToRun, Run, deferred deletion | `threads/scheduler.cc`, `scheduler.h` | `Scheduler` | modelled, except the bodiless block/awake/suspend methods |
| Thread lifecycle: Thread::Thread, Fork, Yield, Sleep, Finish, ~Thread, thread table | `threads/thread.cc`, `kernel.cc` (Initialize) | `Thread` | modelled |
| What the dispatcher promises | (abstract) | `ThreadStates` | abstract specification |
| Timer preemption (Alarm) and Interrupt::Idle | not in `src/` | `Thread` (Tick, halted) | from the spec |
| Semaphore, Lock, Condition, Barrier | not in `src/` (spec section 5) | `Synch` | from the spec |
| Kernel::SyncTest and its tests | `threads/kernel.cc` | `SyncTest`, `ProdCons`, `ReaderWriter`, `BarrierTest`, `KernelTests` | MyProducerConsumer1, MyBarrier, MyReaderWriter; not MyProducerConsumer2 (SynchList) |
| Kernel::ThreadSelfTest: MyThreadTest, SimpleThread | `threads/kernel.cc`, `threads/thread.cc` | `SelfTest`, composed in `KernelTests` | typeno 1..3; not typeno 0's endless fork loop |
| What a test's wait loop promises | (abstract) | `TestTermination` | abstract specification |
| Address translation: TLB, forward page table, swap path | `machine/translate.cc` | `MMU` | forward mode, one address space |
| Address translation: reverse page table (USE_RPT), Save/LoadAThread | `machine/translate.cc`, `threads/thread.cc` | `RPT` | several threads sharing one table; Save/LoadAThread in RPT mode only |
| Exception handler: PageFault, TLBMiss, syscalls, fatal exceptions | `userprog/exception.cc`, `syscall.h` | `MMU`, `RPT` | modelled |
| User-level shell and syscall shim | `shell/*` | not modelled | host I/O only |

**How the parts interact.** Everything runs on one simulated CPU. The kernel switches
threads only inside Yield, Sleep or Finish (via Scheduler::Run), or from the timer
interrupt handler, which calls Yield. Every such handler runs with interrupts off. The
models therefore take each handler as one atomic step. `typeno` selects the policy:

- 0: FIFO on `readyList`.
- 1: static priority on `sortedReadyList`. A smaller number means a higher priority, and
  Fork preempts.
- 2: round robin on `readyList`, with quantum `timeSlice`.
- 3: a multilevel feedback queue over `threadArrQueue[QueueNum]`. Every ReadyToRun
  demotes the thread one level and reloads the quantum of its new level.

## Modules

- `Scheduler.tla` holds operators only. Each takes the kernel state as a record `k` and
  returns the record after the call.
  - `ReadyToRun`, `FindNextToRun` (returns `[next, k]`), `Run`, `CheckToBeDestroyed`,
    `getReadyListFront`, `isReadyListEmpty`.
  - `addAThread`, and `DeleteThread` (~Thread with removeAThread).
  - `SortedInsert` is SortedList::Insert with `cmp`: the new thread goes before the first
    one of strictly greater priority, so ties stay FIFO.

  `Run` includes the `CheckToBeDestroyed` that the thread switched to executes after
  SWITCH, or in Thread::Begin if it is new.
- `Thread.tla` holds the variables: the per-thread fields, the three ready structures,
  `currentThread`, `toBeDestroyed`, `threadArray`, `tid` and `halted`. Each action is a
  whole handler run by the current thread. Those handlers compose the Scheduler operators
  exactly as thread.cc does:
  - `ForkThread`: the constructor, then Fork with its preemption check.
  - `YieldThread`.
  - `SleepThread`: blockAThread, then FindNextToRun. When nothing is ready, Idle halts
    the machine.
  - `FinishThread`.
  - `WakeThread`: a V or Signal calling ReadyToRun.
  - `Tick`: the timer decrements the quantum and yields at zero.
- `ThreadStates.tla` is the abstract promise. It tracks only thread states, the running
  thread and a stopped flag. A switch goes only to a ready thread, and only by yield,
  block or exit. Only a wake readies a blocked thread. An exited thread never returns.
  `Thread` refines it: a thread is READY in the abstraction when some ready structure
  holds it (`AbsStatus`).
- `MMU.tla` models one address space in forward mode.
  - **State:** `pt` (ppn, valid, readOnly, dirty per page), `tlb`, `mem` (one value per
    frame), `vm` (the VM file, one value per page), `mmBitmap`, the instruction being
    executed `inst`, `aborted`, and `ended` (SC_Halt or SC_Exit ended the program). `amem` is an auxiliary variable: the value last stored
    to each page.
  - **Data.** A page starts out holding its own number, and a store writes 7, so any
    mix-up of pages shows in the data. Offsets and byte order only choose the bytes within
    a page and are left out. An address keeps its page and whether it is aligned.
  - **Operators:**
    - `Translate` is Machine::Translate, in the code's order of checks: alignment, TLB
      scan or page table, read-only, frame range.
    - `pageTableTranslation` comes with `SwapIn`, the forward swap path of translate.cc
      317-336.
    - `MemAccess` is ReadMem/WriteMem.
    - The handlers `PageFault`, `TLBMiss` and `ExceptionHandler` are from exception.cc.
      They return a set of outcomes, because the replacement policies live in machine.cc,
      which is not in `src/`. `updateTLB`, `FreeFrames`, `LoadPage` and `EvictPage` are
      modelled from spec sections 4.2-4.4, with the victim left free.
  - **Syscalls.** `Syscall` is the SyscallException switch of exception.cc 58-135 on
    the codes `SC` of syscall.h. SC_Add advances the PC, so the instruction is done.
    SC_Halt stops the machine. SC_Exit (`SC_ExitForward`) removes the VM file, resets the
    TLB and finishes the thread. Any other code breaks out to ASSERTNOTREACHED and
    aborts. `SyscallTypes` offers SC_Write as the stand-in for every unhandled code.
  - **Actions:** `Fetch` is the program's next load or store, and `FetchSyscall` its next
    syscall. `Execute` runs the instruction once: the access or the handler
    (`ExecuteAccess`), or the trap (`ExecuteSyscall`). After a fault the machine
    re-executes the instruction.
  - **Use/dirty bits.** Translate sets these on a local copy of the entry and stores
    neither. The model keeps that: a translation changes no entry.
- `RPT.tla` models USE_RPT mode, with several threads sharing one frame-indexed table.
  - **State:** `pt` ([tID, vpn, valid] per frame), `tlb` (entries carry a tID), `mem`,
    `mmBitmap`, the running thread `cur`, the live threads `alive`, each thread's
    instruction `inst`, and each thread's save `file` (a sequence of [vpn, val]).
  - **Data.** A frame holds `Page(t, v)`, the page's owner and number, so a frame reached
    by the wrong thread shows in its contents.
  - **Operators.** `pageTableTranslation` is the RPT lookup of translate.cc 290-309. It
    matches vpn and tID and ignores `valid`. `Translate` goes through the TLB, whose scan
    matches valid and vpn and ignores tID. `PageFault`, `TLBMiss` and `SC_Exit` come from
    exception.cc. `SaveAThread`, `loadPageFrame` and the RECURSIVE `LoadAThread` come
    from thread.cc.
  - **Actions:** `Fetch`, `Execute`, `Switch` (a context switch, which invalidates the
    TLB by spec section 4.3), `Exit`, `Save` and `Load`. Nothing in `src/` calls
    Save/LoadAThread, so `Load` is in `SpecLoad` only.
- `Synch.tla` holds operators for Semaphore::P/V and Lock::Acquire/Release, written from the
  spec because synch.cc is not in `src/`.
  - P with value 0 appends the caller to the wait list and calls `Sleep`.
  - V hands the unit to the first waiter by `ReadyToRun`, so they act on the same kernel record
    as Thread.
  - A lock is a binary semaphore with a holder. Acquire records the holder only when the caller
    runs again after P.
  - A condition has Mesa semantics. `Wait` appends the caller to the condition's queue,
    releases the lock and sleeps. The caller reacquires the lock in its own next step.
    `Signal` readies the first waiter, and `Broadcast` (RECURSIVE) readies all of them
    in order.
  - `Barrier` is a condition plus a counter, kept in the condition's `value`. The n-th
    arrival broadcasts and keeps the lock, and every earlier arrival waits.
- `SyncTest.tla` is what the kernel.cc tests share.
  - **State:** the Thread variables, plus a `pc` per thread, the loop count `done`, the
    primitives `sync`, the tests' globals `data` (one field per test), `assertFailed`,
    and `testType`, the type Kernel::SyncTest was called with. `ForkOrder` gives each
    type's threads in the order its function forks them. `SetPriority` is the value the
    test's `setPriority` gives each worker before Fork (8, the default, where it calls none).
  - **Actions:**
    - `MainFork` is main's `new Thread` and `Fork`.
    - `MainLoop` is `while(!isReadyListEmpty()) Yield();`, after which main halts the machine.
    - `Resume` is the rest of Acquire after a wake-up.
    - `TickTest` is timer preemption.
  - Only the current thread executes. A step runs up to the next semaphore or lock operation.
  - Lock::Release's `ASSERT(IsHeldByCurrentThread())` aborts the machine when it fails.
- `ReaderWriter.tla` models MyReader (steps R1..R7) and MyWriter (W1..W3). `data.rw` is
  `readerCount`.
- `ProdCons.tla` models Produce (P1..P4) and Consume (C1..C4). `data.buf` holds `high`, `low`,
  `produceArray`, and the history `consumed` of the values the consumers read. The consumer's
  `produceArray[++low]` sits inside a `debug->IsEnabled('s')` output statement (kernel.cc:297).
  The constant `debugS` says whether that flag is given.
- `BarrierTest.tla` models testBarrier (B1..B4). B1 acquires barrierMutex, and B2 calls
  `Barrier`. B3 is the reacquire inside Wait after the wake-up. B4 prints, releases and
  returns.
- `SelfTest.tla` models Kernel::ThreadSelfTest for typeno 1..3. That is MyThreadTest
  (thread.cc 592-603): main forks thread 1 and yields while anything is ready. It also
  models SimpleThread (thread.cc 496-568): thread 1 forks thread 2 and thread 2 forks
  thread 3 (S1), with the priorities 7, 4 and 7 under static priority. Each thread then
  loops (S2), one step per iteration, since each iteration runs with interrupts off.
  `SelfChain[i]` is the thread that runs SimpleThread(i). Its type in `TestTypes` is -1,
  because main() picks ThreadSelfTest instead of SyncTest.
- `TestTermination.tla` is the abstract promise of every test's wait loop, written as
  termination detection. Threads are activated (by main or by one another) and
  terminate. `detected` (the test ends) may become true only when none is active, and no
  thread is activated after it.
- `KernelTests.tla` composes the three tests as Kernel::SyncTest does, and ThreadSelfTest
  beside them. The initial state picks a type from `TestTypes`, and only that test's
  threads are forked. `RefinesTestTermination` maps it to TestTermination: a worker is
  active when it has been forked (`status # "NONE"`) and is not at `exit`, and
  `detected` is `halted /\ ~assertFailed`. The standalone
  specs `SpecRW` and `SpecPC` remain for the single-test violation runs.
- `MCThread.tla`, `MCMMU.tla`, `MCRPT.tla`, `MCReaderWriter.tla`, `MCProdCons.tla` and `MCKernelTests.tla` provide the model values and the small constant tables for TLC.

## Runs

| Run | Policy, bounds | Properties | What it shows |
|---|---|---|---|
| thread_prio | static priority, 4 threads, 3 table slots, priorities {4,7,8} (the test's setPriority values and the default 8) | ReadyConsistent, ThreadTableConsistent, YieldRelinquishes, ForkPreempts | the list stays sorted; table and deferred deletion stay consistent when slots are reused; Yield switches when something is ready; after Fork no ready thread outranks the running one |
| thread_rr | RR, 3 threads, 4 table slots, quantum 3, main's first quantum any of 0..3 | ReadyConsistent, ThreadTableConsistent, RefinesThreadStates, NoStarvation | the FIFO ready list and the thread table stay consistent; the dispatcher implements ThreadStates; every ready thread eventually runs |
| thread_mlfq | MLFQ, 3 threads, 2 levels of quanta 1,2 | TypeOK, ReadyConsistent, YieldRelinquishes, RefinesThreadStates, NoStarvation | each queue holds only threads of its level; demotion stays in range; no starvation, even though threads that keep returning are demoted |
| mmu_swap | no TLB; 3 pages, 2 frames, every page has a frame (pages 0 and 2 share frame 0); page 1 read-only | FramesConsistent, DataRoundTrip | the forward swap path keeps one valid mapping per frame and the bitmap in step, and loads return the last stored value |
| mmu_tlb | 2-slot TLB; only page 0 has a frame, pages 1 and 2 come in by PageFault; syscalls Halt, Exit, Add, Write | TypeOK, FramesConsistent, InstructionCompletes | TLB misses, refills with replacement, page faults nested in a refill, allocation by bitmap and eviction keep frames consistent; every faulting instruction completes when re-executed, and every syscall moves the PC on or ends the program |
| rpt_tlb | USE_RPT, 2 threads (symmetric), 2 pages each, 2 frames, 2-slot TLB | TypeOK, ThreadIsolation, FramesConsistent | with faults, refills, switches, exits and saves interleaved, a thread reaches only its own pages, and the bitmap mirrors the valid entries |
| rpt_load (violation) | as rpt_tlb, with LoadAThread | LoadRestoresSaved | **finding:** loadPageFrame never sets the frame's bitmap bit (thread.cc:628), so LoadAThread's findAvailablePageFrame (line 346) returns the same frame for every saved page, and only the last page survives |
| synctest_rr | RR; Kernel::SyncTest of type 0, 2 or 3, or ThreadSelfTest with 3 threads of 2 iterations: 1 producer of 4 items and 2 consumers of 2, array of 4, `debugS` TRUE; barrier of 3 threads, count 3; 2 readers and 1 writer, 2 iterations each | TypeOKRW, SemaphoresCountBuffer, ReadWriteExclusion, ConsumedInOrder, AllConsumedAtHalt, BarrierSafe, BarrierMutexExclusion, RefinesTestTermination | no writer writes while a reader reads; isFull and isEmpty always equal the items in produceArray and the free room, less the items and slots a thread holds between its P and its V (a preemption between Release and V included); consumers read every item once, in order, and the test ends with the buffer empty; no thread passes the barrier before all have arrived, and barrierMutex has one holder across Wait's reacquire; every test, including ThreadSelfTest's chain of forks by workers, implements TestTermination: main halts only after every forked worker has returned, and nothing is forked after |
| rw_foreign (violation) | RR, 2 readers, 2 writers, 2 iterations each | NoForeignRelease | **finding:** r1 takes wLock as the first reader in (kernel.cc:405). r2 enters, r1 leaves, and r2 leaves last. r2 then releases wLock, which r1 holds (kernel.cc:410), and Lock::Release's holder assertion fails |
| prodcons_nodebug (violation) | as synctest_rr's producer/consumer test, `debugS` FALSE | AllConsumedAtHalt | **finding:** Consume's only read and `++low` sit inside the `debug->IsEnabled('s')` output (kernel.cc:297); without `-d s` the test halts with 4 items counted as unconsumed |
| mmu_tlb_stale (violation) | as mmu_swap, with the TLB | DataRoundTrip | **finding:** the swap path invalidates `pt[j]` (translate.cc:328) but not j's TLB entry; a later load of j returns the page now in j's old frame |
| mmu_lostwrite (violation) | as mmu_tlb, without the TLB | DataRoundTrip | **finding:** Translate sets dirty on a copy (translate.cc:258), so an evicted page is never written back and a store is lost, given eviction as spec 4.2 describes it |

**Bounds.** Each thread identity is constructed at most once, so the state space is finite
without a constraint. A table smaller than the thread set (thread_prio) makes Fork wait for a
freed slot, so slot reuse happens. The MLFQ runs use fewer levels and smaller quanta than
scheduler.h (5 levels, quanta 3..7). With three threads, two levels already produce
demotion to the last level, the cap, reloads at both levels and preemption at both levels.
The full tables only lengthen the counting. For the MMU, three pages on two frames and a
two-slot TLB are the smallest layout in which:

- a frame changes owner;
- the TLB must replace an entry;
- every frame is taken, so a page fault has to evict.

Pages, frames and values are symmetric, so larger tables would repeat these cases.
For the RPT, two threads with two pages each on two frames are the smallest layout in
which both threads hold a frame at once, a fault must evict another thread's page, and
a thread saves more than one page. The threads are model values under symmetry.

For the tests, two readers with two iterations each are enough for every lock to have a
waiter, for a second reader to enter while the first is reading, and for a reader to come
back. One writer is enough to test writers against readers in synctest_rr. Writer against
writer is wLock's own exclusion. rw_foreign keeps two writers. With two writers the
composed run takes over three minutes, without reaching a case one writer misses. Three
barrier threads with a count of three give a first waiter, a second waiter that queues
behind it, and a last arrival whose Broadcast wakes two threads. Both woken threads then
contend for barrierMutex with the last arrival. With a count of 4, more than the threads
forked, the test halts with two threads blocked, which the refinement rejects (checked by hand). The producer/consumer test keeps kernel.cc's relation between its
constants: PRODUCE_TIMES = MAX_PRODUCE_ARRAY_NUM = 2 x CONSUME_TIMES, scaled from 50 to 4.
With that relation isEmpty never blocks, as in the code.

**Fairness.** The MMU assumes `WF_vars(Execute)`: Machine::Run keeps executing the current instruction. RPT checks only safety and assumes no fairness. For threads, only `WF_vars(Tick)` is assumed. The periodic timer interrupt fires no
matter what the running thread does. Nothing forces a thread to yield, sleep or finish,
so a starving scenario may contain any number of those steps. The standalone test specs also assume
`WF(Step)`: the thread on the CPU keeps executing its code. SpecK instead states per
thread `SF(ThreadStep(t))` besides the timer's WF. Simulated time advances only in
OneTick, which the running thread itself reaches by turning interrupts back on. So a
thread that keeps being scheduled gets to run its next statement. `WF` over all steps is
too weak for that: the timer can preempt a thread before it runs, and main's Yield steps
then satisfy the fairness. No run checks liveness of SpecK. A property "every test ends"
checked this way, with one strong-fairness condition per thread, ran for more than 15
minutes on synctest_rr's instance. It also fails where an ASSERT aborts the reader/writer
test, which rw_foreign already shows.

## Not modelled, and why

- The shell shim is host I/O. It is out of the spec's scope (section 1), so it has no
  module. Its unbounded line read into `buffer[60]` (shell.c:25) is listed as a hazard
  without a property.
- MyThreadTest's typeno 0 branch forks threads in an endless loop until the thread
  table's ASSERT fires. The composed run uses RR, so ThreadSelfTest is checked under
  typeno 2 only.
- StackAllocate, SWITCH and the register save are machine state, not control.
- Scheduler::blockAThread has no body in `src/`. Its effect (the caller becomes BLOCKED)
  comes from the spec.
- Semaphore, Lock, Condition, Alarm and Interrupt are not in `src/`. The first three are
  modelled from the spec. Barrier's count is a constant, because synch.cc is absent and
  the spec says only that the N-th arrival broadcasts. Whether the counter resets after
  the broadcast is unknown. That matters only for a reused barrier, and the test uses its
  barrier once.
- MyProducerConsumer2 uses SynchList, which is not in `src/`.
- SaveAThread and LoadAThread are modelled in USE_RPT mode only, and no code in `src/`
  calls them. Their forward-mode branches, and the forward-mode lifetime of several
  address spaces, are left out. AddrSpace is not in `src/`.
- The stale TLB entry that SaveAThread leaves (thread.cc:296) for a thread that keeps
  running has no property. A page-exact check is also broken by eviction in PageFault.
  Whether findOneToReplace or loadPageFrame drops the victim's TLB entry is decided in
  machine.cc, which is not in `src/`. The spec requires only that valid entries belong to
  the running thread, and ThreadIsolation checks that.
- The FIFO policy is checked through thread_rr, which uses the same `readyList`
  operations.
- The test models run under RR only. Under FIFO and static priority nothing preempts a
  worker, so the threads' loop bodies would not interleave.

## Plan for the remaining parts

1. SaveAThread/LoadAThread in forward mode, with several address spaces.
