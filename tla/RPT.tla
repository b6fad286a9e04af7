--------------------------------- MODULE RPT ---------------------------------
(***************************************************************************)
(* Address translation in reverse page-table mode (USE_RPT), shared by     *)
(* several user threads: one system-wide table pt, indexed by frame, that  *)
(* records which (tID, vpn) occupies each frame; the TLB path of           *)
(* Machine::Translate and the RPT pageTableTranslation                     *)
(* (machine/translate.cc); the PageFault, TLBMiss and SC_Exit branches of  *)
(* ExceptionHandler (userprog/exception.cc); Thread::SaveAThread,          *)
(* LoadAThread and loadPageFrame (threads/thread.cc); and the switch from  *)
(* one thread to another.                                                  *)
(*                                                                         *)
(* Data is abstracted to its provenance: a frame holds Page(t, v), the     *)
(* contents of page v of thread t, or NoData. A store by t to v writes     *)
(* Page(t, v), so a frame reached by the wrong thread shows in its data.  *)
(* Alignment, readOnly and BusError are left to MMU.tla: the entries of    *)
(* this table are never readOnly and always name their own frame.          *)
(***************************************************************************)
EXTENDS Integers, SequencesExt

CONSTANTS
  Tids,          \* the threads' IDs (their threadArray indices)
  VPages,        \* the virtual pages the threads access
  NumPhysPages,  \* frames of mainMemory
  TLBSize,       \* TLB slots
  UseTLB,        \* the machine has a TLB (machine->tlb != NULL)
  NoThread,      \* no user thread is left to run
  NoFile,        \* the thread's file holds nothing SaveAThread wrote
  NoData         \* the contents of a frame nothing was loaded into

Frames == 0..NumPhysPages-1
Slots  == 0..TLBSize-1

ASSUME UseTLB \in BOOLEAN /\ NoThread \notin Tids

Page(t, v) == <<t, v>>
Values == (Tids \X VPages) \cup {NoData}

NoInst == [v |-> -1, writing |-> FALSE]

(* TranslationEntry::reset (translate.h is not in the source tree): an     *)
(* entry that names no thread and no page.                                 *)
EmptyEntry == [tID |-> -1, vpn |-> -1, valid |-> FALSE]
EmptySlot  == [valid |-> FALSE, vpn |-> -1, ppn |-> -1, tID |-> -1]

VARIABLES
  pt,         \* machine->pt: [tID, vpn, valid] per frame
  tlb,        \* machine->tlb: [valid, vpn, ppn, tID] per slot
  mem,        \* mainMemory, one value per frame
  mmBitmap,   \* machine->mmBitmap, frames in use
  cur,        \* kernel->currentThread's tID
  alive,      \* the threads that have not exited
  inst,       \* each thread's instruction being executed, or NoInst
  file        \* each thread's file as SaveAThread last wrote it

vars == <<pt, tlb, mem, mmBitmap, cur, alive, inst, file>>

machine == [pt |-> pt, tlb |-> tlb, mem |-> mem, mmBitmap |-> mmBitmap]

Apply(n) ==
  /\ pt' = n.pt /\ tlb' = n.tlb /\ mem' = n.mem /\ mmBitmap' = n.mmBitmap

Result(e, m, f) == [exc |-> e, m |-> m, ppn |-> f]
-----------------------------------------------------------------------------
(* Machine::pageTableTranslation, USE_RPT (translate.cc 292-309): the      *)
(* first frame whose entry has this vpn and the current thread's tID.      *)
(* valid is not tested, so an entry SaveAThread invalidated still matches. *)
pageTableTranslation(m, t, v) ==
  LET hits == {i \in Frames : m.pt[i].vpn = v /\ m.pt[i].tID = t}
  IN  IF hits = {} THEN Result("PageFaultException", m, -1)
      ELSE Result("NoException", m, Min(hits))

(* The TLB scan of Translate (translate.cc 217-218): valid and vpn only,   *)
(* not the tID the entry carries.                                          *)
TLBHits(m, v) == {i \in Slots : m.tlb[i].valid /\ m.tlb[i].vpn = v}

(* Machine::Translate for an aligned access by thread t to page v: the TLB *)
(* alone when there is one, else the page table.                           *)
Translate(m, t, v) ==
  IF UseTLB
  THEN IF TLBHits(m, v) = {} THEN Result("TLBMissException", m, -1)
       ELSE Result("NoException", m, m.tlb[Min(TLBHits(m, v))].ppn)
  ELSE pageTableTranslation(m, t, v)
-----------------------------------------------------------------------------
(* Fault variant of updateTLB: off by one in the frame installed.       *)
updateTLBOffByOne(m, i) ==
  LET free  == {s \in Slots : ~m.tlb[s].valid}
      slots == IF free # {} THEN {Min(free)} ELSE Slots
      entry == [valid |-> TRUE, vpn |-> m.pt[i].vpn, ppn |-> i + 1, tID |-> m.pt[i].tID]
  IN  {[m EXCEPT !.tlb[s] = entry] : s \in slots}

(* Machine::updateTLB (machine.cc, not in the source tree; spec section    *)
(* 4.3): install the entry of frame i, tID included, in the first invalid  *)
(* slot, else in a victim slot.                                            *)
updateTLB(m, i) ==
  LET free  == {s \in Slots : ~m.tlb[s].valid}
      slots == IF free # {} THEN {Min(free)} ELSE Slots
      entry == [valid |-> TRUE, vpn |-> m.pt[i].vpn, ppn |-> i, tID |-> m.pt[i].tID]
  IN  {[m EXCEPT !.tlb[s] = entry] : s \in slots}

(* Machine::findAvailablePageFrame: a frame whose mmBitmap bit is clear.   *)
FreeFrames(m) == {f \in Frames : ~m.mmBitmap[f]}

(* Machine::findOneToReplace(pt, 0): a valid entry chosen by the FIFO or   *)
(* LRU policy, abstracted to any valid entry.                              *)
Victims(m) == {f \in Frames : m.pt[f].valid}

(* A free frame, else findOneToReplace's victim (exception.cc 146-151 and *)
(* thread.cc 346-350).                                                     *)
FrameFor(m) ==
  IF FreeFrames(m) # {} THEN {Min(FreeFrames(m))} ELSE Victims(m)

(* Machine::loadPageFrame (machine.cc; spec section 4.4): read page v of   *)
(* thread t from its swap file into f, set pt[f] = {tID, vpn, valid} and   *)
(* f's bitmap bit. Nothing is written back: no entry is ever dirty         *)
(* (translate.cc 254-258 sets dirty on a copy).                            *)
MachineLoadPageFrame(m, t, v, f) ==
  [m EXCEPT !.pt[f] = [tID |-> t, vpn |-> v, valid |-> TRUE],
            !.mmBitmap[f] = TRUE, !.mem[f] = Page(t, v)]

(* ExceptionHandler, PageFaultException (exception.cc 139-158).            *)
PageFault(m, t, v) == {MachineLoadPageFrame(m, t, v, f) : f \in FrameFor(m)}

(* ExceptionHandler, TLBMissException (exception.cc 159-176): on a miss in *)
(* the page table the nested ExceptionHandler(PageFault) loads the page    *)
(* and the TLB is left as it was; otherwise the entry found is installed.  *)
TLBMiss(m, t, v) ==
  LET r == pageTableTranslation(m, t, v)
  IN  IF r.exc = "NoException" THEN updateTLB(r.m, r.ppn) ELSE PageFault(r.m, t, v)

(* ExceptionHandler for the two exceptions an access here can raise.       *)
ExceptionHandler(m, t, exc, v) ==
  IF exc = "PageFaultException" THEN PageFault(m, t, v) ELSE TLBMiss(m, t, v)

(* Machine::ReadMem / WriteMem: Translate, then the access, or the handler *)
(* of the exception raised.                                                *)
MemAccess(m, t, i) ==
  LET r == Translate(m, t, i.v)
  IN  IF r.exc = "NoException"
      THEN {IF i.writing THEN [r.m EXCEPT !.mem[r.ppn] = Page(t, i.v)] ELSE r.m}
      ELSE ExceptionHandler(r.m, t, r.exc, i.v)
-----------------------------------------------------------------------------
(* The frames, in index order, whose entry names thread t and is valid.    *)
Resident(m, t) ==
  SelectSeq([j \in 1..NumPhysPages |-> j - 1],
            LAMBDA i : m.pt[i].tID = t /\ m.pt[i].valid)

(* Fault variant of SaveAThread: the frames are not cleared in mmBitmap.  *)
SaveAThreadNoClear(m, t) ==
  LET R == Resident(m, t)
  IN  [m |-> [m EXCEPT !.pt = [i \in Frames |->
                         IF i \in ToSet(R) THEN [@[i] EXCEPT !.valid = FALSE] ELSE @[i]]],
       file |-> [j \in DOMAIN R |-> [vpn |-> m.pt[R[j]].vpn, val |-> m.mem[R[j]]]]]

(* Thread::SaveAThread, USE_RPT (thread.cc 277-303): the page count, then *)
(* for each frame of the thread in index order its vpn and contents, are   *)
(* written to the file; the entry is made invalid, keeping tID and vpn,    *)
(* and the frame's bit is cleared. The TLB is not touched.                 *)
SaveAThread(m, t) ==
  LET R == Resident(m, t)
  IN  [m |-> [m EXCEPT !.pt = [i \in Frames |->
                         IF i \in ToSet(R) THEN [@[i] EXCEPT !.valid = FALSE] ELSE @[i]],
                       !.mmBitmap = [i \in Frames |-> IF i \in ToSet(R) THEN FALSE ELSE @[i]]],
       file |-> [j \in DOMAIN R |-> [vpn |-> m.pt[R[j]].vpn, val |-> m.mem[R[j]]]]]

(* Thread::loadPageFrame, USE_RPT (thread.cc 624-633, 654): pt[f] names    *)
(* this thread and the page, valid; the page's contents are read from the *)
(* file into f. f's bitmap bit is not set.                                 *)
loadPageFrame(m, t, r, f) ==
  [m EXCEPT !.pt[f] = [tID |-> t, vpn |-> r.vpn, valid |-> TRUE], !.mem[f] = r.val]

(* Thread::LoadAThread (thread.cc 330-355): for each page of the file, in  *)
(* order, a free frame or a victim, then loadPageFrame.                    *)
RECURSIVE LoadAThread(_, _, _)
LoadAThread(m, t, recs) ==
  IF recs = <<>> THEN {m}
  ELSE UNION {LoadAThread(loadPageFrame(m, t, Head(recs), f), t, Tail(recs)) :
                f \in FrameFor(m)}

(* ExceptionHandler, SC_Exit, USE_RPT (exception.cc 71-89): every frame    *)
(* whose entry names the exiting thread is cleared in mmBitmap and reset,  *)
(* and so is every TLB slot naming it.                                     *)
SC_Exit(m, t) ==
  [m EXCEPT !.pt = [i \in Frames |-> IF @[i].tID = t THEN EmptyEntry ELSE @[i]],
            !.mmBitmap = [i \in Frames |-> IF m.pt[i].tID = t THEN FALSE ELSE @[i]],
            !.tlb = IF UseTLB
                    THEN [s \in Slots |-> IF @[s].tID = t THEN EmptySlot ELSE @[s]]
                    ELSE @]

(* Fault variant of RestoreState: the TLB is kept across the switch.      *)
RestoreStateKeepTLB(m) == m

(* AddrSpace::RestoreState, run by Scheduler::Run for the thread switched *)
(* to (addrspace.cc is not in the source tree; spec section 4.3): every    *)
(* TLB entry is invalidated.                                               *)
RestoreState(m) == [m EXCEPT !.tlb = [s \in Slots |-> EmptySlot]]
-----------------------------------------------------------------------------
Init ==
  /\ pt = [i \in Frames |-> EmptyEntry]
  /\ tlb = [s \in Slots |-> EmptySlot]
  /\ mem = [i \in Frames |-> NoData]
  /\ mmBitmap = [i \in Frames |-> FALSE]
  /\ cur \in Tids
  /\ alive = Tids
  /\ inst = [t \in Tids |-> NoInst]
  /\ file = [t \in Tids |-> NoFile]

(* The running thread's next load or store.                                *)
Fetch(v, writing) ==
  /\ cur # NoThread /\ inst[cur] = NoInst
  /\ inst' = [inst EXCEPT ![cur] = [v |-> v, writing |-> writing]]
  /\ UNCHANGED <<pt, tlb, mem, mmBitmap, cur, alive, file>>

(* One execution of the running thread's instruction: the access, or the *)
(* handler of its exception, after which it is executed again.             *)
Execute ==
  /\ cur # NoThread /\ inst[cur] # NoInst
  /\ \E n \in MemAccess(machine, cur, inst[cur]) : Apply(n)
  /\ inst' = IF Translate(machine, cur, inst[cur].v).exc = "NoException"
             THEN [inst EXCEPT ![cur] = NoInst] ELSE inst
  /\ UNCHANGED <<cur, alive, file>>

(* The timer or a Yield switches to another live thread: Scheduler::Run   *)
(* restores the address space of the thread it switches to. A thread may  *)
(* be switched out between a fault and the re-execution.                   *)
Switch(u) ==
  /\ cur # NoThread /\ u \in alive \ {cur}
  /\ Apply(RestoreState(machine))
  /\ cur' = u
  /\ UNCHANGED <<alive, inst, file>>

(* The running thread makes the Exit system call between instructions:    *)
(* SC_Exit, then Thread::Finish, which switches to a live thread, if any.  *)
Exit ==
  /\ cur # NoThread /\ inst[cur] = NoInst
  /\ alive' = alive \ {cur}
  /\ IF alive' = {}
     THEN Apply(SC_Exit(machine, cur)) /\ cur' = NoThread
     ELSE Apply(RestoreState(SC_Exit(machine, cur))) /\ cur' \in alive'
  /\ UNCHANGED <<inst, file>>

(* Thread::SaveAThread of a live thread; its callers are not in the       *)
(* source tree.                                                            *)
Save(t) ==
  /\ t \in alive
  /\ LET r == SaveAThread(machine, t) IN Apply(r.m) /\ file' = [file EXCEPT ![t] = r.file]
  /\ UNCHANGED <<cur, alive, inst>>

(* Thread::LoadAThread of a live thread from the file it saved.            *)
Load(t) ==
  /\ t \in alive /\ file[t] # NoFile
  /\ \E n \in LoadAThread(machine, t, file[t]) : Apply(n)
  /\ UNCHANGED <<cur, alive, inst, file>>

(* Every thread has exited.                                                *)
Done == cur = NoThread /\ UNCHANGED vars

Next ==
  \/ \E v \in VPages, w \in BOOLEAN : Fetch(v, w)
  \/ Execute
  \/ \E u \in Tids : Switch(u)
  \/ Exit
  \/ \E t \in Tids : Save(t)
  \/ Done

NextLoad == Next \/ \E t \in Tids : Load(t)

Spec == Init /\ [][Next]_vars

SpecLoad == Init /\ [][NextLoad]_vars
-----------------------------------------------------------------------------
Entry == [tID : Tids \cup {-1}, vpn : VPages \cup {-1}, valid : BOOLEAN]
TLBEntry == [valid : BOOLEAN, vpn : VPages \cup {-1}, ppn : Frames \cup {-1},
             tID : Tids \cup {-1}]

TypeOK ==
  /\ pt \in [Frames -> Entry]
  /\ tlb \in [Slots -> TLBEntry]
  /\ \A s \in Slots : tlb[s].valid => tlb[s].ppn \in Frames
  /\ mem \in [Frames -> Values]
  /\ mmBitmap \in [Frames -> BOOLEAN]
  /\ cur \in Tids \cup {NoThread} /\ alive \subseteq Tids
  /\ inst \in [Tids -> [v : VPages, writing : BOOLEAN] \cup {NoInst}]
  /\ file \in [Tids -> Seq([vpn : VPages, val : Values]) \cup {NoFile}]

(* Spec section 3 and 4.3, across SaveAThread, page faults, TLB refills   *)
(* and exits of several threads sharing the frames and the TLB, whose     *)
(* scan ignores tID and whose page-table lookup ignores valid: whatever    *)
(* page the running thread accesses, the frame Translate lets it reach     *)
(* holds one of its own pages, never another thread's.                     *)
ThreadIsolation ==
  cur # NoThread =>
    \A v \in VPages :
      LET r == Translate(machine, cur, v)
      IN  r.exc = "NoException" => \E w \in VPages : mem[r.ppn] = Page(cur, w)

(* Spec section 3, reverse mode: mmBitmap mirrors validity exactly, and   *)
(* no (thread, page) has two valid frames, although SaveAThread leaves    *)
(* invalid entries that still match the lookup.                            *)
FramesConsistent ==
  /\ \A i \in Frames : mmBitmap[i] <=> pt[i].valid
  /\ \A i, j \in Frames :
       i # j /\ pt[i].valid /\ pt[j].valid => <<pt[i].tID, pt[i].vpn>> # <<pt[j].tID, pt[j].vpn>>

(* Spec section 8: "saving a thread's resident pages to its swap file and *)
(* loading them restores identical physical contents for the same VPNs". *)
(* When LoadAThread starts with a free frame for every page of the file,   *)
(* each page ends up valid for the thread, in a frame holding what was     *)
(* saved.                                                                  *)
LoadRestoresSaved ==
  [][\A t \in Tids :
       Load(t) /\ Len(file[t]) <= Cardinality(FreeFrames(machine)) =>
         \A j \in DOMAIN file[t] :
           \E i \in Frames : /\ pt'[i] = [tID |-> t, vpn |-> file[t][j].vpn, valid |-> TRUE]
                             /\ mem'[i] = file[t][j].val]_vars
=============================================================================
