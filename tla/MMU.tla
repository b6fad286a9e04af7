--------------------------------- MODULE MMU ---------------------------------
(***************************************************************************)
(* The address-translation path of one user address space in forward      *)
(* page-table mode: Machine::ReadMem/WriteMem and Machine::Translate       *)
(* (machine/translate.cc) with or without the TLB, the demand page-in of   *)
(* pageTableTranslation, and the PageFault and TLBMiss branches of         *)
(* ExceptionHandler (userprog/exception.cc).                               *)
(*                                                                         *)
(* Data is abstracted to one value per page: a frame holds the contents of *)
(* one page, the swap file (the VM file) holds one value per VPN at offset *)
(* vpn*PageSize. Offsets within a page and the byte order of a word only   *)
(* decide which bytes of the page an access touches and are left out;      *)
(* what an address does keep is its page and whether it is aligned.        *)
(*                                                                         *)
(* The user program runs one instruction at a time. An instruction whose   *)
(* access raises PageFault or TLBMiss is handled by ExceptionHandler, run  *)
(* inside RaiseException, and the machine re-executes it: the PC does not  *)
(* advance. A system call (SyscallException) is handled by the switch of *)
(* ExceptionHandler: SC_Add advances the PC, SC_Halt stops the machine,    *)
(* SC_Exit finishes the program's thread, and any other call breaks out to *)
(* ASSERTNOTREACHED. Any other exception reaches "Unexpected user mode     *)
(* exception" and ASSERTNOTREACHED, which aborts Nachos.                   *)
(***************************************************************************)
EXTENDS Integers, FiniteSetsExt

CONSTANTS
  pageTableSize,   \* AddrSpace's number of pages
  NumPhysPages,    \* frames of mainMemory
  TLBSize,         \* TLB slots
  UseTLB,          \* the machine has a TLB (machine->tlb != NULL)
  ReadOnlyPages,   \* pages whose entry has readOnly set
  InitPPN,         \* pt[vpn].ppn as AddrSpace leaves it; -1: no frame yet
  WriteVals,       \* values a store may write
  NoData           \* the contents of a frame nothing was loaded into

Pages  == 0..pageTableSize-1
Frames == 0..NumPhysPages-1
Slots  == 0..TLBSize-1

ASSUME InitPPN \in [Pages -> Frames \cup {-1}]
ASSUME ReadOnlyPages \subseteq Pages /\ UseTLB \in BOOLEAN
ASSUME WriteVals \cap Pages = {} /\ NoData \notin Pages \cup WriteVals

(* A page starts out holding its own number, so that any mix-up of pages   *)
(* shows in the data.                                                      *)
Values == Pages \cup WriteVals \cup {NoData}

(* The system call codes of userprog/syscall.h.                           *)
SC == [Halt |-> 0, Exit |-> 1, Exec |-> 2, Join |-> 3, Create |-> 4, Remove |-> 5,
       Open |-> 6, Read |-> 7, Write |-> 8, Seek |-> 9, Close |-> 10, Delete |-> 11,
       ThreadFork |-> 12, ThreadYield |-> 13, ExecV |-> 14, ThreadExit |-> 15,
       ThreadJoin |-> 16, getSpaceID |-> 17, getThreadID |-> 18, Ipc |-> 19,
       Clock |-> 20, Add |-> 42]

(* The calls a program may make: the three ExceptionHandler knows, and     *)
(* SC_Write for all the others, which it does not.                         *)
SyscallTypes == {SC.Halt, SC.Exit, SC.Add, SC.Write}

(* An instruction is a load or store (sys = -1) or a syscall of type sys.  *)
NoInst == [v |-> -1, writing |-> FALSE, val |-> NoData, aligned |-> TRUE, sys |-> -1]

VARIABLES
  pt,         \* the page table: [ppn, valid, readOnly, dirty] per VPN
  tlb,        \* machine->tlb: [valid, vpn, ppn, readOnly, dirty] per slot
  mem,        \* mainMemory, one value per frame
  vm,         \* the address space's VM file, one value per VPN
  mmBitmap,   \* machine->mmBitmap, frames in use
  inst,       \* the instruction being executed, or NoInst
  aborted,    \* Nachos stopped on an ASSERT
  ended,      \* SC_Halt stopped the machine, or SC_Exit ended the program
  amem        \* auxiliary: the value last stored to each page

vars == <<pt, tlb, mem, vm, mmBitmap, inst, aborted, ended, amem>>

(* The MMU's state as the record the operators below work on.              *)
machine == [pt |-> pt, tlb |-> tlb, mem |-> mem, vm |-> vm,
            mmBitmap |-> mmBitmap, aborted |-> aborted]

Apply(n) ==
  LET m == n IN
  /\ pt' = m.pt /\ tlb' = m.tlb /\ mem' = m.mem /\ vm' = m.vm
  /\ mmBitmap' = m.mmBitmap /\ aborted' = m.aborted

-----------------------------------------------------------------------------
EmptySlot == [valid |-> FALSE, vpn |-> -1, ppn |-> -1, readOnly |-> FALSE, dirty |-> FALSE]

(* The result of Translate: the exception, the machine after the call (the *)
(* page-table path can page in), and the frame of a successful access.     *)
Result(e, m, f) == [exc |-> e, m |-> m, ppn |-> f]

(* Fault variants of SwapIn for mutation analysis: the page swapped out is *)
(* not written back; it is written back but stays valid.                   *)
SwapInNoWriteBack(m, v) ==
  LET f      == m.pt[v].ppn
      owners == {j \in Pages : m.pt[j].valid /\ m.pt[j].ppn = f}
      m1     == IF owners = {} THEN m
                ELSE [m EXCEPT !.pt[Min(owners)].valid = FALSE]
  IN  [m1 EXCEPT !.pt[v].valid = TRUE, !.mem[f] = m1.vm[v]]

SwapInKeepOwner(m, v) ==
  LET f      == m.pt[v].ppn
      owners == {j \in Pages : m.pt[j].valid /\ m.pt[j].ppn = f}
      m1     == IF owners = {} THEN m
                ELSE [m EXCEPT !.vm[Min(owners)] = m.mem[f]]
  IN  [m1 EXCEPT !.pt[v].valid = TRUE, !.mem[f] = m1.vm[v]]

(* pageTableTranslation's demand page-in (translate.cc 319-335): pt[v] is  *)
(* invalid but names frame f. The first valid entry j on f is written to   *)
(* the VM file at j*PageSize and made invalid; then v is read from the VM  *)
(* file into f and made valid. Neither the TLB nor mmBitmap is touched.    *)
SwapIn(m, v) ==
  LET f      == m.pt[v].ppn
      owners == {j \in Pages : m.pt[j].valid /\ m.pt[j].ppn = f}
      m1     == IF owners = {} THEN m
                ELSE [m EXCEPT !.vm[Min(owners)] = m.mem[f],
                            !.pt[Min(owners)].valid = FALSE]
  IN  [m1 EXCEPT !.pt[v].valid = TRUE, !.mem[f] = m1.vm[v]]

(* Machine::pageTableTranslation, forward mode (translate.cc 310-345).     *)
(* The entry it hands back is a copy of pt[v].                             *)
pageTableTranslation(m, v) ==
  CASE v \notin Pages                          -> Result("AddressErrorException", m, -1)
    [] ~m.pt[v].valid /\ m.pt[v].ppn = -1      -> Result("PageFaultException", m, -1)
    [] ~m.pt[v].valid                          -> Result("NoException", SwapIn(m, v), m.pt[v].ppn)
    [] OTHER                                   -> Result("NoException", m, m.pt[v].ppn)

(* The TLB slots holding a valid entry for v; Translate takes the first.   *)
TLBHits(m, v) == {i \in Slots : m.tlb[i].valid /\ m.tlb[i].vpn = v}

(* Machine::Translate (translate.cc 187-288). With a TLB only the TLB is   *)
(* looked at, and a miss returns TLBMiss; without one the page table is.   *)
(* The use and dirty bits of lines 254-258 are set on the local copy       *)
(* `entry` and never stored, and the updateTLB of line 277 is reached only *)
(* when tlbWriteFlag is still true, i.e. never (a miss returned at 233):   *)
(* a successful translation changes no entry.                              *)
Translate(m, v, writing, aligned) ==
  LET hits == TLBHits(m, v)
      pr   == pageTableTranslation(m, v)
      e    == IF UseTLB THEN m.tlb[Min(hits)]
              ELSE pr.m.pt[v]
      m1   == IF UseTLB THEN m ELSE pr.m
  IN  CASE ~aligned                       -> Result("AddressErrorException", m, -1)
        [] UseTLB /\ hits = {}            -> Result("TLBMissException", m, -1)
        [] ~UseTLB /\ pr.exc # "NoException" -> Result(pr.exc, pr.m, -1)
        [] e.readOnly /\ writing          -> Result("ReadOnlyException", m1, -1)
        [] e.ppn \notin Frames            -> Result("BusErrorException", m1, -1)
        [] OTHER                          -> Result("NoException", m1, e.ppn)
-----------------------------------------------------------------------------
(* The handlers below return the set of machines they may leave: the      *)
(* replacement policies of machine.cc, which is not in the source tree,   *)
(* are abstracted to a free choice of victim.                              *)

(* Machine::updateTLB (spec section 4.3): install the entry handed back by *)
(* pageTableTranslation in the first invalid slot, else in a victim slot.  *)
updateTLB(m, v) ==
  LET free  == {i \in Slots : ~m.tlb[i].valid}
      slots == IF free # {} THEN {Min(free)} ELSE Slots
      entry == [valid |-> TRUE, vpn |-> v, ppn |-> m.pt[v].ppn,
                readOnly |-> m.pt[v].readOnly, dirty |-> m.pt[v].dirty]
  IN  {[m EXCEPT !.tlb[i] = entry] : i \in slots}

(* Machine::findAvailablePageFrame: a frame whose mmBitmap bit is clear.   *)
FreeFrames(m) == {f \in Frames : ~m.mmBitmap[f]}

(* Fault variant of LoadPage: the frame's bitmap bit is not set.           *)
LoadPageNoMark(m, v, f) ==
  [m EXCEPT !.mem[f] = m.vm[v], !.pt[v].ppn = f, !.pt[v].valid = TRUE,
            !.pt[v].dirty = FALSE]

(* Machine::loadPageFrame (spec section 4.4): read v from the VM file into *)
(* frame f, map v to f with fresh use and dirty bits, mark f in use.       *)
LoadPage(m, v, f) ==
  [m EXCEPT !.mem[f] = m.vm[v], !.pt[v].ppn = f, !.pt[v].valid = TRUE,
            !.pt[v].dirty = FALSE, !.mmBitmap[f] = TRUE]

(* Eviction of victim u (spec section 4.2): written to the VM file only if *)
(* dirty, then invalid; the frame stays marked, for the page loaded next.  *)
EvictPage(m, u) ==
  [m EXCEPT !.vm[u] = IF m.pt[u].dirty THEN m.mem[m.pt[u].ppn] ELSE @,
            !.pt[u].valid = FALSE]

(* Fault variant of PageFault: off by one in the free frame returned.     *)
PageFaultFrameOffByOne(m, v) ==
  IF FreeFrames(m) # {}
  THEN {LoadPage(m, v, Min(FreeFrames(m)) + 1)}
  ELSE {LoadPage(EvictPage(m, u), v, m.pt[u].ppn) : u \in {j \in Pages : m.pt[j].valid}}

(* ExceptionHandler, PageFaultException (exception.cc 139-158): a free    *)
(* frame, else the frame of a victim found by findOneToReplace, then       *)
(* loadPageFrame.                                                          *)
PageFault(m, v) ==
  IF FreeFrames(m) # {}
  THEN {LoadPage(m, v, Min(FreeFrames(m)))}
  ELSE {LoadPage(EvictPage(m, u), v, m.pt[u].ppn) : u \in {j \in Pages : m.pt[j].valid}}

(* Nachos stops: "Unexpected user mode exception", ASSERTNOTREACHED.       *)
Abort(m) == {[m EXCEPT !.aborted = TRUE]}

(* Fault variant of TLBMiss: the entry found is not installed.             *)
TLBMissNoRefill(m, v) ==
  LET r == pageTableTranslation(m, v)
  IN  CASE r.exc = "NoException" -> {r.m}
        [] r.exc = "PageFaultException" -> PageFault(r.m, v)
        [] OTHER                 -> Abort(r.m)

(* ExceptionHandler, TLBMissException (exception.cc 159-176): translate    *)
(* through the page table, which may page in; a PageFault or an           *)
(* AddressError from it is handled by a nested ExceptionHandler call;      *)
(* only a success refills the TLB.                                         *)
TLBMiss(m, v) ==
  LET r == pageTableTranslation(m, v)
  IN  CASE r.exc = "NoException" -> updateTLB(r.m, v)
        [] r.exc = "PageFaultException" -> PageFault(r.m, v)
        [] OTHER                 -> Abort(r.m)

(* ExceptionHandler for the exceptions an access can raise.                *)
ExceptionHandler(m, exc, v) ==
  CASE exc = "PageFaultException" -> PageFault(m, v)
    [] exc = "TLBMissException"   -> TLBMiss(m, v)
    [] OTHER                      -> Abort(m)

(* Machine::ReadMem / WriteMem (translate.cc 86-170): Translate, then load *)
(* or store the frame; on an exception RaiseException runs the handler.    *)
MemAccess(m, i) ==
  LET r == Translate(m, i.v, i.writing, i.aligned)
  IN  IF r.exc = "NoException"
      THEN {IF i.writing THEN [r.m EXCEPT !.mem[r.ppn] = i.val] ELSE r.m}
      ELSE ExceptionHandler(r.m, r.exc, i.v)

(* SC_Exit in forward mode (exception.cc 90-101): the VM file of the       *)
(* thread's space is removed, every TLB slot is reset, and Finish ends the *)
(* thread. Neither the page table nor mmBitmap is touched.                 *)
SC_ExitForward(m) ==
  [m EXCEPT !.vm = [v \in Pages |-> NoData], !.tlb = [i \in Slots |-> EmptySlot]]

(* Fault variant of Syscall: SC_Add returns without advancing the PC.      *)
SyscallNoAdvance(m, type) ==
  CASE type = SC.Halt -> [m |-> m, ends |-> TRUE, done |-> FALSE]
    [] type = SC.Exit -> [m |-> SC_ExitForward(m), ends |-> TRUE, done |-> FALSE]
    [] type = SC.Add  -> [m |-> m, ends |-> FALSE, done |-> FALSE]
    [] OTHER          -> [m |-> [m EXCEPT !.aborted = TRUE], ends |-> FALSE, done |-> FALSE]

(* ExceptionHandler, SyscallException (exception.cc 58-135), with the      *)
(* machine after it, whether the program ends, and whether the PC moved on *)
(* (done: the syscall is not executed again). SysHalt does not return;     *)
(* SC_Add writes r2 and advances PrevPC, PC and NextPC; an unknown type    *)
(* breaks out of the switch to the ASSERTNOTREACHED of line 182.           *)
Syscall(m, type) ==
  CASE type = SC.Halt -> [m |-> m, ends |-> TRUE, done |-> FALSE]
    [] type = SC.Exit -> [m |-> SC_ExitForward(m), ends |-> TRUE, done |-> FALSE]
    [] type = SC.Add  -> [m |-> m, ends |-> FALSE, done |-> TRUE]
    [] OTHER          -> [m |-> [m EXCEPT !.aborted = TRUE], ends |-> FALSE, done |-> FALSE]
-----------------------------------------------------------------------------
(* The frames AddrSpace's layout assigns, and its choice of resident pages: *)
(* every assigned frame holds exactly one of the pages assigned to it.     *)
Assigned == {InitPPN[v] : v \in Pages} \ {-1}
ResidentSets ==
  {R \in SUBSET {v \in Pages : InitPPN[v] # -1} :
     \A f \in Assigned : Cardinality({v \in R : InitPPN[v] = f}) = 1}

Init ==
  /\ \E R \in ResidentSets :
       /\ pt = [v \in Pages |-> [ppn |-> InitPPN[v], valid |-> v \in R,
                                 readOnly |-> v \in ReadOnlyPages, dirty |-> FALSE]]
       /\ mem = [f \in Frames |->
                   IF \E v \in R : InitPPN[v] = f
                   THEN CHOOSE v \in R : InitPPN[v] = f ELSE NoData]
       /\ mmBitmap = [f \in Frames |-> f \in Assigned]
  /\ tlb = [i \in Slots |-> EmptySlot]
  /\ vm = [v \in Pages |-> v]
  /\ amem = [v \in Pages |-> v]
  /\ inst = NoInst
  /\ aborted = FALSE
  /\ ended = FALSE

(* The program's next load or store: a page (pageTableSize is one past the *)
(* last), aligned or not, and for a store the value.                       *)
Fetch(v, writing, val, aligned) ==
  /\ ~aborted /\ ~ended /\ inst = NoInst
  /\ inst' = [v |-> v, writing |-> writing, val |-> val, aligned |-> aligned, sys |-> -1]
  /\ UNCHANGED <<pt, tlb, mem, vm, mmBitmap, aborted, ended, amem>>

(* The program's next syscall instruction, with its type in r2.            *)
FetchSyscall(type) ==
  /\ ~aborted /\ ~ended /\ inst = NoInst
  /\ inst' = [NoInst EXCEPT !.sys = type]
  /\ UNCHANGED <<pt, tlb, mem, vm, mmBitmap, aborted, ended, amem>>

(* One execution of a load or store: the access, or the handler of the     *)
(* exception it raised, after which the instruction is executed again.     *)
ExecuteAccess ==
  /\ inst.sys = -1
  /\ LET done == Translate(machine, inst.v, inst.writing, inst.aligned).exc = "NoException"
     IN  /\ \E n \in MemAccess(machine, inst) : Apply(n)
         /\ inst' = IF done THEN NoInst ELSE inst
         /\ amem' = IF done /\ inst.writing THEN [amem EXCEPT ![inst.v] = inst.val] ELSE amem
         /\ UNCHANGED ended

(* One execution of a syscall instruction: the trap to ExceptionHandler.   *)
ExecuteSyscall ==
  /\ inst.sys # -1
  /\ LET r == Syscall(machine, inst.sys)
     IN  /\ Apply(r.m)
         /\ ended' = r.ends
         /\ inst' = IF r.done THEN NoInst ELSE inst
         /\ UNCHANGED amem

Execute ==
  /\ ~aborted /\ ~ended /\ inst # NoInst
  /\ (ExecuteAccess \/ ExecuteSyscall)

(* Nachos has aborted, or the program has ended; it executes no more.      *)
Stopped == (aborted \/ ended) /\ UNCHANGED vars

Next ==
  \/ \E v \in 0..pageTableSize, w \in BOOLEAN, a \in BOOLEAN :
       \E val \in (IF w THEN WriteVals ELSE {NoData}) : Fetch(v, w, val, a)
  \/ \E type \in SyscallTypes : FetchSyscall(type)
  \/ Execute
  \/ Stopped

(* Machine::Run keeps executing the user program's instructions.           *)
Spec == Init /\ [][Next]_vars /\ WF_vars(Execute)

-----------------------------------------------------------------------------
Entry == [ppn : Frames \cup {-1}, valid : BOOLEAN, readOnly : BOOLEAN, dirty : BOOLEAN]
TLBEntry == [valid : BOOLEAN, vpn : Pages \cup {-1}, ppn : Frames \cup {-1},
             readOnly : BOOLEAN, dirty : BOOLEAN]

(* The types, and spec section 3: a valid entry names a frame.            *)
TypeOK ==
  /\ pt \in [Pages -> Entry]
  /\ \A v \in Pages : pt[v].valid => pt[v].ppn \in Frames
  /\ tlb \in [Slots -> TLBEntry]
  /\ mem \in [Frames -> Values] /\ vm \in [Pages -> Values]
  /\ mmBitmap \in [Frames -> BOOLEAN]
  /\ amem \in [Pages -> Values]
  /\ aborted \in BOOLEAN /\ ended \in BOOLEAN
  /\ inst \in {NoInst} \cup [v : 0..pageTableSize, writing : BOOLEAN, val : Values,
                           aligned : BOOLEAN, sys : {-1}]
            \cup {[NoInst EXCEPT !.sys = type] : type \in SyscallTypes}

(* Spec section 8, invariants 1 and 4, across page-ins by the forward      *)
(* swap path (which moves a frame from one page to another without        *)
(* touching mmBitmap) and by PageFault (which allocates by mmBitmap): no   *)
(* frame is mapped by two valid entries, and a frame's bit is set exactly  *)
(* when a valid entry maps it.                                             *)
FramesConsistent ==
  \A f \in Frames :
    /\ Cardinality({v \in Pages : pt[v].valid /\ pt[v].ppn = f}) <= 1
    /\ mmBitmap[f] <=> \E v \in Pages : pt[v].valid /\ pt[v].ppn = f

(* Spec section 8, round-trip law: a load from any page that Translate     *)
(* would let through returns the value last stored to that page, whatever  *)
(* swapping, eviction and TLB refills happened in between, as long as the *)
(* program runs (SC_Exit removes its VM file).                             *)
DataRoundTrip ==
  ~ended => \A v \in Pages :
    LET r == Translate(machine, v, FALSE, TRUE)
    IN  r.exc = "NoException" => r.m.mem[r.ppn] = amem[v]

(* A faulting instruction is re-executed until it goes through: the        *)
(* PageFault and TLBMiss handlers make progress, so the retry loop of the  *)
(* machine ends (or Nachos aborts on a fatal exception). A syscall is not  *)
(* executed again either: SC_Add moves the PC on, SC_Halt and SC_Exit end  *)
(* the program.                                                            *)
InstructionCompletes == inst # NoInst ~> (inst = NoInst \/ aborted \/ ended)
=============================================================================
