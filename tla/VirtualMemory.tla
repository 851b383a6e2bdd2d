----------------------------- MODULE VirtualMemory -----------------------------
(***************************************************************************)
(* Demand paged virtual memory: the TLB, the inverted page table, the page *)
(* tables, the swap file and the eviction queue, as operators on a record  *)
(* of the machine's state.  Each operator is a routine that runs with      *)
(* interrupts off.                                                         *)
(***************************************************************************)
EXTENDS Integers, Sequences, FiniteSets, SequencesExt, FiniteSetsExt

CONSTANTS
  Spaces,           \* the address spaces: the addresses an AddrSpace object may have
  NumPhysPages,     \* frames of main memory (32)
  TLBSize,          \* entries of the TLB (4)
  NumSwapPages,     \* pages of the swap file (512)
  numNonStackPages, \* pages of code and data of a program
  StackPages,       \* pages of a stack, UserStackSize / PageSize (8)
  USEFIFO,          \* evict the oldest page (TRUE), or any page (FALSE)
  NoSpace           \* no address space

ASSUME MemoryAssumption ==
  /\ {NumPhysPages, TLBSize, NumSwapPages, StackPages} \subseteq Nat \ {0}
  /\ numNonStackPages \in Nat
  /\ USEFIFO \in BOOLEAN
  /\ NoSpace \notin Spaces

\* Frames, swap pages and virtual pages are counted from 1.
Frames == 1..NumPhysPages
SwapPages == 1..NumSwapPages

\* What a page may hold: page vpn of a space as it is in the executable (0) or as
\* the program has written it (1), or whatever was left there.  A frame or a page of
\* the swap file that is not in use is never read.
Garbage == <<>>
Contents == {Garbage} \cup (Spaces \X (Nat \ {0}) \X {0, 1})

PAGELOCATION == {"VOID", "EXEC", "MAIN", "SWAP"}

\* byteOffset is the page of the swap file, the page of the executable (the vpn
\* itself), -1, or Uninitialised.  use is never read and readOnly never set.
Uninitialised == -2
PageTableEntry ==
  [physicalPage : {-1} \cup Frames, valid : BOOLEAN, dirty : BOOLEAN, location : PAGELOCATION,
   byteOffset : {-1, Uninitialised} \cup Nat]

\* An entry of the IPT or the TLB that is not valid is never read.
IPTEntry == [PID : Spaces \cup {NoSpace}, virtualPage : Nat, valid : BOOLEAN, dirty : BOOLEAN]
TranslationEntry == [virtualPage : Nat, physicalPage : Nat, valid : BOOLEAN, dirty : BOOLEAN]
NoIPTEntry == [PID |-> NoSpace, virtualPage |-> 0, valid |-> FALSE, dirty |-> FALSE]
NoTranslation == [virtualPage |-> 0, physicalPage |-> 0, valid |-> FALSE, dirty |-> FALSE]

\* stopped tells whether the machine runs, was halted for want of swap space, or
\* was aborted by an assertion.
Memory ==
  [mainMemory : [Frames -> Contents], swapFile : [SwapPages -> Contents],
   tlb : [1..TLBSize -> TranslationEntry], currentTLB : 1..TLBSize,
   IPT : [Frames -> IPTEntry], FIFOList : Seq(Frames),
   pageTableBitMap : SUBSET Frames, swapBitMap : SUBSET SwapPages,
   pageTable : [Spaces -> Seq(PageTableEntry)], stopped : {"no", "swapFull", "aborted"}]

NewMemory ==
  [mainMemory |-> [f \in Frames |-> Garbage], swapFile |-> [p \in SwapPages |-> Garbage],
   tlb |-> [i \in 1..TLBSize |-> NoTranslation], currentTLB |-> 1,
   IPT |-> [f \in Frames |-> NoIPTEntry], FIFOList |-> <<>>,
   pageTableBitMap |-> {}, swapBitMap |-> {},
   pageTable |-> [s \in Spaces |-> <<>>], stopped |-> "no"]

\* BitMap::Find: the first clear bit, or 0 when there is none (-1 in the code).
Find(used, size) == IF used = 1..size THEN 0 ELSE Min((1..size) \ used)
-----------------------------------------------------------------------------
(***************************************************************************)
(* Address spaces.                                                         *)
(***************************************************************************)
StackPage(offset) ==
  [physicalPage |-> -1, valid |-> FALSE, dirty |-> FALSE, location |-> "VOID", byteOffset |-> offset]

ExecPage(vpn) == [StackPage(vpn) EXCEPT !.location = "EXEC"]

\* AddrSpace::AddrSpace
NewAddrSpace(m, s) ==
  [m EXCEPT !.pageTable[s] =
     [vpn \in 1..(numNonStackPages + StackPages) |->
        IF vpn <= numNonStackPages THEN ExecPage(vpn) ELSE StackPage(-1)]]

\* AddrSpace::Fork.  The new entries are not given a byteOffset.
AddStack(m, s) ==
  [m EXCEPT !.pageTable[s] = @ \o [i \in 1..StackPages |-> StackPage(Uninitialised)]]

\* AddrSpace::SaveState
SaveState(m) ==
  LET dirtied == {m.tlb[i].physicalPage : i \in {j \in 1..TLBSize : m.tlb[j].valid /\ m.tlb[j].dirty}}
  IN  [m EXCEPT !.IPT = [f \in Frames |-> IF f \in dirtied /\ @[f].valid
                                          THEN [@[f] EXCEPT !.dirty = TRUE] ELSE @[f]],
                !.tlb = [i \in 1..TLBSize |-> NoTranslation]]

\* The pages of pages that the space keeps in main memory, or in the swap file.
In(pt, pages, location) == {vpn \in pages : pt[vpn].valid /\ pt[vpn].location = location}

\* What both AddrSpace::Exit and ~AddrSpace do with the pages, the eviction queue
\* aside: clear the bits, the IPT and the TLB.
FreePages(m, s, pages) ==
  LET pt == m.pageTable[s]
      frames == {pt[vpn].physicalPage : vpn \in In(pt, pages, "MAIN")}
      slots == {pt[vpn].byteOffset : vpn \in In(pt, pages, "SWAP")}
  IN  SaveState([m EXCEPT
        !.pageTableBitMap = @ \ frames,
        !.mainMemory = [f \in Frames |-> IF f \in frames THEN Garbage ELSE @[f]],
        !.IPT = [f \in Frames |-> IF f \in frames THEN NoIPTEntry ELSE @[f]],
        !.swapBitMap = @ \ slots,
        !.swapFile = [p \in SwapPages |-> IF p \in slots THEN Garbage ELSE @[p]]])

\* The list without the first occurrence of each of the frames.
WithoutFrames(list, frames) ==
  LET first(i) == list[i] \in frames /\ \A j \in 1..(i - 1) : list[j] # list[i]
      kept[n \in 0..Len(list)] ==
        IF n = 0 THEN <<>> ELSE IF first(n) THEN kept[n - 1] ELSE Append(kept[n - 1], list[n])
  IN  kept[Len(list)]

\* AddrSpace::Exit, for the thread whose stack is the pages.
ExitSpace(m, s, stack) ==
  LET pt == m.pageTable[s]
      freed == FreePages(m, s, stack)
  IN  [freed EXCEPT
        !.FIFOList = WithoutFrames(@, {pt[vpn].physicalPage : vpn \in In(pt, stack, "MAIN")}),
        !.pageTable[s] = [vpn \in DOMAIN pt |->
                            IF vpn \in stack THEN [pt[vpn] EXCEPT !.valid = FALSE, !.physicalPage = -1]
                            ELSE pt[vpn]]]

\* One search of ~AddrSpace for the place to erase: it compares the list with the
\* page table at the same index, and reads beyond the page table where the list is
\* longer, so that it may then find any place or none.
EraseOne(pt, list) ==
  LET both == {ii \in DOMAIN list \cap DOMAIN pt : list[ii] = pt[ii].physicalPage}
  IN  IF both # {} THEN {RemoveAt(list, Min(both))}
      ELSE {list} \cup {RemoveAt(list, ii) : ii \in DOMAIN list \ DOMAIN pt}

\* Mutant: searches once for every page that is valid, in the swap file too.
EraseForEveryPage(pt, list) ==
  LET after[n \in 0..Len(pt)] ==
        IF n = 0 THEN {list} ELSE UNION {EraseOne(pt, l) : l \in after[n - 1]}
  IN  after[Cardinality({vpn \in DOMAIN pt : pt[vpn].valid})]

\* It searches once for every page in main memory.
EraseResults(pt, list) ==
  LET after[n \in 0..Len(pt)] ==
        IF n = 0 THEN {list} ELSE UNION {EraseOne(pt, l) : l \in after[n - 1]}
  IN  after[Cardinality(In(pt, DOMAIN pt, "MAIN"))]

\* AddrSpace::~AddrSpace, with one of the results of its searches.
DeleteSpace(m, s, fifo) ==
  [FreePages(m, s, DOMAIN m.pageTable[s]) EXCEPT !.FIFOList = fifo, !.pageTable[s] = <<>>]
-----------------------------------------------------------------------------
(***************************************************************************)
(* Page faults.                                                            *)
(***************************************************************************)
propogateCurTLBDirty(m, i) ==
  IF m.tlb[i].valid /\ m.tlb[i].dirty THEN [m EXCEPT !.IPT[m.tlb[i].physicalPage].dirty = TRUE] ELSE m

\* Mutant: the dirty bit of the TLB entry that is replaced is dropped.
PopulateLosesDirty(m, ppn) ==
  [m EXCEPT
     !.tlb[m.currentTLB] = [virtualPage |-> m.IPT[ppn].virtualPage, physicalPage |-> ppn,
                            valid |-> m.IPT[ppn].valid, dirty |-> m.IPT[ppn].dirty],
     !.currentTLB = (@ % TLBSize) + 1]

\* Mutant: the next TLB entry to replace is taken beyond the last.
PopulateNoWrap(m, ppn) == [PopulateLosesDirty(m, ppn) EXCEPT !.currentTLB = m.currentTLB + 1]

populateTLBFromIPTEntry(m, ppn) ==
  LET saved == propogateCurTLBDirty(m, m.currentTLB)
  IN  [saved EXCEPT
        !.tlb[m.currentTLB] = [virtualPage |-> saved.IPT[ppn].virtualPage, physicalPage |-> ppn,
                               valid |-> saved.IPT[ppn].valid, dirty |-> saved.IPT[ppn].dirty],
        !.currentTLB = (@ % TLBSize) + 1]

\* The page that handleMemoryFull evicts.
Victims(m) == IF USEFIFO THEN {Head(m.FIFOList)} ELSE Frames

\* The first TLB entry of a frame is invalidated and its dirty bit kept.
InvalidateTLB(m, ppn) ==
  LET matching == {i \in 1..TLBSize : m.tlb[i].valid /\ m.tlb[i].physicalPage = ppn}
  IN  IF matching = {} THEN m
      ELSE [propogateCurTLBDirty(m, Min(matching)) EXCEPT !.tlb[Min(matching)] = NoTranslation]

\* A dirty page goes to the swap file.  A clean one is said to be in the executable.
WriteBack(m, ppn) ==
  LET s == m.IPT[ppn].PID
      vpn == m.IPT[ppn].virtualPage
      slot == Find(m.swapBitMap, NumSwapPages)
  IN  IF ~m.IPT[ppn].dirty THEN [m EXCEPT !.pageTable[s][vpn].location = "EXEC"]
      ELSE IF slot = 0 THEN [m EXCEPT !.stopped = "swapFull"]
      ELSE [m EXCEPT !.swapBitMap = @ \cup {slot}, !.swapFile[slot] = m.mainMemory[ppn],
                     !.pageTable[s][vpn] = [@ EXCEPT !.location = "SWAP", !.byteOffset = slot, !.dirty = TRUE]]

removePageFromFIFOQ(m, ppn) == [m EXCEPT !.FIFOList = WithoutFrames(@, {ppn})]

handleMemoryFull(m, ppn) ==
  LET written == WriteBack(InvalidateTLB(m, ppn), ppn)
  IN  IF written.stopped # "no" THEN written
      ELSE removePageFromFIFOQ([written EXCEPT !.IPT[ppn] = NoIPTEntry], ppn)

\* Mutant: a page read from the swap file keeps its place there.
ReadKeepsSlot(m, s, vpn, ppn) ==
  LET entry == m.pageTable[s][vpn]
  IN  {[m EXCEPT !.mainMemory[ppn] = CASE entry.location = "EXEC" -> <<s, vpn, 0>>
                                       [] entry.location = "SWAP" -> m.swapFile[entry.byteOffset]
                                       [] OTHER -> Garbage]}

\* The page read from where its page table entry says it is: the machines that may
\* result.  A read of the executable at -1 fails an assertion; one at an offset that
\* was never set fails it too or reads anything.
ReadPage(m, s, vpn, ppn) ==
  LET entry == m.pageTable[s][vpn]
      abort == [m EXCEPT !.stopped = "aborted"]
      filled(contents) == [m EXCEPT !.mainMemory[ppn] = contents]
  IN  CASE entry.location = "EXEC" ->
             IF entry.byteOffset = -1 THEN {abort}
             ELSE IF entry.byteOffset = Uninitialised THEN {abort, filled(Garbage)}
             ELSE {filled(<<s, vpn, 0>>)}
        [] entry.location = "SWAP" ->
             {[filled(m.swapFile[entry.byteOffset]) EXCEPT !.swapBitMap = @ \ {entry.byteOffset},
                                                           !.swapFile[entry.byteOffset] = Garbage]}
        [] OTHER -> {filled(Garbage)}

\* The page tables once the page is in the frame.
MapPage(m, s, vpn, ppn) ==
  [m EXCEPT !.pageTable[s][vpn] = [@ EXCEPT !.physicalPage = ppn, !.valid = TRUE, !.location = "MAIN"],
            !.IPT[ppn] = [PID |-> s, virtualPage |-> vpn, valid |-> TRUE, dirty |-> m.pageTable[s][vpn].dirty],
            !.FIFOList = Append(@, ppn)]

\* The machines after a miss in the IPT, and the frame the page is in.
handleIPTmiss(m, s, vpn) ==
  LET free == Find(m.pageTableBitMap, NumPhysPages)
      rooms == IF free # 0 THEN {<<[m EXCEPT !.pageTableBitMap = @ \cup {free}], free>>}
               ELSE {<<handleMemoryFull(m, ppn), ppn>> : ppn \in Victims(m)}
      load(room) == IF room[1].stopped # "no" THEN {room}
                    ELSE {IF r.stopped # "no" THEN <<r, room[2]>>
                          ELSE <<MapPage(r, s, vpn, room[2]), room[2]>> : r \in ReadPage(room[1], s, vpn, room[2])}
  IN  UNION {load(room) : room \in rooms}

\* The machines after a page fault of the running space.
handleTLBMiss(m, s, vpn) ==
  LET hits == {f \in Frames : m.IPT[f].valid /\ m.IPT[f].PID = s /\ m.IPT[f].virtualPage = vpn}
      found == IF hits # {} THEN {<<m, Min(hits)>>} ELSE handleIPTmiss(m, s, vpn)
  IN  {IF r[1].stopped # "no" THEN r[1] ELSE populateTLBFromIPTEntry(r[1], r[2]) : r \in found}
-----------------------------------------------------------------------------
(***************************************************************************)
(* Machine::Translate, ReadMem and WriteMem.                               *)
(***************************************************************************)
\* The TLB entry of a page, 0 when there is none.
Translate(m, vpn) ==
  LET matching == {i \in 1..TLBSize : m.tlb[i].valid /\ m.tlb[i].virtualPage = vpn}
  IN  IF matching = {} THEN 0 ELSE Min(matching)

ReadMem(m, vpn) == m.mainMemory[m.tlb[Translate(m, vpn)].physicalPage]

WriteMem(m, vpn, contents) ==
  LET i == Translate(m, vpn)
  IN  [m EXCEPT !.tlb[i].dirty = TRUE, !.mainMemory[m.tlb[i].physicalPage] = contents]
=============================================================================
