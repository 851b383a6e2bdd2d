-------------------------- MODULE VirtualMemoryProofs --------------------------
(***************************************************************************)
(* The virtual memory: frames and swap pages are accounted for, and every  *)
(* page is where its page table says it is.                                *)
(***************************************************************************)
EXTENDS VirtualMemory, TLAPS, FiniteSetTheorems, SequenceTheorems, WellFoundedInduction

(***************************************************************************)
(* The invariant.                                                          *)
(***************************************************************************)
\* A page that is in main memory, or in the swap file.
IsAt(entry, location) == entry.valid /\ entry.location = location

\* A frame is in use when the IPT has it, or when a page is being read into it.
BitsRight(m, filling) ==
  /\ m.pageTableBitMap = {f \in Frames : m.IPT[f].valid} \cup filling
  /\ \A f \in filling : ~m.IPT[f].valid

\* The IPT and the page tables agree.
FramesOwned(m) ==
  \A f \in Frames : m.IPT[f].valid =>
    LET s == m.IPT[f].PID
        vpn == m.IPT[f].virtualPage
    IN  /\ s \in Spaces /\ vpn \in DOMAIN m.pageTable[s]
        /\ IsAt(m.pageTable[s][vpn], "MAIN") /\ m.pageTable[s][vpn].physicalPage = f

OnFrame(m, f, s, vpn) == f \in Frames /\ m.IPT[f].valid /\ m.IPT[f].PID = s /\ m.IPT[f].virtualPage = vpn

PagesMapped(m) ==
  \A s \in Spaces : \A vpn \in DOMAIN m.pageTable[s] :
    IsAt(m.pageTable[s][vpn], "MAIN") => OnFrame(m, m.pageTable[s][vpn].physicalPage, s, vpn)

\* The bits of the swap file are those of the pages in it, each of one page, and such a
\* page is dirty for good.
SlotsOwned(m) ==
  \A b \in m.swapBitMap : \E s \in Spaces : \E vpn \in DOMAIN m.pageTable[s] :
    IsAt(m.pageTable[s][vpn], "SWAP") /\ m.pageTable[s][vpn].byteOffset = b

PagesSwapped(m) ==
  \A s \in Spaces : \A vpn \in DOMAIN m.pageTable[s] : IsAt(m.pageTable[s][vpn], "SWAP") =>
    /\ m.pageTable[s][vpn].dirty /\ m.pageTable[s][vpn].byteOffset \in m.swapBitMap
    /\ \A r \in Spaces : \A p \in DOMAIN m.pageTable[r] :
         IsAt(m.pageTable[r][p], "SWAP") /\ m.pageTable[r][p].byteOffset = m.pageTable[s][vpn].byteOffset
           => r = s /\ p = vpn

QueueLong(m) == Len(m.FIFOList) >= Cardinality(m.pageTableBitMap)

\* The TLB has pages of the running space, each once.
TLBRight(m, space) ==
  \A i \in 1..TLBSize : m.tlb[i].valid =>
    LET f == m.tlb[i].physicalPage
    IN  /\ f \in Frames /\ m.IPT[f].valid /\ m.IPT[f].PID = space /\ m.IPT[f].virtualPage = m.tlb[i].virtualPage
        /\ \A j \in 1..TLBSize : m.tlb[j].valid /\ m.tlb[j].physicalPage = f => j = i

\* The page in a frame was written since it was read.
Dirty(m, f) == m.IPT[f].dirty \/ \E i \in 1..TLBSize : m.tlb[i].valid /\ m.tlb[i].dirty /\ m.tlb[i].physicalPage = f

\* A page the program knows is where its entry says, and if it is clean in main memory
\* it is in the executable.
PageRight(m, s, vpn, version) ==
  LET entry == m.pageTable[s][vpn]
      f == entry.physicalPage
  IN  \/ entry.location = "EXEC" /\ entry.byteOffset = vpn /\ version = 0
      \/ IsAt(entry, "SWAP") /\ m.swapFile[entry.byteOffset] = <<s, vpn, version>>
      \/ /\ IsAt(entry, "MAIN") /\ m.mainMemory[f] = <<s, vpn, version>>
         /\ Dirty(m, f) \/ (version = 0 /\ entry.byteOffset = vpn)

PagesRight(m, ver) ==
  \A s \in Spaces : /\ DOMAIN ver[s] = DOMAIN m.pageTable[s]
                    /\ \A vpn \in DOMAIN ver[s] : ver[s][vpn] # -1 => PageRight(m, s, vpn, ver[s][vpn])

Accounted(m, filling) ==
  /\ m \in Memory /\ BitsRight(m, filling) /\ FramesOwned(m) /\ PagesMapped(m)
  /\ SlotsOwned(m) /\ PagesSwapped(m)

Right(m, space, ver) ==
  /\ Accounted(m, {}) /\ m.stopped = "no" /\ QueueLong(m) /\ TLBRight(m, space) /\ PagesRight(m, ver)
-----------------------------------------------------------------------------
(***************************************************************************)
(* What the virtual memory does to the page tables.                        *)
(***************************************************************************)
\* A page table is a sequence of entries, whatever these are.
IsTable(pt) == pt \in Seq({pt[i] : i \in DOMAIN pt})

IsRecord(m) ==
  m \in [mainMemory : {m.mainMemory}, swapFile : {m.swapFile}, tlb : {m.tlb},
         currentTLB : {m.currentTLB}, IPT : {m.IPT}, FIFOList : {m.FIFOList},
         pageTableBitMap : {m.pageTableBitMap}, swapBitMap : {m.swapBitMap},
         pageTable : {m.pageTable}, stopped : {m.stopped}]

\* The memory is a record, in which every space has a page table.
WellFormed(m) ==
  /\ IsRecord(m)
  /\ m.pageTable = [s \in Spaces |-> m.pageTable[s]]
  /\ \A s \in Spaces : IsTable(m.pageTable[s])

\* The page tables are as long as they were.
SameTables(m, n) == WellFormed(n) /\ \A s \in Spaces : Len(n.pageTable[s]) = Len(m.pageTable[s])

LEMMA TableIs ==
  ASSUME NEW n \in Nat, NEW f, f = [i \in 1..n |-> f[i]]
  PROVE  IsTable(f) /\ Len(f) = n /\ DOMAIN f = 1..n
<1>1. DOMAIN f = 1..n
  OBVIOUS
<1>2. f \in [1..n -> {f[i] : i \in DOMAIN f}]
  BY <1>1
<1>3. f \in Seq({f[i] : i \in DOMAIN f})
  BY <1>2
<1> QED
  BY <1>1, <1>3 DEF IsTable

LEMMA IsATable ==
  ASSUME NEW f, IsTable(f)
  PROVE  Len(f) \in Nat /\ DOMAIN f = 1..Len(f) /\ f = [i \in 1..Len(f) |-> f[i]]
  BY DEF IsTable

LEMMA TablesUntouched ==
  ASSUME NEW m, NEW n, WellFormed(m), IsRecord(n), n.pageTable = m.pageTable
  PROVE  SameTables(m, n)
  BY DEF SameTables, WellFormed

\* One table is replaced by one that is as long.
LEMMA OneTable ==
  ASSUME NEW m, NEW n, NEW s, NEW f, WellFormed(m), IsRecord(n),
         n.pageTable = [m.pageTable EXCEPT ![s] = f],
         s \in Spaces => f = [i \in DOMAIN m.pageTable[s] |-> f[i]]
  PROVE  SameTables(m, n)
<1>1. DOMAIN m.pageTable = Spaces
  BY DEF WellFormed
<1>2. n.pageTable = [r \in Spaces |-> n.pageTable[r]]
  BY <1>1
<1>3. ASSUME NEW r \in Spaces
      PROVE  IsTable(n.pageTable[r]) /\ Len(n.pageTable[r]) = Len(m.pageTable[r])
  <2>1. IsTable(m.pageTable[r])
    BY DEF WellFormed
  <2>2. CASE r # s
    BY <1>1, <2>1, <2>2
  <2>3. CASE r = s
    <3>1. n.pageTable[r] = f
      BY <1>1, <2>3
    <3>2. Len(m.pageTable[r]) \in Nat /\ DOMAIN m.pageTable[r] = 1..Len(m.pageTable[r])
      BY <2>1, IsATable
    <3>3. f = [i \in 1..Len(m.pageTable[r]) |-> f[i]]
      BY <2>3, <3>2
    <3> QED
      BY <3>1, <3>2, <3>3, TableIs
  <2> QED
    BY <2>2, <2>3
<1> QED
  BY <1>2, <1>3 DEF SameTables, WellFormed

LEMMA SameTablesTransitive ==
  ASSUME NEW m, NEW n, NEW o, SameTables(m, n), SameTables(n, o)
  PROVE  SameTables(m, o)
  BY DEF SameTables

LEMMA SaveStateTables ==
  ASSUME NEW m, WellFormed(m)
  PROVE  SameTables(m, SaveState(m))
<1>1. IsRecord(SaveState(m)) /\ SaveState(m).pageTable = m.pageTable
  BY DEF WellFormed, IsRecord, SaveState
<1> QED
  BY <1>1, TablesUntouched

LEMMA FreePagesTables ==
  ASSUME NEW m, WellFormed(m), NEW s, NEW pages
  PROVE  /\ SameTables(m, FreePages(m, s, pages))
         /\ FreePages(m, s, pages).pageTable = m.pageTable
<1> DEFINE pt == m.pageTable[s]
           frames == {pt[vpn].physicalPage : vpn \in In(pt, pages, "MAIN")}
           slots == {pt[vpn].byteOffset : vpn \in In(pt, pages, "SWAP")}
           freed == [m EXCEPT
             !.pageTableBitMap = @ \ frames,
             !.mainMemory = [f \in Frames |-> IF f \in frames THEN Garbage ELSE @[f]],
             !.IPT = [f \in Frames |-> IF f \in frames THEN NoIPTEntry ELSE @[f]],
             !.swapBitMap = @ \ slots,
             !.swapFile = [p \in SwapPages |-> IF p \in slots THEN Garbage ELSE @[p]]]
<1> HIDE DEF pt, frames, slots
<1>1. IsRecord(freed) /\ freed.pageTable = m.pageTable
  BY DEF WellFormed, IsRecord
<1>2. FreePages(m, s, pages) = SaveState(freed)
  BY DEF FreePages, pt, frames, slots
<1> HIDE DEF freed
<1>3. SameTables(m, freed) /\ WellFormed(freed)
  BY <1>1, TablesUntouched DEF SameTables
<1>4. IsRecord(SaveState(freed)) /\ SaveState(freed).pageTable = freed.pageTable
  BY <1>1 DEF IsRecord, SaveState
<1> QED
  BY <1>1, <1>2, <1>4, TablesUntouched

LEMMA ExitSpaceTables ==
  ASSUME NEW m, WellFormed(m), NEW s, NEW stack
  PROVE  SameTables(m, ExitSpace(m, s, stack))
<1> DEFINE pt == m.pageTable[s]
           freed == FreePages(m, s, stack)
           list == WithoutFrames(freed.FIFOList, {pt[vpn].physicalPage : vpn \in In(pt, stack, "MAIN")})
           f == [vpn \in DOMAIN pt |->
                   IF vpn \in stack THEN [pt[vpn] EXCEPT !.valid = FALSE, !.physicalPage = -1] ELSE pt[vpn]]
<1>1. WellFormed(freed) /\ freed.pageTable = m.pageTable
  BY FreePagesTables DEF SameTables
<1>2. ExitSpace(m, s, stack) = [freed EXCEPT !.FIFOList = list, !.pageTable[s] = f]
  BY DEF ExitSpace
<1>3. f = [i \in DOMAIN m.pageTable[s] |-> f[i]]
  OBVIOUS
<1> HIDE DEF freed, list, f, pt
<1> DEFINE n == [freed EXCEPT !.FIFOList = list, !.pageTable[s] = f]
<1>4. IsRecord(n) /\ n.pageTable = [m.pageTable EXCEPT ![s] = f]
  BY <1>1 DEF WellFormed, IsRecord
<1>5. ExitSpace(m, s, stack) = n
  BY <1>2
<1> HIDE DEF n
<1> QED
  BY <1>3, <1>4, <1>5, OneTable

\* The space that is made has a table, and the others theirs.
LEMMA NewAddrSpaceTables ==
  ASSUME NEW m, WellFormed(m), NEW s \in Spaces
  PROVE  LET n == NewAddrSpace(m, s)
         IN  /\ WellFormed(n) /\ Len(n.pageTable[s]) > 0
             /\ \A r \in Spaces \ {s} : n.pageTable[r] = m.pageTable[r]
<1> DEFINE f == [vpn \in 1..(numNonStackPages + StackPages) |->
                   IF vpn <= numNonStackPages THEN ExecPage(vpn) ELSE StackPage(-1)]
           n == NewAddrSpace(m, s)
<1>1. n = [m EXCEPT !.pageTable[s] = f]
  BY DEF NewAddrSpace
<1>2. numNonStackPages + StackPages \in Nat \ {0}
  BY MemoryAssumption
<1>3. f = [i \in 1..(numNonStackPages + StackPages) |-> f[i]]
  OBVIOUS
<1>4. IsTable(f) /\ Len(f) > 0
  <2> HIDE DEF f
  <2> QED
    BY <1>2, <1>3, TableIs
<1> HIDE DEF f, n
<1>5. IsRecord(n) /\ n.pageTable = [m.pageTable EXCEPT ![s] = f]
  BY <1>1 DEF WellFormed, IsRecord
<1>6. DOMAIN m.pageTable = Spaces /\ \A r \in Spaces : IsTable(m.pageTable[r])
  BY DEF WellFormed
<1>7. n.pageTable[s] = f /\ \A r \in Spaces \ {s} : n.pageTable[r] = m.pageTable[r]
  BY <1>5, <1>6
<1>8. n.pageTable = [r \in Spaces |-> n.pageTable[r]]
  BY <1>5, <1>6
<1> QED
  BY <1>4, <1>5, <1>6, <1>7, <1>8 DEF WellFormed, n

LEMMA AddStackTables ==
  ASSUME NEW m, WellFormed(m), NEW s \in Spaces
  PROVE  LET n == AddStack(m, s)
         IN  /\ WellFormed(n) /\ Len(n.pageTable[s]) = Len(m.pageTable[s]) + StackPages
             /\ \A r \in Spaces \ {s} : n.pageTable[r] = m.pageTable[r]
<1> DEFINE g == [i \in 1..StackPages |-> StackPage(Uninitialised)]
           f == m.pageTable[s] \o g
           n == AddStack(m, s)
           k == Len(m.pageTable[s])
<1>1. n = [m EXCEPT !.pageTable[s] = f]
  BY DEF AddStack
<1>2. StackPages \in Nat \ {0}
  BY MemoryAssumption
<1>3. IsTable(g) /\ Len(g) = StackPages
  BY <1>2, TableIs
<1>4. IsTable(m.pageTable[s]) /\ k \in Nat
  BY IsATable DEF WellFormed
<1> HIDE DEF g
<1>5. Len(f) = k + StackPages /\ IsTable(f)
  <2> DEFINE E == {m.pageTable[s][i] : i \in DOMAIN m.pageTable[s]} \cup {g[i] : i \in DOMAIN g}
  <2>1. m.pageTable[s] \in Seq(E) /\ g \in Seq(E)
    BY <1>3, <1>4 DEF IsTable
  <2> HIDE DEF E
  <2>2. f \in Seq(E) /\ Len(f) = k + StackPages
    BY <1>3, <2>1
  <2>3. f = [i \in 1..(k + StackPages) |-> f[i]]
    BY <2>2
  <2> HIDE DEF f
  <2> QED
    BY <1>2, <1>4, <2>2, <2>3, TableIs
<1> HIDE DEF f, n
<1>6. IsRecord(n) /\ n.pageTable = [m.pageTable EXCEPT ![s] = f]
  BY <1>1 DEF WellFormed, IsRecord
<1>7. DOMAIN m.pageTable = Spaces /\ \A r \in Spaces : IsTable(m.pageTable[r])
  BY DEF WellFormed
<1>8. n.pageTable[s] = f /\ \A r \in Spaces \ {s} : n.pageTable[r] = m.pageTable[r]
  BY <1>6, <1>7
<1>9. n.pageTable = [r \in Spaces |-> n.pageTable[r]]
  BY <1>6, <1>7
<1> QED
  BY <1>5, <1>6, <1>7, <1>8, <1>9 DEF WellFormed, n

LEMMA DeleteSpaceTables ==
  ASSUME NEW m, WellFormed(m), NEW s \in Spaces, NEW fifo
  PROVE  LET n == DeleteSpace(m, s, fifo)
         IN  WellFormed(n) /\ \A r \in Spaces \ {s} : n.pageTable[r] = m.pageTable[r]
<1> DEFINE freed == FreePages(m, s, DOMAIN m.pageTable[s])
           n == DeleteSpace(m, s, fifo)
<1>1. WellFormed(freed) /\ freed.pageTable = m.pageTable
  BY FreePagesTables DEF SameTables
<1>2. n = [freed EXCEPT !.FIFOList = fifo, !.pageTable[s] = <<>>]
  BY DEF DeleteSpace
<1> HIDE DEF freed, n
<1>3. IsRecord(n) /\ n.pageTable = [m.pageTable EXCEPT ![s] = <<>>]
  BY <1>1, <1>2 DEF WellFormed, IsRecord
<1>4. DOMAIN m.pageTable = Spaces /\ \A r \in Spaces : IsTable(m.pageTable[r])
  BY DEF WellFormed
<1>5. n.pageTable[s] = <<>> /\ \A r \in Spaces \ {s} : n.pageTable[r] = m.pageTable[r]
  BY <1>3, <1>4
<1>6. n.pageTable = [r \in Spaces |-> n.pageTable[r]]
  BY <1>3, <1>4
<1>7. IsTable(<<>>)
  BY DEF IsTable
<1> QED
  BY <1>3, <1>4, <1>5, <1>6, <1>7 DEF WellFormed, n

LEMMA WriteMemTables ==
  ASSUME NEW m, WellFormed(m), NEW vpn, NEW contents
  PROVE  SameTables(m, WriteMem(m, vpn, contents))
<1> DEFINE i == Translate(m, vpn)
           n == [m EXCEPT !.tlb[i].dirty = TRUE, !.mainMemory[m.tlb[i].physicalPage] = contents]
<1>1. WriteMem(m, vpn, contents) = n
  BY DEF WriteMem
<1> HIDE DEF i
<1>2. IsRecord(n) /\ n.pageTable = m.pageTable
  BY DEF WellFormed, IsRecord
<1> HIDE DEF n
<1> QED
  BY <1>1, <1>2, TablesUntouched

LEMMA DirtyTables ==
  ASSUME NEW m, WellFormed(m), NEW i
  PROVE  SameTables(m, propogateCurTLBDirty(m, i))
<1> DEFINE n == propogateCurTLBDirty(m, i)
<1>1. IsRecord(n) /\ n.pageTable = m.pageTable
  BY DEF WellFormed, IsRecord, propogateCurTLBDirty
<1> HIDE DEF n
<1> QED
  BY <1>1, TablesUntouched DEF n

LEMMA PopulateTables ==
  ASSUME NEW m, WellFormed(m), NEW ppn
  PROVE  SameTables(m, populateTLBFromIPTEntry(m, ppn))
<1> DEFINE saved == propogateCurTLBDirty(m, m.currentTLB)
           entry == [virtualPage |-> saved.IPT[ppn].virtualPage, physicalPage |-> ppn,
                     valid |-> saved.IPT[ppn].valid, dirty |-> saved.IPT[ppn].dirty]
           n == populateTLBFromIPTEntry(m, ppn)
<1>1. SameTables(m, saved) /\ WellFormed(saved)
  BY DirtyTables DEF SameTables
<1>2. n = [saved EXCEPT !.tlb[m.currentTLB] = entry, !.currentTLB = (@ % TLBSize) + 1]
  BY DEF populateTLBFromIPTEntry
<1> HIDE DEF saved, entry, n
<1>3. IsRecord(n) /\ n.pageTable = saved.pageTable
  BY <1>1, <1>2 DEF WellFormed, IsRecord
<1>4. SameTables(saved, n)
  BY <1>1, <1>3, TablesUntouched
<1> QED
  BY <1>1, <1>4, SameTablesTransitive DEF n

LEMMA InvalidateTables ==
  ASSUME NEW m, WellFormed(m), NEW ppn
  PROVE  SameTables(m, InvalidateTLB(m, ppn))
<1> DEFINE matching == {i \in 1..TLBSize : m.tlb[i].valid /\ m.tlb[i].physicalPage = ppn}
           i == Min(matching)
           saved == propogateCurTLBDirty(m, i)
           n == [saved EXCEPT !.tlb[i] = NoTranslation]
<1>1. InvalidateTLB(m, ppn) = IF matching = {} THEN m ELSE n
  BY DEF InvalidateTLB
<1>2. SameTables(m, saved) /\ WellFormed(saved)
  BY DirtyTables DEF SameTables
<1> HIDE DEF saved, i, matching
<1>3. IsRecord(n) /\ n.pageTable = saved.pageTable
  BY <1>2 DEF WellFormed, IsRecord
<1> HIDE DEF n
<1>4. SameTables(saved, n)
  BY <1>2, <1>3, TablesUntouched
<1>5. SameTables(m, n)
  BY <1>2, <1>4, SameTablesTransitive
<1>6. SameTables(m, m)
  BY DEF SameTables
<1> QED
  BY <1>1, <1>5, <1>6

LEMMA WriteBackTables ==
  ASSUME NEW m, WellFormed(m), NEW ppn
  PROVE  SameTables(m, WriteBack(m, ppn))
<1> DEFINE s == m.IPT[ppn].PID
           vpn == m.IPT[ppn].virtualPage
           slot == Find(m.swapBitMap, NumSwapPages)
           f == [m.pageTable[s] EXCEPT ![vpn].location = "EXEC"]
           g == [m.pageTable[s] EXCEPT ![vpn] = [@ EXCEPT !.location = "SWAP", !.byteOffset = slot, !.dirty = TRUE]]
           clean == [m EXCEPT !.pageTable[s] = f]
           full == [m EXCEPT !.stopped = "swapFull"]
           swapped == [m EXCEPT !.swapBitMap = @ \cup {slot}, !.swapFile[slot] = m.mainMemory[ppn],
                                !.pageTable[s] = g]
<1>1. WriteBack(m, ppn) = IF ~m.IPT[ppn].dirty THEN clean ELSE IF slot = 0 THEN full ELSE swapped
  BY DEF WriteBack
<1>2. /\ f = [i \in DOMAIN m.pageTable[s] |-> f[i]]
      /\ g = [i \in DOMAIN m.pageTable[s] |-> g[i]]
  OBVIOUS
<1> HIDE DEF s, vpn, slot, f, g
<1>3. IsRecord(clean) /\ clean.pageTable = [m.pageTable EXCEPT ![s] = f]
  BY DEF WellFormed, IsRecord
<1>4. IsRecord(full) /\ full.pageTable = m.pageTable
  BY DEF WellFormed, IsRecord
<1>5. IsRecord(swapped) /\ swapped.pageTable = [m.pageTable EXCEPT ![s] = g]
  BY DEF WellFormed, IsRecord
<1> HIDE DEF clean, full, swapped
<1>6. SameTables(m, clean)
  BY <1>2, <1>3, OneTable
<1>7. SameTables(m, swapped)
  BY <1>2, <1>5, OneTable
<1>8. SameTables(m, full)
  BY <1>4, TablesUntouched
<1> QED
  BY <1>1, <1>6, <1>7, <1>8

LEMMA MemoryFullTables ==
  ASSUME NEW m, WellFormed(m), NEW ppn
  PROVE  SameTables(m, handleMemoryFull(m, ppn))
<1> DEFINE invalidated == InvalidateTLB(m, ppn)
           written == WriteBack(invalidated, ppn)
           list == WithoutFrames([written EXCEPT !.IPT[ppn] = NoIPTEntry].FIFOList, {ppn})
           n == [[written EXCEPT !.IPT[ppn] = NoIPTEntry] EXCEPT !.FIFOList = list]
<1>1. handleMemoryFull(m, ppn) = IF written.stopped # "no" THEN written ELSE n
  BY DEF handleMemoryFull, removePageFromFIFOQ
<1>2. SameTables(m, invalidated) /\ WellFormed(invalidated)
  BY InvalidateTables DEF SameTables
<1> HIDE DEF invalidated
<1>3. SameTables(invalidated, written) /\ WellFormed(written)
  BY <1>2, WriteBackTables DEF SameTables
<1> HIDE DEF written, list
<1>4. SameTables(m, written)
  BY <1>2, <1>3, SameTablesTransitive
<1>5. IsRecord(n) /\ n.pageTable = written.pageTable
  BY <1>3 DEF WellFormed, IsRecord
<1> HIDE DEF n
<1>6. SameTables(m, n)
  BY <1>3, <1>4, <1>5, TablesUntouched, SameTablesTransitive
<1> QED
  BY <1>1, <1>4, <1>6

LEMMA ReadPageTables ==
  ASSUME NEW m, WellFormed(m), NEW s, NEW vpn, NEW ppn, NEW n \in ReadPage(m, s, vpn, ppn)
  PROVE  SameTables(m, n)
<1> DEFINE slot == m.pageTable[s][vpn].byteOffset
           abort == [m EXCEPT !.stopped = "aborted"]
           filled(contents) == [m EXCEPT !.mainMemory[ppn] = contents]
           swapped == [filled(m.swapFile[slot]) EXCEPT !.swapBitMap = @ \ {slot}, !.swapFile[slot] = Garbage]
<1>1. n = abort \/ n = filled(Garbage) \/ n = filled(<<s, vpn, 0>>) \/ n = swapped
  BY DEF ReadPage
<1> HIDE DEF slot
<1>2. IsRecord(abort) /\ abort.pageTable = m.pageTable
  BY DEF WellFormed, IsRecord
<1>3. ASSUME NEW c PROVE IsRecord(filled(c)) /\ filled(c).pageTable = m.pageTable
  BY DEF WellFormed, IsRecord
<1>4. IsRecord(swapped) /\ swapped.pageTable = m.pageTable
  <2> DEFINE full == filled(m.swapFile[slot])
  <2>1. IsRecord(full) /\ full.pageTable = m.pageTable
    BY <1>3
  <2>2. swapped = [full EXCEPT !.swapBitMap = @ \ {slot}, !.swapFile[slot] = Garbage]
    OBVIOUS
  <2> HIDE DEF full, swapped
  <2> QED
    BY <2>1, <2>2 DEF IsRecord
<1>5. IsRecord(n) /\ n.pageTable = m.pageTable
  <2> HIDE DEF abort, filled, swapped
  <2> QED
    BY <1>1, <1>2, <1>3, <1>4
<1> QED
  BY <1>5, TablesUntouched

LEMMA MapPageTables ==
  ASSUME NEW m, WellFormed(m), NEW s, NEW vpn, NEW ppn
  PROVE  SameTables(m, MapPage(m, s, vpn, ppn))
<1> DEFINE f == [m.pageTable[s] EXCEPT ![vpn] = [@ EXCEPT !.physicalPage = ppn, !.valid = TRUE, !.location = "MAIN"]]
           entry == [PID |-> s, virtualPage |-> vpn, valid |-> TRUE, dirty |-> m.pageTable[s][vpn].dirty]
           n == [m EXCEPT !.pageTable[s] = f, !.IPT[ppn] = entry, !.FIFOList = Append(@, ppn)]
<1>1. MapPage(m, s, vpn, ppn) = n
  BY DEF MapPage
<1>2. f = [i \in DOMAIN m.pageTable[s] |-> f[i]]
  OBVIOUS
<1> HIDE DEF f, entry
<1>3. IsRecord(n) /\ n.pageTable = [m.pageTable EXCEPT ![s] = f]
  BY DEF WellFormed, IsRecord
<1> HIDE DEF n
<1> QED
  BY <1>1, <1>2, <1>3, OneTable

LEMMA IPTmissTables ==
  ASSUME NEW m, WellFormed(m), NEW s, NEW vpn, NEW r \in handleIPTmiss(m, s, vpn)
  PROVE  SameTables(m, r[1])
<1> DEFINE free == Find(m.pageTableBitMap, NumPhysPages)
           taken == [m EXCEPT !.pageTableBitMap = @ \cup {free}]
           rooms == IF free # 0 THEN {<<taken, free>>} ELSE {<<handleMemoryFull(m, ppn), ppn>> : ppn \in Victims(m)}
           load(room) == IF room[1].stopped # "no" THEN {room}
                         ELSE {IF n.stopped # "no" THEN <<n, room[2]>>
                               ELSE <<MapPage(n, s, vpn, room[2]), room[2]>> : n \in ReadPage(room[1], s, vpn, room[2])}
<1>1. PICK room \in rooms : r \in load(room)
  BY DEF handleIPTmiss
<1>2. SameTables(m, taken)
  <2> HIDE DEF free
  <2>1. IsRecord(taken) /\ taken.pageTable = m.pageTable
    BY DEF WellFormed, IsRecord
  <2> HIDE DEF taken
  <2> QED
    BY <2>1, TablesUntouched
<1>3. SameTables(m, room[1])
  <2> HIDE DEF taken, free
  <2> QED
    BY <1>1, <1>2, MemoryFullTables
<1> HIDE DEF rooms
<1>4. CASE room[1].stopped # "no"
  BY <1>1, <1>3, <1>4
<1>5. CASE room[1].stopped = "no"
  <2>1. PICK n \in ReadPage(room[1], s, vpn, room[2]) :
              r[1] = IF n.stopped # "no" THEN n ELSE MapPage(n, s, vpn, room[2])
    BY <1>1, <1>5
  <2>2. SameTables(room[1], n) /\ WellFormed(n)
    BY <1>3, ReadPageTables DEF SameTables
  <2>3. SameTables(n, MapPage(n, s, vpn, room[2]))
    BY <2>2, MapPageTables
  <2> QED
    BY <1>3, <2>1, <2>2, <2>3, SameTablesTransitive
<1> QED
  BY <1>4, <1>5

LEMMA TLBMissTables ==
  ASSUME NEW m, WellFormed(m), NEW s, NEW vpn, NEW n \in handleTLBMiss(m, s, vpn)
  PROVE  SameTables(m, n)
<1> DEFINE hits == {f \in Frames : m.IPT[f].valid /\ m.IPT[f].PID = s /\ m.IPT[f].virtualPage = vpn}
           found == IF hits # {} THEN {<<m, Min(hits)>>} ELSE handleIPTmiss(m, s, vpn)
<1>1. PICK r \in found : n = IF r[1].stopped # "no" THEN r[1] ELSE populateTLBFromIPTEntry(r[1], r[2])
  BY DEF handleTLBMiss
<1>2. SameTables(m, m)
  BY DEF SameTables
<1>3. SameTables(m, r[1])
  <2> HIDE DEF hits
  <2> QED
    BY <1>1, <1>2, IPTmissTables
<1>4. SameTables(r[1], populateTLBFromIPTEntry(r[1], r[2]))
  BY <1>3, PopulateTables DEF SameTables
<1> QED
  BY <1>1, <1>3, <1>4, SameTablesTransitive
-----------------------------------------------------------------------------
(***************************************************************************)
(* Induction over sets of numbers.                                         *)
(***************************************************************************)
LEMMA FirstNumber ==
  ASSUME NEW T \in SUBSET Nat, T # {}
  PROVE  \E x \in T : \A y \in T : ~(y < x)
<1> DEFINE R == OpToRel(<, Nat)
<1>1. R = {ss \in Nat \X Nat : ss[1] < ss[2]}
  BY DEF OpToRel
<1>2. IsWellFoundedOn(R, Nat)
  BY NatLessThanWellFounded
<1> HIDE DEF R
<1>3. PICK x \in T : \A y \in T : <<y, x>> \notin R
  BY <1>2, WFMin
<1>4. \A y \in T : y < x => <<y, x>> \in R
  BY <1>1
<1> QED
  BY <1>3, <1>4

LEMMA EveryNumber ==
  ASSUME NEW S \in SUBSET Nat, 0 \in S, \A n \in S : n + 1 \in S
  PROVE  S = Nat
<1> DEFINE T == Nat \ S
<1>1. SUFFICES ASSUME T # {} PROVE FALSE
  OBVIOUS
<1>2. PICK x \in T : \A y \in T : ~(y < x)
  BY <1>1, FirstNumber
<1>3. x # 0 /\ x - 1 \in Nat
  OBVIOUS
<1>4. x - 1 \in S
  BY <1>2, <1>3
<1>5. (x - 1) + 1 \in S
  BY <1>4
<1> QED
  BY <1>5

\* Min is the least element of a set of frames, TLB entries or swap pages.
LEMMA MinIn ==
  ASSUME NEW T \in SUBSET Nat, T # {}
  PROVE  Min(T) \in T
<1>1. PICK x \in T : \A y \in T : ~(y < x)
  BY FirstNumber
<1>2. \A y \in T : x =< y
  BY <1>1
<1> QED
  BY <1>1, <1>2 DEF Min
-----------------------------------------------------------------------------
(***************************************************************************)
(* The eviction queue.                                                     *)
(***************************************************************************)
\* Place i of the list has the first occurrence of one of the frames.
First(list, frames, i) == list[i] \in frames /\ \A j \in 1..(i - 1) : list[j] # list[i]

Keep(list, frames, l, n) == IF First(list, frames, n) THEN l ELSE Append(l, list[n])

\* f[i] is what is kept of the first i places.
Keeps(list, frames, n, f) ==
  f \in [0..n -> Seq(Frames)] /\ f[0] = <<>> /\ \A i \in 1..n : f[i] = Keep(list, frames, f[i - 1], i)

LEMMA KeepOneMore ==
  ASSUME NEW list \in Seq(Frames), NEW frames, NEW n \in Nat, n + 1 <= Len(list), NEW f, Keeps(list, frames, n, f)
  PROVE  \E g : Keeps(list, frames, n + 1, g)
<1> DEFINE e == Keep(list, frames, f[n], n + 1)
           g == [i \in 0..(n + 1) |-> IF i = n + 1 THEN e ELSE f[i]]
<1>1. e \in Seq(Frames)
  <2>1. list[n + 1] \in Frames /\ f[n] \in Seq(Frames)
    BY DEF Keeps
  <2> QED
    BY <2>1 DEF Keep
<1>2. g[n + 1] = Keep(list, frames, f[n], n + 1) /\ \A i \in 0..n : g[i] = f[i]
  OBVIOUS
<1>3. g \in [0..(n + 1) -> Seq(Frames)]
  <2> HIDE DEF e
  <2> QED
    BY <1>1 DEF Keeps
<1> HIDE DEF g
<1>4. ASSUME NEW i \in 1..(n + 1) PROVE g[i] = Keep(list, frames, g[i - 1], i)
  <2>1. CASE i = n + 1
    <3>1. i - 1 = n /\ n \in 0..n
      BY <2>1
    <3> QED
      BY <1>2, <2>1, <3>1
  <2>2. CASE i \in 1..n
    <3>1. i \in 0..n /\ i - 1 \in 0..n
      BY <2>2
    <3>2. f[i] = Keep(list, frames, f[i - 1], i)
      BY <2>2 DEF Keeps
    <3> QED
      BY <1>2, <3>1, <3>2
  <2> QED
    BY <2>1, <2>2
<1>5. g[0] = <<>>
  BY <1>2 DEF Keeps
<1> QED
  BY <1>3, <1>4, <1>5 DEF Keeps

LEMMA KeepAll ==
  ASSUME NEW list \in Seq(Frames), NEW frames
  PROVE  \E f : Keeps(list, frames, Len(list), f)
<1> DEFINE S == {n \in Nat : n <= Len(list) => \E f : Keeps(list, frames, n, f)}
<1>1. 0 \in S
  <2> DEFINE f == [i \in 0..0 |-> <<>>]
  <2>1. Keeps(list, frames, 0, f)
    BY DEF Keeps
  <2> QED
    BY <2>1
<1>2. \A n \in S : n + 1 \in S
  BY KeepOneMore
<1> HIDE DEF S
<1>3. S = Nat
  BY <1>1, <1>2, EveryNumber DEF S
<1>4. Len(list) \in Nat /\ Len(list) <= Len(list)
  OBVIOUS
<1> QED
  BY <1>3, <1>4 DEF S

LEMMA WithoutFramesKeeps ==
  ASSUME NEW list \in Seq(Frames), NEW frames
  PROVE  \E f : Keeps(list, frames, Len(list), f) /\ WithoutFrames(list, frames) = f[Len(list)]
<1> DEFINE E(f) == f = [n \in 0..Len(list) |->
                          IF n = 0 THEN <<>> ELSE IF list[n] \in frames /\ \A j \in 1..(n - 1) : list[j] # list[n]
                          THEN f[n - 1] ELSE Append(f[n - 1], list[n])]
           F == CHOOSE f : E(f)
<1>0. Len(list) \in Nat
  OBVIOUS
<1>1. WithoutFrames(list, frames) = F[Len(list)]
  BY DEF WithoutFrames
<1>2. PICK f : Keeps(list, frames, Len(list), f)
  BY KeepAll
<1>3. E(f)
  <2> DEFINE g == [n \in 0..Len(list) |->
                     IF n = 0 THEN <<>> ELSE IF list[n] \in frames /\ \A j \in 1..(n - 1) : list[j] # list[n]
                     THEN f[n - 1] ELSE Append(f[n - 1], list[n])]
  <2>1. ASSUME NEW n \in 0..Len(list) PROVE f[n] = g[n]
    <3>1. CASE n = 0
      BY <1>2, <3>1 DEF Keeps
    <3>2. CASE n \in 1..Len(list)
      BY <1>2, <3>2 DEF Keeps, Keep, First
    <3> QED
      BY <1>0, <3>1, <3>2
  <2>2. f = [n \in 0..Len(list) |-> f[n]]
    BY <1>2 DEF Keeps
  <2> HIDE DEF g
  <2>3. g = [n \in 0..Len(list) |-> g[n]]
    BY DEF g
  <2>4. f = g
    BY <2>1, <2>2, <2>3
  <2> QED
    BY <2>4 DEF g
<1>4. E(F)
  BY <1>3
<1> HIDE DEF F
<1>5. ASSUME NEW n \in 0..Len(list) PROVE F[n] = IF n = 0 THEN <<>> ELSE Keep(list, frames, F[n - 1], n)
  BY <1>4 DEF Keep, First
<1>6. DOMAIN F = 0..Len(list) /\ F = [n \in 0..Len(list) |-> F[n]]
  BY <1>4
<1> HIDE DEF E
<1> DEFINE S == {n \in Nat : n <= Len(list) => F[n] \in Seq(Frames)}
<1>7. 0 \in S
  <2>1. 0 \in 0..Len(list)
    BY <1>0
  <2>2. F[0] = <<>>
    BY <1>5, <2>1
  <2>3. F[0] \in Seq(Frames)
    BY <2>2
  <2> QED
    BY <2>3
<1>8. ASSUME NEW n \in S PROVE n + 1 \in S
  <2>1. SUFFICES ASSUME n + 1 <= Len(list) PROVE F[n + 1] \in Seq(Frames)
    OBVIOUS
  <2>2. F[n] \in Seq(Frames) /\ list[n + 1] \in Frames
    BY <2>1
  <2>3. F[n + 1] = Keep(list, frames, F[n], n + 1)
    BY <1>0, <1>5, <2>1
  <2> QED
    BY <2>2, <2>3 DEF Keep
<1> HIDE DEF S
<1>9. S = Nat
  BY <1>7, <1>8, EveryNumber DEF S
<1>10. F \in [0..Len(list) -> Seq(Frames)]
  BY <1>0, <1>6, <1>9 DEF S
<1>11. Keeps(list, frames, Len(list), F)
  BY <1>0, <1>5, <1>10 DEF Keeps
<1> QED
  BY <1>1, <1>11

\* No more places are dropped than there are frames.
LEMMA WithoutFramesLong ==
  ASSUME NEW list \in Seq(Frames), NEW frames, IsFiniteSet(frames)
  PROVE  /\ WithoutFrames(list, frames) \in Seq(Frames)
         /\ Len(list) <= Len(WithoutFrames(list, frames)) + Cardinality(frames)
<1>1. PICK f : Keeps(list, frames, Len(list), f) /\ WithoutFrames(list, frames) = f[Len(list)]
  BY WithoutFramesKeeps
<1>2. Len(list) \in Nat /\ DOMAIN list = 1..Len(list)
  OBVIOUS
<1> DEFINE Dropped(n) == {list[i] : i \in {j \in 1..n : First(list, frames, j)}}
           S == {n \in Nat : n <= Len(list) => n = Len(f[n]) + Cardinality(Dropped(n))}
<1>3. ASSUME NEW n \in Nat PROVE Dropped(n) \in SUBSET frames /\ IsFiniteSet(Dropped(n)) /\ Cardinality(Dropped(n)) \in Nat
  <2>1. Dropped(n) \in SUBSET frames
    BY DEF First
  <2> HIDE DEF Dropped
  <2>2. IsFiniteSet(Dropped(n))
    BY <2>1, FS_Subset
  <2> QED
    BY <2>1, <2>2, FS_CardinalityType
<1>4. 0 \in S
  <2>1. Dropped(0) = {}
    OBVIOUS
  <2>2. f[0] = <<>> /\ Cardinality({}) = 0
    BY <1>1, FS_EmptySet DEF Keeps
  <2> HIDE DEF Dropped
  <2>3. Len(f[0]) = 0 /\ Cardinality(Dropped(0)) = 0
    BY <2>1, <2>2
  <2>4. 0 = Len(f[0]) + Cardinality(Dropped(0))
    BY <2>3
  <2> QED
    BY <2>4
<1>5. ASSUME NEW n \in S PROVE n + 1 \in S
  <2>1. SUFFICES ASSUME n + 1 <= Len(list) PROVE n + 1 = Len(f[n + 1]) + Cardinality(Dropped(n + 1))
    OBVIOUS
  <2>2. n \in Nat /\ n + 1 \in 1..Len(list) /\ n \in 0..Len(list) /\ (n + 1) - 1 = n
    BY <1>2, <2>1
  <2>3. n = Len(f[n]) + Cardinality(Dropped(n))
    BY <2>1, <2>2
  <2>4. f[n + 1] = Keep(list, frames, f[n], n + 1) /\ f[n] \in Seq(Frames)
    BY <1>1, <2>2 DEF Keeps
  <2>5. 1..(n + 1) = (1..n) \cup {n + 1}
    BY <2>2
  <2>6. CASE First(list, frames, n + 1)
    <3>1. Dropped(n + 1) = Dropped(n) \cup {list[n + 1]}
      BY <2>5, <2>6
    <3>2. list[n + 1] \notin Dropped(n)
      BY <2>2, <2>6 DEF First
    <3> HIDE DEF Dropped
    <3>3. Cardinality(Dropped(n + 1)) = Cardinality(Dropped(n)) + 1
      <4>1. IsFiniteSet(Dropped(n))
        BY <1>3, <2>2
      <4>2. Cardinality(Dropped(n) \cup {list[n + 1]}) = Cardinality(Dropped(n)) + 1
        BY <3>2, <4>1, FS_AddElement
      <4> QED
        BY <3>1, <4>2
    <3>4. f[n + 1] = f[n] /\ Len(f[n]) \in Nat
      BY <2>4, <2>6 DEF Keep
    <3>5. Cardinality(Dropped(n)) \in Nat
      BY <1>3, <2>2
    <3>6. Len(f[n + 1]) = Len(f[n])
      BY <3>4
    <3> QED
      BY <2>2, <2>3, <3>3, <3>4, <3>5, <3>6
  <2>7. CASE ~First(list, frames, n + 1)
    <3>1. Dropped(n + 1) = Dropped(n)
      BY <2>5, <2>7
    <3> HIDE DEF Dropped
    <3>2. f[n + 1] = Append(f[n], list[n + 1]) /\ list[n + 1] \in Frames
      BY <2>2, <2>4, <2>7 DEF Keep
    <3>3. Len(f[n + 1]) = Len(f[n]) + 1 /\ Len(f[n]) \in Nat
      BY <2>4, <3>2
    <3>4. Cardinality(Dropped(n)) \in Nat /\ Cardinality(Dropped(n + 1)) = Cardinality(Dropped(n))
      BY <1>3, <2>2, <3>1
    <3> QED
      BY <2>2, <2>3, <3>3, <3>4
  <2> QED
    BY <2>6, <2>7
<1>6. S = Nat
  <2> HIDE DEF S
  <2>1. S \in SUBSET Nat
    BY DEF S
  <2> QED
    BY <1>4, <1>5, <2>1, EveryNumber
<1>7. Len(list) = Len(f[Len(list)]) + Cardinality(Dropped(Len(list)))
  BY <1>2, <1>6
<1>8. f[Len(list)] \in Seq(Frames)
  BY <1>1, <1>2 DEF Keeps
<1> HIDE DEF Dropped, S
<1>9. Cardinality(Dropped(Len(list))) <= Cardinality(frames) /\ Cardinality(frames) \in Nat
  BY <1>2, <1>3, FS_Subset, FS_CardinalityType
<1>10. Len(f[Len(list)]) \in Nat /\ Cardinality(Dropped(Len(list))) \in Nat
  BY <1>2, <1>3, <1>8
<1>11. Len(list) <= Len(f[Len(list)]) + Cardinality(frames)
  BY <1>2, <1>7, <1>9, <1>10
<1> QED
  BY <1>1, <1>8, <1>11

LEMMA RemoveAtLength ==
  ASSUME NEW list \in Seq(Frames), NEW i \in DOMAIN list
  PROVE  RemoveAt(list, i) \in Seq(Frames) /\ Len(list) = Len(RemoveAt(list, i)) + 1
<1>1. Len(list) \in Nat /\ i \in 1..Len(list) /\ \A j \in 1..Len(list) : list[j] \in Frames
  OBVIOUS
<1>2. SubSeq(list, 1, i - 1) \in Seq(Frames) /\ Len(SubSeq(list, 1, i - 1)) = i - 1
  BY <1>1
<1>3. SubSeq(list, i + 1, Len(list)) \in Seq(Frames) /\ Len(SubSeq(list, i + 1, Len(list))) = Len(list) - i
  BY <1>1
<1> DEFINE a == SubSeq(list, 1, i - 1)
           b == SubSeq(list, i + 1, Len(list))
<1> HIDE DEF a, b
<1>4. a \o b \in Seq(Frames) /\ Len(a \o b) = Len(a) + Len(b)
  BY <1>2, <1>3 DEF a, b
<1>5. RemoveAt(list, i) = a \o b
  BY DEF RemoveAt, a, b
<1>6. Len(a) = i - 1 /\ Len(b) = Len(list) - i
  BY <1>2, <1>3 DEF a, b
<1> QED
  BY <1>1, <1>4, <1>5, <1>6

\* One search erases at most one place.
LEMMA EraseOneLong ==
  ASSUME NEW pt, NEW list \in Seq(Frames), NEW l \in EraseOne(pt, list)
  PROVE  l \in Seq(Frames) /\ Len(list) <= Len(l) + 1
<1> DEFINE both == {ii \in DOMAIN list \cap DOMAIN pt : list[ii] = pt[ii].physicalPage}
<1>1. CASE both # {}
  <2>1. both \in SUBSET Nat /\ both \subseteq DOMAIN list
    OBVIOUS
  <2>2. l = RemoveAt(list, Min(both))
    BY <1>1 DEF EraseOne
  <2> HIDE DEF both
  <2>3. Min(both) \in DOMAIN list
    BY <1>1, <2>1, MinIn
  <2>4. RemoveAt(list, Min(both)) \in Seq(Frames) /\ Len(list) = Len(RemoveAt(list, Min(both))) + 1
    BY <2>3, RemoveAtLength
  <2> QED
    BY <2>2, <2>4
<1>2. CASE both = {}
  <2>1. l = list \/ \E ii \in DOMAIN list : l = RemoveAt(list, ii)
    BY <1>2 DEF EraseOne
  <2> QED
    BY <2>1, RemoveAtLength
<1> QED
  BY <1>1, <1>2

EraseAll(pt, lists) == UNION {EraseOne(pt, l) : l \in lists}

\* f[i] is what i searches may leave of the list.
Erases(pt, list, n, f) ==
  f = [i \in 0..n |-> f[i]] /\ f[0] = {list} /\ \A i \in 1..n : f[i] = EraseAll(pt, f[i - 1])

LEMMA EraseOneMore ==
  ASSUME NEW pt, NEW list, NEW n \in Nat, NEW f, Erases(pt, list, n, f)
  PROVE  \E g : Erases(pt, list, n + 1, g)
<1> DEFINE e == EraseAll(pt, f[n])
           g == [i \in 0..(n + 1) |-> IF i = n + 1 THEN e ELSE f[i]]
<1>1. g[n + 1] = EraseAll(pt, f[n]) /\ \A i \in 0..n : g[i] = f[i]
  OBVIOUS
<1>2. g = [i \in 0..(n + 1) |-> g[i]]
  OBVIOUS
<1> HIDE DEF g
<1>3. ASSUME NEW i \in 1..(n + 1) PROVE g[i] = EraseAll(pt, g[i - 1])
  <2>1. CASE i = n + 1
    <3>1. i - 1 = n /\ n \in 0..n
      BY <2>1
    <3> QED
      BY <1>1, <2>1, <3>1
  <2>2. CASE i \in 1..n
    <3>1. i \in 0..n /\ i - 1 \in 0..n
      BY <2>2
    <3>2. f[i] = EraseAll(pt, f[i - 1])
      BY <2>2 DEF Erases
    <3> QED
      BY <1>1, <3>1, <3>2
  <2> QED
    BY <2>1, <2>2
<1>4. g[0] = {list}
  BY <1>1 DEF Erases
<1> QED
  BY <1>2, <1>3, <1>4 DEF Erases

LEMMA EraseExists ==
  ASSUME NEW pt, NEW list, NEW n \in Nat
  PROVE  \E f : Erases(pt, list, n, f)
<1> DEFINE S == {k \in Nat : \E f : Erases(pt, list, k, f)}
<1>1. 0 \in S
  <2> DEFINE f == [i \in 0..0 |-> {list}]
  <2>1. Erases(pt, list, 0, f)
    BY DEF Erases
  <2> QED
    BY <2>1
<1>2. \A k \in S : k + 1 \in S
  BY EraseOneMore
<1> HIDE DEF S
<1>3. S = Nat
  BY <1>1, <1>2, EveryNumber DEF S
<1> QED
  BY <1>3 DEF S

\* The searches erase at most one place for each page in main memory.
LEMMA EraseResultsLong ==
  ASSUME NEW pt, NEW n \in Nat, n = Len(pt), DOMAIN pt = 1..n, NEW list \in Seq(Frames), NEW l \in EraseResults(pt, list)
  PROVE  l \in Seq(Frames) /\ Len(list) <= Len(l) + Cardinality(In(pt, DOMAIN pt, "MAIN"))
<1> DEFINE E(f) == f = [i \in 0..Len(pt) |-> IF i = 0 THEN {list} ELSE UNION {EraseOne(pt, ll) : ll \in f[i - 1]}]
           F == CHOOSE f : E(f)
           c == Cardinality(In(pt, DOMAIN pt, "MAIN"))
<1>1. EraseResults(pt, list) = F[c]
  BY DEF EraseResults
<1>2. PICK f : Erases(pt, list, n, f)
  BY EraseExists
<1>3. E(f)
  BY <1>2 DEF Erases, EraseAll
<1>4. E(F)
  BY <1>3
<1> HIDE DEF F
<1>5. F[0] = {list} /\ \A i \in 1..n : F[i] = EraseAll(pt, F[i - 1])
  <2>1. ASSUME NEW i \in 0..n PROVE F[i] = IF i = 0 THEN {list} ELSE EraseAll(pt, F[i - 1])
    BY <1>4 DEF EraseAll
  <2>2. 0 \in 0..n /\ \A i \in 1..n : i \in 0..n /\ i # 0
    OBVIOUS
  <2> QED
    BY <2>1, <2>2
<1>6. c \in 0..n
  <2>1. In(pt, DOMAIN pt, "MAIN") \in SUBSET (1..n)
    BY DEF In
  <2>2. IsFiniteSet(1..n) /\ Cardinality(1..n) = n
    <3>1. 1 \in Int /\ n \in Int /\ (IF 1 > n THEN 0 ELSE n - 1 + 1) = n
      OBVIOUS
    <3>2. IsFiniteSet(1..n) /\ Cardinality(1..n) = IF 1 > n THEN 0 ELSE n - 1 + 1
      BY <3>1, FS_Interval
    <3> QED
      BY <3>1, <3>2
  <2>3. IsFiniteSet(In(pt, DOMAIN pt, "MAIN")) /\ Cardinality(In(pt, DOMAIN pt, "MAIN")) <= n
    BY <2>1, <2>2, FS_Subset
  <2>4. Cardinality(In(pt, DOMAIN pt, "MAIN")) \in Nat
    BY <2>3, FS_CardinalityType
  <2> QED
    BY <2>3, <2>4
<1> HIDE DEF E, c
<1> DEFINE Long(i, k) == k \in Seq(Frames) /\ Len(list) <= Len(k) + i
           S == {i \in Nat : i <= n => \A k \in F[i] : Long(i, k)}
<1>7. 0 \in S
  BY <1>5
<1>8. ASSUME NEW i \in S PROVE i + 1 \in S
  <2>1. SUFFICES ASSUME i + 1 <= n, NEW k \in F[i + 1] PROVE Long(i + 1, k)
    OBVIOUS
  <2>2. i + 1 \in 1..n /\ (i + 1) - 1 = i /\ i <= n
    BY <2>1
  <2>3. PICK j \in F[i] : k \in EraseOne(pt, j)
    BY <1>5, <2>1, <2>2 DEF EraseAll
  <2>4. Long(i, j)
    BY <2>2
  <2>5. k \in Seq(Frames) /\ Len(j) <= Len(k) + 1
    BY <2>3, <2>4, EraseOneLong
  <2>6. Len(list) \in Nat /\ Len(j) \in Nat /\ Len(k) \in Nat /\ Len(list) <= Len(j) + i /\ i \in Nat
    BY <2>4, <2>5
  <2> QED
    BY <2>5, <2>6
<1> HIDE DEF S
<1>9. S = Nat
  BY <1>7, <1>8, EveryNumber DEF S
<1>10. \A k \in F[c] : Long(c, k)
  BY <1>6, <1>9 DEF S
<1> QED
  BY <1>1, <1>10 DEF c
-----------------------------------------------------------------------------
(***************************************************************************)
(* Types.                                                                  *)
(***************************************************************************)
FieldsTyped(m) ==
  /\ m.mainMemory \in [Frames -> Contents] /\ m.swapFile \in [SwapPages -> Contents]
  /\ m.tlb \in [1..TLBSize -> TranslationEntry] /\ m.currentTLB \in 1..TLBSize
  /\ m.IPT \in [Frames -> IPTEntry] /\ m.FIFOList \in Seq(Frames)
  /\ m.pageTableBitMap \in SUBSET Frames /\ m.swapBitMap \in SUBSET SwapPages
  /\ m.pageTable \in [Spaces -> Seq(PageTableEntry)] /\ m.stopped \in {"no", "swapFull", "aborted"}

LEMMA MemoryIs ==
  ASSUME NEW m
  PROVE  m \in Memory <=> IsRecord(m) /\ FieldsTyped(m)
<1>1. ASSUME m \in Memory PROVE IsRecord(m) /\ FieldsTyped(m)
  BY <1>1 DEF Memory, IsRecord, FieldsTyped
<1>2. ASSUME IsRecord(m), FieldsTyped(m) PROVE m \in Memory
  BY <1>2 DEF Memory, IsRecord, FieldsTyped
<1> QED
  BY <1>1, <1>2

LEMMA Sizes ==
  /\ NumPhysPages \in Nat \ {0} /\ TLBSize \in Nat \ {0} /\ NumSwapPages \in Nat \ {0} /\ StackPages \in Nat \ {0}
  /\ numNonStackPages \in Nat /\ NoSpace \notin Spaces
  /\ Frames \subseteq Nat \ {0} /\ SwapPages \subseteq Nat \ {0}
  /\ 1 \in Frames
  BY MemoryAssumption DEF Frames, SwapPages

LEMMA EntryTypes ==
  /\ NoIPTEntry \in IPTEntry /\ ~NoIPTEntry.valid /\ ~NoIPTEntry.dirty
  /\ NoTranslation \in TranslationEntry /\ ~NoTranslation.valid
  /\ Garbage \in Contents
  BY DEF NoIPTEntry, IPTEntry, NoTranslation, TranslationEntry, Contents

LEMMA IPTTypes ==
  ASSUME NEW e \in IPTEntry
  PROVE  /\ e.PID \in Spaces \cup {NoSpace} /\ e.virtualPage \in Nat /\ e.valid \in BOOLEAN /\ e.dirty \in BOOLEAN
         /\ [e EXCEPT !.dirty = TRUE] \in IPTEntry
         /\ [e EXCEPT !.dirty = TRUE].PID = e.PID /\ [e EXCEPT !.dirty = TRUE].virtualPage = e.virtualPage
         /\ [e EXCEPT !.dirty = TRUE].valid = e.valid /\ [e EXCEPT !.dirty = TRUE].dirty
  BY DEF IPTEntry

LEMMA TLBTypes ==
  ASSUME NEW e \in TranslationEntry
  PROVE  /\ e.virtualPage \in Nat /\ e.physicalPage \in Nat /\ e.valid \in BOOLEAN /\ e.dirty \in BOOLEAN
         /\ [e EXCEPT !.dirty = TRUE] \in TranslationEntry
         /\ [e EXCEPT !.dirty = TRUE].virtualPage = e.virtualPage /\ [e EXCEPT !.dirty = TRUE].physicalPage = e.physicalPage
         /\ [e EXCEPT !.dirty = TRUE].valid = e.valid /\ [e EXCEPT !.dirty = TRUE].dirty
  BY DEF TranslationEntry

LEMMA PageTypes ==
  ASSUME NEW e \in PageTableEntry
  PROVE  /\ e.physicalPage \in {-1} \cup Frames /\ e.valid \in BOOLEAN /\ e.dirty \in BOOLEAN
         /\ e.location \in PAGELOCATION /\ e.byteOffset \in {-1, Uninitialised} \cup Nat
  BY DEF PageTableEntry

LEMMA TableTypes ==
  ASSUME NEW m \in Memory, NEW s \in Spaces
  PROVE  /\ m.pageTable[s] \in Seq(PageTableEntry) /\ Len(m.pageTable[s]) \in Nat
         /\ DOMAIN m.pageTable[s] = 1..Len(m.pageTable[s])
         /\ \A vpn \in DOMAIN m.pageTable[s] : m.pageTable[s][vpn] \in PageTableEntry
<1>1. m.pageTable[s] \in Seq(PageTableEntry)
  BY MemoryIs DEF FieldsTyped
<1> QED
  BY <1>1

LEMMA MemoryWellFormed ==
  ASSUME NEW m \in Memory
  PROVE  WellFormed(m)
<1>1. IsRecord(m) /\ m.pageTable \in [Spaces -> Seq(PageTableEntry)]
  BY MemoryIs DEF FieldsTyped
<1>2. ASSUME NEW s \in Spaces PROVE IsTable(m.pageTable[s])
  <2>1. m.pageTable[s] = [i \in 1..Len(m.pageTable[s]) |-> m.pageTable[s][i]] /\ Len(m.pageTable[s]) \in Nat
    BY TableTypes
  <2> QED
    BY <2>1, TableIs
<1> QED
  BY <1>1, <1>2 DEF WellFormed
-----------------------------------------------------------------------------
(***************************************************************************)
(* Changes of the TLB and of dirty bits.                                   *)
(***************************************************************************)
SameOwner(e, d) == e.PID = d.PID /\ e.virtualPage = d.virtualPage /\ e.valid = d.valid

\* Only the TLB changes, and the dirty bits, of which none is lost.
OnlyTLB(m, n) ==
  /\ n \in Memory
  /\ n.mainMemory = m.mainMemory /\ n.swapFile = m.swapFile /\ n.FIFOList = m.FIFOList
  /\ n.pageTableBitMap = m.pageTableBitMap /\ n.swapBitMap = m.swapBitMap
  /\ n.pageTable = m.pageTable /\ n.stopped = m.stopped
  /\ \A f \in Frames : SameOwner(n.IPT[f], m.IPT[f])
  /\ \A f \in Frames : m.IPT[f].valid /\ Dirty(m, f) => Dirty(n, f)

LEMMA OnlyTLBAccounted ==
  ASSUME NEW m, NEW n, NEW filling, OnlyTLB(m, n), Accounted(m, filling)
  PROVE  Accounted(n, filling)
<1> USE DEF OnlyTLB, SameOwner
<1>1. BitsRight(n, filling)
  <2>1. filling \subseteq Frames
    BY MemoryIs DEF Accounted, BitsRight, FieldsTyped
  <2> QED
    BY <2>1 DEF Accounted, BitsRight
<1>2. FramesOwned(n)
  BY DEF Accounted, FramesOwned
<1>3. PagesMapped(n)
  <2>1. ASSUME NEW f, NEW s, NEW vpn, OnFrame(m, f, s, vpn) PROVE OnFrame(n, f, s, vpn)
    BY <2>1 DEF OnFrame
  <2>2. PagesMapped(m) /\ n.pageTable = m.pageTable
    BY DEF Accounted
  <2> QED
    BY <2>1, <2>2 DEF PagesMapped
<1>4. SlotsOwned(n) /\ PagesSwapped(n)
  BY DEF Accounted, SlotsOwned, PagesSwapped
<1> QED
  BY <1>1, <1>2, <1>3, <1>4 DEF Accounted

LEMMA OnlyTLBPages ==
  ASSUME NEW m, NEW n, NEW ver, OnlyTLB(m, n), PagesMapped(m), PagesRight(m, ver)
  PROVE  PagesRight(n, ver)
<1>1. ASSUME NEW s \in Spaces PROVE DOMAIN ver[s] = DOMAIN n.pageTable[s]
  BY DEF PagesRight, OnlyTLB
<1>2. ASSUME NEW s \in Spaces, NEW vpn \in DOMAIN ver[s], ver[s][vpn] # -1
      PROVE  PageRight(n, s, vpn, ver[s][vpn])
  <2>1. PageRight(m, s, vpn, ver[s][vpn]) /\ vpn \in DOMAIN m.pageTable[s]
    BY <1>2 DEF PagesRight
  <2> DEFINE entry == m.pageTable[s][vpn]
             f == entry.physicalPage
  <2>2. n.pageTable[s][vpn] = entry /\ n.mainMemory = m.mainMemory /\ n.swapFile = m.swapFile
    BY DEF OnlyTLB
  <2>3. IsAt(entry, "MAIN") => f \in Frames /\ m.IPT[f].valid
    BY <2>1 DEF PagesMapped, OnFrame
  <2>4. IsAt(entry, "MAIN") /\ Dirty(m, f) => Dirty(n, f)
    BY <2>3 DEF OnlyTLB
  <2> QED
    BY <2>1, <2>2, <2>4 DEF PageRight
<1> QED
  BY <1>1, <1>2 DEF PagesRight

LEMMA OnlyTLBTransitive ==
  ASSUME NEW m, NEW n, NEW o, OnlyTLB(m, n), OnlyTLB(n, o)
  PROVE  OnlyTLB(m, o)
  BY DEF OnlyTLB, SameOwner

NoTLB(m) == \A i \in 1..TLBSize : ~m.tlb[i].valid

\* The TLB is emptied, and its dirty bits kept in the IPT.
LEMMA SaveStateOnlyTLB ==
  ASSUME NEW m \in Memory
  PROVE  OnlyTLB(m, SaveState(m)) /\ NoTLB(SaveState(m))
<1> DEFINE dirtied == {m.tlb[i].physicalPage : i \in {j \in 1..TLBSize : m.tlb[j].valid /\ m.tlb[j].dirty}}
           ipt == [f \in Frames |-> IF f \in dirtied /\ m.IPT[f].valid THEN [m.IPT[f] EXCEPT !.dirty = TRUE] ELSE m.IPT[f]]
           tlb == [i \in 1..TLBSize |-> NoTranslation]
           n == SaveState(m)
<1>1. IsRecord(m) /\ FieldsTyped(m)
  BY MemoryIs
<1>2. n = [m EXCEPT !.IPT = ipt, !.tlb = tlb]
  BY DEF SaveState
<1>3. ASSUME NEW f \in Frames
      PROVE  /\ ipt[f] \in IPTEntry /\ SameOwner(ipt[f], m.IPT[f])
             /\ m.IPT[f].dirty => ipt[f].dirty
             /\ m.IPT[f].valid /\ f \in dirtied => ipt[f].dirty
  <2>1. m.IPT[f] \in IPTEntry
    BY <1>1 DEF FieldsTyped
  <2> HIDE DEF dirtied
  <2> QED
    BY <2>1, IPTTypes DEF SameOwner
<1>4. \A f \in Frames : (\E i \in 1..TLBSize : m.tlb[i].valid /\ m.tlb[i].dirty /\ m.tlb[i].physicalPage = f) => f \in dirtied
  OBVIOUS
<1>5. ipt \in [Frames -> IPTEntry] /\ tlb \in [1..TLBSize -> TranslationEntry]
  BY <1>3, EntryTypes
<1>6. NoTLB(n) <=> \A i \in 1..TLBSize : ~n.tlb[i].valid
  BY DEF NoTLB
<1>7. \A i \in 1..TLBSize : ~tlb[i].valid
  BY EntryTypes
<1> HIDE DEF dirtied, ipt, tlb, n
<1>8. /\ IsRecord(n) /\ n.IPT = ipt /\ n.tlb = tlb /\ n.currentTLB = m.currentTLB
      /\ n.mainMemory = m.mainMemory /\ n.swapFile = m.swapFile /\ n.FIFOList = m.FIFOList
      /\ n.pageTableBitMap = m.pageTableBitMap /\ n.swapBitMap = m.swapBitMap
      /\ n.pageTable = m.pageTable /\ n.stopped = m.stopped
  BY <1>1, <1>2 DEF IsRecord
<1>9. n \in Memory
  BY <1>1, <1>5, <1>8, MemoryIs DEF FieldsTyped
<1>10. ASSUME NEW f \in Frames, m.IPT[f].valid, Dirty(m, f) PROVE Dirty(n, f)
  BY <1>3, <1>4, <1>8, <1>10 DEF Dirty
<1> QED
  BY <1>3, <1>6, <1>7, <1>8, <1>9, <1>10 DEF OnlyTLB, n

\* The dirty bit of one TLB entry is kept in the IPT.
LEMMA DirtyOnlyTLB ==
  ASSUME NEW m \in Memory, NEW i \in 1..TLBSize
  PROVE  LET n == propogateCurTLBDirty(m, i)
             f == m.tlb[i].physicalPage
         IN  /\ OnlyTLB(m, n) /\ n.tlb = m.tlb /\ n.currentTLB = m.currentTLB
             /\ m.tlb[i].valid /\ m.tlb[i].dirty /\ f \in Frames => n.IPT[f].dirty
             /\ \A g \in Frames : m.IPT[g].dirty => n.IPT[g].dirty
<1> DEFINE f == m.tlb[i].physicalPage
           ipt == [m.IPT EXCEPT ![f].dirty = TRUE]
           n == propogateCurTLBDirty(m, i)
<1>1. IsRecord(m) /\ FieldsTyped(m)
  BY MemoryIs
<1>2. n = IF m.tlb[i].valid /\ m.tlb[i].dirty THEN [m EXCEPT !.IPT = ipt] ELSE m
  BY DEF propogateCurTLBDirty
<1> HIDE DEF f
<1>3. ASSUME NEW g \in Frames
      PROVE  /\ ipt[g] \in IPTEntry /\ SameOwner(ipt[g], m.IPT[g])
             /\ (m.IPT[g].dirty \/ g = f) => ipt[g].dirty
  <2>1. m.IPT[g] \in IPTEntry /\ ipt[g] = IF g = f THEN [m.IPT[g] EXCEPT !.dirty = TRUE] ELSE m.IPT[g]
    BY <1>1 DEF FieldsTyped
  <2> DEFINE e == m.IPT[g]
             d == ipt[g]
  <2> HIDE DEF e, d, ipt
  <2>2. e \in IPTEntry /\ d = IF g = f THEN [e EXCEPT !.dirty = TRUE] ELSE e
    BY <2>1 DEF e, d
  <2>3. d \in IPTEntry /\ SameOwner(d, e) /\ ((e.dirty \/ g = f) => d.dirty)
    BY <2>2, IPTTypes DEF SameOwner
  <2> QED
    BY <2>3 DEF e, d
<1>4. ipt \in [Frames -> IPTEntry]
  <2>1. ipt = [g \in Frames |-> ipt[g]]
    BY <1>1 DEF FieldsTyped
  <2> QED
    BY <1>3, <2>1
<1> HIDE DEF ipt, n
<1>5. /\ IsRecord(n) /\ n.tlb = m.tlb /\ n.currentTLB = m.currentTLB
      /\ n.mainMemory = m.mainMemory /\ n.swapFile = m.swapFile /\ n.FIFOList = m.FIFOList
      /\ n.pageTableBitMap = m.pageTableBitMap /\ n.swapBitMap = m.swapBitMap
      /\ n.pageTable = m.pageTable /\ n.stopped = m.stopped
      /\ n.IPT = IF m.tlb[i].valid /\ m.tlb[i].dirty THEN ipt ELSE m.IPT
  BY <1>1, <1>2 DEF IsRecord
<1>6. n \in Memory
  <2>1. n.IPT \in [Frames -> IPTEntry]
    BY <1>1, <1>4, <1>5 DEF FieldsTyped
  <2> QED
    BY <1>1, <1>5, <2>1, MemoryIs DEF FieldsTyped
<1>7. \A g \in Frames : SameOwner(n.IPT[g], m.IPT[g]) /\ (m.IPT[g].dirty => n.IPT[g].dirty)
  BY <1>3, <1>5 DEF SameOwner
<1>8. ASSUME NEW g \in Frames, Dirty(m, g) PROVE Dirty(n, g)
  BY <1>5, <1>7, <1>8 DEF Dirty
<1>9. m.tlb[i].valid /\ m.tlb[i].dirty /\ f \in Frames => n.IPT[f].dirty
  BY <1>3, <1>5
<1> QED
  BY <1>5, <1>6, <1>7, <1>8, <1>9 DEF OnlyTLB, n, f

LEMMA FewerTLB ==
  ASSUME NEW m, NEW n, NEW space, OnlyTLB(m, n), TLBRight(m, space),
         \A i \in 1..TLBSize : n.tlb[i].valid => n.tlb[i] = m.tlb[i]
  PROVE  TLBRight(n, space)
<1>1. SUFFICES ASSUME NEW i \in 1..TLBSize, n.tlb[i].valid
               PROVE  LET f == n.tlb[i].physicalPage
                      IN  /\ f \in Frames /\ n.IPT[f].valid /\ n.IPT[f].PID = space
                          /\ n.IPT[f].virtualPage = n.tlb[i].virtualPage
                          /\ \A j \in 1..TLBSize : n.tlb[j].valid /\ n.tlb[j].physicalPage = f => j = i
  BY DEF TLBRight
<1>2. n.tlb[i] = m.tlb[i]
  BY <1>1
<1> QED
  BY <1>1, <1>2 DEF TLBRight, OnlyTLB, SameOwner

LEMMA NoTLBRight ==
  ASSUME NEW m, NoTLB(m), NEW space
  PROVE  TLBRight(m, space)
  BY DEF NoTLB, TLBRight

\* After it no TLB entry has the frame, and what was dirty shows in the IPT.
LEMMA InvalidateOnlyTLB ==
  ASSUME NEW m \in Memory, NEW space, TLBRight(m, space), NEW ppn \in Frames
  PROVE  LET n == InvalidateTLB(m, ppn)
         IN  /\ OnlyTLB(m, n) /\ TLBRight(n, space)
             /\ \A i \in 1..TLBSize : n.tlb[i].valid => n.tlb[i] = m.tlb[i] /\ n.tlb[i].physicalPage # ppn
<1> DEFINE matching == {i \in 1..TLBSize : m.tlb[i].valid /\ m.tlb[i].physicalPage = ppn}
           i == Min(matching)
           saved == propogateCurTLBDirty(m, i)
           n == InvalidateTLB(m, ppn)
<1>1. IsRecord(m) /\ FieldsTyped(m)
  BY MemoryIs
<1>2. CASE matching = {}
  <2>1. n = m
    BY <1>2 DEF InvalidateTLB
  <2>2. \A j \in 1..TLBSize : m.tlb[j].valid => m.tlb[j].physicalPage # ppn
    BY <1>2
  <2>3. OnlyTLB(m, m)
    BY DEF OnlyTLB, SameOwner
  <2> QED
    BY <2>1, <2>2, <2>3
<1>3. CASE matching # {}
  <2>1. matching \in SUBSET Nat /\ matching \subseteq 1..TLBSize
    OBVIOUS
  <2>2. i \in matching
    <3> HIDE DEF matching
    <3> QED
      BY <1>3, <2>1, MinIn
  <2>3. i \in 1..TLBSize /\ m.tlb[i].valid /\ m.tlb[i].physicalPage = ppn
    BY <2>2
  <2>4. \A j \in 1..TLBSize : m.tlb[j].valid /\ m.tlb[j].physicalPage = ppn => j = i
    BY <2>3 DEF TLBRight
  <2>5. n = [saved EXCEPT !.tlb[i] = NoTranslation]
    BY <1>3 DEF InvalidateTLB
  <2> HIDE DEF i, matching
  <2>6. /\ OnlyTLB(m, saved) /\ saved.tlb = m.tlb /\ saved.currentTLB = m.currentTLB
        /\ m.tlb[i].dirty => saved.IPT[ppn].dirty
        /\ \A g \in Frames : m.IPT[g].dirty => saved.IPT[g].dirty
    BY <2>3, DirtyOnlyTLB
  <2> HIDE DEF saved, n
  <2>7. IsRecord(saved) /\ FieldsTyped(saved)
    BY <2>6, MemoryIs DEF OnlyTLB
  <2> DEFINE tlb == [m.tlb EXCEPT ![i] = NoTranslation]
  <2>8. /\ IsRecord(n) /\ n.tlb = tlb /\ n.currentTLB = saved.currentTLB
        /\ n.mainMemory = saved.mainMemory /\ n.swapFile = saved.swapFile /\ n.FIFOList = saved.FIFOList
        /\ n.pageTableBitMap = saved.pageTableBitMap /\ n.swapBitMap = saved.swapBitMap
        /\ n.pageTable = saved.pageTable /\ n.stopped = saved.stopped /\ n.IPT = saved.IPT
    BY <2>5, <2>6, <2>7 DEF IsRecord
  <2>9. /\ tlb \in [1..TLBSize -> TranslationEntry]
        /\ \A j \in 1..TLBSize : tlb[j] = IF j = i THEN NoTranslation ELSE m.tlb[j]
    BY <1>1, EntryTypes DEF FieldsTyped
  <2> HIDE DEF tlb
  <2>10. n \in Memory
    BY <2>7, <2>8, <2>9, MemoryIs DEF FieldsTyped
  <2>11. ASSUME NEW j \in 1..TLBSize, n.tlb[j].valid
         PROVE  j # i /\ n.tlb[j] = m.tlb[j] /\ n.tlb[j].physicalPage # ppn
    BY <2>4, <2>8, <2>9, <2>11, EntryTypes
  <2>12. ASSUME NEW g \in Frames, m.IPT[g].valid, Dirty(m, g) PROVE Dirty(n, g)
    <3>1. CASE m.IPT[g].dirty
      BY <2>6, <2>8, <3>1 DEF Dirty
    <3>2. CASE \E j \in 1..TLBSize : m.tlb[j].valid /\ m.tlb[j].dirty /\ m.tlb[j].physicalPage = g
      <4>1. PICK j \in 1..TLBSize : m.tlb[j].valid /\ m.tlb[j].dirty /\ m.tlb[j].physicalPage = g
        BY <3>2
      <4>2. CASE j = i
        BY <2>3, <2>6, <2>8, <4>1, <4>2 DEF Dirty
      <4>3. CASE j # i
        BY <2>8, <2>9, <4>1, <4>3 DEF Dirty
      <4> QED
        BY <4>2, <4>3
    <3> QED
      BY <2>12, <3>1, <3>2 DEF Dirty
  <2>13. OnlyTLB(m, n)
    BY <2>6, <2>8, <2>10, <2>12 DEF OnlyTLB
  <2>14. TLBRight(n, space)
    BY <2>11, <2>13, FewerTLB
  <2> QED
    BY <2>11, <2>13, <2>14 DEF n
<1> QED
  BY <1>2, <1>3

\* The page of a frame gets a TLB entry, which it did not have.
LEMMA PopulateOnlyTLB ==
  ASSUME NEW m \in Memory, NEW space, TLBRight(m, space), NEW ppn \in Frames,
         m.IPT[ppn].valid, m.IPT[ppn].PID = space,
         \A i \in 1..TLBSize : m.tlb[i].valid => m.tlb[i].virtualPage # m.IPT[ppn].virtualPage
  PROVE  OnlyTLB(m, populateTLBFromIPTEntry(m, ppn)) /\ TLBRight(populateTLBFromIPTEntry(m, ppn), space)
<1> DEFINE c == m.currentTLB
           saved == propogateCurTLBDirty(m, c)
           entry == [virtualPage |-> saved.IPT[ppn].virtualPage, physicalPage |-> ppn,
                     valid |-> saved.IPT[ppn].valid, dirty |-> saved.IPT[ppn].dirty]
           next == (saved.currentTLB % TLBSize) + 1
           n == populateTLBFromIPTEntry(m, ppn)
<1>1. IsRecord(m) /\ FieldsTyped(m) /\ c \in 1..TLBSize
  BY MemoryIs DEF FieldsTyped
<1>2. /\ OnlyTLB(m, saved) /\ saved.tlb = m.tlb /\ saved.currentTLB = c
      /\ m.tlb[c].valid /\ m.tlb[c].dirty /\ m.tlb[c].physicalPage \in Frames => saved.IPT[m.tlb[c].physicalPage].dirty
      /\ \A g \in Frames : m.IPT[g].dirty => saved.IPT[g].dirty
  BY <1>1, DirtyOnlyTLB
<1>3. n = [saved EXCEPT !.tlb[c] = entry, !.currentTLB = next]
  BY DEF populateTLBFromIPTEntry
<1> HIDE DEF saved, n, c
<1>4. IsRecord(saved) /\ FieldsTyped(saved)
  BY <1>2, MemoryIs DEF OnlyTLB
<1>5. SameOwner(saved.IPT[ppn], m.IPT[ppn]) /\ saved.IPT[ppn] \in IPTEntry
  BY <1>2, <1>4 DEF OnlyTLB, FieldsTyped
<1>6. entry \in TranslationEntry /\ entry.valid /\ entry.virtualPage = m.IPT[ppn].virtualPage /\ entry.physicalPage = ppn
  BY <1>5, IPTTypes, Sizes DEF TranslationEntry, SameOwner
<1>7. next \in 1..TLBSize
  BY <1>1, <1>2, Sizes
<1> HIDE DEF entry, next
<1> DEFINE tlb == [m.tlb EXCEPT ![c] = entry]
<1>8. /\ IsRecord(n) /\ n.tlb = tlb /\ n.currentTLB = next
      /\ n.mainMemory = saved.mainMemory /\ n.swapFile = saved.swapFile /\ n.FIFOList = saved.FIFOList
      /\ n.pageTableBitMap = saved.pageTableBitMap /\ n.swapBitMap = saved.swapBitMap
      /\ n.pageTable = saved.pageTable /\ n.stopped = saved.stopped /\ n.IPT = saved.IPT
  BY <1>2, <1>3, <1>4 DEF IsRecord
<1>9. /\ tlb \in [1..TLBSize -> TranslationEntry]
      /\ \A j \in 1..TLBSize : tlb[j] = IF j = c THEN entry ELSE m.tlb[j]
  BY <1>1, <1>6 DEF FieldsTyped
<1> HIDE DEF tlb
<1>10. n \in Memory
  BY <1>4, <1>7, <1>8, <1>9, MemoryIs DEF FieldsTyped
<1>11. ASSUME NEW g \in Frames, m.IPT[g].valid, Dirty(m, g) PROVE Dirty(n, g)
  <2>1. CASE m.IPT[g].dirty
    BY <1>2, <1>8, <2>1 DEF Dirty
  <2>2. CASE \E j \in 1..TLBSize : m.tlb[j].valid /\ m.tlb[j].dirty /\ m.tlb[j].physicalPage = g
    <3>1. PICK j \in 1..TLBSize : m.tlb[j].valid /\ m.tlb[j].dirty /\ m.tlb[j].physicalPage = g
      BY <2>2
    <3>2. CASE j = c
      BY <1>2, <1>8, <3>1, <3>2 DEF Dirty
    <3>3. CASE j # c
      BY <1>8, <1>9, <3>1, <3>3 DEF Dirty
    <3> QED
      BY <3>2, <3>3
  <2> QED
    BY <1>11, <2>1, <2>2 DEF Dirty
<1>12. OnlyTLB(m, n)
  BY <1>2, <1>8, <1>10, <1>11 DEF OnlyTLB
<1>13. ASSUME NEW j \in 1..TLBSize, m.tlb[j].valid PROVE m.tlb[j].physicalPage # ppn
  BY <1>13 DEF TLBRight
<1>14. \A f \in Frames : SameOwner(n.IPT[f], m.IPT[f])
  BY <1>12 DEF OnlyTLB
<1>15. ASSUME NEW j \in 1..TLBSize, n.tlb[j].valid
       PROVE  LET f == n.tlb[j].physicalPage
              IN  /\ f \in Frames /\ n.IPT[f].valid /\ n.IPT[f].PID = space
                  /\ n.IPT[f].virtualPage = n.tlb[j].virtualPage
                  /\ \A i \in 1..TLBSize : n.tlb[i].valid /\ n.tlb[i].physicalPage = f => i = j
  <2>1. CASE j = c
    <3>1. n.tlb[j] = entry
      BY <1>8, <1>9, <2>1
    <3>2. ASSUME NEW i \in 1..TLBSize, n.tlb[i].valid, n.tlb[i].physicalPage = ppn PROVE i = j
      BY <1>8, <1>9, <1>13, <2>1, <3>2
    <3> QED
      BY <1>6, <1>14, <3>1, <3>2 DEF SameOwner
  <2>2. CASE j # c
    <3>1. n.tlb[j] = m.tlb[j] /\ m.tlb[j].valid
      BY <1>8, <1>9, <1>15, <2>2
    <3>2. /\ m.tlb[j].physicalPage \in Frames /\ m.IPT[m.tlb[j].physicalPage].valid
          /\ m.IPT[m.tlb[j].physicalPage].PID = space
          /\ m.IPT[m.tlb[j].physicalPage].virtualPage = m.tlb[j].virtualPage
      BY <3>1 DEF TLBRight
    <3>3. ASSUME NEW i \in 1..TLBSize, n.tlb[i].valid, n.tlb[i].physicalPage = m.tlb[j].physicalPage PROVE i = j
      <4>1. CASE i = c
        BY <1>6, <1>8, <1>9, <1>13, <3>1, <3>3, <4>1
      <4>2. CASE i # c
        BY <1>8, <1>9, <3>1, <3>3, <4>2 DEF TLBRight
      <4> QED
        BY <4>1, <4>2
    <3> QED
      BY <1>14, <3>1, <3>2, <3>3 DEF SameOwner
  <2> QED
    BY <2>1, <2>2
<1>16. TLBRight(n, space)
  BY <1>15 DEF TLBRight
<1> QED
  BY <1>12, <1>16 DEF n

\* A page is right while its entry and what it has are left alone.
LEMMA PageKept ==
  ASSUME NEW m, NEW n, NEW s, NEW vpn, NEW v, PageRight(m, s, vpn, v),
         n.pageTable[s][vpn] = m.pageTable[s][vpn],
         IsAt(m.pageTable[s][vpn], "SWAP") =>
           n.swapFile[m.pageTable[s][vpn].byteOffset] = m.swapFile[m.pageTable[s][vpn].byteOffset],
         IsAt(m.pageTable[s][vpn], "MAIN") =>
           LET f == m.pageTable[s][vpn].physicalPage
           IN  n.mainMemory[f] = m.mainMemory[f] /\ (Dirty(m, f) => Dirty(n, f))
  PROVE  PageRight(n, s, vpn, v)
  BY DEF PageRight

LEMMA SameAccounted ==
  ASSUME NEW m, NEW n \in Memory, NEW filling, Accounted(m, filling), n.IPT = m.IPT, n.pageTable = m.pageTable,
         n.pageTableBitMap = m.pageTableBitMap, n.swapBitMap = m.swapBitMap
  PROVE  Accounted(n, filling)
<1>1. BitsRight(n, filling) /\ FramesOwned(n)
  BY DEF Accounted, BitsRight, FramesOwned
<1>2. PagesMapped(n)
  <2>1. ASSUME NEW f, NEW s, NEW vpn, OnFrame(m, f, s, vpn) PROVE OnFrame(n, f, s, vpn)
    BY <2>1 DEF OnFrame
  <2>2. PagesMapped(m)
    BY DEF Accounted
  <2> QED
    BY <2>1, <2>2 DEF PagesMapped
<1>3. SlotsOwned(n) /\ PagesSwapped(n)
  BY DEF Accounted, SlotsOwned, PagesSwapped
<1> QED
  BY <1>1, <1>2, <1>3 DEF Accounted

\* Writing a page makes it dirty.
LEMMA WriteRight ==
  ASSUME NEW m, NEW space \in Spaces, NEW ver \in [Spaces -> Seq({-1, 0, 1})], NEW vpn,
         Right(m, space, ver), Translate(m, vpn) # 0
  PROVE  Right(WriteMem(m, vpn, <<space, vpn, 1>>), space, [ver EXCEPT ![space][vpn] = 1])
<1> DEFINE i == Translate(m, vpn)
           f == m.tlb[i].physicalPage
           c == <<space, vpn, 1>>
           n == WriteMem(m, vpn, c)
           w == [ver EXCEPT ![space][vpn] = 1]
           tlb == [m.tlb EXCEPT ![i].dirty = TRUE]
           mem == [m.mainMemory EXCEPT ![f] = c]
<1>1. m \in Memory /\ IsRecord(m) /\ FieldsTyped(m) /\ Accounted(m, {}) /\ TLBRight(m, space) /\ PagesRight(m, ver)
  BY MemoryIs DEF Right, Accounted
<1>2. i \in 1..TLBSize /\ m.tlb[i].valid /\ m.tlb[i].virtualPage = vpn
  <2> DEFINE matching == {j \in 1..TLBSize : m.tlb[j].valid /\ m.tlb[j].virtualPage = vpn}
  <2>1. matching # {} /\ i = Min(matching) /\ matching \in SUBSET Nat
    BY DEF Translate
  <2> HIDE DEF matching, i
  <2>2. i \in matching
    BY <2>1, MinIn
  <2> QED
    BY <2>2 DEF matching
<1>3. n = [m EXCEPT !.tlb = tlb, !.mainMemory = mem]
  BY DEF WriteMem
<1> HIDE DEF i
<1>4. f \in Frames /\ m.IPT[f].valid /\ m.IPT[f].PID = space /\ m.IPT[f].virtualPage = vpn
  BY <1>1, <1>2 DEF TLBRight
<1> HIDE DEF f
<1>5. vpn \in DOMAIN m.pageTable[space] /\ IsAt(m.pageTable[space][vpn], "MAIN") /\ m.pageTable[space][vpn].physicalPage = f
  BY <1>1, <1>4 DEF Accounted, FramesOwned
<1>6. vpn \in Nat \ {0} /\ vpn \in DOMAIN ver[space]
  BY <1>1, <1>5, TableTypes DEF PagesRight
<1>7. c \in Contents
  BY <1>6 DEF Contents
<1> HIDE DEF c
<1>8. /\ mem \in [Frames -> Contents] /\ mem[f] = c /\ \A g \in Frames \ {f} : mem[g] = m.mainMemory[g]
  BY <1>1, <1>4, <1>7 DEF FieldsTyped
<1>9. /\ tlb \in [1..TLBSize -> TranslationEntry]
      /\ \A j \in 1..TLBSize : /\ tlb[j].valid = m.tlb[j].valid /\ tlb[j].virtualPage = m.tlb[j].virtualPage
                               /\ tlb[j].physicalPage = m.tlb[j].physicalPage
                               /\ (m.tlb[j].dirty \/ j = i) => tlb[j].dirty
  <2>1. ASSUME NEW j \in 1..TLBSize
        PROVE  /\ tlb[j] \in TranslationEntry
               /\ tlb[j].valid = m.tlb[j].valid /\ tlb[j].virtualPage = m.tlb[j].virtualPage
               /\ tlb[j].physicalPage = m.tlb[j].physicalPage
               /\ (m.tlb[j].dirty \/ j = i) => tlb[j].dirty
    <3> DEFINE e == m.tlb[j]
               d == tlb[j]
    <3>1. e \in TranslationEntry /\ d = IF j = i THEN [e EXCEPT !.dirty = TRUE] ELSE e
      BY <1>1 DEF FieldsTyped
    <3> HIDE DEF e, d, tlb
    <3>2. d \in TranslationEntry /\ d.valid = e.valid /\ d.virtualPage = e.virtualPage
          /\ d.physicalPage = e.physicalPage /\ ((e.dirty \/ j = i) => d.dirty)
      BY <3>1, TLBTypes
    <3> QED
      BY <3>2 DEF e, d
  <2>2. tlb = [j \in 1..TLBSize |-> tlb[j]]
    BY <1>1 DEF FieldsTyped
  <2> HIDE DEF tlb
  <2> QED
    BY <2>1, <2>2
<1> HIDE DEF n, tlb, mem
<1>10. /\ IsRecord(n) /\ n.tlb = tlb /\ n.mainMemory = mem /\ n.swapFile = m.swapFile /\ n.FIFOList = m.FIFOList
       /\ n.pageTableBitMap = m.pageTableBitMap /\ n.swapBitMap = m.swapBitMap /\ n.currentTLB = m.currentTLB
       /\ n.pageTable = m.pageTable /\ n.stopped = m.stopped /\ n.IPT = m.IPT
  BY <1>1, <1>3 DEF IsRecord
<1>11. n \in Memory
  BY <1>1, <1>8, <1>9, <1>10, MemoryIs DEF FieldsTyped
<1>12. Accounted(n, {})
  BY <1>1, <1>10, <1>11, SameAccounted
<1>13. QueueLong(n) /\ n.stopped = "no"
  BY <1>10 DEF Right, QueueLong
<1>14. TLBRight(n, space)
  <2>1. SUFFICES ASSUME NEW j \in 1..TLBSize, n.tlb[j].valid
                 PROVE  LET g == n.tlb[j].physicalPage
                        IN  /\ g \in Frames /\ n.IPT[g].valid /\ n.IPT[g].PID = space
                            /\ n.IPT[g].virtualPage = n.tlb[j].virtualPage
                            /\ \A k \in 1..TLBSize : n.tlb[k].valid /\ n.tlb[k].physicalPage = g => k = j
    BY DEF TLBRight
  <2>2. m.tlb[j].valid
    BY <1>9, <1>10, <2>1
  <2>3. /\ m.tlb[j].physicalPage \in Frames /\ m.IPT[m.tlb[j].physicalPage].valid
        /\ m.IPT[m.tlb[j].physicalPage].PID = space
        /\ m.IPT[m.tlb[j].physicalPage].virtualPage = m.tlb[j].virtualPage
    BY <1>1, <2>2 DEF TLBRight
  <2>4. ASSUME NEW k \in 1..TLBSize, m.tlb[k].valid, m.tlb[k].physicalPage = m.tlb[j].physicalPage PROVE k = j
    BY <1>1, <2>2, <2>4 DEF TLBRight
  <2> QED
    BY <1>9, <1>10, <2>3, <2>4
<1>15. /\ \A g \in Frames : Dirty(m, g) => Dirty(n, g)
       /\ Dirty(n, f)
  <2>1. \A g \in Frames : Dirty(m, g) => Dirty(n, g)
    BY <1>9, <1>10 DEF Dirty
  <2>2. n.tlb[i].valid /\ n.tlb[i].dirty /\ n.tlb[i].physicalPage = f
    BY <1>2, <1>9, <1>10 DEF f
  <2> QED
    BY <1>2, <2>1, <2>2 DEF Dirty
<1>16. /\ \A s \in Spaces : DOMAIN w[s] = DOMAIN ver[s]
       /\ w[space][vpn] = 1
       /\ \A s \in Spaces : \A p \in DOMAIN ver[s] : (s # space \/ p # vpn) => w[s][p] = ver[s][p]
  BY <1>6
<1> HIDE DEF w
<1>17. PageRight(n, space, vpn, 1)
  BY <1>5, <1>8, <1>10, <1>15 DEF PageRight, c
<1>18. ASSUME NEW s \in Spaces, NEW p \in DOMAIN ver[s], s # space \/ p # vpn, ver[s][p] # -1
       PROVE  PageRight(n, s, p, ver[s][p])
  <2> DEFINE entry == m.pageTable[s][p]
             g == entry.physicalPage
  <2>1. PageRight(m, s, p, ver[s][p]) /\ p \in DOMAIN m.pageTable[s]
    BY <1>1, <1>18 DEF PagesRight
  <2>2. IsAt(entry, "MAIN") => g \in Frames /\ m.IPT[g].PID = s /\ m.IPT[g].virtualPage = p
    <3>1. PagesMapped(m)
      BY <1>1 DEF Accounted
    <3> QED
      <4>1. IsAt(entry, "MAIN") => OnFrame(m, g, s, p)
        BY <2>1, <3>1 DEF PagesMapped
      <4> QED
        BY <4>1 DEF OnFrame
  <2>3. IsAt(entry, "MAIN") => n.mainMemory[g] = m.mainMemory[g] /\ (Dirty(m, g) => Dirty(n, g))
    BY <1>4, <1>8, <1>10, <1>15, <1>18, <2>2
  <2> QED
    BY <1>10, <2>1, <2>3, PageKept
<1>19. PagesRight(n, w)
  <2>1. ASSUME NEW s \in Spaces, NEW p \in DOMAIN w[s], w[s][p] # -1 PROVE PageRight(n, s, p, w[s][p])
    BY <1>16, <1>17, <1>18, <2>1
  <2>2. ASSUME NEW s \in Spaces PROVE DOMAIN w[s] = DOMAIN n.pageTable[s]
    BY <1>1, <1>10, <1>16 DEF PagesRight
  <2> QED
    BY <2>1, <2>2 DEF PagesRight
<1> QED
  BY <1>12, <1>13, <1>14, <1>19 DEF Right, n, w, c

-----------------------------------------------------------------------------
(***************************************************************************)
(* Pages are freed.                                                        *)
(***************************************************************************)
FramesOf(pt, pages) == {pt[vpn].physicalPage : vpn \in In(pt, pages, "MAIN")}
SlotsOf(pt, pages) == {pt[vpn].byteOffset : vpn \in In(pt, pages, "SWAP")}

\* The frames and the slots are given back, and the others are as they were.
GivenBack(m, n, frames, slots) ==
  /\ n.pageTableBitMap = m.pageTableBitMap \ frames /\ n.swapBitMap = m.swapBitMap \ slots
  /\ n.stopped = m.stopped
  /\ \A f \in Frames \cap frames : ~n.IPT[f].valid
  /\ \A f \in Frames \ frames : SameOwner(n.IPT[f], m.IPT[f]) /\ n.mainMemory[f] = m.mainMemory[f]
  /\ \A f \in Frames \ frames : m.IPT[f].valid /\ Dirty(m, f) => Dirty(n, f)
  /\ \A p \in SwapPages \ slots : n.swapFile[p] = m.swapFile[p]
  /\ NoTLB(n)

LEMMA FreePagesGivesBack ==
  ASSUME NEW m \in Memory, NEW s, NEW pages
  PROVE  LET n == FreePages(m, s, pages)
         IN  /\ n \in Memory /\ n.pageTable = m.pageTable /\ n.FIFOList = m.FIFOList
             /\ GivenBack(m, n, FramesOf(m.pageTable[s], pages), SlotsOf(m.pageTable[s], pages))
<1> DEFINE frames == FramesOf(m.pageTable[s], pages)
           slots == SlotsOf(m.pageTable[s], pages)
           mem == [f \in Frames |-> IF f \in frames THEN Garbage ELSE m.mainMemory[f]]
           ipt == [f \in Frames |-> IF f \in frames THEN NoIPTEntry ELSE m.IPT[f]]
           file == [p \in SwapPages |-> IF p \in slots THEN Garbage ELSE m.swapFile[p]]
           o == [m EXCEPT !.pageTableBitMap = @ \ frames, !.mainMemory = mem, !.IPT = ipt,
                          !.swapBitMap = @ \ slots, !.swapFile = file]
           n == FreePages(m, s, pages)
<1>1. IsRecord(m) /\ FieldsTyped(m)
  BY MemoryIs
<1>2. n = SaveState(o)
  BY DEF FreePages, FramesOf, SlotsOf
<1> HIDE DEF frames, slots
<1>3. /\ mem \in [Frames -> Contents] /\ file \in [SwapPages -> Contents] /\ ipt \in [Frames -> IPTEntry]
      /\ \A f \in Frames \cap frames : ~ipt[f].valid
      /\ \A f \in Frames \ frames : ipt[f] = m.IPT[f] /\ mem[f] = m.mainMemory[f]
      /\ \A p \in SwapPages \ slots : file[p] = m.swapFile[p]
  BY <1>1, EntryTypes DEF FieldsTyped
<1> HIDE DEF mem, ipt, file, n
<1>4. /\ IsRecord(o) /\ o.mainMemory = mem /\ o.IPT = ipt /\ o.swapFile = file
      /\ o.pageTableBitMap = m.pageTableBitMap \ frames /\ o.swapBitMap = m.swapBitMap \ slots
      /\ o.FIFOList = m.FIFOList /\ o.currentTLB = m.currentTLB /\ o.tlb = m.tlb
      /\ o.pageTable = m.pageTable /\ o.stopped = m.stopped
  BY <1>1 DEF IsRecord
<1> HIDE DEF o
<1>5. o \in Memory
  BY <1>1, <1>3, <1>4, MemoryIs DEF FieldsTyped
<1>6. OnlyTLB(o, n) /\ NoTLB(n)
  BY <1>2, <1>5, SaveStateOnlyTLB
<1>7. \A f \in Frames \ frames : Dirty(m, f) => Dirty(o, f)
  BY <1>3, <1>4 DEF Dirty
<1>8. \A f \in Frames : SameOwner(n.IPT[f], o.IPT[f]) /\ (o.IPT[f].valid /\ Dirty(o, f) => Dirty(n, f))
  BY <1>6 DEF OnlyTLB
<1>9. /\ n \in Memory /\ n.mainMemory = mem /\ n.swapFile = file
      /\ n.pageTableBitMap = m.pageTableBitMap \ frames /\ n.swapBitMap = m.swapBitMap \ slots
      /\ n.FIFOList = m.FIFOList /\ n.pageTable = m.pageTable /\ n.stopped = m.stopped
  BY <1>4, <1>6 DEF OnlyTLB
<1>10. ASSUME NEW f \in Frames \cap frames PROVE ~n.IPT[f].valid
  BY <1>3, <1>4, <1>8 DEF SameOwner
<1>11. ASSUME NEW f \in Frames \ frames
       PROVE  /\ SameOwner(n.IPT[f], m.IPT[f]) /\ n.mainMemory[f] = m.mainMemory[f]
              /\ m.IPT[f].valid /\ Dirty(m, f) => Dirty(n, f)
  BY <1>3, <1>4, <1>7, <1>8, <1>9
<1>12. GivenBack(m, n, frames, slots)
  BY <1>3, <1>6, <1>9, <1>10, <1>11 DEF GivenBack
<1> QED
  BY <1>9, <1>12 DEF n, frames, slots

\* The pages lose their entries, which the others keep.
EntriesDropped(m, n, s, pages) ==
  /\ \A r \in Spaces \ {s} : n.pageTable[r] = m.pageTable[r]
  /\ DOMAIN n.pageTable[s] \subseteq DOMAIN m.pageTable[s]
  /\ \A vpn \in DOMAIN n.pageTable[s] :
       IF vpn \in pages THEN ~n.pageTable[s][vpn].valid ELSE n.pageTable[s][vpn] = m.pageTable[s][vpn]
  /\ \A vpn \in DOMAIN m.pageTable[s] \ pages : vpn \in DOMAIN n.pageTable[s]

LEMMA FreedAccounted ==
  ASSUME NEW m, NEW n \in Memory, NEW s \in Spaces, NEW pages \in SUBSET DOMAIN m.pageTable[s], Accounted(m, {}),
         EntriesDropped(m, n, s, pages),
         GivenBack(m, n, FramesOf(m.pageTable[s], pages), SlotsOf(m.pageTable[s], pages))
  PROVE  Accounted(n, {})
<1> DEFINE pt == m.pageTable[s]
           frames == FramesOf(pt, pages)
           slots == SlotsOf(pt, pages)
\* A page that is valid is the same page as before.
<1>1. ASSUME NEW r \in Spaces, NEW vpn \in DOMAIN n.pageTable[r], NEW loc, IsAt(n.pageTable[r][vpn], loc)
      PROVE  /\ vpn \in DOMAIN m.pageTable[r] /\ n.pageTable[r][vpn] = m.pageTable[r][vpn]
             /\ r # s \/ vpn \notin pages
  BY <1>1 DEF EntriesDropped, IsAt
<1>2. ASSUME NEW r \in Spaces, NEW vpn \in DOMAIN m.pageTable[r], r # s \/ vpn \notin pages
      PROVE  vpn \in DOMAIN n.pageTable[r] /\ n.pageTable[r][vpn] = m.pageTable[r][vpn]
  BY <1>2 DEF EntriesDropped
<1>3. /\ BitsRight(m, {}) /\ FramesOwned(m) /\ PagesMapped(m) /\ SlotsOwned(m) /\ PagesSwapped(m)
  BY DEF Accounted
<1>4. ASSUME NEW r \in Spaces, NEW vpn \in DOMAIN m.pageTable[r], IsAt(m.pageTable[r][vpn], "MAIN")
      PROVE  /\ m.pageTable[r][vpn].physicalPage \in Frames
             /\ m.pageTable[r][vpn].physicalPage \in frames <=> r = s /\ vpn \in pages
  <2> DEFINE f == m.pageTable[r][vpn].physicalPage
  <2>1. f \in Frames /\ m.IPT[f].PID = r /\ m.IPT[f].virtualPage = vpn
    <3>1. OnFrame(m, f, r, vpn)
      BY <1>3, <1>4 DEF PagesMapped
    <3> QED
      BY <3>1 DEF OnFrame
  <2>2. ASSUME r = s, vpn \in pages PROVE f \in frames
    BY <1>4, <2>2 DEF FramesOf, In, IsAt
  <2>3. ASSUME f \in frames PROVE r = s /\ vpn \in pages
    <3>1. PICK p \in pages : IsAt(m.pageTable[s][p], "MAIN") /\ m.pageTable[s][p].physicalPage = f
      BY <2>3 DEF FramesOf, In, IsAt
    <3>2. m.IPT[f].PID = s /\ m.IPT[f].virtualPage = p
      <4>1. OnFrame(m, f, s, p)
        BY <1>3, <3>1 DEF PagesMapped
      <4> QED
        BY <4>1 DEF OnFrame
    <3> QED
      BY <2>1, <3>2
  <2> QED
    BY <2>1, <2>2, <2>3
<1>5. ASSUME NEW r \in Spaces, NEW vpn \in DOMAIN m.pageTable[r], IsAt(m.pageTable[r][vpn], "SWAP")
      PROVE  m.pageTable[r][vpn].byteOffset \in slots <=> r = s /\ vpn \in pages
  <2> DEFINE b == m.pageTable[r][vpn].byteOffset
  <2>2. ASSUME r = s, vpn \in pages PROVE b \in slots
    BY <1>5, <2>2 DEF SlotsOf, In, IsAt
  <2>3. ASSUME b \in slots PROVE r = s /\ vpn \in pages
    <3>1. PICK p \in pages : IsAt(m.pageTable[s][p], "SWAP") /\ m.pageTable[s][p].byteOffset = b
      BY <2>3 DEF SlotsOf, In, IsAt
    <3>2. s = r /\ p = vpn
      BY <1>3, <1>5, <3>1 DEF PagesSwapped
    <3> QED
      BY <3>1, <3>2
  <2> QED
    BY <2>2, <2>3
<1> HIDE DEF frames, slots
<1>6. /\ n.pageTableBitMap = m.pageTableBitMap \ frames /\ n.swapBitMap = m.swapBitMap \ slots
      /\ \A f \in Frames \cap frames : ~n.IPT[f].valid
      /\ \A f \in Frames \ frames : SameOwner(n.IPT[f], m.IPT[f])
  BY DEF GivenBack, frames, slots
<1>7. BitsRight(n, {})
  BY <1>3, <1>6 DEF BitsRight, SameOwner
<1>8. FramesOwned(n)
  <2>1. SUFFICES ASSUME NEW f \in Frames, n.IPT[f].valid
                 PROVE  LET r == n.IPT[f].PID
                            vpn == n.IPT[f].virtualPage
                        IN  /\ r \in Spaces /\ vpn \in DOMAIN n.pageTable[r]
                            /\ IsAt(n.pageTable[r][vpn], "MAIN") /\ n.pageTable[r][vpn].physicalPage = f
    BY DEF FramesOwned
  <2>2. f \notin frames /\ SameOwner(n.IPT[f], m.IPT[f])
    BY <1>6, <2>1
  <2> DEFINE r == m.IPT[f].PID
             vpn == m.IPT[f].virtualPage
  <2>3. /\ r \in Spaces /\ vpn \in DOMAIN m.pageTable[r]
        /\ IsAt(m.pageTable[r][vpn], "MAIN") /\ m.pageTable[r][vpn].physicalPage = f
    BY <1>3, <2>1, <2>2 DEF FramesOwned, SameOwner
  <2>4. n.IPT[f].PID = r /\ n.IPT[f].virtualPage = vpn
    BY <2>2 DEF SameOwner
  <2> HIDE DEF r, vpn
  <2>5. r # s \/ vpn \notin pages
    BY <1>4, <2>2, <2>3
  <2> QED
    BY <1>2, <2>3, <2>4, <2>5
<1>9. PagesMapped(n)
  <2>1. SUFFICES ASSUME NEW r \in Spaces, NEW vpn \in DOMAIN n.pageTable[r], IsAt(n.pageTable[r][vpn], "MAIN")
                 PROVE  LET f == n.pageTable[r][vpn].physicalPage
                        IN  f \in Frames /\ n.IPT[f].valid /\ n.IPT[f].PID = r /\ n.IPT[f].virtualPage = vpn
    BY DEF PagesMapped, OnFrame
  <2>2. /\ vpn \in DOMAIN m.pageTable[r] /\ n.pageTable[r][vpn] = m.pageTable[r][vpn]
        /\ r # s \/ vpn \notin pages
    BY <1>1, <2>1
  <2> DEFINE f == m.pageTable[r][vpn].physicalPage
  <2>3. f \in Frames /\ f \notin frames
    BY <1>4, <2>1, <2>2
  <2>4. m.IPT[f].valid /\ m.IPT[f].PID = r /\ m.IPT[f].virtualPage = vpn
    <3>1. OnFrame(m, f, r, vpn)
      BY <1>3, <2>1, <2>2 DEF PagesMapped
    <3> QED
      BY <3>1 DEF OnFrame
  <2> QED
    BY <1>6, <2>2, <2>3, <2>4 DEF SameOwner
<1>10. SlotsOwned(n)
  <2>1. SUFFICES ASSUME NEW b \in n.swapBitMap
                 PROVE  \E r \in Spaces : \E vpn \in DOMAIN n.pageTable[r] :
                          IsAt(n.pageTable[r][vpn], "SWAP") /\ n.pageTable[r][vpn].byteOffset = b
    BY DEF SlotsOwned
  <2>2. b \in m.swapBitMap /\ b \notin slots
    BY <1>6
  <2>3. PICK r \in Spaces : \E vpn \in DOMAIN m.pageTable[r] :
               IsAt(m.pageTable[r][vpn], "SWAP") /\ m.pageTable[r][vpn].byteOffset = b
    BY <1>3, <2>2 DEF SlotsOwned
  <2>4. PICK vpn \in DOMAIN m.pageTable[r] : IsAt(m.pageTable[r][vpn], "SWAP") /\ m.pageTable[r][vpn].byteOffset = b
    BY <2>3
  <2>5. r # s \/ vpn \notin pages
    BY <1>5, <2>2, <2>4
  <2> QED
    BY <1>2, <2>4, <2>5
<1>11. PagesSwapped(n)
  <2>1. SUFFICES ASSUME NEW r \in Spaces, NEW vpn \in DOMAIN n.pageTable[r], IsAt(n.pageTable[r][vpn], "SWAP")
                 PROVE  /\ n.pageTable[r][vpn].dirty /\ n.pageTable[r][vpn].byteOffset \in n.swapBitMap
                        /\ \A q \in Spaces : \A p \in DOMAIN n.pageTable[q] :
                             IsAt(n.pageTable[q][p], "SWAP") /\ n.pageTable[q][p].byteOffset = n.pageTable[r][vpn].byteOffset
                               => q = r /\ p = vpn
    BY DEF PagesSwapped
  <2>2. /\ vpn \in DOMAIN m.pageTable[r] /\ n.pageTable[r][vpn] = m.pageTable[r][vpn]
        /\ r # s \/ vpn \notin pages
    BY <1>1, <2>1
  <2>3. m.pageTable[r][vpn].dirty /\ m.pageTable[r][vpn].byteOffset \in m.swapBitMap
    BY <1>3, <2>1, <2>2 DEF PagesSwapped
  <2>4. m.pageTable[r][vpn].byteOffset \notin slots
    BY <1>5, <2>1, <2>2
  <2>5. ASSUME NEW q \in Spaces, NEW p \in DOMAIN n.pageTable[q], IsAt(n.pageTable[q][p], "SWAP"),
               n.pageTable[q][p].byteOffset = n.pageTable[r][vpn].byteOffset
        PROVE  q = r /\ p = vpn
    <3>1. p \in DOMAIN m.pageTable[q] /\ n.pageTable[q][p] = m.pageTable[q][p]
      BY <1>1, <2>5
    <3> QED
      BY <1>3, <2>1, <2>2, <2>5, <3>1 DEF PagesSwapped
  <2> QED
    BY <1>6, <2>2, <2>3, <2>4, <2>5
<1> QED
  BY <1>7, <1>8, <1>9, <1>10, <1>11 DEF Accounted

\* What is known of the pages that are left is still right.
\* What is known of the pages that are given back is forgotten.
Forgets(n, ver, w, s, pages) ==
  /\ \A r \in Spaces \ {s} : w[r] = ver[r]
  /\ DOMAIN w[s] = DOMAIN n.pageTable[s]
  /\ \A vpn \in DOMAIN w[s] : vpn \in pages => w[s][vpn] = -1
  /\ \A vpn \in DOMAIN w[s] : vpn \notin pages => w[s][vpn] = ver[s][vpn]

LEMMA FreedPagesRight ==
  ASSUME NEW m, NEW n, NEW s \in Spaces, NEW pages \in SUBSET DOMAIN m.pageTable[s], Accounted(m, {}),
         EntriesDropped(m, n, s, pages),
         GivenBack(m, n, FramesOf(m.pageTable[s], pages), SlotsOf(m.pageTable[s], pages)),
         NEW ver, NEW w, PagesRight(m, ver), Forgets(n, ver, w, s, pages)
  PROVE  PagesRight(n, w)
<1> DEFINE pt == m.pageTable[s]
           frames == FramesOf(pt, pages)
           slots == SlotsOf(pt, pages)
<1>1. m \in Memory /\ PagesMapped(m) /\ PagesSwapped(m) /\ m.swapBitMap \subseteq SwapPages
  BY MemoryIs DEF Accounted, FieldsTyped
<1>2. ASSUME NEW r \in Spaces, NEW vpn \in DOMAIN w[r], w[r][vpn] # -1
      PROVE  PageRight(n, r, vpn, w[r][vpn])
  <2>1. /\ vpn \in DOMAIN ver[r] /\ w[r][vpn] = ver[r][vpn] /\ vpn \in DOMAIN m.pageTable[r]
        /\ n.pageTable[r][vpn] = m.pageTable[r][vpn] /\ (r # s \/ vpn \notin pages)
    <3>1. CASE r # s
      BY <1>2, <3>1 DEF PagesRight, EntriesDropped, Forgets
    <3>2. CASE r = s
      BY <1>2, <3>2 DEF PagesRight, EntriesDropped, Forgets
    <3> QED
      BY <3>1, <3>2
  <2>2. PageRight(m, r, vpn, w[r][vpn])
    BY <1>2, <2>1 DEF PagesRight
  <2> DEFINE entry == m.pageTable[r][vpn]
             f == entry.physicalPage
             b == entry.byteOffset
  <2>3. ASSUME IsAt(entry, "MAIN") PROVE n.mainMemory[f] = m.mainMemory[f] /\ (Dirty(m, f) => Dirty(n, f))
    <3>1. f \in Frames /\ m.IPT[f].valid /\ m.IPT[f].PID = r /\ m.IPT[f].virtualPage = vpn
      <4>1. OnFrame(m, f, r, vpn)
        BY <1>1, <2>1, <2>3 DEF PagesMapped
      <4> QED
        BY <4>1 DEF OnFrame
    <3>2. f \notin frames
      <4>1. SUFFICES ASSUME f \in frames PROVE FALSE
        OBVIOUS
      <4>2. PICK p \in pages : IsAt(m.pageTable[s][p], "MAIN") /\ m.pageTable[s][p].physicalPage = f
        BY <4>1 DEF FramesOf, In, IsAt
      <4>3. m.IPT[f].PID = s /\ m.IPT[f].virtualPage = p
        <5>1. OnFrame(m, f, s, p)
          BY <1>1, <4>2 DEF PagesMapped
        <5> QED
          BY <5>1 DEF OnFrame
      <4> QED
        BY <2>1, <3>1, <4>3
    <3> QED
      BY <3>1, <3>2 DEF GivenBack
  <2>4. ASSUME IsAt(entry, "SWAP") PROVE n.swapFile[b] = m.swapFile[b]
    <3>1. b \in SwapPages
      BY <1>1, <2>1, <2>4 DEF PagesSwapped
    <3>2. b \notin slots
      <4>1. SUFFICES ASSUME b \in slots PROVE FALSE
        OBVIOUS
      <4>2. PICK p \in pages : IsAt(m.pageTable[s][p], "SWAP") /\ m.pageTable[s][p].byteOffset = b
        BY <4>1 DEF SlotsOf, In, IsAt
      <4>3. s = r /\ p = vpn
        BY <1>1, <2>1, <2>4, <4>2 DEF PagesSwapped
      <4> QED
        BY <2>1, <4>2, <4>3
    <3> QED
      BY <3>1, <3>2 DEF GivenBack
  <2> QED
    BY <2>1, <2>2, <2>3, <2>4, PageKept
<1>3. ASSUME NEW r \in Spaces PROVE DOMAIN w[r] = DOMAIN n.pageTable[r]
  BY DEF PagesRight, EntriesDropped, Forgets
<1> QED
  BY <1>2, <1>3 DEF PagesRight

LEMMA BitsFinite ==
  ASSUME NEW m \in Memory
  PROVE  IsFiniteSet(m.pageTableBitMap) /\ Cardinality(m.pageTableBitMap) \in Nat
<1>1. IsFiniteSet(Frames)
  BY Sizes, FS_Interval DEF Frames
<1>2. m.pageTableBitMap \in SUBSET Frames
  BY MemoryIs DEF FieldsTyped
<1> QED
  BY <1>1, <1>2, FS_Subset, FS_CardinalityType

\* Each page in main memory has a frame of its own.
LEMMA FramesOfPages ==
  ASSUME NEW m, Accounted(m, {}), NEW s \in Spaces, NEW pages \in SUBSET DOMAIN m.pageTable[s]
  PROVE  LET frames == FramesOf(m.pageTable[s], pages)
         IN  /\ frames \in SUBSET m.pageTableBitMap /\ IsFiniteSet(frames) /\ Cardinality(frames) \in Nat
             /\ Cardinality(In(m.pageTable[s], pages, "MAIN")) = Cardinality(frames)
<1> DEFINE pt == m.pageTable[s]
           frames == FramesOf(pt, pages)
           mapped == In(pt, pages, "MAIN")
           g == [vpn \in mapped |-> pt[vpn].physicalPage]
<1>1. m \in Memory /\ BitsRight(m, {}) /\ PagesMapped(m)
  BY DEF Accounted
<1>2. ASSUME NEW vpn \in mapped
      PROVE  LET f == pt[vpn].physicalPage
             IN  f \in frames /\ f \in m.pageTableBitMap /\ m.IPT[f].virtualPage = vpn
  <2>1. vpn \in pages /\ IsAt(pt[vpn], "MAIN")
    BY DEF In, IsAt
  <2>2. pt[vpn].physicalPage \in frames
    BY DEF FramesOf
  <2>3. LET f == pt[vpn].physicalPage IN f \in Frames /\ m.IPT[f].valid /\ m.IPT[f].virtualPage = vpn
    <3>1. OnFrame(m, pt[vpn].physicalPage, s, vpn)
      BY <1>1, <2>1 DEF PagesMapped
    <3> QED
      BY <3>1 DEF OnFrame
  <2> QED
    BY <1>1, <2>2, <2>3 DEF BitsRight
<1>3. frames \in SUBSET m.pageTableBitMap
  BY <1>2 DEF FramesOf
<1>4. IsFiniteSet(frames)
  BY <1>1, <1>3, BitsFinite, FS_Subset
<1>5. \A f \in frames : \E vpn \in mapped : f = pt[vpn].physicalPage
  BY DEF FramesOf
<1> HIDE DEF frames, mapped, pt
<1>6. g \in Injection(mapped, frames)
  <2>1. g \in [mapped -> frames]
    BY <1>2
  <2>2. ASSUME NEW a \in mapped, NEW b \in mapped, g[a] = g[b] PROVE a = b
    BY <1>2, <2>2
  <2> QED
    BY <2>1, <2>2 DEF Injection, IsInjective
<1>7. g \in Surjection(mapped, frames)
  BY <1>2, <1>5 DEF Surjection
<1> HIDE DEF g
<1>8. Cardinality(mapped) = Cardinality(frames)
  BY <1>4, <1>6, <1>7, FS_Injection
<1> QED
  BY <1>3, <1>4, <1>8, FS_CardinalityType DEF frames, mapped, pt

\* The queue loses no more places than there are frames given back.
LEMMA QueueStaysLong ==
  ASSUME NEW m, NEW n, Accounted(m, {}), QueueLong(m), NEW frames \in SUBSET m.pageTableBitMap,
         n.pageTableBitMap = m.pageTableBitMap \ frames, n.FIFOList \in Seq(Frames),
         Len(m.FIFOList) <= Len(n.FIFOList) + Cardinality(frames)
  PROVE  QueueLong(n)
<1>1. m \in Memory /\ IsFiniteSet(m.pageTableBitMap) /\ Cardinality(m.pageTableBitMap) \in Nat
  BY BitsFinite DEF Accounted
<1>2. IsFiniteSet(frames) /\ Cardinality(frames) \in Nat
  BY <1>1, FS_Subset, FS_CardinalityType
<1>3. m.pageTableBitMap \cap frames = frames
  OBVIOUS
<1>4. Cardinality(n.pageTableBitMap) = Cardinality(m.pageTableBitMap) - Cardinality(frames)
  BY <1>1, <1>3, FS_Difference
<1>5. Len(m.FIFOList) \in Nat /\ Len(n.FIFOList) \in Nat
  <2>1. m.FIFOList \in Seq(Frames)
    BY <1>1, MemoryIs DEF FieldsTyped
  <2> QED
    BY <2>1
<1>6. Len(m.FIFOList) >= Cardinality(m.pageTableBitMap)
  BY DEF QueueLong
<1>7. Len(n.FIFOList) >= Cardinality(n.pageTableBitMap)
  BY <1>1, <1>2, <1>4, <1>5, <1>6
<1> QED
  BY <1>7 DEF QueueLong

\* What a program knows when it has given pages back.
Forgotten(ver, s, pages) ==
  [ver EXCEPT ![s] = [vpn \in DOMAIN @ |-> IF vpn \in pages THEN -1 ELSE @[vpn]]]

\* AddrSpace::Exit
LEMMA ExitSpaceRight ==
  ASSUME NEW m, NEW space, NEW other, NEW ver \in [Spaces -> Seq({-1, 0, 1})], Right(m, space, ver),
         NEW s \in Spaces, NEW stack \in SUBSET DOMAIN m.pageTable[s]
  PROVE  /\ Right(ExitSpace(m, s, stack), other, Forgotten(ver, s, stack))
         /\ EntriesDropped(m, ExitSpace(m, s, stack), s, stack)
<1> DEFINE pt == m.pageTable[s]
           frames == FramesOf(pt, stack)
           slots == SlotsOf(pt, stack)
           freed == FreePages(m, s, stack)
           list == WithoutFrames(m.FIFOList, frames)
           new == [vpn \in DOMAIN pt |->
                     IF vpn \in stack THEN [pt[vpn] EXCEPT !.valid = FALSE, !.physicalPage = -1] ELSE pt[vpn]]
           n == ExitSpace(m, s, stack)
           w == Forgotten(ver, s, stack)
<1>1. m \in Memory /\ Accounted(m, {}) /\ m.stopped = "no" /\ QueueLong(m) /\ PagesRight(m, ver)
  BY DEF Right, Accounted
<1>2. freed \in Memory /\ freed.pageTable = m.pageTable /\ freed.FIFOList = m.FIFOList /\ GivenBack(m, freed, frames, slots)
  BY <1>1, FreePagesGivesBack
<1>3. n = [freed EXCEPT !.FIFOList = list, !.pageTable[s] = new]
  BY <1>2 DEF ExitSpace, FramesOf
<1>4. /\ new \in Seq(PageTableEntry) /\ DOMAIN new = DOMAIN pt
      /\ \A vpn \in DOMAIN pt : IF vpn \in stack THEN ~new[vpn].valid ELSE new[vpn] = pt[vpn]
  <2>1. Len(pt) \in Nat /\ DOMAIN pt = 1..Len(pt) /\ \A vpn \in DOMAIN pt : pt[vpn] \in PageTableEntry
    BY <1>1, TableTypes
  <2>2. ASSUME NEW e \in PageTableEntry
        PROVE  LET d == [e EXCEPT !.valid = FALSE, !.physicalPage = -1] IN d \in PageTableEntry /\ ~d.valid
    BY DEF PageTableEntry
  <2>3. \A vpn \in DOMAIN pt : new[vpn] \in PageTableEntry
    BY <2>1, <2>2
  <2>4. \A vpn \in DOMAIN pt : IF vpn \in stack THEN ~new[vpn].valid ELSE new[vpn] = pt[vpn]
    BY <2>1, <2>2
  <2>5. new = [vpn \in 1..Len(pt) |-> new[vpn]]
    BY <2>1
  <2> HIDE DEF new, pt
  <2>6. new \in [1..Len(pt) -> PageTableEntry]
    BY <2>1, <2>3, <2>5
  <2> QED
    BY <2>1, <2>4, <2>6
<1>5. /\ frames \in SUBSET m.pageTableBitMap /\ IsFiniteSet(frames)
  BY <1>1, FramesOfPages
<1> HIDE DEF freed, frames, slots, new, n, pt
<1>6. list \in Seq(Frames) /\ Len(m.FIFOList) <= Len(list) + Cardinality(frames)
  <2>1. m.FIFOList \in Seq(Frames)
    BY <1>1, MemoryIs DEF FieldsTyped
  <2> QED
    BY <1>5, <2>1, WithoutFramesLong
<1> HIDE DEF list
<1>7. IsRecord(freed) /\ FieldsTyped(freed)
  BY <1>2, MemoryIs
<1>8. /\ IsRecord(n) /\ n.mainMemory = freed.mainMemory /\ n.IPT = freed.IPT /\ n.swapFile = freed.swapFile
      /\ n.pageTableBitMap = freed.pageTableBitMap /\ n.swapBitMap = freed.swapBitMap
      /\ n.FIFOList = list /\ n.currentTLB = freed.currentTLB /\ n.tlb = freed.tlb
      /\ n.pageTable = [m.pageTable EXCEPT ![s] = new] /\ n.stopped = freed.stopped
  BY <1>2, <1>3, <1>7 DEF IsRecord
<1>9. m.pageTable \in [Spaces -> Seq(PageTableEntry)]
  BY <1>1, MemoryIs DEF FieldsTyped
<1>10. /\ n.pageTable \in [Spaces -> Seq(PageTableEntry)] /\ n.pageTable[s] = new
       /\ \A r \in Spaces \ {s} : n.pageTable[r] = m.pageTable[r]
  BY <1>4, <1>8, <1>9
<1>11. n \in Memory
  BY <1>6, <1>7, <1>8, <1>10, MemoryIs DEF FieldsTyped
<1>12. GivenBack(m, n, frames, slots)
  BY <1>2, <1>8 DEF GivenBack, NoTLB, Dirty
<1>13. EntriesDropped(m, n, s, stack)
  BY <1>4, <1>10 DEF EntriesDropped, pt
<1>14. Accounted(n, {})
  BY <1>1, <1>11, <1>12, <1>13, FreedAccounted DEF frames, slots, pt
<1>15. QueueLong(n)
  BY <1>1, <1>5, <1>6, <1>8, <1>12, QueueStaysLong DEF GivenBack
<1>16. /\ \A r \in Spaces \ {s} : w[r] = ver[r]
       /\ w[s] = [vpn \in DOMAIN ver[s] |-> IF vpn \in stack THEN -1 ELSE ver[s][vpn]]
  BY DEF Forgotten
<1> HIDE DEF w
<1>17. /\ DOMAIN w[s] = DOMAIN n.pageTable[s]
       /\ \A vpn \in DOMAIN w[s] : vpn \in stack => w[s][vpn] = -1
       /\ \A vpn \in DOMAIN w[s] : vpn \notin stack => w[s][vpn] = ver[s][vpn]
  BY <1>1, <1>4, <1>10, <1>16 DEF PagesRight, pt
<1>18. PagesRight(n, w)
  <2>1. GivenBack(m, n, FramesOf(m.pageTable[s], stack), SlotsOf(m.pageTable[s], stack))
    BY <1>12 DEF frames, slots, pt
  <2>2. \A r \in Spaces \ {s} : w[r] = ver[r]
    BY <1>16
  <2>3. Accounted(m, {}) /\ PagesRight(m, ver)
    BY <1>1
  <2> QED
    <3>1. Forgets(n, ver, w, s, stack)
      BY <1>17, <2>2 DEF Forgets
    <3> QED
      BY <1>13, <2>1, <2>3, <3>1, FreedPagesRight
<1>19. TLBRight(n, other) /\ n.stopped = "no"
  BY <1>1, <1>12, NoTLBRight DEF GivenBack
<1> QED
  BY <1>13, <1>14, <1>15, <1>18, <1>19 DEF Right, n, w

\* AddrSpace::~AddrSpace
LEMMA DeleteSpaceRight ==
  ASSUME NEW m, NEW space, NEW other, NEW ver \in [Spaces -> Seq({-1, 0, 1})], Right(m, space, ver),
         NEW s \in Spaces, NEW fifo \in EraseResults(m.pageTable[s], m.FIFOList)
  PROVE  /\ Right(DeleteSpace(m, s, fifo), other, [ver EXCEPT ![s] = <<>>])
         /\ EntriesDropped(m, DeleteSpace(m, s, fifo), s, DOMAIN m.pageTable[s])
<1> DEFINE pt == m.pageTable[s]
           pages == DOMAIN pt
           frames == FramesOf(pt, pages)
           slots == SlotsOf(pt, pages)
           freed == FreePages(m, s, pages)
           n == DeleteSpace(m, s, fifo)
           w == [ver EXCEPT ![s] = <<>>]
<1>1. m \in Memory /\ Accounted(m, {}) /\ m.stopped = "no" /\ QueueLong(m) /\ PagesRight(m, ver)
  BY DEF Right, Accounted
<1>2. freed \in Memory /\ freed.pageTable = m.pageTable /\ freed.FIFOList = m.FIFOList /\ GivenBack(m, freed, frames, slots)
  BY <1>1, FreePagesGivesBack
<1>3. n = [freed EXCEPT !.FIFOList = fifo, !.pageTable[s] = <<>>]
  BY <1>2 DEF DeleteSpace
<1>5. /\ frames \in SUBSET m.pageTableBitMap /\ Cardinality(In(pt, pages, "MAIN")) = Cardinality(frames)
  BY <1>1, FramesOfPages
<1>6. fifo \in Seq(Frames) /\ Len(m.FIFOList) <= Len(fifo) + Cardinality(frames)
  <2>1. m.FIFOList \in Seq(Frames)
    BY <1>1, MemoryIs DEF FieldsTyped
  <2>2. Len(pt) \in Nat /\ DOMAIN pt = 1..Len(pt)
    BY <1>1, TableTypes
  <2> HIDE DEF frames
  <2>3. fifo \in Seq(Frames) /\ Len(m.FIFOList) <= Len(fifo) + Cardinality(In(pt, DOMAIN pt, "MAIN"))
    BY <2>1, <2>2, EraseResultsLong
  <2> QED
    BY <1>5, <2>3
<1> HIDE DEF freed, frames, slots, n
<1>7. IsRecord(freed) /\ FieldsTyped(freed)
  BY <1>2, MemoryIs
<1>8. /\ IsRecord(n) /\ n.mainMemory = freed.mainMemory /\ n.IPT = freed.IPT /\ n.swapFile = freed.swapFile
      /\ n.pageTableBitMap = freed.pageTableBitMap /\ n.swapBitMap = freed.swapBitMap
      /\ n.FIFOList = fifo /\ n.currentTLB = freed.currentTLB /\ n.tlb = freed.tlb
      /\ n.pageTable = [m.pageTable EXCEPT ![s] = <<>>] /\ n.stopped = freed.stopped
  BY <1>2, <1>3, <1>7 DEF IsRecord
<1>9. m.pageTable \in [Spaces -> Seq(PageTableEntry)]
  BY <1>1, MemoryIs DEF FieldsTyped
<1>10. /\ n.pageTable \in [Spaces -> Seq(PageTableEntry)] /\ n.pageTable[s] = <<>>
       /\ \A r \in Spaces \ {s} : n.pageTable[r] = m.pageTable[r]
  BY <1>8, <1>9
<1>11. n \in Memory
  BY <1>6, <1>7, <1>8, <1>10, MemoryIs DEF FieldsTyped
<1>12. GivenBack(m, n, frames, slots)
  BY <1>2, <1>8 DEF GivenBack, NoTLB, Dirty
<1>13. EntriesDropped(m, n, s, pages)
  BY <1>10 DEF EntriesDropped
<1>14. Accounted(n, {})
  BY <1>1, <1>11, <1>12, <1>13, FreedAccounted DEF frames, slots
<1>15. QueueLong(n)
  BY <1>1, <1>5, <1>6, <1>8, <1>12, QueueStaysLong DEF GivenBack
<1>16. /\ \A r \in Spaces \ {s} : w[r] = ver[r]
       /\ w[s] = <<>>
  OBVIOUS
<1> HIDE DEF w
<1>17. /\ DOMAIN w[s] = DOMAIN n.pageTable[s] /\ DOMAIN w[s] = {}
  BY <1>10, <1>16
<1>18. PagesRight(n, w)
  <2>1. Forgets(n, ver, w, s, pages)
    BY <1>16, <1>17 DEF Forgets
  <2>2. GivenBack(m, n, FramesOf(m.pageTable[s], pages), SlotsOf(m.pageTable[s], pages))
    BY <1>12 DEF frames, slots
  <2>3. Accounted(m, {}) /\ PagesRight(m, ver)
    BY <1>1
  <2> HIDE DEF pages, pt
  <2>4. pages \in SUBSET DOMAIN m.pageTable[s]
    BY DEF pages, pt
  <2> QED
    BY <1>13, <2>1, <2>2, <2>3, <2>4, FreedPagesRight
<1>19. TLBRight(n, other) /\ n.stopped = "no"
  BY <1>1, <1>12, NoTLBRight DEF GivenBack
<1> QED
  BY <1>13, <1>14, <1>15, <1>18, <1>19 DEF Right, n, w

-----------------------------------------------------------------------------
(***************************************************************************)
(* A space is made, or gets a stack.                                       *)
(***************************************************************************)
\* The entries of a space are kept, and those that are new are not valid.
EntriesAdded(m, n, s) ==
  /\ \A r \in Spaces \ {s} : n.pageTable[r] = m.pageTable[r]
  /\ DOMAIN m.pageTable[s] \subseteq DOMAIN n.pageTable[s]
  /\ \A vpn \in DOMAIN m.pageTable[s] : n.pageTable[s][vpn] = m.pageTable[s][vpn]
  /\ \A vpn \in DOMAIN n.pageTable[s] \ DOMAIN m.pageTable[s] :
       ~n.pageTable[s][vpn].valid /\ n.pageTable[s][vpn].location # "SWAP"

LEMMA AddedAccounted ==
  ASSUME NEW m, NEW n \in Memory, NEW s \in Spaces, Accounted(m, {}), EntriesAdded(m, n, s),
         n.pageTableBitMap = m.pageTableBitMap, n.swapBitMap = m.swapBitMap, n.IPT = m.IPT
  PROVE  Accounted(n, {})
<1>1. ASSUME NEW r \in Spaces, NEW vpn \in DOMAIN n.pageTable[r], NEW loc, IsAt(n.pageTable[r][vpn], loc)
      PROVE  vpn \in DOMAIN m.pageTable[r] /\ n.pageTable[r][vpn] = m.pageTable[r][vpn]
  BY <1>1 DEF EntriesAdded, IsAt
<1>2. ASSUME NEW r \in Spaces, NEW vpn \in DOMAIN m.pageTable[r]
      PROVE  vpn \in DOMAIN n.pageTable[r] /\ n.pageTable[r][vpn] = m.pageTable[r][vpn]
  BY DEF EntriesAdded
<1>3. BitsRight(m, {}) /\ FramesOwned(m) /\ PagesMapped(m) /\ SlotsOwned(m) /\ PagesSwapped(m)
  BY DEF Accounted
<1>4. BitsRight(n, {})
  BY <1>3 DEF BitsRight
<1>5. FramesOwned(n)
  <2>1. SUFFICES ASSUME NEW f \in Frames, n.IPT[f].valid, NEW r, r = m.IPT[f].PID, NEW vpn, vpn = m.IPT[f].virtualPage
                 PROVE  /\ r \in Spaces /\ vpn \in DOMAIN n.pageTable[r]
                        /\ IsAt(n.pageTable[r][vpn], "MAIN") /\ n.pageTable[r][vpn].physicalPage = f
    BY DEF FramesOwned
  <2>2. /\ r \in Spaces /\ vpn \in DOMAIN m.pageTable[r]
        /\ IsAt(m.pageTable[r][vpn], "MAIN") /\ m.pageTable[r][vpn].physicalPage = f
    BY <1>3, <2>1 DEF FramesOwned
  <2> QED
    BY <1>2, <2>2
<1>6. PagesMapped(n)
  <2>1. SUFFICES ASSUME NEW r \in Spaces, NEW vpn \in DOMAIN n.pageTable[r], IsAt(n.pageTable[r][vpn], "MAIN")
                 PROVE  LET f == n.pageTable[r][vpn].physicalPage
                        IN  f \in Frames /\ n.IPT[f].valid /\ n.IPT[f].PID = r /\ n.IPT[f].virtualPage = vpn
    BY DEF PagesMapped, OnFrame
  <2>2. vpn \in DOMAIN m.pageTable[r] /\ n.pageTable[r][vpn] = m.pageTable[r][vpn]
    BY <1>1, <2>1
  <2>3. PICK e : e = m.pageTable[r][vpn]
    OBVIOUS
  <2>4. LET f == e.physicalPage
        IN  f \in Frames /\ m.IPT[f].valid /\ m.IPT[f].PID = r /\ m.IPT[f].virtualPage = vpn
    BY <1>3, <2>1, <2>2, <2>3 DEF PagesMapped, OnFrame
  <2> QED
    BY <2>2, <2>3, <2>4
<1>7. SlotsOwned(n)
  BY <1>2, <1>3 DEF SlotsOwned
<1>8. PagesSwapped(n)
  <2>1. SUFFICES ASSUME NEW r \in Spaces, NEW vpn \in DOMAIN n.pageTable[r], IsAt(n.pageTable[r][vpn], "SWAP")
                 PROVE  /\ n.pageTable[r][vpn].dirty /\ n.pageTable[r][vpn].byteOffset \in n.swapBitMap
                        /\ \A q \in Spaces : \A p \in DOMAIN n.pageTable[q] :
                             IsAt(n.pageTable[q][p], "SWAP") /\ n.pageTable[q][p].byteOffset = n.pageTable[r][vpn].byteOffset
                               => q = r /\ p = vpn
    BY DEF PagesSwapped
  <2>2. vpn \in DOMAIN m.pageTable[r] /\ n.pageTable[r][vpn] = m.pageTable[r][vpn]
    BY <1>1, <2>1
  <2>3. m.pageTable[r][vpn].dirty /\ m.pageTable[r][vpn].byteOffset \in m.swapBitMap
    BY <1>3, <2>1, <2>2 DEF PagesSwapped
  <2>4. ASSUME NEW q \in Spaces, NEW p \in DOMAIN n.pageTable[q], IsAt(n.pageTable[q][p], "SWAP"),
               n.pageTable[q][p].byteOffset = n.pageTable[r][vpn].byteOffset
        PROVE  q = r /\ p = vpn
    <3>1. p \in DOMAIN m.pageTable[q] /\ n.pageTable[q][p] = m.pageTable[q][p]
      BY <1>1, <2>4
    <3> QED
      BY <1>3, <2>1, <2>2, <2>4, <3>1 DEF PagesSwapped
  <2> QED
    BY <2>2, <2>3, <2>4
<1> QED
  BY <1>4, <1>5, <1>6, <1>7, <1>8 DEF Accounted

\* A page table is replaced, and nothing else.
LEMMA NewTable ==
  ASSUME NEW m \in Memory, NEW s \in Spaces, NEW new \in Seq(PageTableEntry)
  PROVE  LET n == [m EXCEPT !.pageTable[s] = new]
         IN  /\ n \in Memory /\ n.pageTable[s] = new /\ \A r \in Spaces \ {s} : n.pageTable[r] = m.pageTable[r]
             /\ n.mainMemory = m.mainMemory /\ n.IPT = m.IPT /\ n.swapFile = m.swapFile
             /\ n.pageTableBitMap = m.pageTableBitMap /\ n.swapBitMap = m.swapBitMap
             /\ n.FIFOList = m.FIFOList /\ n.currentTLB = m.currentTLB /\ n.tlb = m.tlb /\ n.stopped = m.stopped
<1> DEFINE n == [m EXCEPT !.pageTable[s] = new]
<1>1. IsRecord(m) /\ FieldsTyped(m)
  BY MemoryIs
<1>2. /\ IsRecord(n) /\ n.mainMemory = m.mainMemory /\ n.IPT = m.IPT /\ n.swapFile = m.swapFile
      /\ n.pageTableBitMap = m.pageTableBitMap /\ n.swapBitMap = m.swapBitMap
      /\ n.FIFOList = m.FIFOList /\ n.currentTLB = m.currentTLB /\ n.tlb = m.tlb /\ n.stopped = m.stopped
      /\ n.pageTable = [m.pageTable EXCEPT ![s] = new]
  BY <1>1 DEF IsRecord
<1> HIDE DEF n
<1>3. /\ n.pageTable \in [Spaces -> Seq(PageTableEntry)] /\ n.pageTable[s] = new
      /\ \A r \in Spaces \ {s} : n.pageTable[r] = m.pageTable[r]
  BY <1>1, <1>2 DEF FieldsTyped
<1>4. n \in Memory
  BY <1>1, <1>2, <1>3, MemoryIs DEF FieldsTyped
<1> QED
  BY <1>2, <1>3, <1>4 DEF n

LEMMA AddedRight ==
  ASSUME NEW m, NEW n \in Memory, NEW s \in Spaces, NEW space, NEW ver, NEW w, Right(m, space, ver), EntriesAdded(m, n, s),
         n.mainMemory = m.mainMemory, n.IPT = m.IPT, n.swapFile = m.swapFile,
         n.pageTableBitMap = m.pageTableBitMap, n.swapBitMap = m.swapBitMap,
         n.FIFOList = m.FIFOList, n.tlb = m.tlb, n.stopped = m.stopped,
         \A r \in Spaces \ {s} : w[r] = ver[r],
         DOMAIN w[s] = DOMAIN n.pageTable[s],
         \A vpn \in DOMAIN ver[s] : w[s][vpn] = ver[s][vpn],
         \A vpn \in DOMAIN w[s] \ DOMAIN ver[s] : w[s][vpn] # -1 => PageRight(n, s, vpn, w[s][vpn])
  PROVE  Right(n, space, w)
<1>1. Accounted(m, {}) /\ PagesRight(m, ver) /\ TLBRight(m, space) /\ QueueLong(m) /\ m.stopped = "no"
  BY DEF Right
<1>2. Accounted(n, {})
  BY <1>1, AddedAccounted
<1>3. TLBRight(n, space) /\ QueueLong(n) /\ n.stopped = "no"
  BY <1>1 DEF TLBRight, QueueLong
<1>4. \A f : Dirty(m, f) => Dirty(n, f)
  BY DEF Dirty
<1>5. ASSUME NEW r \in Spaces, NEW vpn \in DOMAIN ver[r], ver[r][vpn] # -1
      PROVE  PageRight(n, r, vpn, ver[r][vpn])
  <2>1. PageRight(m, r, vpn, ver[r][vpn]) /\ vpn \in DOMAIN m.pageTable[r]
    BY <1>1, <1>5 DEF PagesRight
  <2>2. n.pageTable[r][vpn] = m.pageTable[r][vpn]
    BY <2>1 DEF EntriesAdded
  <2> QED
    BY <1>4, <2>1, <2>2, PageKept
<1>6. ASSUME NEW r \in Spaces, NEW vpn \in DOMAIN w[r], w[r][vpn] # -1
      PROVE  PageRight(n, r, vpn, w[r][vpn])
  <2>1. CASE r # s
    BY <1>5, <1>6, <2>1
  <2>2. CASE r = s /\ vpn \in DOMAIN ver[s]
    BY <1>5, <1>6, <2>2
  <2>3. CASE r = s /\ vpn \notin DOMAIN ver[s]
    BY <1>6, <2>3
  <2> QED
    BY <2>1, <2>2, <2>3
<1>7. ASSUME NEW r \in Spaces PROVE DOMAIN w[r] = DOMAIN n.pageTable[r]
  BY <1>1 DEF PagesRight, EntriesAdded
<1>8. PagesRight(n, w)
  BY <1>6, <1>7 DEF PagesRight
<1> QED
  BY <1>2, <1>3, <1>8 DEF Right

LEMMA NewEntries ==
  /\ \A o \in {-1, Uninitialised} \cup Nat : /\ StackPage(o) \in PageTableEntry /\ ~StackPage(o).valid
                                             /\ StackPage(o).location = "VOID"
  /\ \A vpn \in Nat : /\ ExecPage(vpn) \in PageTableEntry /\ ~ExecPage(vpn).valid
                      /\ ExecPage(vpn).location = "EXEC" /\ ExecPage(vpn).byteOffset = vpn
  BY DEF StackPage, ExecPage, PageTableEntry, PAGELOCATION

\* What a program knows of the pages of a new space.
Known == [vpn \in 1..(numNonStackPages + StackPages) |-> IF vpn <= numNonStackPages THEN 0 ELSE -1]

\* AddrSpace::AddrSpace, where there is no space yet.
LEMMA NewAddrSpaceRight ==
  ASSUME NEW m, NEW space, NEW ver \in [Spaces -> Seq({-1, 0, 1})], Right(m, space, ver),
         NEW s \in Spaces, m.pageTable[s] = <<>>
  PROVE  /\ Right(NewAddrSpace(m, s), space, [ver EXCEPT ![s] = Known])
         /\ EntriesAdded(m, NewAddrSpace(m, s), s)
         /\ DOMAIN NewAddrSpace(m, s).pageTable[s] = 1..(numNonStackPages + StackPages)
<1> DEFINE size == numNonStackPages + StackPages
           new == [vpn \in 1..size |-> IF vpn <= numNonStackPages THEN ExecPage(vpn) ELSE StackPage(-1)]
           n == NewAddrSpace(m, s)
           w == [ver EXCEPT ![s] = Known]
<1>1. size \in Nat /\ numNonStackPages \in Nat
  BY Sizes
<1>2. n = [m EXCEPT !.pageTable[s] = new]
  BY DEF NewAddrSpace
<1>3. new = [vpn \in 1..size |-> new[vpn]] /\ DOMAIN new = 1..size
  OBVIOUS
<1>4. ASSUME NEW vpn \in 1..size
      PROVE  /\ new[vpn] \in PageTableEntry /\ ~new[vpn].valid /\ new[vpn].location # "SWAP"
             /\ vpn <= numNonStackPages => new[vpn].location = "EXEC" /\ new[vpn].byteOffset = vpn
  <2>1. vpn \in Nat /\ new[vpn] = IF vpn <= numNonStackPages THEN ExecPage(vpn) ELSE StackPage(-1)
    OBVIOUS
  <2> QED
    BY <2>1, NewEntries
<1> HIDE DEF new, size, n
<1>5. new \in [1..size -> PageTableEntry]
  BY <1>3, <1>4
<1>6. new \in Seq(PageTableEntry)
  BY <1>1, <1>5
<1>7. m \in Memory /\ PagesRight(m, ver)
  BY DEF Right, Accounted
<1>8. /\ n \in Memory /\ n.pageTable[s] = new /\ \A r \in Spaces \ {s} : n.pageTable[r] = m.pageTable[r]
      /\ n.mainMemory = m.mainMemory /\ n.IPT = m.IPT /\ n.swapFile = m.swapFile
      /\ n.pageTableBitMap = m.pageTableBitMap /\ n.swapBitMap = m.swapBitMap
      /\ n.FIFOList = m.FIFOList /\ n.tlb = m.tlb /\ n.stopped = m.stopped
  BY <1>2, <1>6, <1>7, NewTable
<1>9. DOMAIN m.pageTable[s] = {} /\ DOMAIN ver[s] = {}
  BY <1>7 DEF PagesRight
<1>10. EntriesAdded(m, n, s)
  BY <1>3, <1>4, <1>8, <1>9 DEF EntriesAdded
<1>11. w[s] = Known /\ \A r \in Spaces \ {s} : w[r] = ver[r]
  OBVIOUS
<1> HIDE DEF w
<1>12. DOMAIN w[s] = DOMAIN n.pageTable[s] /\ DOMAIN w[s] = 1..size
  BY <1>3, <1>8, <1>11 DEF Known, size
<1>13. ASSUME NEW vpn \in DOMAIN w[s], w[s][vpn] # -1 PROVE PageRight(n, s, vpn, w[s][vpn])
  <2>1. vpn \in 1..size /\ w[s][vpn] = IF vpn <= numNonStackPages THEN 0 ELSE -1
    BY <1>11, <1>12 DEF Known, size
  <2>2. vpn <= numNonStackPages /\ w[s][vpn] = 0
    BY <1>13, <2>1
  <2> QED
    BY <1>4, <1>8, <2>1, <2>2 DEF PageRight
<1>14. \A r \in Spaces \ {s} : w[r] = ver[r]
  BY <1>11
<1>15. Right(n, space, w)
  BY <1>8, <1>9, <1>10, <1>12, <1>13, <1>14, AddedRight
<1>16. DOMAIN n.pageTable[s] = 1..(numNonStackPages + StackPages)
  BY <1>12 DEF size
<1> QED
  BY <1>10, <1>15, <1>16 DEF n, w

\* AddrSpace::Fork
LEMMA AddStackRight ==
  ASSUME NEW m, NEW space, NEW ver \in [Spaces -> Seq({-1, 0, 1})], Right(m, space, ver), NEW s \in Spaces
  PROVE  /\ Right(AddStack(m, s), space, [ver EXCEPT ![s] = @ \o [i \in 1..StackPages |-> -1]])
         /\ EntriesAdded(m, AddStack(m, s), s)
         /\ DOMAIN AddStack(m, s).pageTable[s] = 1..(Len(m.pageTable[s]) + StackPages)
<1> DEFINE pt == m.pageTable[s]
           k == Len(pt)
           g == [i \in 1..StackPages |-> StackPage(Uninitialised)]
           h == [i \in 1..StackPages |-> -1]
           n == AddStack(m, s)
           w == [ver EXCEPT ![s] = @ \o h]
<1>1. m \in Memory /\ PagesRight(m, ver)
  BY DEF Right, Accounted
<1>2. n = [m EXCEPT !.pageTable[s] = pt \o g]
  BY DEF AddStack
<1>3. pt \in Seq(PageTableEntry) /\ k \in Nat /\ DOMAIN pt = 1..k /\ StackPages \in Nat
  BY <1>1, TableTypes, Sizes
<1>4. /\ g \in Seq(PageTableEntry) /\ Len(g) = StackPages
      /\ \A i \in 1..StackPages : ~g[i].valid /\ g[i].location # "SWAP"
  <2>1. g \in [1..StackPages -> PageTableEntry] /\ \A i \in 1..StackPages : ~g[i].valid /\ g[i].location # "SWAP"
    BY NewEntries
  <2> HIDE DEF g
  <2> QED
    BY <1>3, <2>1
<1>5. h \in Seq({-1, 0, 1}) /\ Len(h) = StackPages /\ \A i \in 1..StackPages : h[i] = -1
  BY <1>3
<1> HIDE DEF g, n, h, pt, k
<1>6. /\ pt \o g \in Seq(PageTableEntry) /\ DOMAIN (pt \o g) = 1..(k + StackPages)
      /\ \A i \in 1..k : (pt \o g)[i] = pt[i]
      /\ \A i \in 1..(k + StackPages) : i > k => (pt \o g)[i] = g[i - k]
  BY <1>3, <1>4 DEF k
<1> DEFINE new == pt \o g
<1> HIDE DEF new
<1>7. new \in Seq(PageTableEntry) /\ DOMAIN new = 1..(k + StackPages)
  BY <1>6 DEF new
<1>8. /\ n \in Memory /\ n.pageTable[s] = new /\ \A r \in Spaces \ {s} : n.pageTable[r] = m.pageTable[r]
      /\ n.mainMemory = m.mainMemory /\ n.IPT = m.IPT /\ n.swapFile = m.swapFile
      /\ n.pageTableBitMap = m.pageTableBitMap /\ n.swapBitMap = m.swapBitMap
      /\ n.FIFOList = m.FIFOList /\ n.tlb = m.tlb /\ n.stopped = m.stopped
  <2>1. n = [m EXCEPT !.pageTable[s] = new]
    BY <1>2 DEF new
  <2> QED
    BY <1>1, <1>7, <2>1, NewTable
<1>9. ASSUME NEW i \in 1..(k + StackPages), i \notin 1..k PROVE i > k /\ i - k \in 1..StackPages
  BY <1>3, <1>9
<1>10. EntriesAdded(m, n, s)
  <2>1. DOMAIN pt \subseteq DOMAIN new
    BY <1>3, <1>7
  <2>2. \A vpn \in DOMAIN pt : new[vpn] = pt[vpn]
    BY <1>3, <1>6 DEF new
  <2>3. \A vpn \in DOMAIN new \ DOMAIN pt : ~new[vpn].valid /\ new[vpn].location # "SWAP"
    BY <1>3, <1>4, <1>6, <1>7, <1>9 DEF new
  <2> QED
    BY <1>8, <2>1, <2>2, <2>3 DEF EntriesAdded, pt
<1>11. w[s] = ver[s] \o h /\ \A r \in Spaces \ {s} : w[r] = ver[r]
  OBVIOUS
<1> HIDE DEF w
<1>12. ver[s] \in Seq({-1, 0, 1}) /\ DOMAIN ver[s] = 1..k /\ Len(ver[s]) = k
  <2>1. ver[s] \in Seq({-1, 0, 1})
    OBVIOUS
  <2>2. DOMAIN ver[s] = 1..k
    BY <1>1, <1>3 DEF PagesRight, pt
  <2> QED
    BY <1>3, <2>1, <2>2
<1>13. /\ DOMAIN w[s] = 1..(k + StackPages) /\ \A i \in 1..k : w[s][i] = ver[s][i]
       /\ \A i \in 1..(k + StackPages) : i > k => w[s][i] = h[i - k]
  BY <1>3, <1>5, <1>11, <1>12
<1>14. ASSUME NEW vpn \in DOMAIN w[s] \ DOMAIN ver[s] PROVE w[s][vpn] = -1
  BY <1>5, <1>9, <1>12, <1>13
<1>15. /\ \A r \in Spaces \ {s} : w[r] = ver[r]
       /\ DOMAIN w[s] = DOMAIN n.pageTable[s] /\ \A vpn \in DOMAIN ver[s] : w[s][vpn] = ver[s][vpn]
  BY <1>7, <1>8, <1>11, <1>12, <1>13
<1>16. Right(n, space, w)
  BY <1>8, <1>10, <1>14, <1>15, AddedRight
<1>17. DOMAIN n.pageTable[s] = 1..(k + StackPages)
  BY <1>7, <1>8
<1> QED
  BY <1>10, <1>16, <1>17 DEF n, w, h, k, pt

-----------------------------------------------------------------------------
(***************************************************************************)
(* A page is evicted.                                                      *)
(***************************************************************************)
LEMMA FindFree ==
  ASSUME NEW size \in Nat, NEW used \in SUBSET (1..size)
  PROVE  /\ Find(used, size) = 0 <=> used = 1..size
         /\ Find(used, size) # 0 => Find(used, size) \in (1..size) \ used
<1> DEFINE T == (1..size) \ used
<1>1. CASE used = 1..size
  BY <1>1 DEF Find
<1>2. CASE used # 1..size
  <2>1. Find(used, size) = Min(T) /\ T \in SUBSET Nat /\ 0 \notin T
    BY <1>2 DEF Find
  <2>2. T # {}
    BY <1>2
  <2> HIDE DEF T
  <2>3. Min(T) \in T
    BY <2>1, <2>2, MinIn
  <2> QED
    BY <1>2, <2>1, <2>3 DEF T
<1> QED
  BY <1>1, <1>2

\* An entry of a page table is replaced.
WithEntry(tables, s, vpn, e) == [tables EXCEPT ![s][vpn] = e]

LEMMA NewEntry ==
  ASSUME NEW m \in Memory, NEW s \in Spaces, NEW vpn \in DOMAIN m.pageTable[s], NEW e \in PageTableEntry,
         NEW tables, tables = WithEntry(m.pageTable, s, vpn, e)
  PROVE  /\ tables \in [Spaces -> Seq(PageTableEntry)]
         /\ \A r \in Spaces : DOMAIN tables[r] = DOMAIN m.pageTable[r]
         /\ tables[s][vpn] = e
         /\ \A r \in Spaces : \A p \in DOMAIN m.pageTable[r] :
              r # s \/ p # vpn => tables[r][p] = m.pageTable[r][p]
<1> DEFINE pt == m.pageTable[s]
           new == [pt EXCEPT ![vpn] = e]
<1>1. m.pageTable \in [Spaces -> Seq(PageTableEntry)]
  BY MemoryIs DEF FieldsTyped
<1>2. pt \in Seq(PageTableEntry)
  BY TableTypes
<1>3. new \in Seq(PageTableEntry) /\ DOMAIN new = DOMAIN pt /\ new[vpn] = e /\ \A p \in DOMAIN pt : p # vpn => new[p] = pt[p]
  BY <1>2
<1>4. tables = [m.pageTable EXCEPT ![s] = new]
  BY DEF WithEntry
<1> HIDE DEF new, pt
<1>5. tables \in [Spaces -> Seq(PageTableEntry)] /\ tables[s] = new /\ \A r \in Spaces : r # s => tables[r] = m.pageTable[r]
  BY <1>1, <1>3, <1>4
<1>6. \A r \in Spaces : DOMAIN tables[r] = DOMAIN m.pageTable[r]
  BY <1>3, <1>5 DEF pt
<1>7. ASSUME NEW r \in Spaces, NEW p \in DOMAIN m.pageTable[r], r # s \/ p # vpn
      PROVE  tables[r][p] = m.pageTable[r][p]
  BY <1>3, <1>5, <1>7 DEF pt
<1> QED
  BY <1>3, <1>5, <1>6, <1>7

\* The page tables are the same but for one entry.
OneEntry(m, n, s, vpn) ==
  /\ \A r \in Spaces : DOMAIN n.pageTable[r] = DOMAIN m.pageTable[r]
  /\ \A r \in Spaces : \A p \in DOMAIN m.pageTable[r] :
       r # s \/ p # vpn => n.pageTable[r][p] = m.pageTable[r][p]

\* The page of the frame is dropped if it was clean, and otherwise put in the slot.
ToExec(m, n, ppn, s, vpn) ==
  /\ ~m.IPT[ppn].dirty /\ n.swapBitMap = m.swapBitMap /\ n.swapFile = m.swapFile
  /\ n.pageTable[s][vpn].location = "EXEC" /\ n.pageTable[s][vpn].byteOffset = m.pageTable[s][vpn].byteOffset

ToSwap(m, n, ppn, s, vpn, slot) ==
  /\ slot \in SwapPages \ m.swapBitMap /\ n.swapBitMap = m.swapBitMap \cup {slot}
  /\ n.swapFile[slot] = m.mainMemory[ppn] /\ \A p \in SwapPages \ {slot} : n.swapFile[p] = m.swapFile[p]
  /\ n.pageTable[s][vpn].location = "SWAP" /\ n.pageTable[s][vpn].byteOffset = slot
  /\ n.pageTable[s][vpn].dirty /\ n.pageTable[s][vpn].valid = m.pageTable[s][vpn].valid

Written(m, n, ppn) ==
  LET s == m.IPT[ppn].PID
      vpn == m.IPT[ppn].virtualPage
  IN  /\ n \in Memory /\ n.mainMemory = m.mainMemory /\ n.tlb = m.tlb
      /\ n.pageTableBitMap = m.pageTableBitMap /\ n.stopped = "no" /\ n.FIFOList = m.FIFOList /\ n.IPT = m.IPT
      /\ OneEntry(m, n, s, vpn)
      /\ ToExec(m, n, ppn, s, vpn) \/ \E slot : ToSwap(m, n, ppn, s, vpn, slot)

ExecEntry(e) == [e EXCEPT !.location = "EXEC"]
SwapEntry(e, slot) == [e EXCEPT !.location = "SWAP", !.byteOffset = slot, !.dirty = TRUE]
MainEntry(e, ppn) == [e EXCEPT !.physicalPage = ppn, !.valid = TRUE, !.location = "MAIN"]

LEMMA EntryToExec ==
  ASSUME NEW e \in PageTableEntry, NEW d, d = ExecEntry(e)
  PROVE  d \in PageTableEntry /\ d.location = "EXEC" /\ d.byteOffset = e.byteOffset
  BY DEF PageTableEntry, PAGELOCATION, ExecEntry, SwapEntry, MainEntry

LEMMA EntryToSwap ==
  ASSUME NEW e \in PageTableEntry, NEW slot \in Nat, NEW d,
         d = SwapEntry(e, slot)
  PROVE  d \in PageTableEntry /\ d.location = "SWAP" /\ d.byteOffset = slot /\ d.dirty /\ d.valid = e.valid
  BY DEF PageTableEntry, PAGELOCATION, ExecEntry, SwapEntry, MainEntry

LEMMA EntryToMain ==
  ASSUME NEW e \in PageTableEntry, NEW ppn \in Frames, NEW d,
         d = MainEntry(e, ppn)
  PROVE  /\ d \in PageTableEntry /\ d.location = "MAIN" /\ d.physicalPage = ppn
         /\ d.valid /\ d.dirty = e.dirty /\ d.byteOffset = e.byteOffset
  BY DEF PageTableEntry, PAGELOCATION, ExecEntry, SwapEntry, MainEntry

\* The frame has page vpn of s.
Has(m, ppn, s, vpn) == m.IPT[ppn].PID = s /\ m.IPT[ppn].virtualPage = vpn

LEMMA WriteBackWrites ==
  ASSUME NEW m \in Memory, m.stopped = "no", NEW ppn \in Frames,
         NEW s \in Spaces, NEW vpn \in DOMAIN m.pageTable[s], Has(m, ppn, s, vpn)
  PROVE  LET n == WriteBack(m, ppn)
         IN  n \in Memory /\ (n.stopped = "no" => Written(m, n, ppn))
<1> DEFINE slot == Find(m.swapBitMap, NumSwapPages)
           e == m.pageTable[s][vpn]
           n == WriteBack(m, ppn)
<1>1. IsRecord(m) /\ FieldsTyped(m) /\ e \in PageTableEntry
  BY MemoryIs, TableTypes
<1>2. n = IF ~m.IPT[ppn].dirty THEN [m EXCEPT !.pageTable[s][vpn].location = "EXEC"]
          ELSE IF slot = 0 THEN [m EXCEPT !.stopped = "swapFull"]
          ELSE [m EXCEPT !.swapBitMap = @ \cup {slot}, !.swapFile[slot] = m.mainMemory[ppn],
                         !.pageTable[s][vpn] = [@ EXCEPT !.location = "SWAP", !.byteOffset = slot, !.dirty = TRUE]]
  BY DEF WriteBack, Has
<1> HIDE DEF n, slot
<1>3. CASE ~m.IPT[ppn].dirty
  <2>d. PICK d : d = ExecEntry(e)
    OBVIOUS
  <2>t. PICK tables : tables = WithEntry(m.pageTable, s, vpn, d)
    OBVIOUS
  <2>1. d \in PageTableEntry /\ d.location = "EXEC" /\ d.byteOffset = e.byteOffset
    BY <1>1, <2>d, EntryToExec
  <2>2. n = [m EXCEPT !.pageTable = tables]
    BY <1>2, <1>3, <2>d, <2>t DEF ExecEntry, WithEntry
  <2>3. /\ tables \in [Spaces -> Seq(PageTableEntry)]
        /\ \A r \in Spaces : DOMAIN tables[r] = DOMAIN m.pageTable[r]
        /\ tables[s][vpn] = d
        /\ \A r \in Spaces : \A p \in DOMAIN m.pageTable[r] :
             r # s \/ p # vpn => tables[r][p] = m.pageTable[r][p]
    <3>1. d \in PageTableEntry
      BY <2>1
    <3> QED
      BY <2>t, <3>1, NewEntry
  <2>4. /\ IsRecord(n) /\ n.mainMemory = m.mainMemory /\ n.IPT = m.IPT /\ n.swapFile = m.swapFile
        /\ n.pageTableBitMap = m.pageTableBitMap /\ n.swapBitMap = m.swapBitMap
        /\ n.FIFOList = m.FIFOList /\ n.currentTLB = m.currentTLB /\ n.tlb = m.tlb /\ n.stopped = m.stopped
        /\ n.pageTable = tables
    BY <1>1, <2>2 DEF IsRecord
  <2>5. n \in Memory
    BY <1>1, <2>3, <2>4, MemoryIs DEF FieldsTyped
  <2>6. OneEntry(m, n, s, vpn)
    BY <2>3, <2>4 DEF OneEntry
  <2>7. ToExec(m, n, ppn, s, vpn)
    BY <1>3, <2>1, <2>3, <2>4 DEF ToExec
  <2> QED
    BY <2>4, <2>5, <2>6, <2>7 DEF Written, Has, n
<1>4. CASE m.IPT[ppn].dirty /\ slot = 0
  <2>1. n = [m EXCEPT !.stopped = "swapFull"]
    BY <1>2, <1>4
  <2>2. /\ IsRecord(n) /\ n.mainMemory = m.mainMemory /\ n.IPT = m.IPT /\ n.swapFile = m.swapFile
        /\ n.pageTableBitMap = m.pageTableBitMap /\ n.swapBitMap = m.swapBitMap
        /\ n.FIFOList = m.FIFOList /\ n.currentTLB = m.currentTLB /\ n.tlb = m.tlb /\ n.stopped = "swapFull"
        /\ n.pageTable = m.pageTable
    BY <1>1, <2>1 DEF IsRecord
  <2>3. n \in Memory
    BY <1>1, <2>2, MemoryIs DEF FieldsTyped
  <2> QED
    BY <2>2, <2>3 DEF n
<1>5. CASE m.IPT[ppn].dirty /\ slot # 0
  <2>1. slot \in SwapPages \ m.swapBitMap /\ slot \in Nat
    BY <1>1, <1>5, FindFree, Sizes DEF slot, SwapPages, FieldsTyped
  <2>d. PICK d : d = SwapEntry(e, slot)
    OBVIOUS
  <2>t. PICK tables : tables = WithEntry(m.pageTable, s, vpn, d)
    OBVIOUS
  <2> DEFINE file == [m.swapFile EXCEPT ![slot] = m.mainMemory[ppn]]
  <2>2. d \in PageTableEntry /\ d.location = "SWAP" /\ d.byteOffset = slot /\ d.dirty /\ d.valid = e.valid
    BY <1>1, <2>1, <2>d, EntryToSwap
  <2>3. n = [m EXCEPT !.swapBitMap = @ \cup {slot}, !.swapFile = file, !.pageTable = tables]
    BY <1>2, <1>5, <2>d, <2>t DEF SwapEntry, WithEntry
  <2>4. /\ tables \in [Spaces -> Seq(PageTableEntry)]
        /\ \A r \in Spaces : DOMAIN tables[r] = DOMAIN m.pageTable[r]
        /\ tables[s][vpn] = d
        /\ \A r \in Spaces : \A p \in DOMAIN m.pageTable[r] :
             r # s \/ p # vpn => tables[r][p] = m.pageTable[r][p]
    BY <2>2, <2>t, NewEntry
  <2>5. /\ file \in [SwapPages -> Contents] /\ file[slot] = m.mainMemory[ppn]
        /\ \A p \in SwapPages \ {slot} : file[p] = m.swapFile[p]
    BY <1>1, <2>1 DEF FieldsTyped
  <2> HIDE DEF file
  <2>6. /\ IsRecord(n) /\ n.mainMemory = m.mainMemory /\ n.IPT = m.IPT /\ n.swapFile = file
        /\ n.pageTableBitMap = m.pageTableBitMap /\ n.swapBitMap = m.swapBitMap \cup {slot}
        /\ n.FIFOList = m.FIFOList /\ n.currentTLB = m.currentTLB /\ n.tlb = m.tlb /\ n.stopped = m.stopped
        /\ n.pageTable = tables
    BY <1>1, <2>3 DEF IsRecord
  <2>7. n \in Memory
    BY <1>1, <2>1, <2>4, <2>5, <2>6, MemoryIs DEF FieldsTyped
  <2>8. OneEntry(m, n, s, vpn)
    BY <2>4, <2>6 DEF OneEntry
  <2>9. ToSwap(m, n, ppn, s, vpn, slot)
    BY <2>1, <2>2, <2>4, <2>5, <2>6 DEF ToSwap
  <2> QED
    BY <2>6, <2>7, <2>8, <2>9 DEF Written, Has, n
<1> QED
  BY <1>3, <1>4, <1>5

\* The page has left the frame, and the frame is not used yet.
Evicted(m, n, ppn, s, vpn) ==
  /\ n \in Memory /\ n.mainMemory = m.mainMemory /\ n.tlb = m.tlb
  /\ n.pageTableBitMap = m.pageTableBitMap /\ n.stopped = "no"
  /\ n.IPT[ppn] = NoIPTEntry /\ \A f \in Frames \ {ppn} : n.IPT[f] = m.IPT[f]
  /\ OneEntry(m, n, s, vpn)
  /\ ToExec(m, n, ppn, s, vpn) \/ \E slot : ToSwap(m, n, ppn, s, vpn, slot)

LEMMA EvictedAccounted ==
  ASSUME NEW m, NEW n, NEW ppn \in Frames, NEW s \in Spaces, NEW vpn \in DOMAIN m.pageTable[s],
         Accounted(m, {}), m.IPT[ppn].valid, Has(m, ppn, s, vpn), Evicted(m, n, ppn, s, vpn)
  PROVE  Accounted(n, {ppn})
<1>1. BitsRight(m, {}) /\ FramesOwned(m) /\ PagesMapped(m) /\ SlotsOwned(m) /\ PagesSwapped(m)
  BY DEF Accounted
<1>2. IsAt(m.pageTable[s][vpn], "MAIN") /\ m.pageTable[s][vpn].physicalPage = ppn
  BY <1>1 DEF FramesOwned, Has
<1>3. /\ \A r \in Spaces : DOMAIN n.pageTable[r] = DOMAIN m.pageTable[r]
      /\ \A r \in Spaces : \A p \in DOMAIN m.pageTable[r] :
           r # s \/ p # vpn => n.pageTable[r][p] = m.pageTable[r][p]
  BY DEF Evicted, OneEntry
<1>4. /\ n.IPT[ppn] = NoIPTEntry /\ \A f \in Frames \ {ppn} : n.IPT[f] = m.IPT[f]
      /\ n.pageTableBitMap = m.pageTableBitMap /\ n \in Memory
      /\ ToExec(m, n, ppn, s, vpn) \/ \E slot : ToSwap(m, n, ppn, s, vpn, slot)
  BY DEF Evicted
<1>5. ~IsAt(n.pageTable[s][vpn], "MAIN")
  BY <1>4 DEF ToExec, ToSwap, IsAt
<1>6. ASSUME NEW r \in Spaces, NEW p \in DOMAIN m.pageTable[r], IsAt(m.pageTable[r][p], "MAIN"), r # s \/ p # vpn
      PROVE  LET f == m.pageTable[r][p].physicalPage
             IN  f \in Frames \ {ppn} /\ m.IPT[f].valid /\ m.IPT[f].PID = r /\ m.IPT[f].virtualPage = p
  <2>1. PICK f : f = m.pageTable[r][p].physicalPage
    OBVIOUS
  <2>2. OnFrame(m, f, r, p)
    BY <1>1, <1>6, <2>1 DEF PagesMapped
  <2>3. f # ppn
    BY <1>6, <2>2 DEF OnFrame, Has
  <2> QED
    BY <2>1, <2>2, <2>3 DEF OnFrame
<1>7. BitsRight(n, {ppn})
  <2>1. m.pageTableBitMap = {f \in Frames : m.IPT[f].valid}
    BY <1>1 DEF BitsRight
  <2>2. ~n.IPT[ppn].valid
    BY <1>4, EntryTypes
  <2> QED
    BY <1>4, <2>1, <2>2 DEF BitsRight
<1>8. FramesOwned(n)
  <2>1. SUFFICES ASSUME NEW f \in Frames, n.IPT[f].valid
                 PROVE  LET r == n.IPT[f].PID
                            p == n.IPT[f].virtualPage
                        IN  /\ r \in Spaces /\ p \in DOMAIN n.pageTable[r]
                            /\ IsAt(n.pageTable[r][p], "MAIN") /\ n.pageTable[r][p].physicalPage = f
    BY DEF FramesOwned
  <2>2. f # ppn /\ n.IPT[f] = m.IPT[f]
    BY <1>4, <2>1, EntryTypes
  <2> DEFINE r == m.IPT[f].PID
             p == m.IPT[f].virtualPage
  <2>3. r \in Spaces /\ p \in DOMAIN m.pageTable[r] /\ IsAt(m.pageTable[r][p], "MAIN") /\ m.pageTable[r][p].physicalPage = f
    BY <1>1, <2>1, <2>2 DEF FramesOwned
  <2>4. n.IPT[f].PID = r /\ n.IPT[f].virtualPage = p
    BY <2>2
  <2> HIDE DEF r, p
  <2>5. r # s \/ p # vpn
    BY <1>2, <2>2, <2>3
  <2> QED
    BY <1>3, <2>3, <2>4, <2>5
<1>9. PagesMapped(n)
  <2>1. SUFFICES ASSUME NEW r \in Spaces, NEW p \in DOMAIN n.pageTable[r], IsAt(n.pageTable[r][p], "MAIN")
                 PROVE  LET f == n.pageTable[r][p].physicalPage
                        IN  f \in Frames /\ n.IPT[f].valid /\ n.IPT[f].PID = r /\ n.IPT[f].virtualPage = p
    BY DEF PagesMapped, OnFrame
  <2>2. p \in DOMAIN m.pageTable[r] /\ (r # s \/ p # vpn)
    BY <1>3, <1>5, <2>1
  <2>3. PICK f : f = m.pageTable[r][p].physicalPage
    OBVIOUS
  <2>4. n.pageTable[r][p] = m.pageTable[r][p] /\ n.pageTable[r][p].physicalPage = f
    BY <1>3, <2>2, <2>3
  <2>5. f \in Frames /\ n.IPT[f].valid /\ n.IPT[f].PID = r /\ n.IPT[f].virtualPage = p
    <3>1. IsAt(m.pageTable[r][p], "MAIN")
      BY <2>1, <2>4
    <3>2. f \in Frames \ {ppn} /\ m.IPT[f].valid /\ m.IPT[f].PID = r /\ m.IPT[f].virtualPage = p
      BY <1>6, <2>2, <2>3, <3>1
    <3> QED
      BY <1>4, <3>2
  <2> QED
    BY <2>4, <2>5
<1>10. CASE ToExec(m, n, ppn, s, vpn)
  <2>1. n.swapBitMap = m.swapBitMap /\ ~IsAt(n.pageTable[s][vpn], "SWAP")
    BY <1>10 DEF ToExec, IsAt
  <2>2. ASSUME NEW r \in Spaces, NEW p \in DOMAIN n.pageTable[r]
        PROVE  /\ p \in DOMAIN m.pageTable[r]
               /\ IsAt(n.pageTable[r][p], "SWAP") <=> IsAt(m.pageTable[r][p], "SWAP")
               /\ IsAt(n.pageTable[r][p], "SWAP") => n.pageTable[r][p] = m.pageTable[r][p]
    <3>1. CASE r = s /\ p = vpn
      BY <1>2, <1>3, <2>1, <3>1 DEF IsAt
    <3>2. CASE r # s \/ p # vpn
      BY <1>3, <3>2
    <3> QED
      BY <3>1, <3>2
  <2>3. SlotsOwned(n)
    BY <1>1, <1>3, <2>1, <2>2 DEF SlotsOwned
  <2>4. PagesSwapped(n)
    <3>1. SUFFICES ASSUME NEW r \in Spaces, NEW p \in DOMAIN n.pageTable[r], IsAt(n.pageTable[r][p], "SWAP")
                   PROVE  /\ n.pageTable[r][p].dirty /\ n.pageTable[r][p].byteOffset \in n.swapBitMap
                          /\ \A q \in Spaces : \A t \in DOMAIN n.pageTable[q] :
                               IsAt(n.pageTable[q][t], "SWAP") /\ n.pageTable[q][t].byteOffset = n.pageTable[r][p].byteOffset
                                 => q = r /\ t = p
      BY DEF PagesSwapped
    <3>2. p \in DOMAIN m.pageTable[r] /\ IsAt(m.pageTable[r][p], "SWAP") /\ n.pageTable[r][p] = m.pageTable[r][p]
      BY <2>2, <3>1
    <3>3. m.pageTable[r][p].dirty /\ m.pageTable[r][p].byteOffset \in m.swapBitMap
      BY <1>1, <3>2 DEF PagesSwapped
    <3>4. ASSUME NEW q \in Spaces, NEW t \in DOMAIN n.pageTable[q], IsAt(n.pageTable[q][t], "SWAP"),
                 n.pageTable[q][t].byteOffset = n.pageTable[r][p].byteOffset
          PROVE  q = r /\ t = p
      <4>1. t \in DOMAIN m.pageTable[q] /\ IsAt(m.pageTable[q][t], "SWAP") /\ n.pageTable[q][t] = m.pageTable[q][t]
        BY <2>2, <3>4
      <4> QED
        BY <1>1, <3>2, <3>4, <4>1 DEF PagesSwapped
    <3> QED
      BY <2>1, <3>2, <3>3, <3>4
  <2> QED
    BY <1>4, <1>7, <1>8, <1>9, <2>3, <2>4 DEF Accounted
<1>11. ASSUME NEW slot, ToSwap(m, n, ppn, s, vpn, slot) PROVE Accounted(n, {ppn})
  <2>1. /\ slot \notin m.swapBitMap /\ n.swapBitMap = m.swapBitMap \cup {slot}
        /\ IsAt(n.pageTable[s][vpn], "SWAP") /\ n.pageTable[s][vpn].byteOffset = slot /\ n.pageTable[s][vpn].dirty
    BY <1>2, <1>11 DEF ToSwap, IsAt
  <2>2. ASSUME NEW r \in Spaces, NEW p \in DOMAIN n.pageTable[r], IsAt(n.pageTable[r][p], "SWAP"), r # s \/ p # vpn
        PROVE  p \in DOMAIN m.pageTable[r] /\ IsAt(m.pageTable[r][p], "SWAP") /\ n.pageTable[r][p] = m.pageTable[r][p]
    BY <1>3, <2>2
  <2>3. SlotsOwned(n)
    <3>1. SUFFICES ASSUME NEW b \in n.swapBitMap
                   PROVE  \E r \in Spaces : \E p \in DOMAIN n.pageTable[r] :
                            IsAt(n.pageTable[r][p], "SWAP") /\ n.pageTable[r][p].byteOffset = b
      BY DEF SlotsOwned
    <3>2. CASE b = slot
      BY <1>3, <2>1, <3>2
    <3>3. CASE b \in m.swapBitMap
      <4>1. PICK r \in Spaces : \E p \in DOMAIN m.pageTable[r] :
                   IsAt(m.pageTable[r][p], "SWAP") /\ m.pageTable[r][p].byteOffset = b
        BY <1>1, <3>3 DEF SlotsOwned
      <4>2. PICK p \in DOMAIN m.pageTable[r] : IsAt(m.pageTable[r][p], "SWAP") /\ m.pageTable[r][p].byteOffset = b
        BY <4>1
      <4>3. r # s \/ p # vpn
        BY <1>2, <4>2 DEF IsAt
      <4> QED
        BY <1>3, <4>2, <4>3
    <3> QED
      BY <2>1, <3>2, <3>3
  <2>4. PagesSwapped(n)
    <3>1. SUFFICES ASSUME NEW r \in Spaces, NEW p \in DOMAIN n.pageTable[r], IsAt(n.pageTable[r][p], "SWAP")
                   PROVE  /\ n.pageTable[r][p].dirty /\ n.pageTable[r][p].byteOffset \in n.swapBitMap
                          /\ \A q \in Spaces : \A t \in DOMAIN n.pageTable[q] :
                               IsAt(n.pageTable[q][t], "SWAP") /\ n.pageTable[q][t].byteOffset = n.pageTable[r][p].byteOffset
                                 => q = r /\ t = p
      BY DEF PagesSwapped
    <3>2. ASSUME NEW q \in Spaces, NEW t \in DOMAIN n.pageTable[q], IsAt(n.pageTable[q][t], "SWAP"), q # s \/ t # vpn
          PROVE  n.pageTable[q][t].dirty /\ n.pageTable[q][t].byteOffset \in m.swapBitMap
      BY <1>1, <2>2, <3>2 DEF PagesSwapped
    <3>3. n.pageTable[r][p].dirty /\ n.pageTable[r][p].byteOffset \in n.swapBitMap
      <4>1. CASE r = s /\ p = vpn
        BY <2>1, <4>1
      <4>2. CASE r # s \/ p # vpn
        BY <2>1, <3>1, <3>2, <4>2
      <4> QED
        BY <4>1, <4>2
    <3>4. ASSUME NEW q \in Spaces, NEW t \in DOMAIN n.pageTable[q], IsAt(n.pageTable[q][t], "SWAP"),
                 n.pageTable[q][t].byteOffset = n.pageTable[r][p].byteOffset
          PROVE  q = r /\ t = p
      <4>1. CASE r = s /\ p = vpn
        BY <2>1, <3>2, <3>4, <4>1
      <4>2. CASE (r # s \/ p # vpn) /\ q = s /\ t = vpn
        BY <2>1, <3>1, <3>2, <3>4, <4>2
      <4>3. CASE (r # s \/ p # vpn) /\ (q # s \/ t # vpn)
        <5>1. t \in DOMAIN m.pageTable[q] /\ IsAt(m.pageTable[q][t], "SWAP") /\ n.pageTable[q][t] = m.pageTable[q][t]
          BY <2>2, <3>4, <4>3
        <5>2. p \in DOMAIN m.pageTable[r] /\ IsAt(m.pageTable[r][p], "SWAP") /\ n.pageTable[r][p] = m.pageTable[r][p]
          BY <2>2, <3>1, <4>3
        <5> QED
          BY <1>1, <3>4, <5>1, <5>2 DEF PagesSwapped
      <4> QED
        BY <4>1, <4>2, <4>3
    <3> QED
      BY <3>3, <3>4
  <2> QED
    BY <1>4, <1>7, <1>8, <1>9, <2>3, <2>4 DEF Accounted
<1> QED
  BY <1>4, <1>10, <1>11

\* The page can be read again from where it has gone.
LEMMA EvictedPages ==
  ASSUME NEW m, NEW n, NEW ppn \in Frames, NEW s \in Spaces, NEW vpn \in DOMAIN m.pageTable[s],
         Accounted(m, {}), m.IPT[ppn].valid, Has(m, ppn, s, vpn), Evicted(m, n, ppn, s, vpn),
         \A i \in 1..TLBSize : m.tlb[i].valid => m.tlb[i].physicalPage # ppn,
         NEW ver, PagesRight(m, ver)
  PROVE  PagesRight(n, ver)
<1>1. FramesOwned(m) /\ PagesMapped(m) /\ PagesSwapped(m) /\ m.swapBitMap \subseteq SwapPages
  BY MemoryIs DEF Accounted, FieldsTyped
<1>2. IsAt(m.pageTable[s][vpn], "MAIN") /\ m.pageTable[s][vpn].physicalPage = ppn
  BY <1>1 DEF FramesOwned, Has
<1>3. /\ \A r \in Spaces : DOMAIN n.pageTable[r] = DOMAIN m.pageTable[r]
      /\ \A r \in Spaces : \A p \in DOMAIN m.pageTable[r] :
           r # s \/ p # vpn => n.pageTable[r][p] = m.pageTable[r][p]
  BY DEF Evicted, OneEntry
<1>4. /\ n.mainMemory = m.mainMemory /\ n.tlb = m.tlb /\ \A f \in Frames \ {ppn} : n.IPT[f] = m.IPT[f]
      /\ ToExec(m, n, ppn, s, vpn) \/ \E slot : ToSwap(m, n, ppn, s, vpn, slot)
  BY DEF Evicted
<1>5. ASSUME NEW r \in Spaces, NEW p \in DOMAIN m.pageTable[r], NEW v, PageRight(m, r, p, v), r # s \/ p # vpn
      PROVE  PageRight(n, r, p, v)
  <2> DEFINE entry == m.pageTable[r][p]
             f == entry.physicalPage
             b == entry.byteOffset
  <2>1. n.pageTable[r][p] = entry
    BY <1>3, <1>5
  <2>2. ASSUME IsAt(entry, "MAIN") PROVE n.mainMemory[f] = m.mainMemory[f] /\ (Dirty(m, f) => Dirty(n, f))
    <3>1. f \in Frames /\ m.IPT[f].PID = r /\ m.IPT[f].virtualPage = p
      <4>1. OnFrame(m, f, r, p)
        BY <1>1, <2>2 DEF PagesMapped
      <4> QED
        BY <4>1 DEF OnFrame
    <3>2. f # ppn
      BY <1>5, <3>1 DEF Has
    <3> QED
      BY <1>4, <3>1, <3>2 DEF Dirty
  <2>3. ASSUME IsAt(entry, "SWAP") PROVE n.swapFile[b] = m.swapFile[b]
    <3>1. b \in m.swapBitMap /\ b \in SwapPages
      BY <1>1, <2>3 DEF PagesSwapped
    <3> QED
      BY <1>4, <3>1 DEF ToExec, ToSwap
  <2> QED
    BY <1>5, <2>1, <2>2, <2>3, PageKept
<1>6. ASSUME NEW v, PageRight(m, s, vpn, v) PROVE PageRight(n, s, vpn, v)
  <2>1. m.mainMemory[ppn] = <<s, vpn, v>> /\ (Dirty(m, ppn) \/ (v = 0 /\ m.pageTable[s][vpn].byteOffset = vpn))
    BY <1>2, <1>6 DEF PageRight, IsAt
  <2>2. CASE ToExec(m, n, ppn, s, vpn)
    <3>1. ~Dirty(m, ppn)
      BY <2>2 DEF ToExec, Dirty
    <3> QED
      BY <2>1, <2>2, <3>1 DEF ToExec, PageRight
  <2>3. ASSUME NEW slot, ToSwap(m, n, ppn, s, vpn, slot) PROVE PageRight(n, s, vpn, v)
    <3>1. IsAt(n.pageTable[s][vpn], "SWAP") /\ n.swapFile[n.pageTable[s][vpn].byteOffset] = <<s, vpn, v>>
      BY <1>2, <2>1, <2>3 DEF ToSwap, IsAt
    <3> QED
      BY <3>1 DEF PageRight
  <2> QED
    BY <1>4, <2>2, <2>3
<1>7. ASSUME NEW r \in Spaces, NEW p \in DOMAIN ver[r], ver[r][p] # -1 PROVE PageRight(n, r, p, ver[r][p])
  <2>1. p \in DOMAIN m.pageTable[r] /\ PageRight(m, r, p, ver[r][p])
    BY <1>7 DEF PagesRight
  <2> QED
    BY <1>5, <1>6, <2>1
<1>8. \A r \in Spaces : DOMAIN ver[r] = DOMAIN n.pageTable[r]
  BY <1>3 DEF PagesRight
<1> QED
  BY <1>7, <1>8 DEF PagesRight

\* All is right but for a frame that waits for a page.
Hole(m, ppn, space, ver) ==
  /\ Accounted(m, {ppn}) /\ m.stopped = "no" /\ TLBRight(m, space) /\ PagesRight(m, ver)
  /\ Len(m.FIFOList) + 1 >= Cardinality(m.pageTableBitMap)

\* There are no new entries in the IPT and the TLB, and a page that has gone to the swap
\* file is valid.
Fewer(m, n) ==
  /\ \A f \in Frames : n.IPT[f].valid => SameOwner(n.IPT[f], m.IPT[f])
  /\ \A i \in 1..TLBSize : n.tlb[i].valid => n.tlb[i] = m.tlb[i]
  /\ \A r \in Spaces : DOMAIN n.pageTable[r] = DOMAIN m.pageTable[r]
  /\ \A r \in Spaces : \A p \in DOMAIN m.pageTable[r] :
       n.pageTable[r][p].location = "SWAP" => n.pageTable[r][p].valid \/ n.pageTable[r][p] = m.pageTable[r][p]

LEMMA MemoryFullHole ==
  ASSUME NEW m, NEW space, NEW ver, Right(m, space, ver), m.pageTableBitMap = Frames, NEW ppn \in Frames
  PROVE  LET n == handleMemoryFull(m, ppn)
         IN  n \in Memory /\ (n.stopped = "no" => Hole(n, ppn, space, ver) /\ Fewer(m, n))
<1> DEFINE o == InvalidateTLB(m, ppn)
           w == WriteBack(o, ppn)
           list == WithoutFrames(w.FIFOList, {ppn})
           ipt == [w.IPT EXCEPT ![ppn] = NoIPTEntry]
           n == handleMemoryFull(m, ppn)
<1>1. m \in Memory /\ Accounted(m, {}) /\ m.stopped = "no" /\ QueueLong(m) /\ TLBRight(m, space) /\ PagesRight(m, ver)
  BY DEF Right, Accounted
<1>2. n = IF w.stopped # "no" THEN w ELSE [w EXCEPT !.IPT = ipt, !.FIFOList = list]
  BY DEF handleMemoryFull, removePageFromFIFOQ
<1>3. /\ OnlyTLB(m, o) /\ TLBRight(o, space)
      /\ \A i \in 1..TLBSize : o.tlb[i].valid => o.tlb[i] = m.tlb[i] /\ o.tlb[i].physicalPage # ppn
  BY <1>1, InvalidateOnlyTLB
<1> HIDE DEF o, n
<1>4. o \in Memory /\ Accounted(o, {}) /\ PagesRight(o, ver) /\ o.stopped = "no"
  <2>1. Accounted(o, {})
    BY <1>1, <1>3, OnlyTLBAccounted
  <2>2. PagesRight(o, ver)
    BY <1>1, <1>3, OnlyTLBPages DEF Accounted
  <2> QED
    BY <1>1, <1>3, <2>1, <2>2 DEF OnlyTLB
<1>5. o.IPT[ppn].valid
  <2>1. o.pageTableBitMap = Frames
    BY <1>3 DEF OnlyTLB
  <2> QED
    BY <1>4, <2>1 DEF Accounted, BitsRight
<1>6. PICK s \in Spaces, vpn \in Nat :
             vpn \in DOMAIN o.pageTable[s] /\ Has(o, ppn, s, vpn) /\ IsAt(o.pageTable[s][vpn], "MAIN")
  <2>1. FramesOwned(o)
    BY <1>4 DEF Accounted
  <2>2. o.IPT[ppn].PID \in Spaces /\ o.IPT[ppn].virtualPage \in DOMAIN o.pageTable[o.IPT[ppn].PID]
        /\ IsAt(o.pageTable[o.IPT[ppn].PID][o.IPT[ppn].virtualPage], "MAIN")
    BY <1>5, <2>1 DEF FramesOwned
  <2>3. o.IPT[ppn].virtualPage \in Nat
    BY <1>4, <2>2, TableTypes
  <2> QED
    BY <2>2, <2>3 DEF Has
<1>7. w \in Memory /\ (w.stopped = "no" => Written(o, w, ppn))
  BY <1>4, <1>6, WriteBackWrites
<1> HIDE DEF w
<1>8. CASE w.stopped # "no"
  BY <1>2, <1>7, <1>8 DEF n
<1>9. CASE w.stopped = "no"
  <2>1. n = [w EXCEPT !.IPT = ipt, !.FIFOList = list]
    BY <1>2, <1>9
  <2>2. IsRecord(w) /\ FieldsTyped(w)
    BY <1>7, MemoryIs
  <2>3. ipt \in [Frames -> IPTEntry] /\ ipt[ppn] = NoIPTEntry /\ \A f \in Frames \ {ppn} : ipt[f] = w.IPT[f]
    BY <2>2, EntryTypes DEF FieldsTyped
  <2>4. list \in Seq(Frames) /\ Len(w.FIFOList) <= Len(list) + 1
    <3>1. IsFiniteSet({ppn}) /\ Cardinality({ppn}) = 1 /\ w.FIFOList \in Seq(Frames)
      BY <2>2, FS_Singleton DEF FieldsTyped
    <3>2. list \in Seq(Frames) /\ Len(w.FIFOList) <= Len(list) + Cardinality({ppn})
      BY <3>1, WithoutFramesLong
    <3> QED
      BY <3>1, <3>2
  <2> HIDE DEF ipt, list
  <2>5. /\ IsRecord(n) /\ n.mainMemory = w.mainMemory /\ n.IPT = ipt /\ n.swapFile = w.swapFile
        /\ n.pageTableBitMap = w.pageTableBitMap /\ n.swapBitMap = w.swapBitMap
        /\ n.FIFOList = list /\ n.currentTLB = w.currentTLB /\ n.tlb = w.tlb /\ n.stopped = w.stopped
        /\ n.pageTable = w.pageTable
    BY <2>1, <2>2 DEF IsRecord
  <2>6. n \in Memory
    BY <2>2, <2>3, <2>4, <2>5, MemoryIs DEF FieldsTyped
  <2>7. /\ w.mainMemory = o.mainMemory /\ w.tlb = o.tlb /\ w.pageTableBitMap = o.pageTableBitMap
        /\ w.FIFOList = o.FIFOList /\ w.IPT = o.IPT /\ OneEntry(o, w, s, vpn)
        /\ ToExec(o, w, ppn, s, vpn) \/ \E slot : ToSwap(o, w, ppn, s, vpn, slot)
    <3>1. Written(o, w, ppn) /\ o.IPT[ppn].PID = s /\ o.IPT[ppn].virtualPage = vpn
      BY <1>6, <1>7, <1>9 DEF Has
    <3> QED
      BY <3>1 DEF Written
  <2>8. ToExec(o, n, ppn, s, vpn) \/ \E slot : ToSwap(o, n, ppn, s, vpn, slot)
    BY <2>5, <2>7 DEF ToExec, ToSwap
  <2>9. Evicted(o, n, ppn, s, vpn)
    BY <1>9, <2>3, <2>5, <2>6, <2>7, <2>8 DEF Evicted, OneEntry
  <2>10. Accounted(n, {ppn})
    BY <1>4, <1>5, <1>6, <2>9, EvictedAccounted
  <2>11. PagesRight(n, ver)
    BY <1>3, <1>4, <1>5, <1>6, <2>9, EvictedPages
  <2>12. Len(n.FIFOList) + 1 >= Cardinality(n.pageTableBitMap)
    <3>1. n.pageTableBitMap = m.pageTableBitMap /\ w.FIFOList = m.FIFOList
      BY <1>3, <2>5, <2>7 DEF OnlyTLB
    <3>2. Len(list) \in Nat /\ Len(w.FIFOList) \in Nat /\ Cardinality(m.pageTableBitMap) \in Nat
      BY <1>1, <2>2, <2>4, BitsFinite DEF FieldsTyped
    <3>3. Len(w.FIFOList) >= Cardinality(m.pageTableBitMap)
      BY <1>1, <3>1 DEF QueueLong
    <3>4. Len(list) + 1 >= Cardinality(m.pageTableBitMap)
      BY <2>4, <3>2, <3>3
    <3> QED
      BY <2>5, <3>1, <3>4
  <2>13. \A i \in 1..TLBSize : n.tlb[i].valid => n.tlb[i] = m.tlb[i] /\ n.tlb[i].physicalPage # ppn
    BY <1>3, <2>5, <2>7
  <2>14. \A f \in Frames : n.IPT[f].valid => f # ppn /\ SameOwner(n.IPT[f], m.IPT[f])
    BY <1>3, <2>3, <2>5, <2>7, EntryTypes DEF OnlyTLB
  <2>15. TLBRight(n, space)
    <3>1. SUFFICES ASSUME NEW i \in 1..TLBSize, n.tlb[i].valid
                   PROVE  LET f == n.tlb[i].physicalPage
                          IN  /\ f \in Frames /\ n.IPT[f].valid /\ n.IPT[f].PID = space
                              /\ n.IPT[f].virtualPage = n.tlb[i].virtualPage
                              /\ \A j \in 1..TLBSize : n.tlb[j].valid /\ n.tlb[j].physicalPage = f => j = i
      BY DEF TLBRight
    <3>2. n.tlb = o.tlb /\ n.tlb[i].physicalPage # ppn /\ \A f \in Frames \ {ppn} : n.IPT[f] = o.IPT[f]
      BY <2>3, <2>5, <2>7, <2>13, <3>1
    <3> QED
      BY <1>3, <3>1, <3>2 DEF TLBRight
  <2>16. Fewer(m, n)
    <3>1. \A r \in Spaces : DOMAIN n.pageTable[r] = DOMAIN m.pageTable[r]
      BY <1>3, <2>5, <2>7 DEF OneEntry, OnlyTLB
    <3>2. ASSUME NEW r \in Spaces, NEW p \in DOMAIN m.pageTable[r], n.pageTable[r][p].location = "SWAP"
          PROVE  n.pageTable[r][p].valid \/ n.pageTable[r][p] = m.pageTable[r][p]
      <4>1. o.pageTable = m.pageTable
        BY <1>3 DEF OnlyTLB
      <4>2. CASE r # s \/ p # vpn
        BY <2>5, <2>7, <4>1, <4>2 DEF OneEntry
      <4>3. CASE r = s /\ p = vpn
        BY <1>6, <2>8, <3>2, <4>3 DEF ToExec, ToSwap, IsAt
      <4> QED
        BY <4>2, <4>3
    <3> QED
      BY <2>13, <2>14, <3>1, <3>2 DEF Fewer
  <2>17. n.stopped = "no"
    BY <1>9, <2>5
  <2> QED
    BY <2>6, <2>10, <2>11, <2>12, <2>15, <2>16, <2>17 DEF Hole, n
<1> QED
  BY <1>8, <1>9

\* A free frame is taken.
LEMMA FreeFrameHole ==
  ASSUME NEW m, NEW space, NEW ver, Right(m, space, ver), NEW ppn \in Frames \ m.pageTableBitMap
  PROVE  LET n == [m EXCEPT !.pageTableBitMap = @ \cup {ppn}]
         IN  n \in Memory /\ n.stopped = "no" /\ Hole(n, ppn, space, ver) /\ Fewer(m, n)
<1> DEFINE n == [m EXCEPT !.pageTableBitMap = @ \cup {ppn}]
<1>1. m \in Memory /\ Accounted(m, {}) /\ m.stopped = "no" /\ QueueLong(m) /\ TLBRight(m, space) /\ PagesRight(m, ver)
  BY DEF Right, Accounted
<1>2. IsRecord(m) /\ FieldsTyped(m)
  BY <1>1, MemoryIs
<1>3. /\ IsRecord(n) /\ n.mainMemory = m.mainMemory /\ n.IPT = m.IPT /\ n.swapFile = m.swapFile
      /\ n.pageTableBitMap = m.pageTableBitMap \cup {ppn} /\ n.swapBitMap = m.swapBitMap
      /\ n.FIFOList = m.FIFOList /\ n.currentTLB = m.currentTLB /\ n.tlb = m.tlb /\ n.stopped = m.stopped
      /\ n.pageTable = m.pageTable
  BY <1>2 DEF IsRecord
<1> HIDE DEF n
<1>4. n \in Memory
  BY <1>2, <1>3, MemoryIs DEF FieldsTyped
<1>5. Accounted(n, {ppn})
  <2>1. BitsRight(n, {ppn})
    BY <1>1, <1>3 DEF Accounted, BitsRight
  <2>2. FramesOwned(m) /\ PagesMapped(m)
    BY <1>1 DEF Accounted
  <2>3. FramesOwned(n)
    BY <1>3, <2>2 DEF FramesOwned
  <2>4. PagesMapped(n)
    <3>1. ASSUME NEW f, NEW s, NEW vpn, OnFrame(m, f, s, vpn) PROVE OnFrame(n, f, s, vpn)
      BY <1>3, <3>1 DEF OnFrame
    <3>2. n.pageTable = m.pageTable
      BY <1>3
    <3> QED
      BY <2>2, <3>1, <3>2 DEF PagesMapped
  <2>5. SlotsOwned(n) /\ PagesSwapped(n)
    BY <1>1, <1>3 DEF Accounted, SlotsOwned, PagesSwapped
  <2> QED
    BY <1>4, <2>1, <2>3, <2>4, <2>5 DEF Accounted
<1>6. PagesRight(n, ver)
  <2>1. \A f : Dirty(n, f) <=> Dirty(m, f)
    BY <1>3 DEF Dirty
  <2>2. \A s, vpn, v : PageRight(n, s, vpn, v) <=> PageRight(m, s, vpn, v)
    <3>1. n.pageTable = m.pageTable /\ n.mainMemory = m.mainMemory /\ n.swapFile = m.swapFile
      BY <1>3
    <3> QED
      BY <2>1, <3>1 DEF PageRight
  <2> QED
    BY <1>1, <1>3, <2>2 DEF PagesRight
<1>7. TLBRight(n, space)
  BY <1>1, <1>3 DEF TLBRight
<1>8. Len(n.FIFOList) + 1 >= Cardinality(n.pageTableBitMap)
  <2>1. IsFiniteSet(m.pageTableBitMap) /\ Cardinality(m.pageTableBitMap) \in Nat
    BY <1>1, BitsFinite
  <2>2. Cardinality(n.pageTableBitMap) = Cardinality(m.pageTableBitMap) + 1
    BY <1>3, <2>1, FS_AddElement
  <2>3. Len(m.FIFOList) \in Nat /\ Len(m.FIFOList) >= Cardinality(m.pageTableBitMap)
    BY <1>1, <1>2 DEF QueueLong, FieldsTyped
  <2>4. Len(m.FIFOList) + 1 >= Cardinality(m.pageTableBitMap) + 1
    BY <2>1, <2>3
  <2> QED
    BY <1>3, <2>2, <2>4
<1>9. Fewer(m, n)
  BY <1>3 DEF Fewer, SameOwner
<1> QED
  BY <1>1, <1>3, <1>4, <1>5, <1>6, <1>7, <1>8, <1>9 DEF Hole, n

-----------------------------------------------------------------------------
(***************************************************************************)
(* A page is read and mapped.                                              *)
(***************************************************************************)
\* The page is in the frame, and no longer in the swap file.
FromSwap(m, r, e, ppn) ==
  /\ e.location = "SWAP" /\ r.mainMemory[ppn] = m.swapFile[e.byteOffset]
  /\ r.swapBitMap = m.swapBitMap \ {e.byteOffset}
  /\ \A b \in SwapPages \ {e.byteOffset} : r.swapFile[b] = m.swapFile[b]

FromExec(m, r, e, s, vpn, ppn) ==
  /\ e.location # "SWAP" /\ r.swapBitMap = m.swapBitMap /\ r.swapFile = m.swapFile
  /\ e.location = "EXEC" /\ e.byteOffset = vpn => r.mainMemory[ppn] = <<s, vpn, 0>>

PageRead(m, r, s, vpn, ppn) ==
  /\ r \in Memory /\ r.tlb = m.tlb /\ r.IPT = m.IPT /\ r.pageTable = m.pageTable
  /\ r.pageTableBitMap = m.pageTableBitMap /\ r.FIFOList = m.FIFOList /\ r.stopped = m.stopped
  /\ \A f \in Frames \ {ppn} : r.mainMemory[f] = m.mainMemory[f]
  /\ FromSwap(m, r, m.pageTable[s][vpn], ppn) \/ FromExec(m, r, m.pageTable[s][vpn], s, vpn, ppn)

LEMMA FillFrame ==
  ASSUME NEW m \in Memory, NEW ppn \in Frames, NEW c \in Contents
  PROVE  LET r == [m EXCEPT !.mainMemory[ppn] = c]
         IN  /\ r \in Memory /\ r.mainMemory[ppn] = c /\ \A f \in Frames \ {ppn} : r.mainMemory[f] = m.mainMemory[f]
             /\ r.tlb = m.tlb /\ r.IPT = m.IPT /\ r.pageTable = m.pageTable /\ r.swapFile = m.swapFile
             /\ r.pageTableBitMap = m.pageTableBitMap /\ r.swapBitMap = m.swapBitMap
             /\ r.FIFOList = m.FIFOList /\ r.currentTLB = m.currentTLB /\ r.stopped = m.stopped
<1> DEFINE mem == [m.mainMemory EXCEPT ![ppn] = c]
           r == [m EXCEPT !.mainMemory = mem]
<1>1. IsRecord(m) /\ FieldsTyped(m)
  BY MemoryIs
<1>2. mem \in [Frames -> Contents] /\ mem[ppn] = c /\ \A f \in Frames \ {ppn} : mem[f] = m.mainMemory[f]
  BY <1>1 DEF FieldsTyped
<1> HIDE DEF mem
<1>3. /\ IsRecord(r) /\ r.mainMemory = mem /\ r.IPT = m.IPT /\ r.swapFile = m.swapFile
      /\ r.pageTableBitMap = m.pageTableBitMap /\ r.swapBitMap = m.swapBitMap
      /\ r.FIFOList = m.FIFOList /\ r.currentTLB = m.currentTLB /\ r.tlb = m.tlb /\ r.stopped = m.stopped
      /\ r.pageTable = m.pageTable
  BY <1>1 DEF IsRecord
<1>4. [m EXCEPT !.mainMemory[ppn] = c] = r
  BY DEF mem
<1> HIDE DEF r
<1>5. r \in Memory
  BY <1>1, <1>2, <1>3, MemoryIs DEF FieldsTyped
<1> QED
  BY <1>2, <1>3, <1>4, <1>5

LEMMA ReadPageReads ==
  ASSUME NEW m, m \in Memory, NEW s \in Spaces, NEW vpn \in DOMAIN m.pageTable[s], NEW ppn \in Frames,
         m.pageTable[s][vpn].location = "SWAP" => m.pageTable[s][vpn].byteOffset \in SwapPages,
         NEW r \in ReadPage(m, s, vpn, ppn)
  PROVE  r \in Memory /\ (r.stopped = m.stopped \/ r.stopped # "no") /\ (r.stopped = "no" => PageRead(m, r, s, vpn, ppn))
<1> DEFINE e == m.pageTable[s][vpn]
           abort == [m EXCEPT !.stopped = "aborted"]
           filled(c) == [m EXCEPT !.mainMemory[ppn] = c]
           b == e.byteOffset
           swapped == [filled(m.swapFile[b]) EXCEPT !.swapBitMap = @ \ {b}, !.swapFile[b] = Garbage]
<1>1. IsRecord(m) /\ FieldsTyped(m) /\ e \in PageTableEntry /\ vpn \in Nat \ {0}
  BY MemoryIs, TableTypes
<1>2. \/ e.location = "EXEC" /\ r = abort
      \/ e.location = "EXEC" /\ b = Uninitialised /\ r = filled(Garbage)
      \/ e.location = "EXEC" /\ r = filled(<<s, vpn, 0>>)
      \/ e.location = "SWAP" /\ r = swapped
      \/ e.location \notin {"EXEC", "SWAP"} /\ r = filled(Garbage)
  BY DEF ReadPage
<1>3. <<s, vpn, 0>> \in Contents /\ Garbage \in Contents
  BY <1>1, EntryTypes DEF Contents
<1>4. ASSUME NEW c \in Contents, r = filled(c), e.location # "SWAP",
             e.location = "EXEC" /\ b = vpn => c = <<s, vpn, 0>>
      PROVE  r \in Memory /\ r.stopped = m.stopped /\ PageRead(m, r, s, vpn, ppn)
  <2>1. /\ r \in Memory /\ r.mainMemory[ppn] = c /\ \A f \in Frames \ {ppn} : r.mainMemory[f] = m.mainMemory[f]
        /\ r.tlb = m.tlb /\ r.IPT = m.IPT /\ r.pageTable = m.pageTable /\ r.swapFile = m.swapFile
        /\ r.pageTableBitMap = m.pageTableBitMap /\ r.swapBitMap = m.swapBitMap
        /\ r.FIFOList = m.FIFOList /\ r.stopped = m.stopped
    BY <1>4, FillFrame
  <2>2. FromExec(m, r, e, s, vpn, ppn)
    BY <1>4, <2>1 DEF FromExec
  <2> QED
    BY <2>1, <2>2 DEF PageRead
<1>5. CASE e.location = "EXEC" /\ r = abort
  <2>1. /\ IsRecord(r) /\ r.mainMemory = m.mainMemory /\ r.IPT = m.IPT /\ r.swapFile = m.swapFile
        /\ r.pageTableBitMap = m.pageTableBitMap /\ r.swapBitMap = m.swapBitMap
        /\ r.FIFOList = m.FIFOList /\ r.currentTLB = m.currentTLB /\ r.tlb = m.tlb /\ r.stopped = "aborted"
        /\ r.pageTable = m.pageTable
    BY <1>1, <1>5 DEF IsRecord
  <2>2. r \in Memory
    BY <1>1, <2>1, MemoryIs DEF FieldsTyped
  <2> QED
    BY <2>1, <2>2
<1>6. CASE e.location = "EXEC" /\ b = Uninitialised /\ r = filled(Garbage)
  <2>1. b # vpn
    BY <1>1, <1>6 DEF Uninitialised
  <2> QED
    BY <1>3, <1>4, <1>6, <2>1
<1>7. CASE e.location = "EXEC" /\ r = filled(<<s, vpn, 0>>)
  BY <1>3, <1>4, <1>7
<1>8. CASE e.location = "SWAP" /\ r = swapped
  <2>1. b \in SwapPages /\ m.swapFile[b] \in Contents
    BY <1>1, <1>8 DEF FieldsTyped
  <2> DEFINE o == filled(m.swapFile[b])
             file == [o.swapFile EXCEPT ![b] = Garbage]
  <2>2. /\ o \in Memory /\ o.mainMemory[ppn] = m.swapFile[b] /\ \A f \in Frames \ {ppn} : o.mainMemory[f] = m.mainMemory[f]
        /\ o.tlb = m.tlb /\ o.IPT = m.IPT /\ o.pageTable = m.pageTable /\ o.swapFile = m.swapFile
        /\ o.pageTableBitMap = m.pageTableBitMap /\ o.swapBitMap = m.swapBitMap
        /\ o.FIFOList = m.FIFOList /\ o.stopped = m.stopped
    BY <2>1, FillFrame
  <2>3. r = [o EXCEPT !.swapBitMap = @ \ {b}, !.swapFile = file]
    BY <1>8
  <2> HIDE DEF o
  <2>4. IsRecord(o) /\ FieldsTyped(o)
    BY <2>2, MemoryIs
  <2>5. file \in [SwapPages -> Contents] /\ \A p \in SwapPages \ {b} : file[p] = o.swapFile[p]
    BY <2>1, <2>4, EntryTypes DEF FieldsTyped
  <2> HIDE DEF file
  <2>6. /\ IsRecord(r) /\ r.mainMemory = o.mainMemory /\ r.IPT = o.IPT /\ r.swapFile = file
        /\ r.pageTableBitMap = o.pageTableBitMap /\ r.swapBitMap = o.swapBitMap \ {b}
        /\ r.FIFOList = o.FIFOList /\ r.currentTLB = o.currentTLB /\ r.tlb = o.tlb /\ r.stopped = o.stopped
        /\ r.pageTable = o.pageTable
    BY <2>3, <2>4 DEF IsRecord
  <2>7. r \in Memory
    BY <2>4, <2>5, <2>6, MemoryIs DEF FieldsTyped
  <2>8. FromSwap(m, r, e, ppn)
    BY <1>8, <2>2, <2>5, <2>6 DEF FromSwap
  <2> QED
    BY <2>2, <2>6, <2>7, <2>8 DEF PageRead
<1>9. CASE e.location \notin {"EXEC", "SWAP"} /\ r = filled(Garbage)
  BY <1>3, <1>4, <1>9
<1> QED
  BY <1>2, <1>5, <1>6, <1>7, <1>8, <1>9

\* The page is mapped to the frame it was read into.
Mapped(m, n, s, vpn, ppn) ==
  LET e == m.pageTable[s][vpn]
      d == n.pageTable[s][vpn]
  IN  /\ n \in Memory /\ n.tlb = m.tlb /\ n.pageTableBitMap = m.pageTableBitMap /\ n.stopped = m.stopped
      /\ n.FIFOList = Append(m.FIFOList, ppn)
      /\ n.IPT[ppn].valid /\ Has(n, ppn, s, vpn) /\ n.IPT[ppn].dirty = e.dirty
      /\ \A f \in Frames \ {ppn} : n.IPT[f] = m.IPT[f] /\ n.mainMemory[f] = m.mainMemory[f]
      /\ OneEntry(m, n, s, vpn)
      /\ IsAt(d, "MAIN") /\ d.physicalPage = ppn /\ d.byteOffset = e.byteOffset
      /\ FromSwap(m, n, e, ppn) \/ FromExec(m, n, e, s, vpn, ppn)

LEMMA MapPageMaps ==
  ASSUME NEW m, NEW s \in Spaces, NEW vpn \in DOMAIN m.pageTable[s], NEW ppn \in Frames,
         NEW r, PageRead(m, r, s, vpn, ppn)
  PROVE  Mapped(m, MapPage(r, s, vpn, ppn), s, vpn, ppn)
<1>1. /\ r \in Memory /\ r.tlb = m.tlb /\ r.IPT = m.IPT /\ r.pageTable = m.pageTable
      /\ r.pageTableBitMap = m.pageTableBitMap /\ r.FIFOList = m.FIFOList /\ r.stopped = m.stopped
      /\ \A f \in Frames \ {ppn} : r.mainMemory[f] = m.mainMemory[f]
      /\ FromSwap(m, r, m.pageTable[s][vpn], ppn) \/ FromExec(m, r, m.pageTable[s][vpn], s, vpn, ppn)
  BY DEF PageRead
<1>2. IsRecord(r) /\ FieldsTyped(r) /\ vpn \in DOMAIN r.pageTable[s] /\ r.pageTable[s][vpn] \in PageTableEntry /\ vpn \in Nat
  BY <1>1, MemoryIs, TableTypes
<1> DEFINE e == r.pageTable[s][vpn]
           i == [PID |-> s, virtualPage |-> vpn, valid |-> TRUE, dirty |-> e.dirty]
           ipt == [r.IPT EXCEPT ![ppn] = i]
           list == Append(r.FIFOList, ppn)
           n == MapPage(r, s, vpn, ppn)
<1>3. PICK d : d = MainEntry(e, ppn)
  OBVIOUS
<1>4. PICK tables : tables = WithEntry(r.pageTable, s, vpn, d)
  OBVIOUS
<1>5. n = [r EXCEPT !.pageTable = tables, !.IPT = ipt, !.FIFOList = list]
  BY <1>3, <1>4 DEF MapPage, MainEntry, WithEntry
<1> HIDE DEF n
<1>6. /\ d \in PageTableEntry /\ d.location = "MAIN" /\ d.physicalPage = ppn
      /\ d.valid /\ d.dirty = e.dirty /\ d.byteOffset = e.byteOffset
  BY <1>2, <1>3, EntryToMain
<1>7. /\ tables \in [Spaces -> Seq(PageTableEntry)]
      /\ \A q \in Spaces : DOMAIN tables[q] = DOMAIN r.pageTable[q]
      /\ tables[s][vpn] = d
      /\ \A q \in Spaces : \A p \in DOMAIN r.pageTable[q] :
           q # s \/ p # vpn => tables[q][p] = r.pageTable[q][p]
  <2>1. d \in PageTableEntry /\ r \in Memory /\ vpn \in DOMAIN r.pageTable[s]
    BY <1>1, <1>2, <1>6
  <2>2. LET T == WithEntry(r.pageTable, s, vpn, d)
        IN  /\ T \in [Spaces -> Seq(PageTableEntry)]
            /\ \A q \in Spaces : DOMAIN T[q] = DOMAIN r.pageTable[q]
            /\ T[s][vpn] = d
            /\ \A q \in Spaces : \A p \in DOMAIN r.pageTable[q] :
                 q # s \/ p # vpn => T[q][p] = r.pageTable[q][p]
    BY <2>1, NewEntry
  <2> QED
    BY <1>4, <2>2
<1>8. i \in IPTEntry /\ i.valid /\ i.PID = s /\ i.virtualPage = vpn /\ i.dirty = e.dirty
  BY <1>2, PageTypes DEF IPTEntry
<1> HIDE DEF i
<1>9. ipt \in [Frames -> IPTEntry] /\ ipt[ppn] = i /\ \A f \in Frames \ {ppn} : ipt[f] = r.IPT[f]
  BY <1>2, <1>8 DEF FieldsTyped
<1>10. list \in Seq(Frames)
  BY <1>2 DEF FieldsTyped
<1> HIDE DEF ipt, list
<1>11. /\ IsRecord(n) /\ n.mainMemory = r.mainMemory /\ n.IPT = ipt /\ n.swapFile = r.swapFile
       /\ n.pageTableBitMap = r.pageTableBitMap /\ n.swapBitMap = r.swapBitMap
       /\ n.FIFOList = list /\ n.currentTLB = r.currentTLB /\ n.tlb = r.tlb /\ n.stopped = r.stopped
       /\ n.pageTable = tables
  BY <1>2, <1>5 DEF IsRecord
<1>12. n \in Memory
  BY <1>2, <1>7, <1>9, <1>10, <1>11, MemoryIs DEF FieldsTyped
<1>13. OneEntry(m, n, s, vpn)
  BY <1>1, <1>7, <1>11 DEF OneEntry
<1>14. FromSwap(m, n, e, ppn) \/ FromExec(m, n, e, s, vpn, ppn)
  BY <1>1, <1>11 DEF FromSwap, FromExec
<1>15. n.IPT[ppn].valid /\ Has(n, ppn, s, vpn) /\ n.IPT[ppn].dirty = e.dirty
  BY <1>8, <1>9, <1>11 DEF Has
<1>16. n.FIFOList = Append(m.FIFOList, ppn)
  BY <1>1, <1>11 DEF list
<1>17. LET d1 == n.pageTable[s][vpn] IN IsAt(d1, "MAIN") /\ d1.physicalPage = ppn /\ d1.byteOffset = e.byteOffset
  BY <1>6, <1>7, <1>11 DEF IsAt
<1>18. \A f \in Frames \ {ppn} : n.IPT[f] = m.IPT[f] /\ n.mainMemory[f] = m.mainMemory[f]
  BY <1>1, <1>9, <1>11
<1> QED
  BY <1>1, <1>11, <1>12, <1>13, <1>14, <1>15, <1>16, <1>17, <1>18 DEF Mapped, n

\* The frame of the hole has the page, which no other had.
LEMMA MappedAccounted ==
  ASSUME NEW m, NEW n, NEW ppn \in Frames, NEW s \in Spaces, NEW vpn \in DOMAIN m.pageTable[s],
         Accounted(m, {ppn}), Mapped(m, n, s, vpn, ppn),
         \A f \in Frames : m.IPT[f].valid => ~Has(m, f, s, vpn),
         m.pageTable[s][vpn].location = "SWAP" => m.pageTable[s][vpn].valid
  PROVE  Accounted(n, {})
<1> DEFINE e == m.pageTable[s][vpn]
<1>1. BitsRight(m, {ppn}) /\ FramesOwned(m) /\ PagesMapped(m) /\ SlotsOwned(m) /\ PagesSwapped(m)
  BY DEF Accounted
<1>2. ~IsAt(e, "MAIN")
  BY <1>1 DEF PagesMapped, OnFrame, Has
<1>3. /\ \A r \in Spaces : DOMAIN n.pageTable[r] = DOMAIN m.pageTable[r]
      /\ \A r \in Spaces : \A p \in DOMAIN m.pageTable[r] :
           r # s \/ p # vpn => n.pageTable[r][p] = m.pageTable[r][p]
  BY DEF Mapped, OneEntry
<1>4. /\ n \in Memory /\ n.pageTableBitMap = m.pageTableBitMap
      /\ n.IPT[ppn].valid /\ Has(n, ppn, s, vpn) /\ \A f \in Frames \ {ppn} : n.IPT[f] = m.IPT[f]
      /\ IsAt(n.pageTable[s][vpn], "MAIN") /\ n.pageTable[s][vpn].physicalPage = ppn
      /\ FromSwap(m, n, e, ppn) \/ FromExec(m, n, e, s, vpn, ppn)
  BY DEF Mapped
<1>5. ~m.IPT[ppn].valid /\ m.pageTableBitMap = {f \in Frames : m.IPT[f].valid} \cup {ppn}
  BY <1>1 DEF BitsRight
<1>6. BitsRight(n, {})
  BY <1>4, <1>5 DEF BitsRight
<1>7. FramesOwned(n)
  <2>1. SUFFICES ASSUME NEW f \in Frames, n.IPT[f].valid
                 PROVE  LET r == n.IPT[f].PID
                            p == n.IPT[f].virtualPage
                        IN  /\ r \in Spaces /\ p \in DOMAIN n.pageTable[r]
                            /\ IsAt(n.pageTable[r][p], "MAIN") /\ n.pageTable[r][p].physicalPage = f
    BY DEF FramesOwned
  <2>2. CASE f = ppn
    BY <1>3, <1>4, <2>2 DEF Has
  <2>3. CASE f # ppn
    <3>1. n.IPT[f] = m.IPT[f]
      BY <1>4, <2>3
    <3> DEFINE r == m.IPT[f].PID
               p == m.IPT[f].virtualPage
    <3>2. r \in Spaces /\ p \in DOMAIN m.pageTable[r] /\ IsAt(m.pageTable[r][p], "MAIN") /\ m.pageTable[r][p].physicalPage = f
      BY <1>1, <2>1, <3>1 DEF FramesOwned
    <3>3. r # s \/ p # vpn
      BY <2>1, <3>1 DEF Has
    <3>4. n.IPT[f].PID = r /\ n.IPT[f].virtualPage = p
      BY <3>1
    <3> HIDE DEF r, p
    <3> QED
      BY <1>3, <3>2, <3>3, <3>4
  <2> QED
    BY <2>2, <2>3
<1>8. PagesMapped(n)
  <2>1. SUFFICES ASSUME NEW r \in Spaces, NEW p \in DOMAIN n.pageTable[r], IsAt(n.pageTable[r][p], "MAIN")
                 PROVE  LET f == n.pageTable[r][p].physicalPage
                        IN  f \in Frames /\ n.IPT[f].valid /\ n.IPT[f].PID = r /\ n.IPT[f].virtualPage = p
    BY DEF PagesMapped, OnFrame
  <2>2. CASE r = s /\ p = vpn
    BY <1>4, <2>2 DEF Has
  <2>3. CASE r # s \/ p # vpn
    <3>1. p \in DOMAIN m.pageTable[r] /\ n.pageTable[r][p] = m.pageTable[r][p]
      BY <1>3, <2>3
    <3> DEFINE f == m.pageTable[r][p].physicalPage
    <3>2. f \in Frames /\ m.IPT[f].valid /\ m.IPT[f].PID = r /\ m.IPT[f].virtualPage = p
      <4>1. OnFrame(m, f, r, p)
        BY <1>1, <2>1, <3>1 DEF PagesMapped
      <4> QED
        BY <4>1 DEF OnFrame
    <3> QED
      BY <1>4, <1>5, <3>1, <3>2
  <2> QED
    BY <2>2, <2>3
<1>9. ASSUME NEW r \in Spaces, NEW p \in DOMAIN n.pageTable[r], IsAt(n.pageTable[r][p], "SWAP")
      PROVE  /\ r # s \/ p # vpn
             /\ p \in DOMAIN m.pageTable[r] /\ n.pageTable[r][p] = m.pageTable[r][p] /\ IsAt(m.pageTable[r][p], "SWAP")
  <2>1. r # s \/ p # vpn
    BY <1>4, <1>9 DEF IsAt
  <2> QED
    BY <1>3, <1>9, <2>1
\* The slots in use are those of the other pages.
<1>10. /\ n.swapBitMap \subseteq m.swapBitMap
       /\ IsAt(e, "SWAP") => e.byteOffset \notin n.swapBitMap
       /\ \A b \in m.swapBitMap : b \in n.swapBitMap \/ (IsAt(e, "SWAP") /\ b = e.byteOffset)
  BY <1>4 DEF FromSwap, FromExec, IsAt
<1>11. SlotsOwned(n)
  <2>1. SUFFICES ASSUME NEW b \in n.swapBitMap
                 PROVE  \E r \in Spaces : \E p \in DOMAIN n.pageTable[r] :
                          IsAt(n.pageTable[r][p], "SWAP") /\ n.pageTable[r][p].byteOffset = b
    BY DEF SlotsOwned
  <2>2. PICK r \in Spaces : \E p \in DOMAIN m.pageTable[r] :
               IsAt(m.pageTable[r][p], "SWAP") /\ m.pageTable[r][p].byteOffset = b
    BY <1>1, <1>10 DEF SlotsOwned
  <2>3. PICK p \in DOMAIN m.pageTable[r] : IsAt(m.pageTable[r][p], "SWAP") /\ m.pageTable[r][p].byteOffset = b
    BY <2>2
  <2>4. r # s \/ p # vpn
    BY <1>10, <2>3
  <2> QED
    BY <1>3, <2>3, <2>4
<1>12. PagesSwapped(n)
  <2>1. SUFFICES ASSUME NEW r \in Spaces, NEW p \in DOMAIN n.pageTable[r], IsAt(n.pageTable[r][p], "SWAP")
                 PROVE  /\ n.pageTable[r][p].dirty /\ n.pageTable[r][p].byteOffset \in n.swapBitMap
                        /\ \A q \in Spaces : \A t \in DOMAIN n.pageTable[q] :
                             IsAt(n.pageTable[q][t], "SWAP") /\ n.pageTable[q][t].byteOffset = n.pageTable[r][p].byteOffset
                               => q = r /\ t = p
    BY DEF PagesSwapped
  <2>2. /\ r # s \/ p # vpn
        /\ p \in DOMAIN m.pageTable[r] /\ n.pageTable[r][p] = m.pageTable[r][p] /\ IsAt(m.pageTable[r][p], "SWAP")
    BY <1>9, <2>1
  <2>3. m.pageTable[r][p].dirty /\ m.pageTable[r][p].byteOffset \in m.swapBitMap
    BY <1>1, <2>2 DEF PagesSwapped
  <2>4. IsAt(e, "SWAP") => m.pageTable[r][p].byteOffset # e.byteOffset
    BY <1>1, <2>2 DEF PagesSwapped
  <2>5. ASSUME NEW q \in Spaces, NEW t \in DOMAIN n.pageTable[q], IsAt(n.pageTable[q][t], "SWAP"),
               n.pageTable[q][t].byteOffset = n.pageTable[r][p].byteOffset
        PROVE  q = r /\ t = p
    <3>1. t \in DOMAIN m.pageTable[q] /\ IsAt(m.pageTable[q][t], "SWAP") /\ n.pageTable[q][t] = m.pageTable[q][t]
      BY <1>9, <2>5
    <3> QED
      BY <1>1, <2>2, <2>5, <3>1 DEF PagesSwapped
  <2> QED
    BY <1>10, <2>2, <2>3, <2>4, <2>5
<1> QED
  BY <1>4, <1>6, <1>7, <1>8, <1>11, <1>12 DEF Accounted

LEMMA MappedPages ==
  ASSUME NEW m, NEW n, NEW ppn \in Frames, NEW s \in Spaces, NEW vpn \in DOMAIN m.pageTable[s],
         Accounted(m, {ppn}), Mapped(m, n, s, vpn, ppn),
         \A f \in Frames : m.IPT[f].valid => ~Has(m, f, s, vpn),
         m.pageTable[s][vpn].location = "SWAP" => m.pageTable[s][vpn].valid,
         NEW ver, PagesRight(m, ver)
  PROVE  PagesRight(n, ver)
<1> DEFINE e == m.pageTable[s][vpn]
<1>1. BitsRight(m, {ppn}) /\ PagesMapped(m) /\ PagesSwapped(m) /\ m.swapBitMap \subseteq SwapPages
  BY MemoryIs DEF Accounted, FieldsTyped
<1>2. ~IsAt(e, "MAIN") /\ ~m.IPT[ppn].valid
  BY <1>1 DEF PagesMapped, OnFrame, Has, BitsRight
<1>3. /\ \A r \in Spaces : DOMAIN n.pageTable[r] = DOMAIN m.pageTable[r]
      /\ \A r \in Spaces : \A p \in DOMAIN m.pageTable[r] :
           r # s \/ p # vpn => n.pageTable[r][p] = m.pageTable[r][p]
  BY DEF Mapped, OneEntry
<1>4. /\ n.IPT[ppn].dirty = e.dirty /\ n.tlb = m.tlb
      /\ \A f \in Frames \ {ppn} : n.IPT[f] = m.IPT[f] /\ n.mainMemory[f] = m.mainMemory[f]
      /\ IsAt(n.pageTable[s][vpn], "MAIN") /\ n.pageTable[s][vpn].physicalPage = ppn
      /\ n.pageTable[s][vpn].byteOffset = e.byteOffset
      /\ FromSwap(m, n, e, ppn) \/ FromExec(m, n, e, s, vpn, ppn)
  BY DEF Mapped
<1>5. ASSUME NEW r \in Spaces, NEW p \in DOMAIN m.pageTable[r], NEW v, PageRight(m, r, p, v), r # s \/ p # vpn
      PROVE  PageRight(n, r, p, v)
  <2> DEFINE entry == m.pageTable[r][p]
             f == entry.physicalPage
             b == entry.byteOffset
  <2>1. n.pageTable[r][p] = entry
    BY <1>3, <1>5
  <2>2. ASSUME IsAt(entry, "MAIN") PROVE n.mainMemory[f] = m.mainMemory[f] /\ (Dirty(m, f) => Dirty(n, f))
    <3>1. f \in Frames /\ m.IPT[f].valid
      BY <1>1, <2>2 DEF PagesMapped, OnFrame
    <3>2. f # ppn
      BY <1>2, <3>1
    <3> QED
      BY <1>4, <3>1, <3>2 DEF Dirty
  <2>3. ASSUME IsAt(entry, "SWAP") PROVE n.swapFile[b] = m.swapFile[b]
    <3>1. b \in m.swapBitMap /\ b \in SwapPages
      BY <1>1, <2>3 DEF PagesSwapped
    <3>2. IsAt(e, "SWAP") => b # e.byteOffset
      BY <1>1, <1>5, <2>3 DEF PagesSwapped
    <3> QED
      BY <1>4, <3>1, <3>2 DEF FromExec, FromSwap, IsAt
  <2> QED
    BY <1>5, <2>1, <2>2, <2>3, PageKept
<1>6. ASSUME NEW v, PageRight(m, s, vpn, v) PROVE PageRight(n, s, vpn, v)
  <2>1. CASE e.location = "EXEC" /\ e.byteOffset = vpn /\ v = 0
    <3>1. n.mainMemory[ppn] = <<s, vpn, 0>>
      BY <1>4, <2>1 DEF FromExec, FromSwap
    <3> QED
      BY <1>4, <2>1, <3>1 DEF PageRight
  <2>2. CASE IsAt(e, "SWAP") /\ m.swapFile[e.byteOffset] = <<s, vpn, v>>
    <3>1. n.mainMemory[ppn] = <<s, vpn, v>>
      BY <1>4, <2>2 DEF FromExec, FromSwap, IsAt
    <3>2. e.dirty
      BY <1>1, <2>2 DEF PagesSwapped
    <3>3. Dirty(n, ppn)
      BY <1>4, <3>2 DEF Dirty
    <3> QED
      BY <1>4, <3>1, <3>3 DEF PageRight
  <2> QED
    BY <1>2, <1>6, <2>1, <2>2 DEF PageRight
<1>7. ASSUME NEW r \in Spaces, NEW p \in DOMAIN ver[r], ver[r][p] # -1 PROVE PageRight(n, r, p, ver[r][p])
  <2>1. p \in DOMAIN m.pageTable[r] /\ PageRight(m, r, p, ver[r][p])
    BY <1>7 DEF PagesRight
  <2> QED
    BY <1>5, <1>6, <2>1
<1>8. \A r \in Spaces : DOMAIN ver[r] = DOMAIN n.pageTable[r]
  BY <1>3 DEF PagesRight
<1> QED
  BY <1>7, <1>8 DEF PagesRight

LEMMA MappedRight ==
  ASSUME NEW m, NEW n, NEW ppn \in Frames, NEW s \in Spaces, NEW vpn \in DOMAIN m.pageTable[s], NEW ver,
         Hole(m, ppn, s, ver), Mapped(m, n, s, vpn, ppn),
         \A f \in Frames : m.IPT[f].valid => ~Has(m, f, s, vpn),
         m.pageTable[s][vpn].location = "SWAP" => m.pageTable[s][vpn].valid
  PROVE  Right(n, s, ver)
<1>1. /\ Accounted(m, {ppn}) /\ m.stopped = "no" /\ TLBRight(m, s) /\ PagesRight(m, ver) /\ m \in Memory
      /\ Len(m.FIFOList) + 1 >= Cardinality(m.pageTableBitMap)
  BY DEF Hole, Accounted
<1>2. Accounted(n, {}) /\ PagesRight(n, ver)
  BY <1>1, MappedAccounted, MappedPages
<1>3. /\ n.tlb = m.tlb /\ n.pageTableBitMap = m.pageTableBitMap /\ n.stopped = m.stopped
      /\ n.FIFOList = Append(m.FIFOList, ppn) /\ \A f \in Frames \ {ppn} : n.IPT[f] = m.IPT[f]
  BY DEF Mapped
<1>4. ~m.IPT[ppn].valid
  BY <1>1 DEF Accounted, BitsRight
<1>5. TLBRight(n, s)
  <2>1. SUFFICES ASSUME NEW i \in 1..TLBSize, n.tlb[i].valid
                 PROVE  LET f == n.tlb[i].physicalPage
                        IN  /\ f \in Frames /\ n.IPT[f].valid /\ n.IPT[f].PID = s
                            /\ n.IPT[f].virtualPage = n.tlb[i].virtualPage
                            /\ \A j \in 1..TLBSize : n.tlb[j].valid /\ n.tlb[j].physicalPage = f => j = i
    BY DEF TLBRight
  <2> QED
    BY <1>1, <1>3, <1>4, <2>1 DEF TLBRight
<1>6. QueueLong(n)
  <2>1. m.FIFOList \in Seq(Frames)
    BY <1>1, MemoryIs DEF FieldsTyped
  <2>2. Len(n.FIFOList) = Len(m.FIFOList) + 1
    BY <1>3, <2>1
  <2> QED
    BY <1>1, <1>3, <2>2 DEF QueueLong
<1> QED
  BY <1>1, <1>2, <1>3, <1>5, <1>6 DEF Right

-----------------------------------------------------------------------------
(***************************************************************************)
(* A page fault.                                                           *)
(***************************************************************************)
\* The page tables are as long as they were, and a page that has gone to the swap file
\* is valid.
EntriesKept(m, n) ==
  /\ \A r \in Spaces : DOMAIN n.pageTable[r] = DOMAIN m.pageTable[r]
  /\ \A r \in Spaces : \A p \in DOMAIN m.pageTable[r] :
       n.pageTable[r][p].location = "SWAP" => n.pageTable[r][p].valid \/ n.pageTable[r][p] = m.pageTable[r][p]

\* The page is in the frame, and the TLB has no entries it did not have.
Found(m, n, s, vpn, ppn, ver) ==
  /\ Right(n, s, ver) /\ ppn \in Frames /\ n.IPT[ppn].valid /\ Has(n, ppn, s, vpn) /\ EntriesKept(m, n)
  /\ \A i \in 1..TLBSize : n.tlb[i].valid => n.tlb[i] = m.tlb[i]

\* There is a page to evict.
LEMMA VictimsAreFrames ==
  ASSUME NEW m, NEW space, NEW ver, Right(m, space, ver), m.pageTableBitMap = Frames
  PROVE  Victims(m) \subseteq Frames
<1>1. m.FIFOList \in Seq(Frames) /\ Len(m.FIFOList) >= Cardinality(Frames)
  BY MemoryIs DEF Right, Accounted, QueueLong, FieldsTyped
<1>2. Cardinality(Frames) = NumPhysPages
  <2>1. 1 \in Int /\ NumPhysPages \in Int /\ ~(1 > NumPhysPages) /\ NumPhysPages - 1 + 1 = NumPhysPages
    BY Sizes
  <2>2. Cardinality(1..NumPhysPages) = IF 1 > NumPhysPages THEN 0 ELSE NumPhysPages - 1 + 1
    BY <2>1, FS_Interval
  <2> QED
    BY <2>1, <2>2 DEF Frames
<1>3. Len(m.FIFOList) \in Nat /\ NumPhysPages \in Nat \ {0}
  BY <1>1, Sizes
<1>4. Len(m.FIFOList) >= 1
  BY <1>1, <1>2, <1>3
<1>5. Head(m.FIFOList) \in Frames
  BY <1>1, <1>4
<1> QED
  BY <1>5 DEF Victims

\* The page is loaded into the frame.
LEMMA LoadRight ==
  ASSUME NEW m, NEW x, NEW ppn \in Frames, NEW s \in Spaces, NEW vpn \in DOMAIN m.pageTable[s], NEW ver,
         Hole(x, ppn, s, ver), Fewer(m, x),
         \A f \in Frames : m.IPT[f].valid => ~Has(m, f, s, vpn),
         m.pageTable[s][vpn].location = "SWAP" => m.pageTable[s][vpn].valid,
         NEW y \in ReadPage(x, s, vpn, ppn)
  PROVE  y \in Memory /\ (y.stopped = "no" => Found(m, MapPage(y, s, vpn, ppn), s, vpn, ppn, ver))
<1> DEFINE n == MapPage(y, s, vpn, ppn)
<1>1. x \in Memory /\ x.stopped = "no" /\ PagesSwapped(x) /\ x.swapBitMap \subseteq SwapPages
  BY MemoryIs DEF Hole, Accounted, FieldsTyped
<1>2. vpn \in DOMAIN x.pageTable[s] /\ (x.pageTable[s][vpn].location = "SWAP" => x.pageTable[s][vpn].valid)
  BY DEF Fewer
<1>3. x.pageTable[s][vpn].location = "SWAP" => x.pageTable[s][vpn].byteOffset \in SwapPages
  BY <1>1, <1>2 DEF PagesSwapped, IsAt
<1>4. \A f \in Frames : x.IPT[f].valid => ~Has(x, f, s, vpn)
  BY DEF Fewer, SameOwner, Has
<1>5. y \in Memory /\ (y.stopped = "no" => PageRead(x, y, s, vpn, ppn))
  BY <1>1, <1>2, <1>3, ReadPageReads
<1>6. ASSUME y.stopped = "no" PROVE Found(m, n, s, vpn, ppn, ver)
  <2>1. Mapped(x, n, s, vpn, ppn)
    BY <1>2, <1>5, <1>6, MapPageMaps
  <2> HIDE DEF n
  <2>2. Right(n, s, ver)
    BY <1>2, <1>4, <2>1, MappedRight
  <2>3. n.IPT[ppn].valid /\ Has(n, ppn, s, vpn) /\ n.tlb = x.tlb /\ OneEntry(x, n, s, vpn) /\ n.pageTable[s][vpn].location = "MAIN"
    BY <2>1 DEF Mapped, IsAt
  <2>4. EntriesKept(m, n)
    <3>1. ASSUME NEW r \in Spaces PROVE DOMAIN n.pageTable[r] = DOMAIN m.pageTable[r]
      BY <2>3 DEF Fewer, OneEntry
    <3>2. ASSUME NEW r \in Spaces, NEW p \in DOMAIN m.pageTable[r], n.pageTable[r][p].location = "SWAP"
          PROVE  n.pageTable[r][p].valid \/ n.pageTable[r][p] = m.pageTable[r][p]
      <4>1. r # s \/ p # vpn
        BY <2>3, <3>2
      <4>2. p \in DOMAIN x.pageTable[r] /\ n.pageTable[r][p] = x.pageTable[r][p]
        BY <2>3, <4>1 DEF Fewer, OneEntry
      <4> QED
        BY <3>2, <4>2 DEF Fewer
    <3> QED
      BY <3>1, <3>2 DEF EntriesKept
  <2> QED
    BY <2>2, <2>3, <2>4 DEF Found, Fewer
<1> QED
  BY <1>5, <1>6

LEMMA IPTmissRight ==
  ASSUME NEW m, NEW s \in Spaces, NEW vpn \in DOMAIN m.pageTable[s], NEW ver, Right(m, s, ver),
         \A f \in Frames : m.IPT[f].valid => ~Has(m, f, s, vpn),
         m.pageTable[s][vpn].location = "SWAP" => m.pageTable[s][vpn].valid,
         NEW r \in handleIPTmiss(m, s, vpn)
  PROVE  r[1] \in Memory /\ (r[1].stopped = "no" => Found(m, r[1], s, vpn, r[2], ver))
<1> DEFINE free == Find(m.pageTableBitMap, NumPhysPages)
           rooms == IF free # 0 THEN {<<[m EXCEPT !.pageTableBitMap = @ \cup {free}], free>>}
                    ELSE {<<handleMemoryFull(m, ppn), ppn>> : ppn \in Victims(m)}
           load(room) == IF room[1].stopped # "no" THEN {room}
                         ELSE {IF y.stopped # "no" THEN <<y, room[2]>>
                               ELSE <<MapPage(y, s, vpn, room[2]), room[2]>> : y \in ReadPage(room[1], s, vpn, room[2])}
<1>1. PICK room \in rooms : r \in load(room)
  BY DEF handleIPTmiss
<1>2. m \in Memory /\ m.pageTableBitMap \in SUBSET (1..NumPhysPages) /\ NumPhysPages \in Nat
  BY MemoryIs, Sizes DEF Right, Accounted, FieldsTyped, Frames
<1>3. \E x, ppn : /\ room = <<x, ppn>> /\ ppn \in Frames /\ x \in Memory
                  /\ x.stopped = "no" => Hole(x, ppn, s, ver) /\ Fewer(m, x)
  <2>1. CASE free # 0
    <3>1. free \in Frames \ m.pageTableBitMap
      BY <1>2, <2>1, FindFree DEF Frames
    <3>2. room = <<[m EXCEPT !.pageTableBitMap = @ \cup {free}], free>>
      BY <2>1
    <3> HIDE DEF free
    <3>3. LET x == [m EXCEPT !.pageTableBitMap = @ \cup {free}]
          IN  x \in Memory /\ Hole(x, free, s, ver) /\ Fewer(m, x)
      BY <3>1, FreeFrameHole
    <3> QED
      BY <3>1, <3>2, <3>3
  <2>2. CASE free = 0
    <3>1. m.pageTableBitMap = Frames
      BY <1>2, <2>2, FindFree DEF Frames
    <3>2. PICK ppn \in Victims(m) : room = <<handleMemoryFull(m, ppn), ppn>>
      BY <2>2
    <3>3. ppn \in Frames
      BY <3>1, VictimsAreFrames
    <3>4. LET x == handleMemoryFull(m, ppn)
          IN  x \in Memory /\ (x.stopped = "no" => Hole(x, ppn, s, ver) /\ Fewer(m, x))
      BY <3>1, <3>3, MemoryFullHole
    <3> QED
      BY <3>2, <3>3, <3>4
  <2> QED
    BY <2>1, <2>2
<1> HIDE DEF rooms
<1>4. PICK x, ppn : /\ room = <<x, ppn>> /\ ppn \in Frames /\ x \in Memory
                    /\ x.stopped = "no" => Hole(x, ppn, s, ver) /\ Fewer(m, x)
  BY <1>3
<1>5. room[1] = x /\ room[2] = ppn
  BY <1>4
<1>6. CASE x.stopped # "no"
  <2>1. r = room
    BY <1>1, <1>5, <1>6
  <2> QED
    BY <1>4, <1>5, <1>6, <2>1
<1>7. CASE x.stopped = "no"
  <2>1. PICK y \in ReadPage(x, s, vpn, ppn) :
               r = IF y.stopped # "no" THEN <<y, ppn>> ELSE <<MapPage(y, s, vpn, ppn), ppn>>
    BY <1>1, <1>5, <1>7
  <2>2. y \in Memory /\ (y.stopped = "no" => Found(m, MapPage(y, s, vpn, ppn), s, vpn, ppn, ver))
    BY <1>4, <1>7, LoadRight
  <2>3. CASE y.stopped # "no"
    BY <2>1, <2>2, <2>3
  <2>4. CASE y.stopped = "no"
    <3>1. r[1] = MapPage(y, s, vpn, ppn) /\ r[2] = ppn
      BY <2>1, <2>4
    <3>2. Found(m, MapPage(y, s, vpn, ppn), s, vpn, ppn, ver)
      BY <2>2, <2>4
    <3>3. MapPage(y, s, vpn, ppn) \in Memory
      BY <3>2 DEF Found, Right, Accounted
    <3> QED
      BY <3>1, <3>2, <3>3
  <2> QED
    BY <2>3, <2>4
<1> QED
  BY <1>6, <1>7

\* The page fault leaves all right, unless the machine stops.
LEMMA TLBMissRight ==
  ASSUME NEW m, NEW s \in Spaces, NEW vpn \in DOMAIN m.pageTable[s], NEW ver, Right(m, s, ver),
         m.pageTable[s][vpn].location = "SWAP" => m.pageTable[s][vpn].valid,
         Translate(m, vpn) = 0, NEW n \in handleTLBMiss(m, s, vpn)
  PROVE  n \in Memory /\ (n.stopped = "no" => Right(n, s, ver) /\ EntriesKept(m, n))
<1> DEFINE hits == {f \in Frames : m.IPT[f].valid /\ m.IPT[f].PID = s /\ m.IPT[f].virtualPage = vpn}
           found == IF hits # {} THEN {<<m, Min(hits)>>} ELSE handleIPTmiss(m, s, vpn)
<1>1. PICK r \in found : n = IF r[1].stopped # "no" THEN r[1] ELSE populateTLBFromIPTEntry(r[1], r[2])
  BY DEF handleTLBMiss
<1>2. r[1] \in Memory /\ (r[1].stopped = "no" => Found(m, r[1], s, vpn, r[2], ver))
  <2>1. CASE hits # {}
    <3>1. r = <<m, Min(hits)>>
      BY <2>1
    <3>2. hits \in SUBSET Nat
      BY Sizes
    <3>3. Min(hits) \in hits
      <4> HIDE DEF hits
      <4> QED
        BY <2>1, <3>2, MinIn
    <3>4. PICK f \in Frames : f = Min(hits) /\ m.IPT[f].valid /\ Has(m, f, s, vpn)
      BY <3>3 DEF Has
    <3> HIDE DEF hits
    <3>5. r[1] = m /\ r[2] = f
      BY <3>1, <3>4
    <3>6. Found(m, m, s, vpn, f, ver)
      BY <3>4 DEF Found, EntriesKept
    <3> QED
      BY <3>5, <3>6 DEF Found, Right, Accounted
  <2>2. CASE hits = {}
    <3>1. r \in handleIPTmiss(m, s, vpn)
      BY <2>2
    <3>2. \A f \in Frames : m.IPT[f].valid => ~Has(m, f, s, vpn)
      BY <2>2 DEF Has
    <3> QED
      BY <3>1, <3>2, IPTmissRight
  <2> QED
    BY <2>1, <2>2
<1> HIDE DEF found
<1>3. CASE r[1].stopped # "no"
  BY <1>1, <1>2, <1>3
<1>4. CASE r[1].stopped = "no"
  <2>1. PICK x, ppn : x = r[1] /\ ppn = r[2]
    OBVIOUS
  <2>2. Found(m, x, s, vpn, ppn, ver) /\ n = populateTLBFromIPTEntry(x, ppn)
    BY <1>1, <1>2, <1>4, <2>1
  <2>3. /\ Accounted(x, {}) /\ x \in Memory /\ x.stopped = "no" /\ QueueLong(x) /\ TLBRight(x, s) /\ PagesRight(x, ver)
        /\ PagesMapped(x) /\ ppn \in Frames /\ x.IPT[ppn].valid /\ x.IPT[ppn].PID = s /\ x.IPT[ppn].virtualPage = vpn
        /\ EntriesKept(m, x)
    BY <2>2 DEF Found, Right, Accounted, Has
  <2>4. ASSUME NEW i \in 1..TLBSize, m.tlb[i].valid PROVE m.tlb[i].virtualPage # vpn
    <3> DEFINE matching == {j \in 1..TLBSize : m.tlb[j].valid /\ m.tlb[j].virtualPage = vpn}
    <3>1. matching \in SUBSET Nat /\ 0 \notin matching
      OBVIOUS
    <3>2. matching # {} => Min(matching) = 0
      BY DEF Translate
    <3>3. matching = {}
      <4> HIDE DEF matching
      <4> QED
        BY <3>1, <3>2, MinIn
    <3> QED
      BY <2>4, <3>3
  <2>5. \A i \in 1..TLBSize : x.tlb[i].valid => x.tlb[i].virtualPage # x.IPT[ppn].virtualPage
    BY <2>2, <2>3, <2>4 DEF Found
  <2>6. OnlyTLB(x, n) /\ TLBRight(n, s)
    BY <2>2, <2>3, <2>5, PopulateOnlyTLB
  <2>7. Accounted(n, {}) /\ PagesRight(n, ver)
    BY <2>3, <2>6, OnlyTLBAccounted, OnlyTLBPages
  <2>8. n.stopped = "no" /\ QueueLong(n) /\ n \in Memory /\ n.pageTable = x.pageTable
    BY <2>3, <2>6 DEF OnlyTLB, QueueLong
  <2>9. EntriesKept(m, n)
    BY <2>3, <2>8 DEF EntriesKept
  <2> QED
    BY <2>6, <2>7, <2>8, <2>9 DEF Right
<1> QED
  BY <1>3, <1>4
=============================================================================
