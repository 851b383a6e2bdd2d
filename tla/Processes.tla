------------------------------- MODULE Processes -------------------------------
(***************************************************************************)
(* Processes and their threads over the virtual memory: the Fork, Exec,    *)
(* Exit and Yield system calls, the process table, the ready list, time    *)
(* slices, and the memory accesses of programs and of copyin and copyout.  *)
(* What runs with interrupts off, or under a lock that is held for one     *)
(* assignment, is one step.                                                *)
(***************************************************************************)
EXTENDS VirtualMemory

CONSTANTS
  Threads,    \* threads; an entry is used again when its thread has finished
  NoThread,   \* the machine has stopped
  MaxForks,   \* bound on the Fork system calls of a behaviour
  MaxExecs    \* bound on the Exec system calls of a behaviour

ASSUME ProcessAssumption ==
  /\ MaxForks \in Nat /\ MaxExecs \in Nat
  /\ NoThread \notin Threads /\ Threads # {} /\ Spaces # {}
  /\ IsFiniteSet(Threads) /\ IsFiniteSet(Spaces)

VARIABLES
  memory,         \* the record of VirtualMemory
  thread,         \* for each thread, where it is, its space and its stack
  currentThread,
  readyList,
  ProcessTable,   \* the number of threads of each process in the table
  execCalled,     \* Exec calls whose process is not in the table yet
  version,        \* for each page, the version of its data that the program knows
  calls           \* the Fork and Exec calls so far

vars == <<memory, thread, currentThread, readyList, ProcessTable, execCalled, version, calls>>

Thread ==
  [pc : {"unused", "user", "copyin", "execing", "forking", "yielding", "exiting",
         "kernel_thread", "kernel_exec"},
   space : Spaces \cup {NoSpace}, stack : SUBSET Nat]

Unused == [pc |-> "unused", space |-> NoSpace, stack |-> {}]

\* Every variable has its type: no physical page, swap page or count leaves its range.
TypeOK ==
  /\ memory \in Memory
  /\ thread \in [Threads -> Thread]
  /\ currentThread \in Threads \cup {NoThread}
  /\ readyList \in Seq(Threads)
  /\ ProcessTable \in [Spaces -> Nat]
  /\ execCalled \in Nat
  /\ version \in [Spaces -> Seq({-1, 0, 1})]
  /\ calls \in [Fork : 0..MaxForks, Exec : 0..MaxExecs]
-----------------------------------------------------------------------------
(***************************************************************************)
(* StartProcess has made the first process; its thread runs.               *)
(***************************************************************************)
\* The pages that AddrSpace gives the stack of the first thread of a process.
FirstStack == (numNonStackPages + 1)..(numNonStackPages + StackPages)

\* A program knows the contents of the pages of its executable; -1 is not known.
FirstVersions == [vpn \in 1..(numNonStackPages + StackPages) |-> IF vpn <= numNonStackPages THEN 0 ELSE -1]

\* ProcessTableClass::addProcess; 0 is a process that is not in the table.
addProcess(s) == [ProcessTable EXCEPT ![s] = 1]
deleteProcess(s) == [ProcessTable EXCEPT ![s] = 0]
getNumProcesses == Cardinality({s \in Spaces : ProcessTable[s] > 0})

StartProcess(t, s) ==
  /\ memory = NewAddrSpace(NewMemory, s)
  /\ thread = [u \in Threads |->
                 IF u = t THEN [Unused EXCEPT !.pc = "user", !.space = s, !.stack = FirstStack] ELSE Unused]
  /\ currentThread = t
  /\ ProcessTable = [r \in Spaces |-> IF r = s THEN 1 ELSE 0]
  /\ version = [r \in Spaces |-> IF r = s THEN FirstVersions ELSE <<>>]

Init ==
  /\ \E t \in Threads, s \in Spaces : StartProcess(t, s)
  /\ readyList = <<>>
  /\ execCalled = 0
  /\ calls = [Fork |-> 0, Exec |-> 0]
-----------------------------------------------------------------------------
(***************************************************************************)
(* The scheduler.                                                          *)
(***************************************************************************)
At(t, pc) == currentThread = t /\ thread[t].pc = pc

Goto(t, pc) == thread' = [thread EXCEPT ![t].pc = pc]

\* Scheduler::Run saves the state of the space of the thread that gives way, also
\* when it has just been deleted.
Run(t, next, m) ==
  /\ currentThread' = next
  /\ memory' = IF thread[t].space # NoSpace THEN SaveState(m) ELSE m

\* Thread::Yield
Yield(t) ==
  \/ /\ readyList = <<>>
     /\ UNCHANGED <<readyList, currentThread, memory>>
  \/ /\ readyList # <<>>
     /\ readyList' = Append(Tail(readyList), t)
     /\ Run(t, Head(readyList), memory)

\* The timer interrupt makes the thread yield where interrupts are on.
TimeSlice(t) ==
  /\ currentThread = t
  /\ readyList # <<>>
  /\ Yield(t)
  /\ UNCHANGED <<thread, ProcessTable, execCalled, version, calls>>

\* Thread::Thread and Thread::Fork, of a thread that will run func.
NewThread(t, func, space) ==
  \E u \in {v \in Threads : thread[v].pc = "unused"} :
    /\ thread' = [thread EXCEPT ![t].pc = IF func = "kernel_thread" THEN "yielding" ELSE "user",
                                ![u] = [Unused EXCEPT !.pc = func, !.space = space]]
    /\ readyList' = Append(readyList, u)

\* Interrupt::Idle, with no thread ready: nothing but the timer could interrupt, and
\* the machine halts.
Idle == currentThread' = NoThread /\ UNCHANGED <<memory, readyList>>

\* Thread::Finish and Sleep.
Finish(t) ==
  /\ At(t, "exiting")
  /\ thread' = [thread EXCEPT ![t] = Unused]
  /\ IF readyList = <<>> THEN Idle
     ELSE Run(t, Head(readyList), memory) /\ readyList' = Tail(readyList)
  /\ UNCHANGED <<ProcessTable, execCalled, version, calls>>
-----------------------------------------------------------------------------
(***************************************************************************)
(* Memory accesses.  A program uses the pages of its executable and its    *)
(* own stack.                                                              *)
(***************************************************************************)
Pages(t) == 1..numNonStackPages \cup thread[t].stack

\* The machine stops when there is no swap space, or on an assertion.
Continue(t) == currentThread' = IF memory'.stopped = "no" THEN t ELSE NoThread

\* The access that translates: a write makes the page differ from the executable.
Hit(t, vpn, writing) ==
  LET s == thread[t].space
  IN  /\ Translate(memory, vpn) # 0
      /\ IF writing
         THEN /\ memory' = WriteMem(memory, vpn, <<s, vpn, 1>>)
              /\ version' = [version EXCEPT ![s][vpn] = 1]
         ELSE UNCHANGED <<memory, version>>

\* ExceptionHandler for a page fault.
Miss(t, vpn) ==
  /\ Translate(memory, vpn) = 0
  /\ memory' \in handleTLBMiss(memory, thread[t].space, vpn)
  /\ UNCHANGED version

\* Machine::OneInstruction, which reads the page of the instruction and may access
\* another: one access.  One that faults leaves the thread where it is, to make it
\* again, perhaps after other threads have run; that it does so next needs no state,
\* as a fault leaves the machine as it would be after a read.
OneInstruction(t) ==
  /\ At(t, "user")
  /\ \E vpn \in Pages(t) : Miss(t, vpn) \/ \E writing \in BOOLEAN : Hit(t, vpn, writing)
  /\ Continue(t)
  /\ UNCHANGED <<thread, readyList, ProcessTable, execCalled, calls>>

\* copyin of the name of a program: an access that faults is made again.
copyin(t) ==
  /\ At(t, "copyin")
  /\ \E vpn \in Pages(t) :
       \/ Miss(t, vpn) /\ UNCHANGED thread
       \/ Hit(t, vpn, FALSE) /\ Goto(t, "execing")
  /\ Continue(t)
  /\ UNCHANGED <<readyList, ProcessTable, execCalled, calls>>

\* copyout, unlike copyin, gives up when an access faults.
copyout(t) == \E vpn \in Pages(t) : Hit(t, vpn, TRUE) \/ Miss(t, vpn)

\* What is read is copied to the program.
Read_Syscall(t) ==
  /\ At(t, "user")
  /\ copyout(t)
  /\ Continue(t)
  /\ UNCHANGED <<thread, readyList, ProcessTable, execCalled, calls>>
-----------------------------------------------------------------------------
(***************************************************************************)
(* Fork, Exec and Exit.                                                    *)
(***************************************************************************)
Yield_Syscall(t) ==
  /\ At(t, "user") \/ At(t, "yielding")
  /\ Yield(t)
  /\ Goto(t, "user")
  /\ UNCHANGED <<ProcessTable, execCalled, version, calls>>

\* The new thread is counted first and made later.
Fork_Syscall(t) ==
  /\ At(t, "user") /\ calls.Fork < MaxForks
  /\ calls' = [calls EXCEPT !.Fork = @ + 1]
  /\ ProcessTable' = [ProcessTable EXCEPT ![thread[t].space] = @ + 1]
  /\ Goto(t, "forking")
  /\ UNCHANGED <<memory, currentThread, readyList, execCalled, version>>

ForkThread(t) ==
  /\ At(t, "forking")
  /\ NewThread(t, "kernel_thread", thread[t].space)
  /\ UNCHANGED <<memory, currentThread, ProcessTable, execCalled, version, calls>>

\* The new thread gives itself a stack.
kernel_thread(t) ==
  LET s == thread[t].space
      n == Len(memory.pageTable[s])
  IN  /\ At(t, "kernel_thread")
      /\ memory' = AddStack(memory, s)
      /\ thread' = [thread EXCEPT ![t].pc = "user", ![t].stack = (n + 1)..(n + StackPages)]
      /\ version' = [version EXCEPT ![s] = @ \o [i \in 1..StackPages |-> -1]]
      /\ UNCHANGED <<currentThread, readyList, ProcessTable, execCalled, calls>>

\* The process is counted first and made later, by its own thread.
Exec_Syscall(t) ==
  /\ At(t, "user") /\ calls.Exec < MaxExecs
  /\ calls' = [calls EXCEPT !.Exec = @ + 1]
  /\ execCalled' = execCalled + 1
  /\ Goto(t, "copyin")
  /\ UNCHANGED <<memory, currentThread, readyList, ProcessTable, version>>

ExecThread(t) ==
  /\ At(t, "execing")
  /\ NewThread(t, "kernel_exec", NoSpace)
  /\ UNCHANGED <<memory, currentThread, ProcessTable, execCalled, version, calls>>

\* The new space may lie where a deleted one was.
kernel_exec(t) ==
  /\ At(t, "kernel_exec")
  /\ \E s \in {r \in Spaces : memory.pageTable[r] = <<>>} :
       /\ memory' = NewAddrSpace(memory, s)
       /\ thread' = [thread EXCEPT ![t] = [@ EXCEPT !.pc = "user", !.space = s, !.stack = FirstStack]]
       /\ version' = [version EXCEPT ![s] = FirstVersions]
       /\ ProcessTable' = addProcess(s)
  /\ execCalled' = execCalled - 1
  /\ UNCHANGED <<currentThread, readyList, calls>>

\* Mutant: off by one.
ManyThreads(s) == ProcessTable[s] > 2

\* The thread is not the last one of its process.
OtherThreads(s) == ProcessTable[s] > 1

\* Mutant: an Exec under way is not looked at.
LastInTable(s) == ProcessTable[s] = 1 /\ getNumProcesses = 1

\* The last thread of the last process, with no Exec under way.
LastOfAll(s) == ProcessTable[s] = 1 /\ getNumProcesses = 1 /\ execCalled = 0

Exit_Syscall(t) ==
  LET s == thread[t].space
  IN  /\ At(t, "user")
      /\ IF OtherThreads(s)
         THEN /\ ProcessTable' = [ProcessTable EXCEPT ![s] = @ - 1]
              /\ memory' = ExitSpace(memory, s, thread[t].stack)
              /\ version' = [version EXCEPT ![s] = [vpn \in DOMAIN @ |->
                                                     IF vpn \in thread[t].stack THEN -1 ELSE @[vpn]]]
              /\ Goto(t, "exiting")
              /\ UNCHANGED currentThread
         ELSE IF LastOfAll(s)
         THEN /\ currentThread' = NoThread
              /\ UNCHANGED <<ProcessTable, memory, thread, version>>
         ELSE /\ ProcessTable' = deleteProcess(s)
              /\ \E fifo \in EraseResults(memory.pageTable[s], memory.FIFOList) :
                   memory' = DeleteSpace(memory, s, fifo)
              /\ version' = [version EXCEPT ![s] = <<>>]
              /\ Goto(t, "exiting")
              /\ UNCHANGED currentThread
      /\ UNCHANGED <<readyList, execCalled, calls>>

Next ==
  \E t \in Threads :
    \/ TimeSlice(t) \/ Finish(t) \/ OneInstruction(t) \/ copyin(t) \/ Read_Syscall(t) \/ Yield_Syscall(t)
    \/ Fork_Syscall(t) \/ ForkThread(t) \/ kernel_thread(t)
    \/ Exec_Syscall(t) \/ ExecThread(t) \/ kernel_exec(t) \/ Exit_Syscall(t)

Spec == Init /\ [][Next]_vars
-----------------------------------------------------------------------------
(***************************************************************************)
(* Properties.                                                             *)
(***************************************************************************)
Running == currentThread # NoThread

Live(s) == memory.pageTable[s] # <<>>

\* What a page that is not in main memory would be read from, and otherwise what it
\* holds there.
Stored(s, vpn) ==
  LET entry == memory.pageTable[s][vpn]
  IN  CASE entry.location = "EXEC" -> IF entry.byteOffset = vpn THEN <<s, vpn, 0>> ELSE Garbage
        [] entry.location = "SWAP" -> memory.swapFile[entry.byteOffset]
        [] entry.location = "MAIN" -> memory.mainMemory[entry.physicalPage]
        [] OTHER -> Garbage

\* No write is lost and no page is mixed up with another: wherever evictions, time
\* slices and exits of other processes have taken a page, what is there is what the
\* program last wrote, or the page of its executable; and the TLB shows the running
\* thread only pages of its own space, at the frames the IPT has them in.
Coherent ==
  Running =>
    /\ \A s \in Spaces : \A vpn \in DOMAIN version[s] :
         version[s][vpn] # -1 => Stored(s, vpn) = <<s, vpn, version[s][vpn]>>
    /\ \A i \in 1..TLBSize :
         LET e == memory.tlb[i]
         IN  e.valid => /\ memory.IPT[e.physicalPage].valid
                        /\ memory.IPT[e.physicalPage].PID = thread[currentThread].space
                        /\ memory.IPT[e.physicalPage].virtualPage = e.virtualPage

\* Nothing is leaked and nothing is shared: the bits of the frames in use are those of
\* the valid IPT entries, each of which is the entry of one page in main memory of a
\* space that still exists; and the bits of the swap file are those of the pages in
\* it, each of one page.
FramesAccounted ==
  LET pages(location) == UNION {{s} \X In(memory.pageTable[s], DOMAIN memory.pageTable[s], location) : s \in Spaces}
      frame(p) == memory.pageTable[p[1]][p[2]].physicalPage
      slot(p) == memory.pageTable[p[1]][p[2]].byteOffset
  IN  Running =>
        /\ memory.pageTableBitMap = {f \in Frames : memory.IPT[f].valid}
        /\ memory.pageTableBitMap = {frame(p) : p \in pages("MAIN")}
        /\ \A p \in pages("MAIN") : memory.IPT[frame(p)].PID = p[1] /\ memory.IPT[frame(p)].virtualPage = p[2]
        /\ memory.swapBitMap = {slot(p) : p \in pages("SWAP")}
        /\ \A p, q \in pages("SWAP") : slot(p) = slot(q) => p = q

\* There are at least as many entries in the eviction queue as frames in use, so that
\* FIFOList[0] exists when memory is full, although ~AddrSpace may leave the frames of
\* a deleted space in the queue and erase those of another.
QueueCoversMemory == Running => Len(memory.FIFOList) >= Cardinality(memory.pageTableBitMap)

\* A space is deleted only when no thread will use it again: threads of the process
\* that run, are ready, or are still to be made or to get their stack.
SpacesOutliveThreads ==
  \A t \in Threads : thread[t].pc \notin {"unused", "exiting", "kernel_exec"} => Live(thread[t].space)

\* The machine halts with the Exit of the last thread and no earlier, whatever Forks and
\* Execs are under way, and it never runs out of threads without halting.
LastExitHalts ==
  (~Running /\ memory.stopped = "no") =>
    \E t \in Threads : {u \in Threads : thread[u].pc \notin {"unused", "exiting"}} = {t}

\* handleMemoryFull says of a clean page that goes to EXEC that it was always there: the
\* page is one of the executable.
WasInExecutable ==
  \A s \in Spaces : \A vpn \in DOMAIN memory.pageTable[s] :
    memory.pageTable[s][vpn].location = "EXEC" => vpn <= numNonStackPages
=============================================================================
