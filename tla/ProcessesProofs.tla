---------------------------- MODULE ProcessesProofs ----------------------------
(***************************************************************************)
(* The processes: a space outlives the threads of its process, the machine *)
(* halts with the exit of the last thread, and the memory that processes   *)
(* share stays coherent and accounted for.                                 *)
(***************************************************************************)
EXTENDS Processes, VirtualMemoryProofs

(***************************************************************************)
(* The invariant.                                                          *)
(***************************************************************************)
\* The threads that use a space, and those of them that have counted a thread that
\* is not made yet.
Using(s) ==
  {t \in Threads : thread[t].space = s /\ thread[t].pc \notin {"unused", "exiting", "kernel_exec"}}
ForkingIn(s) == {t \in Threads : thread[t].space = s /\ thread[t].pc = "forking"}

\* The threads in an Exec under way: the caller, or the thread it has made.
InExec == {t \in Threads : thread[t].pc \in {"copyin", "execing", "kernel_exec"}}

Made == {t \in Threads : thread[t].pc # "unused"}
Alive == {t \in Threads : thread[t].pc \notin {"unused", "exiting"}}

TypesRight ==
  /\ WellFormed(memory)
  /\ thread \in [Threads -> Thread]
  /\ currentThread \in Threads \cup {NoThread}
  /\ readyList \in Seq(Threads)
  /\ ProcessTable \in [Spaces -> Nat]
  /\ execCalled \in Nat

\* The process table counts the threads of a process, those to be made included.
ThreadsCounted ==
  \A s \in Spaces : ProcessTable[s] = Cardinality(Using(s)) + Cardinality(ForkingIn(s))

\* A process in the table has an address space.
ProcessesHaveSpaces == \A s \in Spaces : ProcessTable[s] > 0 => Len(memory.pageTable[s]) > 0

ExecsCounted == execCalled = Cardinality(InExec)

\* Only a thread that has not started its program is without a space.
ThreadsHaveSpaces ==
  \A t \in Threads : /\ thread[t].pc \notin {"unused", "kernel_exec"} => thread[t].space \in Spaces
                     /\ thread[t].pc = "kernel_exec" => thread[t].space = NoSpace

\* A thread runs, and the ready list has the others, each once.
Scheduled(t, ready, made) ==
  /\ t \in made
  /\ {ready[i] : i \in DOMAIN ready} = made \ {t}
  /\ \A i, j \in DOMAIN ready : ready[i] = ready[j] => i = j

AllScheduled == Running => Scheduled(currentThread, readyList, Made)

SomeAlive == Running => Alive # {}

IInv ==
  /\ TypesRight /\ ThreadsCounted /\ ProcessesHaveSpaces /\ ExecsCounted /\ ThreadsHaveSpaces
  /\ AllScheduled /\ SomeAlive /\ LastExitHalts
-----------------------------------------------------------------------------
(***************************************************************************)
(* Counting threads.                                                       *)
(***************************************************************************)
LEMMA OneMore ==
  ASSUME NEW S, NEW t \in Threads, S \subseteq Threads, t \notin S
  PROVE  Cardinality(S) \in Nat /\ Cardinality(S \cup {t}) = Cardinality(S) + 1
<1>1. IsFiniteSet(S)
  BY FS_Subset, ProcessAssumption
<1> QED
  BY <1>1, FS_AddElement, FS_CardinalityType

LEMMA OneLess ==
  ASSUME NEW S, NEW t \in S, S \subseteq Threads
  PROVE  Cardinality(S) \in Nat \ {0} /\ Cardinality(S \ {t}) = Cardinality(S) - 1
<1>1. IsFiniteSet(S)
  BY FS_Subset, ProcessAssumption
<1>2. Cardinality(S) # 0
  BY <1>1, FS_EmptySet
<1> QED
  BY <1>1, <1>2, FS_RemoveElement, FS_CardinalityType

LEMMA Counting ==
  ASSUME NEW S, S \subseteq Threads
  PROVE  /\ Cardinality(S) \in Nat
         /\ Cardinality(S) = 0 <=> S = {}
         /\ Cardinality(S) = 1 <=> \E t : S = {t}
<1>1. IsFiniteSet(S)
  BY FS_Subset, ProcessAssumption
<1> QED
  BY <1>1, FS_EmptySet, FS_Singleton, FS_CardinalityType

LEMMA AreThreads ==
  /\ \A s : Using(s) \subseteq Threads /\ ForkingIn(s) \subseteq Using(s) /\ ForkingIn(s) \subseteq Threads
  /\ InExec \subseteq Threads /\ InExec \subseteq Alive
  BY DEF Using, ForkingIn, InExec, Alive

\* A thread that uses its space is counted.
LEMMA UserCounted ==
  ASSUME TypesRight, ThreadsCounted, NEW s \in Spaces, NEW t \in Using(s)
  PROVE  ProcessTable[s] \in Nat /\ ProcessTable[s] > 0
<1>1. Cardinality(Using(s)) \in Nat /\ Cardinality(Using(s)) # 0 /\ Cardinality(ForkingIn(s)) \in Nat
  BY AreThreads, Counting
<1> QED
  BY <1>1 DEF ThreadsCounted
-----------------------------------------------------------------------------
(***************************************************************************)
(* The ready list.                                                         *)
(***************************************************************************)
LEMMA Enters ==
  ASSUME NEW made \in SUBSET Threads, NEW t, NEW q \in Seq(Threads), NEW u \in Threads \ made,
         Scheduled(t, q, made)
  PROVE  Append(q, u) \in Seq(Threads) /\ Scheduled(t, Append(q, u), made \cup {u})
<1> DEFINE r == Append(q, u)
<1>1. /\ r \in Seq(Threads) /\ Len(q) \in Nat /\ DOMAIN q = 1..Len(q) /\ DOMAIN r = 1..(Len(q) + 1)
      /\ r[Len(q) + 1] = u /\ \A i \in 1..Len(q) : r[i] = q[i]
  OBVIOUS
<1> HIDE DEF r
<1>2. u # t /\ \A i \in DOMAIN q : q[i] # u
  BY DEF Scheduled
<1>3. {r[i] : i \in DOMAIN r} = (made \cup {u}) \ {t}
  <2>1. {r[i] : i \in DOMAIN r} = {q[i] : i \in DOMAIN q} \cup {u}
    BY <1>1
  <2> QED
    BY <1>2, <2>1 DEF Scheduled
<1>4. ASSUME NEW i \in DOMAIN r, NEW j \in DOMAIN r, r[i] = r[j] PROVE i = j
  BY <1>1, <1>2, <1>4 DEF Scheduled
<1> QED
  BY <1>1, <1>3, <1>4 DEF Scheduled, r

LEMMA Leaves ==
  ASSUME NEW made \in SUBSET Threads, NEW t, NEW q \in Seq(Threads), q # <<>>, Scheduled(t, q, made)
  PROVE  /\ Head(q) \in Threads /\ Tail(q) \in Seq(Threads) /\ Head(q) # t
         /\ Scheduled(Head(q), Tail(q), made \ {t})
<1> DEFINE r == Tail(q)
<1>1. /\ Len(q) \in Nat \ {0} /\ DOMAIN q = 1..Len(q) /\ Head(q) = q[1] /\ q[1] \in Threads
  OBVIOUS
<1>2. r \in Seq(Threads) /\ DOMAIN r = 1..(Len(q) - 1) /\ \A i \in 1..(Len(q) - 1) : r[i] = q[i + 1]
  BY <1>1
<1> HIDE DEF r
<1>3. Head(q) \in made \ {t}
  BY <1>1 DEF Scheduled
<1>4. ASSUME NEW i \in DOMAIN r, NEW j \in DOMAIN r, r[i] = r[j] PROVE i = j
  <2>1. i + 1 \in DOMAIN q /\ j + 1 \in DOMAIN q /\ q[i + 1] = q[j + 1] /\ i \in Int /\ j \in Int
    BY <1>1, <1>2, <1>4
  <2>2. i + 1 = j + 1
    BY <2>1 DEF Scheduled
  <2> QED
    BY <2>1, <2>2
<1>5. ASSUME NEW i \in DOMAIN r PROVE r[i] \in (made \ {t}) \ {Head(q)}
  <2>1. i + 1 \in DOMAIN q /\ r[i] = q[i + 1] /\ i + 1 # 1 /\ 1 \in DOMAIN q
    BY <1>1, <1>2
  <2>2. q[i + 1] # q[1] /\ q[i + 1] \in made \ {t}
    BY <2>1 DEF Scheduled
  <2> QED
    BY <1>1, <2>1, <2>2
<1>6. ASSUME NEW x \in (made \ {t}) \ {Head(q)} PROVE \E i \in DOMAIN r : r[i] = x
  <2>1. PICK i \in DOMAIN q : q[i] = x
    BY DEF Scheduled
  <2>2. i # 1
    BY <1>1, <2>1
  <2>3. i - 1 \in DOMAIN r /\ r[i - 1] = x
    BY <1>1, <1>2, <2>1, <2>2
  <2> QED
    BY <2>3
<1>7. {r[i] : i \in DOMAIN r} = (made \ {t}) \ {Head(q)}
  BY <1>5, <1>6
<1> QED
  BY <1>1, <1>2, <1>3, <1>4, <1>7 DEF Scheduled, r

LEMMA Rotates ==
  ASSUME NEW made \in SUBSET Threads, NEW t \in Threads, NEW q \in Seq(Threads), q # <<>>, Scheduled(t, q, made)
  PROVE  /\ Head(q) \in Threads /\ Append(Tail(q), t) \in Seq(Threads)
         /\ Scheduled(Head(q), Append(Tail(q), t), made)
<1>1. /\ Head(q) \in Threads /\ Tail(q) \in Seq(Threads)
      /\ Scheduled(Head(q), Tail(q), made \ {t})
  BY Leaves
<1>2. (made \ {t}) \cup {t} = made /\ t \in Threads \ (made \ {t}) /\ made \ {t} \in SUBSET Threads
  BY DEF Scheduled
<1>3. /\ Append(Tail(q), t) \in Seq(Threads)
      /\ Scheduled(Head(q), Append(Tail(q), t), (made \ {t}) \cup {t})
  BY <1>1, <1>2, Enters
<1> QED
  BY <1>1, <1>2, <1>3
-----------------------------------------------------------------------------
(***************************************************************************)
(* The steps.                                                              *)
(***************************************************************************)
\* A thread goes on from its place, in its space.
LEMMA GotoType ==
  ASSUME TypesRight, NEW t \in Threads,
         NEW pc \in {"user", "copyin", "execing", "forking", "yielding", "exiting"}, Goto(t, pc)
  PROVE  /\ thread' \in [Threads -> Thread]
         /\ thread'[t].pc = pc /\ thread'[t].space = thread[t].space
         /\ \A u \in Threads \ {t} : thread'[u] = thread[u]
  BY DEF TypesRight, Thread, Goto

LEMMA RunningNow ==
  ASSUME NEW t \in Threads, currentThread = t
  PROVE  Running
  BY ProcessAssumption DEF Running

\* What a step does that neither makes nor ends a thread or an Exec.
SameRoles ==
  /\ thread' \in [Threads -> Thread]
  /\ \A s \in Spaces : Using(s)' = Using(s) /\ ForkingIn(s)' = ForkingIn(s)
  /\ InExec' = InExec /\ Made' = Made /\ Alive' = Alive
  /\ ThreadsHaveSpaces'

TablesKept(m, n) ==
  /\ WellFormed(n)
  /\ \A s \in Spaces : Len(m.pageTable[s]) > 0 => Len(n.pageTable[s]) > 0

LEMMA SameTablesKept ==
  ASSUME NEW m, NEW n, SameTables(m, n)
  PROVE  TablesKept(m, n)
  BY DEF SameTables, TablesKept

LEMMA QuietStep ==
  ASSUME IInv, Running, SameRoles, TablesKept(memory, memory'), UNCHANGED <<ProcessTable, execCalled>>,
         currentThread' \in Threads \cup {NoThread}, readyList' \in Seq(Threads),
         Running' => Scheduled(currentThread', readyList', Made),
         Running' \/ memory'.stopped # "no"
  PROVE  IInv'
<1> USE DEF IInv
<1>1. TypesRight'
  BY DEF TypesRight, SameRoles, TablesKept
<1>2. ThreadsCounted'
  BY DEF ThreadsCounted, SameRoles
<1>3. ProcessesHaveSpaces'
  BY DEF ProcessesHaveSpaces, TablesKept
<1>4. ExecsCounted'
  BY DEF ExecsCounted, SameRoles
<1>5. ThreadsHaveSpaces'
  BY DEF SameRoles
<1>6. AllScheduled'
  BY DEF AllScheduled, SameRoles
<1>7. SomeAlive'
  BY DEF SomeAlive, SameRoles
<1>8. LastExitHalts'
  BY DEF LastExitHalts
<1> QED
  BY <1>1, <1>2, <1>3, <1>4, <1>5, <1>6, <1>7, <1>8

LEMMA SameThreads ==
  ASSUME IInv, UNCHANGED thread
  PROVE  SameRoles
  BY DEF IInv, TypesRight, SameRoles, Using, ForkingIn, InExec, Made, Alive, ThreadsHaveSpaces

\* From one place to another that counts for the same.
LEMMA SamePlaces ==
  ASSUME IInv, NEW t \in Threads, NEW pc \in {"user", "copyin", "execing"},
         \/ pc = "user" /\ thread[t].pc \in {"user", "yielding"}
         \/ pc = "execing" /\ thread[t].pc = "copyin",
         Goto(t, pc)
  PROVE  SameRoles
<1>1. /\ thread' \in [Threads -> Thread]
      /\ thread'[t].pc = pc /\ thread'[t].space = thread[t].space
      /\ \A u \in Threads \ {t} : thread'[u] = thread[u]
  BY GotoType DEF IInv
<1>2. ASSUME NEW s \in Spaces PROVE Using(s)' = Using(s) /\ ForkingIn(s)' = ForkingIn(s)
  BY <1>1 DEF Using, ForkingIn
<1>3. InExec' = InExec /\ Made' = Made /\ Alive' = Alive
  BY <1>1 DEF InExec, Made, Alive
<1>4. ThreadsHaveSpaces'
  BY <1>1 DEF IInv, ThreadsHaveSpaces
<1> QED
  BY <1>1, <1>2, <1>3, <1>4 DEF SameRoles

LEMMA TablesStay ==
  ASSUME IInv
  PROVE  WellFormed(memory) /\ TablesKept(memory, memory)
  BY DEF IInv, TypesRight, TablesKept

LEMMA YieldStep ==
  ASSUME IInv, NEW t \in Threads, currentThread = t, Yield(t)
  PROVE  /\ TablesKept(memory, memory') /\ Running'
         /\ currentThread' \in Threads \cup {NoThread} /\ readyList' \in Seq(Threads)
         /\ Scheduled(currentThread', readyList', Made)
<1>1. Made \in SUBSET Threads /\ Scheduled(t, readyList, Made) /\ readyList \in Seq(Threads)
  BY RunningNow DEF IInv, AllScheduled, Made, TypesRight
<1>2. CASE readyList = <<>> /\ UNCHANGED <<readyList, currentThread, memory>>
  BY <1>1, <1>2, RunningNow, TablesStay DEF Running
<1>3. CASE readyList # <<>> /\ readyList' = Append(Tail(readyList), t) /\ Run(t, Head(readyList), memory)
  <2>1. /\ Head(readyList) \in Threads /\ readyList' \in Seq(Threads)
        /\ Scheduled(Head(readyList), readyList', Made)
    BY <1>1, <1>3, Rotates
  <2>2. currentThread' = Head(readyList) /\ Running'
    BY <1>3, <2>1, ProcessAssumption DEF Run, Running
  <2>3. memory' = memory \/ memory' = SaveState(memory)
    BY <1>3 DEF Run
  <2>4. TablesKept(memory, memory')
    BY <2>3, TablesStay, SaveStateTables, SameTablesKept
  <2> QED
    BY <2>1, <2>2, <2>4
<1> QED
  BY <1>2, <1>3 DEF Yield

LEMMA TimeSliceStep ==
  ASSUME IInv, NEW t \in Threads, TimeSlice(t)
  PROVE  IInv'
<1>1. currentThread = t /\ Yield(t) /\ UNCHANGED <<thread, ProcessTable, execCalled>>
  BY DEF TimeSlice
<1> QED
  BY <1>1, YieldStep, SameThreads, QuietStep, RunningNow

LEMMA YieldSyscallStep ==
  ASSUME IInv, NEW t \in Threads, Yield_Syscall(t)
  PROVE  IInv'
<1>1. /\ currentThread = t /\ Yield(t) /\ UNCHANGED <<ProcessTable, execCalled>>
      /\ thread[t].pc \in {"user", "yielding"} /\ Goto(t, "user")
  BY DEF Yield_Syscall, At
<1>2. SameRoles
  BY <1>1, SamePlaces
<1> QED
  BY <1>1, <1>2, YieldStep, QuietStep, RunningNow

\* An access: the thread goes on, unless the machine stops.
LEMMA AccessStep ==
  ASSUME IInv, NEW t \in Threads, currentThread = t, Continue(t), UNCHANGED readyList
  PROVE  /\ currentThread' \in Threads \cup {NoThread} /\ readyList' \in Seq(Threads)
         /\ Running' => Scheduled(currentThread', readyList', Made)
         /\ Running' \/ memory'.stopped # "no"
<1>1. Scheduled(t, readyList, Made) /\ readyList \in Seq(Threads)
  BY RunningNow DEF IInv, AllScheduled, TypesRight
<1> QED
  BY <1>1, ProcessAssumption DEF Continue, Running

LEMMA HitTables ==
  ASSUME IInv, NEW t \in Threads, NEW vpn, NEW writing, Hit(t, vpn, writing)
  PROVE  TablesKept(memory, memory')
  BY TablesStay, WriteMemTables, SameTablesKept DEF Hit

LEMMA MissTables ==
  ASSUME IInv, NEW t \in Threads, NEW vpn, Miss(t, vpn)
  PROVE  TablesKept(memory, memory')
  BY TablesStay, TLBMissTables, SameTablesKept DEF Miss

LEMMA OneInstructionStep ==
  ASSUME IInv, NEW t \in Threads, OneInstruction(t)
  PROVE  IInv'
<1>1. /\ currentThread = t /\ Continue(t) /\ UNCHANGED readyList /\ UNCHANGED thread
      /\ UNCHANGED <<ProcessTable, execCalled>>
  BY DEF OneInstruction, At
<1>2. TablesKept(memory, memory')
  BY HitTables, MissTables DEF OneInstruction
<1>3. SameRoles
  BY <1>1, SameThreads
<1> QED
  BY <1>1, <1>2, <1>3, AccessStep, QuietStep, RunningNow

LEMMA ReadStep ==
  ASSUME IInv, NEW t \in Threads, Read_Syscall(t)
  PROVE  IInv'
<1>1. /\ currentThread = t /\ Continue(t) /\ UNCHANGED readyList /\ UNCHANGED thread
      /\ UNCHANGED <<ProcessTable, execCalled>>
  BY DEF Read_Syscall, At
<1>2. TablesKept(memory, memory')
  BY HitTables, MissTables DEF Read_Syscall, copyout
<1>3. SameRoles
  BY <1>1, SameThreads
<1> QED
  BY <1>1, <1>2, <1>3, AccessStep, QuietStep, RunningNow

LEMMA copyinStep ==
  ASSUME IInv, NEW t \in Threads, copyin(t)
  PROVE  IInv'
<1>1. /\ currentThread = t /\ Continue(t) /\ UNCHANGED readyList /\ thread[t].pc = "copyin"
      /\ UNCHANGED <<ProcessTable, execCalled>>
  BY DEF copyin, At
<1>2. TablesKept(memory, memory')
  BY HitTables, MissTables DEF copyin
<1>3. UNCHANGED thread \/ Goto(t, "execing")
  BY DEF copyin
<1>4. SameRoles
  BY <1>1, <1>3, SameThreads, SamePlaces
<1> QED
  BY <1>1, <1>2, <1>4, AccessStep, QuietStep, RunningNow

LEMMA kernel_threadStep ==
  ASSUME IInv, NEW t \in Threads, kernel_thread(t)
  PROVE  IInv'
<1> DEFINE s == thread[t].space
<1>1. /\ currentThread = t /\ thread[t].pc = "kernel_thread" /\ memory' = AddStack(memory, s)
      /\ UNCHANGED <<currentThread, readyList>> /\ UNCHANGED <<ProcessTable, execCalled>>
  BY DEF kernel_thread, At
<1>2. PICK stack \in SUBSET Nat : thread' = [thread EXCEPT ![t].pc = "user", ![t].stack = stack]
  <2>1. thread' = [thread EXCEPT ![t].pc = "user",
                                 ![t].stack = (Len(memory.pageTable[s]) + 1)..(Len(memory.pageTable[s]) + StackPages)]
    BY DEF kernel_thread
  <2>2. s \in Spaces
    BY <1>1 DEF IInv, ThreadsHaveSpaces
  <2>3. Len(memory.pageTable[s]) \in Nat /\ StackPages \in Nat
    BY <2>2, IsATable, MemoryAssumption DEF IInv, TypesRight, WellFormed
  <2>4. (Len(memory.pageTable[s]) + 1)..(Len(memory.pageTable[s]) + StackPages) \in SUBSET Nat
    BY <2>3
  <2> QED
    BY <2>1, <2>4
<1>3. s \in Spaces
  BY <1>1 DEF IInv, ThreadsHaveSpaces
<1>4. /\ thread' \in [Threads -> Thread]
      /\ thread'[t].pc = "user" /\ thread'[t].space = s
      /\ \A u \in Threads \ {t} : thread'[u] = thread[u]
  BY <1>2 DEF IInv, TypesRight, Thread
<1>5. SameRoles
  <2>1. ASSUME NEW r \in Spaces PROVE Using(r)' = Using(r) /\ ForkingIn(r)' = ForkingIn(r)
    BY <1>1, <1>4 DEF Using, ForkingIn
  <2>2. InExec' = InExec /\ Made' = Made /\ Alive' = Alive
    BY <1>1, <1>4 DEF InExec, Made, Alive
  <2>3. ThreadsHaveSpaces'
    BY <1>3, <1>4 DEF IInv, ThreadsHaveSpaces
  <2> QED
    BY <1>4, <2>1, <2>2, <2>3 DEF SameRoles
<1>6. TablesKept(memory, memory')
  <2> HIDE DEF s
  <2>1. /\ WellFormed(memory') /\ Len(memory'.pageTable[s]) = Len(memory.pageTable[s]) + StackPages
        /\ \A r \in Spaces \ {s} : memory'.pageTable[r] = memory.pageTable[r]
    BY <1>1, <1>3, TablesStay, AddStackTables
  <2>2. Len(memory.pageTable[s]) \in Nat /\ StackPages \in Nat
    BY <1>3, IsATable, TablesStay, MemoryAssumption DEF WellFormed
  <2> QED
    BY <2>1, <2>2 DEF TablesKept
<1>7. /\ currentThread' \in Threads \cup {NoThread} /\ readyList' \in Seq(Threads) /\ Running'
      /\ Scheduled(currentThread', readyList', Made)
  BY <1>1, RunningNow DEF IInv, TypesRight, AllScheduled, Running
<1> QED
  BY <1>1, <1>5, <1>6, <1>7, QuietStep, RunningNow

LEMMA ForkSyscallStep ==
  ASSUME IInv, NEW t \in Threads, Fork_Syscall(t)
  PROVE  IInv'
<1>0. PICK s : s = thread[t].space
  OBVIOUS
<1>1. /\ currentThread = t /\ thread[t].pc = "user" /\ Goto(t, "forking")
      /\ ProcessTable' = [ProcessTable EXCEPT ![s] = @ + 1]
      /\ UNCHANGED <<memory, currentThread, readyList, execCalled>>
  BY <1>0 DEF Fork_Syscall, At
<1>2. /\ thread' \in [Threads -> Thread] /\ thread'[t].pc = "forking" /\ thread'[t].space = s
      /\ \A u \in Threads \ {t} : thread'[u] = thread[u]
  BY <1>0, <1>1, GotoType DEF IInv
<1>3. s \in Spaces /\ t \in Using(s) /\ t \notin ForkingIn(s)
  BY <1>0, <1>1 DEF IInv, ThreadsHaveSpaces, Using, ForkingIn
<1>4. ProcessTable[s] \in Nat /\ ProcessTable[s] > 0 /\ ProcessTable'[s] = ProcessTable[s] + 1
  BY <1>1, <1>3, UserCounted DEF IInv, TypesRight
<1>5. \A r \in Spaces : Using(r)' = Using(r) /\ ForkingIn(r)' = IF r = s THEN ForkingIn(r) \cup {t} ELSE ForkingIn(r)
  BY <1>0, <1>1, <1>2 DEF Using, ForkingIn
<1>6. InExec' = InExec /\ Made' = Made /\ Alive' = Alive
  BY <1>1, <1>2 DEF InExec, Made, Alive
<1>7. TypesRight'
  BY <1>1, <1>2, <1>3, <1>4 DEF IInv, TypesRight
<1>8. ThreadsCounted'
  <2>1. ASSUME NEW r \in Spaces
        PROVE  ProcessTable'[r] = Cardinality(Using(r)') + Cardinality(ForkingIn(r)')
    <3>1. ProcessTable[r] = Cardinality(Using(r)) + Cardinality(ForkingIn(r))
      BY DEF IInv, ThreadsCounted
    <3>2. CASE r # s
      BY <1>1, <1>5, <3>1, <3>2 DEF IInv, TypesRight
    <3>3. CASE r = s
      <4>1. /\ Cardinality(ForkingIn(s)) \in Nat /\ Cardinality(Using(s)) \in Nat
            /\ Cardinality(ForkingIn(s) \cup {t}) = Cardinality(ForkingIn(s)) + 1
        BY <1>3, AreThreads, Counting, OneMore
      <4>2. Using(s)' = Using(s) /\ ForkingIn(s)' = ForkingIn(s) \cup {t}
        BY <1>3, <1>5
      <4> QED
        BY <1>4, <3>1, <3>3, <4>1, <4>2
    <3> QED
      BY <3>2, <3>3
  <2> QED
    BY <2>1 DEF ThreadsCounted
<1>9. ProcessesHaveSpaces'
  BY <1>1, <1>3, <1>4 DEF IInv, TypesRight, ProcessesHaveSpaces
<1>10. ExecsCounted'
  BY <1>1, <1>6 DEF IInv, ExecsCounted
<1>11. ThreadsHaveSpaces'
  BY <1>2, <1>3 DEF IInv, ThreadsHaveSpaces
<1>12. AllScheduled' /\ SomeAlive' /\ LastExitHalts'
  BY <1>1, <1>6, RunningNow DEF IInv, AllScheduled, SomeAlive, LastExitHalts, Running
<1> QED
  BY <1>7, <1>8, <1>9, <1>10, <1>11, <1>12 DEF IInv

LEMMA ExecSyscallStep ==
  ASSUME IInv, NEW t \in Threads, Exec_Syscall(t)
  PROVE  IInv'
<1>1. /\ currentThread = t /\ thread[t].pc = "user" /\ Goto(t, "copyin")
      /\ execCalled' = execCalled + 1
      /\ UNCHANGED <<memory, currentThread, readyList, ProcessTable>>
  BY DEF Exec_Syscall, At
<1>2. /\ thread' \in [Threads -> Thread] /\ thread'[t].pc = "copyin" /\ thread'[t].space = thread[t].space
      /\ \A u \in Threads \ {t} : thread'[u] = thread[u]
  BY <1>1, GotoType DEF IInv
<1>3. \A r \in Spaces : Using(r)' = Using(r) /\ ForkingIn(r)' = ForkingIn(r)
  BY <1>1, <1>2 DEF Using, ForkingIn
<1>4. InExec' = InExec \cup {t} /\ t \notin InExec /\ Made' = Made /\ Alive' = Alive
  BY <1>1, <1>2 DEF InExec, Made, Alive
<1>5. TypesRight'
  BY <1>1, <1>2 DEF IInv, TypesRight
<1>6. ThreadsCounted' /\ ProcessesHaveSpaces'
  BY <1>1, <1>3 DEF IInv, ThreadsCounted, ProcessesHaveSpaces
<1>7. ExecsCounted'
  <2>1. Cardinality(InExec') = Cardinality(InExec) + 1
    BY <1>4, AreThreads, OneMore
  <2> QED
    BY <1>1, <2>1 DEF IInv, ExecsCounted
<1>8. ThreadsHaveSpaces'
  BY <1>1, <1>2 DEF IInv, ThreadsHaveSpaces
<1>9. AllScheduled' /\ SomeAlive' /\ LastExitHalts'
  BY <1>1, <1>4, RunningNow DEF IInv, AllScheduled, SomeAlive, LastExitHalts, Running
<1> QED
  BY <1>5, <1>6, <1>7, <1>8, <1>9 DEF IInv

\* The thread that is made was unused, and is in the ready list.
LEMMA NewThreadStep ==
  ASSUME IInv, NEW t \in Threads, NEW func \in {"kernel_thread", "kernel_exec"}, NEW space \in Spaces \cup {NoSpace},
         currentThread = t, thread[t].pc # "unused", NewThread(t, func, space)
  PROVE  \E u \in Threads \ {t} :
           /\ thread[u].pc = "unused"
           /\ thread' \in [Threads -> Thread]
           /\ thread'[t].space = thread[t].space
           /\ thread'[t].pc = IF func = "kernel_thread" THEN "yielding" ELSE "user"
           /\ thread'[u].pc = func /\ thread'[u].space = space
           /\ \A v \in Threads \ {t, u} : thread'[v] = thread[v]
           /\ readyList' \in Seq(Threads) /\ Scheduled(t, readyList', Made')
<1>1. PICK u \in Threads :
         /\ thread[u].pc = "unused"
         /\ thread' = [thread EXCEPT ![t].pc = IF func = "kernel_thread" THEN "yielding" ELSE "user",
                                     ![u] = [Unused EXCEPT !.pc = func, !.space = space]]
         /\ readyList' = Append(readyList, u)
  BY DEF NewThread
<1>2. u # t
  BY <1>1
<1> DEFINE new == [Unused EXCEPT !.pc = func, !.space = space]
<1>3. new.pc = func /\ new.space = space
  BY DEF Unused
<1>4. new \in Thread
  BY DEF Thread, Unused
<1> HIDE DEF new
<1>5. /\ thread'[u] = new
      /\ thread'[t] = [thread[t] EXCEPT !.pc = IF func = "kernel_thread" THEN "yielding" ELSE "user"]
      /\ \A v \in Threads \ {t, u} : thread'[v] = thread[v]
  BY <1>1, <1>2 DEF IInv, TypesRight, new
<1>6. /\ thread'[t] \in Thread /\ thread'[t].space = thread[t].space
      /\ thread'[t].pc = IF func = "kernel_thread" THEN "yielding" ELSE "user"
  <2>1. thread[t] \in Thread
    BY DEF IInv, TypesRight
  <2> QED
    BY <1>5, <2>1 DEF Thread
<1>7. thread' \in [Threads -> Thread]
  <2>1. \A v \in Threads : thread'[v] \in Thread
    BY <1>4, <1>5, <1>6 DEF IInv, TypesRight
  <2>2. thread' = [v \in Threads |-> thread'[v]]
    BY <1>1 DEF IInv, TypesRight
  <2> QED
    BY <2>1, <2>2
<1>8. thread'[u].pc = func /\ thread'[u].space = space
  BY <1>3, <1>5
<1>9. Made' = Made \cup {u} /\ u \notin Made /\ Made \in SUBSET Threads
  <2>1. thread'[t].pc # "unused" /\ thread'[u].pc # "unused"
    BY <1>6, <1>8
  <2>2. u \notin Made /\ Made \in SUBSET Threads
    BY <1>1 DEF Made
  <2>3. \A v \in Threads \ {u} : thread'[v].pc # "unused" <=> thread[v].pc # "unused"
    BY <1>5, <2>1
  <2>4. Made' = Made \cup {u}
    BY <2>1, <2>3 DEF Made
  <2> QED
    BY <2>2, <2>4
<1>10. readyList' \in Seq(Threads) /\ Scheduled(t, readyList', Made')
  <2>1. Scheduled(t, readyList, Made) /\ readyList \in Seq(Threads)
    BY RunningNow DEF IInv, AllScheduled, TypesRight
  <2> QED
    BY <1>1, <1>9, <2>1, Enters
<1> QED
  BY <1>1, <1>2, <1>5, <1>6, <1>7, <1>8, <1>10

LEMMA ForkThreadStep ==
  ASSUME IInv, NEW t \in Threads, ForkThread(t)
  PROVE  IInv'
<1>0. PICK s : s = thread[t].space
  OBVIOUS
<1>1. /\ currentThread = t /\ thread[t].pc = "forking" /\ NewThread(t, "kernel_thread", s)
      /\ UNCHANGED <<memory, currentThread, ProcessTable, execCalled>>
  BY <1>0 DEF ForkThread, At
<1>2. s \in Spaces /\ t \in Using(s) /\ t \in ForkingIn(s)
  BY <1>0, <1>1 DEF IInv, ThreadsHaveSpaces, Using, ForkingIn
<1>3. PICK u \in Threads \ {t} :
        /\ thread[u].pc = "unused" /\ thread' \in [Threads -> Thread]
        /\ thread'[t].space = s /\ thread'[t].pc = "yielding"
        /\ thread'[u].pc = "kernel_thread" /\ thread'[u].space = s
        /\ \A v \in Threads \ {t, u} : thread'[v] = thread[v]
        /\ readyList' \in Seq(Threads) /\ Scheduled(t, readyList', Made')
  BY <1>0, <1>1, <1>2, NewThreadStep
<1>4. u \notin Using(s)
  BY <1>3 DEF Using
<1>5. /\ \A r \in Spaces \ {s} : Using(r)' = Using(r) /\ ForkingIn(r)' = ForkingIn(r)
      /\ Using(s)' = Using(s) \cup {u} /\ ForkingIn(s)' = ForkingIn(s) \ {t}
  <2>1. ASSUME NEW r \in Spaces \ {s} PROVE Using(r)' = Using(r) /\ ForkingIn(r)' = ForkingIn(r)
    BY <1>0, <1>1, <1>3, <2>1 DEF Using, ForkingIn
  <2>2. Using(s)' = Using(s) \cup {u} /\ ForkingIn(s)' = ForkingIn(s) \ {t}
    BY <1>0, <1>1, <1>2, <1>3 DEF Using, ForkingIn
  <2> QED
    BY <2>1, <2>2
<1>6. InExec' = InExec /\ Alive \subseteq Alive'
  BY <1>1, <1>3 DEF InExec, Alive
<1>7. TypesRight'
  BY <1>1, <1>3 DEF IInv, TypesRight
<1>8. ThreadsCounted'
  <2>1. ASSUME NEW r \in Spaces
        PROVE  ProcessTable'[r] = Cardinality(Using(r)') + Cardinality(ForkingIn(r)')
    <3>1. ProcessTable'[r] = Cardinality(Using(r)) + Cardinality(ForkingIn(r))
      BY <1>1 DEF IInv, ThreadsCounted
    <3>2. CASE r # s
      BY <1>5, <3>1, <3>2
    <3>3. CASE r = s
      <4>1. Cardinality(Using(s)) \in Nat /\ Cardinality(Using(s) \cup {u}) = Cardinality(Using(s)) + 1
        BY <1>4, AreThreads, OneMore
      <4>2. /\ Cardinality(ForkingIn(s)) \in Nat
            /\ Cardinality(ForkingIn(s) \ {t}) = Cardinality(ForkingIn(s)) - 1
        BY <1>2, AreThreads, OneLess
      <4>3. Using(s)' = Using(s) \cup {u} /\ ForkingIn(s)' = ForkingIn(s) \ {t}
        BY <1>5
      <4> QED
        BY <3>1, <3>3, <4>1, <4>2, <4>3
    <3> QED
      BY <3>2, <3>3
  <2> QED
    BY <2>1 DEF ThreadsCounted
<1>9. ProcessesHaveSpaces' /\ ExecsCounted'
  BY <1>1, <1>6 DEF IInv, ProcessesHaveSpaces, ExecsCounted
<1>10. ThreadsHaveSpaces'
  BY <1>2, <1>3 DEF IInv, ThreadsHaveSpaces
<1>11. AllScheduled' /\ SomeAlive' /\ LastExitHalts'
  BY <1>1, <1>3, <1>6, RunningNow DEF IInv, AllScheduled, SomeAlive, LastExitHalts, Running
<1> QED
  BY <1>7, <1>8, <1>9, <1>10, <1>11 DEF IInv

LEMMA ExecThreadStep ==
  ASSUME IInv, NEW t \in Threads, ExecThread(t)
  PROVE  IInv'
<1>1. /\ currentThread = t /\ thread[t].pc = "execing" /\ NewThread(t, "kernel_exec", NoSpace)
      /\ UNCHANGED <<memory, currentThread, ProcessTable, execCalled>>
  BY DEF ExecThread, At
<1>2. PICK u \in Threads \ {t} :
        /\ thread[u].pc = "unused" /\ thread' \in [Threads -> Thread]
        /\ thread'[t].space = thread[t].space /\ thread'[t].pc = "user"
        /\ thread'[u].pc = "kernel_exec" /\ thread'[u].space = NoSpace
        /\ \A v \in Threads \ {t, u} : thread'[v] = thread[v]
        /\ readyList' \in Seq(Threads) /\ Scheduled(t, readyList', Made')
  BY <1>1, NewThreadStep
<1>3. ASSUME NEW r \in Spaces PROVE Using(r)' = Using(r) /\ ForkingIn(r)' = ForkingIn(r)
  BY <1>1, <1>2 DEF Using, ForkingIn
<1>4. InExec' = (InExec \ {t}) \cup {u} /\ t \in InExec /\ u \notin InExec \ {t} /\ Alive \subseteq Alive'
  BY <1>1, <1>2 DEF InExec, Alive
<1>5. TypesRight'
  BY <1>1, <1>2 DEF IInv, TypesRight
<1>6. ThreadsCounted' /\ ProcessesHaveSpaces'
  BY <1>1, <1>3 DEF IInv, ThreadsCounted, ProcessesHaveSpaces
<1>7. ExecsCounted'
  <2>1. Cardinality(InExec) \in Nat /\ Cardinality(InExec \ {t}) = Cardinality(InExec) - 1
    BY <1>4, AreThreads, OneLess
  <2>2. InExec \ {t} \subseteq Threads
    BY AreThreads
  <2>3. Cardinality(InExec') = Cardinality(InExec \ {t}) + 1
    BY <1>4, <2>2, OneMore
  <2> QED
    BY <1>1, <2>1, <2>3 DEF IInv, ExecsCounted
<1>8. ThreadsHaveSpaces'
  BY <1>1, <1>2 DEF IInv, ThreadsHaveSpaces
<1>9. AllScheduled' /\ SomeAlive' /\ LastExitHalts'
  BY <1>1, <1>2, <1>4, RunningNow DEF IInv, AllScheduled, SomeAlive, LastExitHalts, Running
<1> QED
  BY <1>5, <1>6, <1>7, <1>8, <1>9 DEF IInv

\* A process that is not in the table has no thread.
LEMMA NobodyUses ==
  ASSUME IInv, NEW s \in Spaces, ProcessTable[s] = 0
  PROVE  Using(s) = {} /\ ForkingIn(s) = {}
<1>1. Cardinality(Using(s)) \in Nat /\ Cardinality(ForkingIn(s)) \in Nat
  BY AreThreads, Counting
<1>2. Cardinality(Using(s)) = 0 /\ Cardinality(ForkingIn(s)) = 0
  BY <1>1 DEF IInv, ThreadsCounted
<1> QED
  BY <1>2, AreThreads, Counting

LEMMA kernel_execStep ==
  ASSUME IInv, NEW t \in Threads, kernel_exec(t)
  PROVE  IInv'
<1>1. /\ currentThread = t /\ thread[t].pc = "kernel_exec" /\ execCalled' = execCalled - 1
      /\ UNCHANGED <<currentThread, readyList>>
  BY DEF kernel_exec, At
<1>2. PICK s \in Spaces :
        /\ memory.pageTable[s] = <<>> /\ memory' = NewAddrSpace(memory, s)
        /\ thread' = [thread EXCEPT ![t] = [@ EXCEPT !.pc = "user", !.space = s, !.stack = FirstStack]]
        /\ ProcessTable' = [ProcessTable EXCEPT ![s] = 1]
  BY DEF kernel_exec, addProcess
<1>3. FirstStack \subseteq Nat
  BY MemoryAssumption DEF FirstStack
<1>4. /\ thread' \in [Threads -> Thread] /\ thread'[t].pc = "user" /\ thread'[t].space = s
      /\ \A u \in Threads \ {t} : thread'[u] = thread[u]
  BY <1>2, <1>3 DEF IInv, TypesRight, Thread
<1>5. ProcessTable[s] = 0
  <2>1. Len(memory.pageTable[s]) = 0
    BY <1>2
  <2>2. ~(ProcessTable[s] > 0) /\ ProcessTable[s] \in Nat
    BY <2>1 DEF IInv, TypesRight, ProcessesHaveSpaces
  <2> QED
    BY <2>2
<1>6. Using(s) = {} /\ ForkingIn(s) = {}
  BY <1>5, NobodyUses
<1>7. /\ WellFormed(memory') /\ Len(memory'.pageTable[s]) > 0
      /\ \A r \in Spaces \ {s} : memory'.pageTable[r] = memory.pageTable[r]
  BY <1>2, TablesStay, NewAddrSpaceTables
<1>8. ASSUME NEW r \in Spaces \ {s} PROVE Using(r)' = Using(r) /\ ForkingIn(r)' = ForkingIn(r)
  BY <1>1, <1>4 DEF Using, ForkingIn
<1>9. Using(s)' = {t} /\ ForkingIn(s)' = {}
  BY <1>4, <1>6 DEF Using, ForkingIn
<1>10. InExec' = InExec \ {t} /\ t \in InExec /\ Made' = Made /\ Alive' = Alive
  BY <1>1, <1>4 DEF InExec, Made, Alive
<1>11. Cardinality(InExec) \in Nat \ {0} /\ Cardinality(InExec') = Cardinality(InExec) - 1
  BY <1>10, AreThreads, OneLess
<1>12. TypesRight'
  BY <1>1, <1>2, <1>4, <1>7, <1>11 DEF IInv, TypesRight, ExecsCounted
<1>13. ThreadsCounted'
  <2>1. ASSUME NEW r \in Spaces
        PROVE  ProcessTable'[r] = Cardinality(Using(r)') + Cardinality(ForkingIn(r)')
    <3>1. CASE r # s
      BY <1>2, <1>8, <3>1 DEF IInv, TypesRight, ThreadsCounted
    <3>2. CASE r = s
      <4>1. Cardinality({t}) = 1 /\ Cardinality({}) = 0
        BY FS_Singleton, FS_EmptySet
      <4>2. ProcessTable'[s] = 1
        BY <1>2 DEF IInv, TypesRight
      <4>3. Cardinality(Using(s)') = 1 /\ Cardinality(ForkingIn(s)') = 0
        BY <1>9, <4>1
      <4> QED
        BY <3>2, <4>2, <4>3
    <3> QED
      BY <3>1, <3>2
  <2> QED
    BY <2>1 DEF ThreadsCounted
<1>14. ProcessesHaveSpaces'
  <2>1. \A r \in Spaces \ {s} : ProcessTable'[r] = ProcessTable[r]
    BY <1>2 DEF IInv, TypesRight
  <2> QED
    BY <1>7, <2>1 DEF IInv, ProcessesHaveSpaces
<1>15. ExecsCounted'
  BY <1>1, <1>11 DEF IInv, ExecsCounted
<1>16. ThreadsHaveSpaces'
  BY <1>4 DEF IInv, ThreadsHaveSpaces
<1>17. AllScheduled' /\ SomeAlive' /\ LastExitHalts'
  BY <1>1, <1>10, RunningNow DEF IInv, AllScheduled, SomeAlive, LastExitHalts, Running
<1> QED
  BY <1>12, <1>13, <1>14, <1>15, <1>16, <1>17 DEF IInv

\* The machine goes on when another thread is left.
LEMMA AnotherLeft ==
  ASSUME IInv, NEW t \in Threads, thread[t].pc = "user", NEW s, s = thread[t].space,
         OtherThreads(s) \/ ~LastOfAll(s)
  PROVE  \E u \in Alive : u # t
<1>1. s \in Spaces /\ t \in Using(s) /\ t \notin ForkingIn(s)
  BY DEF IInv, ThreadsHaveSpaces, Using, ForkingIn
<1>2. \A r \in Spaces : Using(r) \subseteq Alive
  BY DEF Using, Alive
<1>3. CASE OtherThreads(s)
  <2>1. SUFFICES ASSUME Using(s) = {t} PROVE FALSE
    BY <1>1, <1>2
  <2>2. ForkingIn(s) = {}
    BY <1>1, <2>1, AreThreads
  <2>3. Cardinality(Using(s)) = 1 /\ Cardinality(ForkingIn(s)) = 0
    BY <2>1, <2>2, FS_Singleton, FS_EmptySet
  <2> QED
    BY <1>1, <1>3, <2>3 DEF OtherThreads, IInv, ThreadsCounted
<1>4. CASE ~OtherThreads(s) /\ ~LastOfAll(s)
  <2>1. ProcessTable[s] = 1
    BY <1>1, <1>4, UserCounted DEF IInv, OtherThreads
  <2>2. CASE execCalled # 0
    <3>1. InExec # {}
      BY <2>2, AreThreads, Counting DEF IInv, ExecsCounted
    <3>2. t \notin InExec
      BY DEF InExec
    <3> QED
      BY <3>1, <3>2, AreThreads
  <2>3. CASE getNumProcesses # 1
    <3>1. PICK r \in Spaces : ProcessTable[r] > 0 /\ r # s
      <4>1. SUFFICES ASSUME \A r \in Spaces : ProcessTable[r] > 0 => r = s PROVE FALSE
        OBVIOUS
      <4>2. {r \in Spaces : ProcessTable[r] > 0} = {s}
        BY <1>1, <2>1, <4>1
      <4> QED
        BY <2>3, <4>2, FS_Singleton DEF getNumProcesses
    <3>2. Using(r) # {}
      <4>1. SUFFICES ASSUME Using(r) = {} PROVE FALSE
        OBVIOUS
      <4>2. ForkingIn(r) = {}
        BY <4>1, AreThreads
      <4> QED
        BY <3>1, <4>1, <4>2, FS_EmptySet DEF IInv, ThreadsCounted
    <3>3. t \notin Using(r)
      BY <3>1 DEF Using
    <3> QED
      BY <1>2, <3>2, <3>3
  <2> QED
    BY <1>4, <2>1, <2>2, <2>3 DEF LastOfAll
<1> QED
  BY <1>3, <1>4

\* The last thread of all is the only one alive.
LEMMA NobodyElse ==
  ASSUME IInv, NEW t \in Threads, thread[t].pc = "user", NEW s, s = thread[t].space, LastOfAll(s)
  PROVE  Alive = {t}
<1>1. s \in Spaces /\ t \in Using(s) /\ t \in Alive
  BY DEF IInv, ThreadsHaveSpaces, Using, Alive
<1>2. InExec = {}
  BY AreThreads, Counting DEF LastOfAll, IInv, ExecsCounted
<1>3. Using(s) = {t}
  <2>1. Cardinality(Using(s)) \in Nat /\ Cardinality(ForkingIn(s)) \in Nat /\ Cardinality(Using(s)) # 0
    BY <1>1, AreThreads, Counting
  <2>2. Cardinality(Using(s)) = 1
    BY <1>1, <2>1 DEF LastOfAll, IInv, ThreadsCounted
  <2> QED
    BY <1>1, <2>2, AreThreads, Counting
<1>4. ASSUME NEW r \in Spaces \ {s} PROVE Using(r) = {}
  <2>1. ProcessTable[r] = 0
    <3> DEFINE P == {q \in Spaces : ProcessTable[q] > 0}
    <3>1. IsFiniteSet(P)
      BY FS_Subset, ProcessAssumption
    <3>2. Cardinality(P) = 1 /\ s \in P
      BY <1>1 DEF LastOfAll, getNumProcesses
    <3> HIDE DEF P
    <3>3. P = {s}
      BY <3>1, <3>2, FS_Singleton
    <3>4. r \notin P
      BY <3>3
    <3> QED
      BY <3>4 DEF P, IInv, TypesRight
  <2> QED
    BY <2>1, NobodyUses
<1>5. ASSUME NEW u \in Alive PROVE u = t
  <2>1. u \in Threads /\ thread[u].pc \notin {"unused", "exiting", "kernel_exec"}
    BY <1>2 DEF Alive, InExec
  <2>2. thread[u].space \in Spaces /\ u \in Using(thread[u].space)
    BY <2>1 DEF IInv, ThreadsHaveSpaces, Using
  <2> QED
    BY <1>3, <1>4, <2>2
<1> QED
  BY <1>1, <1>5

LEMMA ExitStep ==
  ASSUME IInv, NEW t \in Threads, Exit_Syscall(t)
  PROVE  IInv'
<1>0. PICK s : s = thread[t].space
  OBVIOUS
<1>1. currentThread = t /\ thread[t].pc = "user" /\ UNCHANGED <<readyList, execCalled>>
  BY DEF Exit_Syscall, At
<1>2. s \in Spaces /\ t \in Using(s) /\ t \notin ForkingIn(s)
  BY <1>0, <1>1 DEF IInv, ThreadsHaveSpaces, Using, ForkingIn
<1>3. ProcessTable[s] \in Nat /\ ProcessTable[s] > 0
  BY <1>2, UserCounted DEF IInv
<1>4. CASE ~OtherThreads(s) /\ LastOfAll(s)
  <2>1. currentThread' = NoThread /\ UNCHANGED <<ProcessTable, memory, thread>>
    BY <1>0, <1>4 DEF Exit_Syscall
  <2>2. Alive = {t}
    BY <1>0, <1>1, <1>4, NobodyElse
  <2>3. LastExitHalts'
    BY <2>1, <2>2 DEF LastExitHalts, Alive
  <2>4. ~Running'
    BY <2>1 DEF Running
  <2>5. SameRoles
    BY <2>1, SameThreads
  <2>6. TypesRight' /\ ThreadsCounted' /\ ProcessesHaveSpaces' /\ ExecsCounted' /\ ThreadsHaveSpaces'
    BY <1>1, <2>1, <2>5 DEF IInv, TypesRight, ThreadsCounted, ProcessesHaveSpaces, ExecsCounted, SameRoles
  <2> QED
    BY <2>3, <2>4, <2>6 DEF IInv, AllScheduled, SomeAlive
<1>5. CASE OtherThreads(s) \/ ~LastOfAll(s)
  <2>1. /\ Goto(t, "exiting") /\ UNCHANGED currentThread
        /\ \/ /\ OtherThreads(s) /\ ProcessTable' = [ProcessTable EXCEPT ![s] = @ - 1]
              /\ memory' = ExitSpace(memory, s, thread[t].stack)
           \/ /\ ~OtherThreads(s) /\ ProcessTable' = [ProcessTable EXCEPT ![s] = 0]
              /\ \E fifo : memory' = DeleteSpace(memory, s, fifo)
    BY <1>0, <1>5 DEF Exit_Syscall, deleteProcess
  <2>2. /\ thread' \in [Threads -> Thread] /\ thread'[t].pc = "exiting" /\ thread'[t].space = s
        /\ \A u \in Threads \ {t} : thread'[u] = thread[u]
    BY <1>0, <2>1, GotoType DEF IInv
  <2>3. /\ ProcessTable'[s] = ProcessTable[s] - 1
        /\ \A r \in Spaces \ {s} : ProcessTable'[r] = ProcessTable[r]
        /\ ProcessTable' \in [Spaces -> Nat]
    <3>1. ~OtherThreads(s) => ProcessTable[s] = 1
      BY <1>3 DEF OtherThreads
    <3> QED
      BY <1>2, <1>3, <2>1, <3>1 DEF IInv, TypesRight
  <2>4. /\ WellFormed(memory')
        /\ \A r \in Spaces \ {s} : Len(memory'.pageTable[r]) = Len(memory.pageTable[r])
        /\ OtherThreads(s) => Len(memory'.pageTable[s]) = Len(memory.pageTable[s])
    <3>1. CASE OtherThreads(s)
      BY <1>2, <2>1, <3>1, TablesStay, ExitSpaceTables DEF SameTables
    <3>2. CASE ~OtherThreads(s)
      BY <1>2, <2>1, <3>2, TablesStay, DeleteSpaceTables
    <3> QED
      BY <3>1, <3>2
  <2>5. ASSUME NEW r \in Spaces \ {s} PROVE Using(r)' = Using(r) /\ ForkingIn(r)' = ForkingIn(r)
    BY <1>0, <1>1, <2>2 DEF Using, ForkingIn
  <2>6. Using(s)' = Using(s) \ {t} /\ ForkingIn(s)' = ForkingIn(s)
    BY <1>0, <1>1, <2>2 DEF Using, ForkingIn
  <2>7. InExec' = InExec /\ Made' = Made /\ Alive' = Alive \ {t}
    BY <1>1, <2>2 DEF InExec, Made, Alive
  <2>8. TypesRight'
    BY <1>1, <2>1, <2>2, <2>3, <2>4 DEF IInv, TypesRight
  <2>9. ThreadsCounted'
    <3>1. ASSUME NEW r \in Spaces
          PROVE  ProcessTable'[r] = Cardinality(Using(r)') + Cardinality(ForkingIn(r)')
      <4>1. ProcessTable[r] = Cardinality(Using(r)) + Cardinality(ForkingIn(r))
        BY DEF IInv, ThreadsCounted
      <4>2. CASE r # s
        BY <2>3, <2>5, <4>1, <4>2
      <4>3. CASE r = s
        <5>1. Cardinality(Using(s)) \in Nat /\ Cardinality(Using(s) \ {t}) = Cardinality(Using(s)) - 1
          BY <1>2, AreThreads, OneLess
        <5>2. Cardinality(ForkingIn(s)) \in Nat
          BY AreThreads, Counting
        <5>3. /\ Cardinality(Using(s)') = Cardinality(Using(s)) - 1
              /\ Cardinality(ForkingIn(s)') = Cardinality(ForkingIn(s))
          BY <2>6, <5>1
        <5>4. ProcessTable'[s] = Cardinality(Using(s)) + Cardinality(ForkingIn(s)) - 1
          <6>1. ProcessTable'[s] = ProcessTable[s] - 1
            BY <2>3
          <6>2. ProcessTable[s] = Cardinality(Using(s)) + Cardinality(ForkingIn(s))
            BY <4>1, <4>3
          <6> QED
            BY <1>3, <5>1, <5>2, <6>1, <6>2
        <5>5. ProcessTable'[s] = Cardinality(Using(s)') + Cardinality(ForkingIn(s)')
          BY <5>1, <5>2, <5>3, <5>4
        <5> QED
          BY <4>3, <5>5
      <4> QED
        BY <4>2, <4>3
    <3> QED
      BY <3>1 DEF ThreadsCounted
  <2>10. ProcessesHaveSpaces'
    <3>1. ~OtherThreads(s) => ProcessTable'[s] = 0
      BY <1>3, <2>3 DEF OtherThreads
    <3> QED
      BY <1>3, <2>3, <2>4, <3>1 DEF IInv, ProcessesHaveSpaces
  <2>11. ExecsCounted'
    BY <1>1, <2>7 DEF IInv, ExecsCounted
  <2>12. ThreadsHaveSpaces'
    BY <1>2, <2>2 DEF IInv, ThreadsHaveSpaces
  <2>13. Alive' # {}
    BY <1>0, <1>1, <1>5, <2>7, AnotherLeft
  <2>14. AllScheduled' /\ SomeAlive' /\ LastExitHalts'
    BY <1>1, <2>1, <2>7, <2>13, RunningNow DEF IInv, AllScheduled, SomeAlive, LastExitHalts, Running
  <2> QED
    BY <2>8, <2>9, <2>10, <2>11, <2>12, <2>14 DEF IInv
<1> QED
  BY <1>4, <1>5

LEMMA FinishStep ==
  ASSUME IInv, NEW t \in Threads, Finish(t)
  PROVE  IInv'
<1>1. /\ currentThread = t /\ thread[t].pc = "exiting" /\ thread' = [thread EXCEPT ![t] = Unused]
      /\ UNCHANGED <<ProcessTable, execCalled>>
  BY DEF Finish, At
<1>2. Made \in SUBSET Threads /\ Scheduled(t, readyList, Made) /\ readyList \in Seq(Threads) /\ Alive # {}
  BY <1>1, RunningNow DEF IInv, AllScheduled, SomeAlive, Made, TypesRight
<1>3. t \notin Alive /\ Alive \subseteq Made
  BY <1>1 DEF Alive, Made
<1>4. readyList # <<>>
  <2>1. SUFFICES ASSUME readyList = <<>> PROVE FALSE
    OBVIOUS
  <2>2. {readyList[i] : i \in DOMAIN readyList} = {}
    BY <2>1
  <2> QED
    BY <1>2, <1>3, <2>2 DEF Scheduled
<1>5. currentThread' = Head(readyList) /\ readyList' = Tail(readyList) /\ Run(t, Head(readyList), memory)
  BY <1>4 DEF Finish, Run
<1>6. /\ Head(readyList) \in Threads /\ Tail(readyList) \in Seq(Threads)
      /\ Scheduled(Head(readyList), Tail(readyList), Made \ {t})
  BY <1>2, <1>4, Leaves
<1>7. TablesKept(memory, memory')
  <2>1. memory' = memory \/ memory' = SaveState(memory)
    BY <1>5 DEF Run
  <2> QED
    BY <2>1, TablesStay, SaveStateTables, SameTablesKept
<1>8. /\ thread' \in [Threads -> Thread] /\ thread'[t].pc = "unused"
      /\ \A u \in Threads \ {t} : thread'[u] = thread[u]
  BY <1>1 DEF IInv, TypesRight, Thread, Unused
<1>9. ASSUME NEW r \in Spaces PROVE Using(r)' = Using(r) /\ ForkingIn(r)' = ForkingIn(r)
  BY <1>1, <1>8 DEF Using, ForkingIn
<1>10. InExec' = InExec /\ Made' = Made \ {t} /\ Alive' = Alive
  BY <1>1, <1>8 DEF InExec, Made, Alive
<1>11. TypesRight'
  BY <1>1, <1>5, <1>6, <1>7, <1>8 DEF IInv, TypesRight, TablesKept
<1>12. ThreadsCounted' /\ ExecsCounted'
  BY <1>1, <1>9, <1>10 DEF IInv, ThreadsCounted, ExecsCounted
<1>13. ProcessesHaveSpaces'
  BY <1>1, <1>7 DEF IInv, ProcessesHaveSpaces, TablesKept
<1>14. ThreadsHaveSpaces'
  BY <1>8 DEF IInv, ThreadsHaveSpaces
<1>15. AllScheduled' /\ SomeAlive'
  BY <1>2, <1>5, <1>6, <1>10 DEF AllScheduled, SomeAlive
<1>16. LastExitHalts'
  BY <1>5, <1>6, ProcessAssumption DEF LastExitHalts, Running
<1> QED
  BY <1>11, <1>12, <1>13, <1>14, <1>15, <1>16 DEF IInv
-----------------------------------------------------------------------------
LEMMA InitRight == Init => IInv
<1>1. SUFFICES ASSUME Init PROVE IInv
  OBVIOUS
<1>2. PICK t \in Threads, s \in Spaces : StartProcess(t, s)
  BY <1>1 DEF Init
<1>3. WellFormed(NewMemory)
  <2>1. IsRecord(NewMemory) /\ NewMemory.pageTable = [r \in Spaces |-> <<>>]
    BY DEF NewMemory, IsRecord
  <2>2. IsTable(<<>>)
    BY DEF IsTable
  <2> QED
    BY <2>1, <2>2 DEF WellFormed
<1>4. WellFormed(memory) /\ Len(memory.pageTable[s]) > 0
  BY <1>2, <1>3, NewAddrSpaceTables DEF StartProcess
<1>5. FirstStack \subseteq Nat
  BY MemoryAssumption DEF FirstStack
<1> DEFINE first == [Unused EXCEPT !.pc = "user", !.space = s, !.stack = FirstStack]
<1>6. first \in Thread /\ first.pc = "user" /\ first.space = s
  BY <1>5 DEF Unused, Thread
<1>7. Unused \in Thread /\ Unused.pc = "unused"
  BY DEF Unused, Thread
<1>8. thread = [u \in Threads |-> IF u = t THEN first ELSE Unused] /\ currentThread = t
  BY <1>2 DEF StartProcess
<1> HIDE DEF first
<1>9. /\ thread \in [Threads -> Thread] /\ thread[t].pc = "user" /\ thread[t].space = s
      /\ \A u \in Threads \ {t} : thread[u].pc = "unused"
  BY <1>6, <1>7, <1>8
<1>10. /\ ProcessTable = [r \in Spaces |-> IF r = s THEN 1 ELSE 0]
       /\ readyList = <<>> /\ execCalled = 0
  BY <1>1, <1>2 DEF Init, StartProcess
<1>11. TypesRight
  BY <1>4, <1>8, <1>9, <1>10 DEF TypesRight
<1>12. /\ \A r \in Spaces \ {s} : Using(r) = {} /\ ForkingIn(r) = {}
       /\ Using(s) = {t} /\ ForkingIn(s) = {}
  BY <1>9 DEF Using, ForkingIn
<1>13. Made = {t} /\ InExec = {} /\ Alive = {t}
  BY <1>9 DEF Made, InExec, Alive
<1>14. Cardinality({t}) = 1 /\ Cardinality({}) = 0
  BY FS_Singleton, FS_EmptySet
<1>15. ThreadsCounted /\ ExecsCounted
  <2>1. ASSUME NEW r \in Spaces PROVE ProcessTable[r] = Cardinality(Using(r)) + Cardinality(ForkingIn(r))
    <3>1. CASE r = s
      <4>1. Cardinality(Using(r)) = 1 /\ Cardinality(ForkingIn(r)) = 0 /\ ProcessTable[r] = 1
        BY <1>10, <1>12, <1>14, <3>1
      <4> QED
        BY <4>1
    <3>2. CASE r # s
      <4>1. Cardinality(Using(r)) = 0 /\ Cardinality(ForkingIn(r)) = 0 /\ ProcessTable[r] = 0
        BY <1>10, <1>12, <1>14, <3>2
      <4> QED
        BY <4>1
    <3> QED
      BY <3>1, <3>2
  <2> QED
    BY <1>10, <1>13, <1>14, <2>1 DEF ThreadsCounted, ExecsCounted
<1>16. ProcessesHaveSpaces
  BY <1>4, <1>10 DEF ProcessesHaveSpaces
<1>17. ThreadsHaveSpaces
  BY <1>9 DEF ThreadsHaveSpaces
<1>18. Scheduled(t, <<>>, {t})
  BY DEF Scheduled
<1>19. AllScheduled /\ SomeAlive /\ LastExitHalts
  BY <1>8, <1>10, <1>13, <1>18, RunningNow DEF AllScheduled, SomeAlive, LastExitHalts
<1> QED
  BY <1>11, <1>15, <1>16, <1>17, <1>19 DEF IInv

LEMMA StepRight == IInv /\ [Next]_vars => IInv'
<1> SUFFICES ASSUME IInv, [Next]_vars PROVE IInv'
  OBVIOUS
<1>1. CASE UNCHANGED vars
  <2>1. SameRoles
    BY <1>1, SameThreads DEF vars
  <2> QED
    BY <1>1, <2>1 DEF vars, SameRoles, IInv, TypesRight, ThreadsCounted, ProcessesHaveSpaces, ExecsCounted,
         AllScheduled, SomeAlive, LastExitHalts, Running
<1>2. CASE Next
  <2>1. PICK t \in Threads :
          \/ TimeSlice(t) \/ Finish(t) \/ OneInstruction(t) \/ copyin(t) \/ Read_Syscall(t) \/ Yield_Syscall(t)
          \/ Fork_Syscall(t) \/ ForkThread(t) \/ kernel_thread(t)
          \/ Exec_Syscall(t) \/ ExecThread(t) \/ kernel_exec(t) \/ Exit_Syscall(t)
    BY <1>2 DEF Next
  <2>2. CASE TimeSlice(t) \/ Finish(t) \/ OneInstruction(t) \/ copyin(t) \/ Read_Syscall(t) \/ Yield_Syscall(t)
    BY <2>2, TimeSliceStep, FinishStep, OneInstructionStep, copyinStep, ReadStep, YieldSyscallStep
  <2>3. CASE Fork_Syscall(t) \/ ForkThread(t) \/ kernel_thread(t)
    BY <2>3, ForkSyscallStep, ForkThreadStep, kernel_threadStep
  <2>4. CASE Exec_Syscall(t) \/ ExecThread(t) \/ kernel_exec(t) \/ Exit_Syscall(t)
    BY <2>4, ExecSyscallStep, ExecThreadStep, kernel_execStep, ExitStep
  <2> QED
    BY <2>1, <2>2, <2>3, <2>4
<1> QED
  BY <1>1, <1>2

\* The process table counts the threads of every process and the Execs under way
\* count those whose process is not in it, at every step of Fork, Exec and Exit.
THEOREM ProcessInvariance == Spec => []IInv
  BY InitRight, StepRight, PTL DEF Spec

LEMMA SpacesLive == IInv => SpacesOutliveThreads
<1> SUFFICES ASSUME IInv, NEW t \in Threads, thread[t].pc \notin {"unused", "exiting", "kernel_exec"}
             PROVE  Live(thread[t].space)
  BY DEF SpacesOutliveThreads
<1> DEFINE s == thread[t].space
<1>1. s \in Spaces /\ t \in Using(s)
  BY DEF IInv, ThreadsHaveSpaces, Using
<1>2. ProcessTable[s] > 0
  BY <1>1, UserCounted DEF IInv
<1>3. Len(memory.pageTable[s]) > 0
  BY <1>1, <1>2 DEF IInv, ProcessesHaveSpaces
<1> HIDE DEF s
<1>4. memory.pageTable[s] # <<>>
  BY <1>3
<1> QED
  BY <1>4 DEF Live, s

\* SpacesOutliveThreads holds in every reachable state: ~AddrSpace runs only when no
\* thread of the process runs, is ready, or is still to be made by a Fork under way.
THEOREM SpacesOutlive == Spec => []SpacesOutliveThreads
  BY ProcessInvariance, SpacesLive, PTL

\* LastExitHalts holds in every reachable state: Exit halts the machine only for the
\* last thread, with no Fork or Exec under way, and the ready list is never empty
\* before that when a thread finishes.
THEOREM HaltsAtLastExit == Spec => []LastExitHalts
<1>1. IInv => LastExitHalts
  BY DEF IInv
<1> QED
  BY <1>1, ProcessInvariance, PTL

-----------------------------------------------------------------------------
(***************************************************************************)
(* The memory of the processes.                                            *)
(***************************************************************************)
\* A thread that uses its space, and its pages: in its page table, and readable.
Uses(th) == th.pc \notin {"unused", "exiting", "kernel_exec"}
Own(th) == 1..numNonStackPages \cup th.stack

Usable(m, th) ==
  /\ Own(th) \subseteq DOMAIN m.pageTable[th.space]
  /\ th.stack \cap 1..numNonStackPages = {}
  /\ \A vpn \in Own(th) : LET entry == m.pageTable[th.space][vpn]
                          IN  entry.location = "SWAP" => entry.valid

\* Threads of one space have different stacks.
Apart(th, other) == th.space = other.space => th.stack \cap other.stack = {}

StacksRight(m, threads) ==
  /\ \A t \in Threads : Uses(threads[t]) => Usable(m, threads[t])
  /\ \A t, u \in Threads : t # u /\ Uses(threads[t]) /\ Uses(threads[u]) => Apart(threads[t], threads[u])

MInv ==
  /\ memory \in Memory
  /\ version \in [Spaces -> Seq({-1, 0, 1})]
  /\ calls \in [Fork : 0..MaxForks, Exec : 0..MaxExecs]
  /\ Running => /\ Right(memory, thread[currentThread].space, version)
                /\ StacksRight(memory, thread)

LEMMA SaveStateRight ==
  ASSUME NEW m, NEW space, NEW other, NEW ver, Right(m, space, ver)
  PROVE  Right(SaveState(m), other, ver) /\ SaveState(m).pageTable = m.pageTable
<1>1. PICK n : n = SaveState(m)
  OBVIOUS
<1>2. OnlyTLB(m, n) /\ NoTLB(n)
  BY <1>1, SaveStateOnlyTLB DEF Right, Accounted
<1>3. Accounted(n, {}) /\ PagesRight(n, ver)
  BY <1>2, OnlyTLBAccounted, OnlyTLBPages DEF Right, Accounted
<1>4. TLBRight(n, other)
  BY <1>2, NoTLBRight
<1>5. n.stopped = "no" /\ QueueLong(n) /\ n.pageTable = m.pageTable
  BY <1>2 DEF OnlyTLB, QueueLong, Right
<1> QED
  BY <1>1, <1>3, <1>4, <1>5 DEF Right

\* A thread without a space has nothing in the TLB.
LEMMA NoSpaceRight ==
  ASSUME NEW m, NEW space, space \notin Spaces, NEW other, NEW ver, Right(m, space, ver)
  PROVE  Right(m, other, ver)
<1>1. NoTLB(m)
  BY DEF Right, Accounted, TLBRight, FramesOwned, NoTLB
<1>2. TLBRight(m, other)
  BY <1>1, NoTLBRight
<1> QED
  BY <1>2 DEF Right

LEMMA RunRight ==
  ASSUME NEW t \in Threads, NEW next, Run(t, next, memory), NEW other,
         Right(memory, thread[t].space, version)
  PROVE  Right(memory', other, version) /\ memory'.pageTable = memory.pageTable
<1>1. CASE thread[t].space # NoSpace
  BY <1>1, SaveStateRight DEF Run
<1>2. CASE thread[t].space = NoSpace
  BY <1>2, NoSpaceRight, MemoryAssumption DEF Run
<1> QED
  BY <1>1, <1>2

\* A page table entry stays readable.
LEMMA StillUsable ==
  ASSUME NEW m, NEW n, EntriesKept(m, n), NEW th, th.space \in Spaces, Usable(m, th)
  PROVE  Usable(n, th)
  BY DEF EntriesKept, Usable

LEMMA SameEntries ==
  ASSUME NEW m, NEW n, n.pageTable = m.pageTable
  PROVE  EntriesKept(m, n)
  BY DEF EntriesKept

\* The threads use what they used, and a new thread of a space has no stack yet.
Inherits(th, new, u) ==
  \E t \in Threads : /\ Uses(th[t]) /\ new[u].space = th[t].space
                     /\ new[u].stack = {} \/ (t = u /\ new[u].stack = th[u].stack)

LEMMA StacksKept ==
  ASSUME NEW m, NEW n, NEW th, NEW new, StacksRight(m, th), EntriesKept(m, n),
         \A t \in Threads : Uses(th[t]) => th[t].space \in Spaces,
         \A u \in Threads : Uses(new[u]) => Inherits(th, new, u)
  PROVE  StacksRight(n, new)
<1>1. ASSUME NEW u \in Threads, Uses(new[u]) PROVE Usable(n, new[u])
  <2>1. PICK t \in Threads : /\ Uses(th[t]) /\ new[u].space = th[t].space
                             /\ new[u].stack = {} \/ (t = u /\ new[u].stack = th[u].stack)
    BY <1>1 DEF Inherits
  <2>2. Usable(n, th[t])
    BY <2>1, StillUsable DEF StacksRight
  <2>3. new[u].stack = {} \/ new[u].stack = th[t].stack
    BY <2>1
  <2> QED
    BY <2>1, <2>2, <2>3 DEF Usable, Own
<1>2. ASSUME NEW t \in Threads, NEW u \in Threads, t # u, Uses(new[t]), Uses(new[u])
      PROVE  Apart(new[t], new[u])
  <2>1. CASE new[t].stack = {} \/ new[u].stack = {}
    BY <2>1 DEF Apart
  <2>2. CASE new[t].stack # {} /\ new[u].stack # {}
    <3>1. Uses(th[t]) /\ new[t].space = th[t].space /\ new[t].stack = th[t].stack
      BY <1>2, <2>2 DEF Inherits
    <3>2. Uses(th[u]) /\ new[u].space = th[u].space /\ new[u].stack = th[u].stack
      BY <1>2, <2>2 DEF Inherits
    <3>3. Apart(th[t], th[u])
      BY <1>2, <3>1, <3>2 DEF StacksRight
    <3> QED
      BY <3>1, <3>2, <3>3 DEF Apart
  <2> QED
    BY <2>1, <2>2
<1> QED
  BY <1>1, <1>2 DEF StacksRight

LEMMA UsersHaveSpaces ==
  ASSUME IInv, NEW t \in Threads, Uses(thread[t])
  PROVE  thread[t].space \in Spaces
  BY DEF IInv, ThreadsHaveSpaces, Uses

\* A step that makes no thread and changes no stack.
LEMMA SameStacks ==
  ASSUME IInv, StacksRight(memory, thread), EntriesKept(memory, memory'),
         \A u \in Threads : Uses(thread'[u]) => /\ Uses(thread[u]) /\ thread'[u].space = thread[u].space
                                               /\ thread'[u].stack = thread[u].stack
  PROVE  StacksRight(memory', thread')
<1>1. \A u \in Threads : Uses(thread'[u]) => Inherits(thread, thread', u)
  BY DEF Inherits
<1>2. \A t \in Threads : Uses(thread[t]) => thread[t].space \in Spaces
  BY UsersHaveSpaces
<1> QED
  BY <1>1, <1>2, StacksKept

\* A step of the running thread that leaves the machine running, or stops it.
LEMMA MemoryStep ==
  ASSUME memory' \in Memory, version' \in [Spaces -> Seq({-1, 0, 1})],
         calls' \in [Fork : 0..MaxForks, Exec : 0..MaxExecs],
         Running' => Right(memory', thread'[currentThread'].space, version') /\ StacksRight(memory', thread')
  PROVE  MInv'
  BY DEF MInv

LEMMA RightNow ==
  ASSUME MInv, NEW t \in Threads, currentThread = t
  PROVE  /\ Right(memory, thread[t].space, version) /\ StacksRight(memory, thread)
         /\ memory \in Memory /\ version \in [Spaces -> Seq({-1, 0, 1})]
         /\ calls \in [Fork : 0..MaxForks, Exec : 0..MaxExecs]
  BY RunningNow DEF MInv

LEMMA GotoStacks ==
  ASSUME IInv, NEW t \in Threads, Uses(thread[t]),
         NEW pc \in {"user", "copyin", "execing", "forking", "yielding", "exiting"}, Goto(t, pc)
  PROVE  \A u \in Threads : Uses(thread'[u]) => /\ Uses(thread[u]) /\ thread'[u].space = thread[u].space
                                               /\ thread'[u].stack = thread[u].stack
<1>1. thread'[t].stack = thread[t].stack /\ thread'[t].space = thread[t].space
  BY DEF IInv, TypesRight, Thread, Goto
<1>2. \A u \in Threads \ {t} : thread'[u] = thread[u]
  BY GotoType DEF IInv
<1> QED
  BY <1>1, <1>2

LEMMA YieldMemory ==
  ASSUME IInv, MInv, NEW t \in Threads, currentThread = t, Yield(t),
         UNCHANGED <<version, calls>>, thread'[t].space = thread[t].space,
         \A u \in Threads : Uses(thread'[u]) => /\ Uses(thread[u]) /\ thread'[u].space = thread[u].space
                                               /\ thread'[u].stack = thread[u].stack
  PROVE  MInv'
<1>1. Right(memory', thread'[currentThread'].space, version) /\ memory'.pageTable = memory.pageTable
  <2>1. CASE readyList = <<>> /\ UNCHANGED <<readyList, currentThread, memory>>
    BY <2>1, RightNow
  <2>2. CASE readyList # <<>> /\ readyList' = Append(Tail(readyList), t) /\ Run(t, Head(readyList), memory)
    BY <2>2, RightNow, RunRight
  <2> QED
    BY <2>1, <2>2 DEF Yield
<1>2. StacksRight(memory', thread')
  BY <1>1, RightNow, SameEntries, SameStacks
<1>3. memory' \in Memory
  BY <1>1 DEF Right, Accounted
<1> QED
  BY <1>1, <1>2, <1>3, RightNow, MemoryStep

LEMMA TimeSliceMemory ==
  ASSUME IInv, MInv, NEW t \in Threads, TimeSlice(t)
  PROVE  MInv'
  BY YieldMemory DEF TimeSlice

LEMMA YieldSyscallMemory ==
  ASSUME IInv, MInv, NEW t \in Threads, Yield_Syscall(t)
  PROVE  MInv'
<1>1. /\ currentThread = t /\ Yield(t) /\ UNCHANGED <<version, calls>>
      /\ thread[t].pc \in {"user", "yielding"} /\ Goto(t, "user")
  BY DEF Yield_Syscall, At
<1>2. thread'[t].space = thread[t].space
  BY <1>1, GotoType DEF IInv
<1>3. Uses(thread[t])
  BY <1>1 DEF Uses
<1>4. \A u \in Threads : Uses(thread'[u]) => /\ Uses(thread[u]) /\ thread'[u].space = thread[u].space
                                            /\ thread'[u].stack = thread[u].stack
  BY <1>1, <1>3, GotoStacks
<1> QED
  BY <1>1, <1>2, <1>4, YieldMemory

LEMMA FinishMemory ==
  ASSUME IInv, MInv, NEW t \in Threads, Finish(t)
  PROVE  MInv'
<1>1. /\ currentThread = t /\ thread[t].pc = "exiting" /\ thread' = [thread EXCEPT ![t] = Unused]
      /\ UNCHANGED <<version, calls>>
  BY DEF Finish, At
<1>2. \A u \in Threads : Uses(thread'[u]) => /\ Uses(thread[u]) /\ thread'[u].space = thread[u].space
                                            /\ thread'[u].stack = thread[u].stack
  BY <1>1 DEF IInv, TypesRight, Uses, Unused
<1>3. CASE readyList = <<>>
  BY <1>1, <1>3, RightNow, MemoryStep DEF Finish, Idle, Running
<1>4. CASE Run(t, Head(readyList), memory)
  <2>1. Right(memory', thread'[currentThread'].space, version) /\ memory'.pageTable = memory.pageTable
    BY <1>1, <1>4, RightNow, RunRight
  <2>2. StacksRight(memory', thread')
    BY <1>1, <1>2, <2>1, RightNow, SameEntries, SameStacks
  <2>3. memory' \in Memory
    BY <2>1 DEF Right, Accounted
  <2> QED
    BY <1>1, <2>1, <2>2, <2>3, RightNow, MemoryStep
<1> QED
  BY <1>3, <1>4 DEF Finish

\* A step that changes neither the memory nor what is known of it.
LEMMA QuietMemory ==
  ASSUME IInv, MInv, NEW t \in Threads, currentThread = t, UNCHANGED <<memory, version, currentThread>>,
         calls' \in [Fork : 0..MaxForks, Exec : 0..MaxExecs], thread'[t].space = thread[t].space,
         \A u \in Threads : Uses(thread'[u]) => Inherits(thread, thread', u)
  PROVE  MInv'
<1>1. \A u \in Threads : Uses(thread[u]) => thread[u].space \in Spaces
  BY UsersHaveSpaces
<1>2. EntriesKept(memory, memory')
  BY SameEntries
<1>3. StacksRight(memory', thread')
  BY <1>1, <1>2, RightNow, StacksKept
<1> QED
  BY <1>3, RightNow, MemoryStep

LEMMA SameInherits ==
  ASSUME \A u \in Threads : Uses(thread'[u]) => /\ Uses(thread[u]) /\ thread'[u].space = thread[u].space
                                               /\ thread'[u].stack = thread[u].stack
  PROVE  \A u \in Threads : Uses(thread'[u]) => Inherits(thread, thread', u)
  BY DEF Inherits

LEMMA CallsCounted ==
  ASSUME NEW c \in [Fork : 0..MaxForks, Exec : 0..MaxExecs]
  PROVE  /\ c.Fork < MaxForks => [c EXCEPT !.Fork = @ + 1] \in [Fork : 0..MaxForks, Exec : 0..MaxExecs]
         /\ c.Exec < MaxExecs => [c EXCEPT !.Exec = @ + 1] \in [Fork : 0..MaxForks, Exec : 0..MaxExecs]
<1>1. c.Fork \in 0..MaxForks /\ c.Exec \in 0..MaxExecs /\ MaxForks \in Nat /\ MaxExecs \in Nat
  BY ProcessAssumption
<1>2. /\ c.Fork < MaxForks => c.Fork + 1 \in 0..MaxForks
      /\ c.Exec < MaxExecs => c.Exec + 1 \in 0..MaxExecs
  BY <1>1
<1> QED
  BY <1>1, <1>2

LEMMA ForkSyscallMemory ==
  ASSUME IInv, MInv, NEW t \in Threads, Fork_Syscall(t)
  PROVE  MInv'
<1>1. /\ currentThread = t /\ thread[t].pc = "user" /\ Goto(t, "forking") /\ calls.Fork < MaxForks
      /\ calls' = [calls EXCEPT !.Fork = @ + 1] /\ UNCHANGED <<memory, currentThread, version>>
  BY DEF Fork_Syscall, At
<1>2. Uses(thread[t])
  BY <1>1 DEF Uses
<1>3. \A u \in Threads : Uses(thread'[u]) => Inherits(thread, thread', u)
  BY <1>1, <1>2, GotoStacks, SameInherits
<1>4. thread'[t].space = thread[t].space
  BY <1>1, GotoType DEF IInv
<1>5. calls' \in [Fork : 0..MaxForks, Exec : 0..MaxExecs]
  BY <1>1, CallsCounted DEF MInv
<1> QED
  BY <1>1, <1>3, <1>4, <1>5, QuietMemory

LEMMA ExecSyscallMemory ==
  ASSUME IInv, MInv, NEW t \in Threads, Exec_Syscall(t)
  PROVE  MInv'
<1>1. /\ currentThread = t /\ thread[t].pc = "user" /\ Goto(t, "copyin") /\ calls.Exec < MaxExecs
      /\ calls' = [calls EXCEPT !.Exec = @ + 1] /\ UNCHANGED <<memory, currentThread, version>>
  BY DEF Exec_Syscall, At
<1>2. Uses(thread[t])
  BY <1>1 DEF Uses
<1>3. \A u \in Threads : Uses(thread'[u]) => Inherits(thread, thread', u)
  BY <1>1, <1>2, GotoStacks, SameInherits
<1>4. thread'[t].space = thread[t].space
  BY <1>1, GotoType DEF IInv
<1>5. calls' \in [Fork : 0..MaxForks, Exec : 0..MaxExecs]
  BY <1>1, CallsCounted DEF MInv
<1> QED
  BY <1>1, <1>3, <1>4, <1>5, QuietMemory

\* The new thread has no stack, or no space.
LEMMA NewThreadMemory ==
  ASSUME IInv, MInv, NEW t \in Threads, NEW func \in {"kernel_thread", "kernel_exec"}, NEW space,
         currentThread = t, Uses(thread[t]), NewThread(t, func, space),
         func = "kernel_thread" => space = thread[t].space,
         UNCHANGED <<memory, currentThread, version, calls>>
  PROVE  MInv'
<1>1. PICK u \in Threads :
         /\ thread[u].pc = "unused"
         /\ thread' = [thread EXCEPT ![t].pc = IF func = "kernel_thread" THEN "yielding" ELSE "user",
                                     ![u] = [Unused EXCEPT !.pc = func, !.space = space]]
  BY DEF NewThread
<1> DEFINE new == [Unused EXCEPT !.pc = func, !.space = space]
           pc == IF func = "kernel_thread" THEN "yielding" ELSE "user"
<1>2. u # t
  BY <1>1 DEF Uses
<1>3. new.pc = func /\ new.space = space /\ new.stack = {}
  BY DEF Unused
<1>4. thread' = [thread EXCEPT ![t].pc = pc, ![u] = new]
  BY <1>1
<1> HIDE DEF new, pc
<1>5. thread[t] \in Thread /\ DOMAIN thread = Threads
  BY DEF IInv, TypesRight
<1>6. thread'[t] = [thread[t] EXCEPT !.pc = pc]
  BY <1>2, <1>4, <1>5
<1>7. thread'[t].space = thread[t].space /\ thread'[t].stack = thread[t].stack
  BY <1>5, <1>6 DEF Thread
<1>8. thread'[u].pc = func /\ thread'[u].space = space /\ thread'[u].stack = {}
  BY <1>2, <1>3, <1>4, <1>5
<1>9. \A v \in Threads \ {t, u} : thread'[v] = thread[v]
  BY <1>4, <1>5
<1>10. ASSUME NEW v \in Threads, Uses(thread'[v]) PROVE Inherits(thread, thread', v)
  <2>1. CASE v = u
    <3>1. func = "kernel_thread"
      BY <1>8, <1>10, <2>1 DEF Uses
    <3> QED
      BY <1>8, <2>1, <3>1 DEF Inherits
  <2>2. CASE v = t
    BY <1>7, <2>2 DEF Inherits
  <2>3. CASE v \notin {t, u}
    BY <1>9, <1>10, <2>3 DEF Inherits
  <2> QED
    BY <2>1, <2>2, <2>3
<1>11. calls' \in [Fork : 0..MaxForks, Exec : 0..MaxExecs]
  BY DEF MInv
<1> QED
  BY <1>7, <1>10, <1>11, QuietMemory

LEMMA ForkThreadMemory ==
  ASSUME IInv, MInv, NEW t \in Threads, ForkThread(t)
  PROVE  MInv'
<1>1. /\ currentThread = t /\ Uses(thread[t]) /\ NewThread(t, "kernel_thread", thread[t].space)
      /\ UNCHANGED <<memory, currentThread, version, calls>>
  BY DEF ForkThread, At, Uses
<1> QED
  BY <1>1, NewThreadMemory

LEMMA ExecThreadMemory ==
  ASSUME IInv, MInv, NEW t \in Threads, ExecThread(t)
  PROVE  MInv'
<1>1. /\ currentThread = t /\ Uses(thread[t]) /\ NewThread(t, "kernel_exec", NoSpace)
      /\ UNCHANGED <<memory, currentThread, version, calls>>
  BY DEF ExecThread, At, Uses
<1> QED
  BY <1>1, NewThreadMemory

\* The page that is written, in the version the program knows.
LEMMA KnownType ==
  ASSUME NEW ver \in [Spaces -> Seq({-1, 0, 1})], NEW s \in Spaces, NEW vpn \in DOMAIN ver[s]
  PROVE  [ver EXCEPT ![s][vpn] = 1] \in [Spaces -> Seq({-1, 0, 1})]
<1>1. PICK q \in Seq({-1, 0, 1}) : q = ver[s]
  OBVIOUS
<1>2. [q EXCEPT ![vpn] = 1] \in Seq({-1, 0, 1})
  <2>1. vpn \in DOMAIN q /\ DOMAIN q = 1..Len(q) /\ Len(q) \in Nat
    BY <1>1
  <2> QED
    BY <2>1
<1>3. [ver EXCEPT ![s][vpn] = 1] = [ver EXCEPT ![s] = [q EXCEPT ![vpn] = 1]]
  BY <1>1
<1> QED
  BY <1>2, <1>3

LEMMA WriteMemTable ==
  ASSUME NEW m \in Memory, NEW vpn, NEW contents
  PROVE  WriteMem(m, vpn, contents).pageTable = m.pageTable
  BY DEF WriteMem, Memory

\* What an access leaves.
AccessRight(t) ==
  /\ memory' \in Memory /\ version' \in [Spaces -> Seq({-1, 0, 1})]
  /\ memory'.stopped = "no" => Right(memory', thread[t].space, version') /\ EntriesKept(memory, memory')

LEMMA HitRight ==
  ASSUME IInv, MInv, NEW t \in Threads, currentThread = t, Uses(thread[t]), NEW vpn \in Pages(t),
         NEW writing, Hit(t, vpn, writing)
  PROVE  AccessRight(t)
<1>0. PICK s \in Spaces : s = thread[t].space
  BY UsersHaveSpaces
<1>1. Right(memory, s, version) /\ StacksRight(memory, thread)
      /\ memory \in Memory /\ version \in [Spaces -> Seq({-1, 0, 1})]
  BY <1>0, RightNow
<1>2. CASE UNCHANGED <<memory, version>>
  BY <1>0, <1>1, <1>2, SameEntries DEF AccessRight
<1>3. CASE /\ Translate(memory, vpn) # 0 /\ memory' = WriteMem(memory, vpn, <<s, vpn, 1>>)
           /\ version' = [version EXCEPT ![s][vpn] = 1]
  <2>1. Right(memory', s, version')
    BY <1>1, <1>3, WriteRight
  <2>2. vpn \in DOMAIN version[s]
    <3>1. vpn \in DOMAIN memory.pageTable[s]
      BY <1>0, <1>1 DEF StacksRight, Usable, Own, Pages
    <3> QED
      BY <1>1, <3>1 DEF Right, PagesRight
  <2>3. version' \in [Spaces -> Seq({-1, 0, 1})]
    BY <1>1, <1>3, <2>2, KnownType
  <2>4. EntriesKept(memory, memory')
    BY <1>1, <1>3, WriteMemTable, SameEntries
  <2>5. memory' \in Memory
    BY <2>1 DEF Right, Accounted
  <2> QED
    BY <1>0, <2>1, <2>3, <2>4, <2>5 DEF AccessRight
<1> QED
  BY <1>0, <1>2, <1>3 DEF Hit

LEMMA MissRight ==
  ASSUME IInv, MInv, NEW t \in Threads, currentThread = t, Uses(thread[t]), NEW vpn \in Pages(t), Miss(t, vpn)
  PROVE  AccessRight(t)
<1>0. PICK s \in Spaces : s = thread[t].space
  BY UsersHaveSpaces
<1>1. Right(memory, s, version) /\ StacksRight(memory, thread)
      /\ memory \in Memory /\ version \in [Spaces -> Seq({-1, 0, 1})]
  BY <1>0, RightNow
<1>2. /\ vpn \in DOMAIN memory.pageTable[s]
      /\ memory.pageTable[s][vpn].location = "SWAP" => memory.pageTable[s][vpn].valid
  BY <1>0, <1>1 DEF StacksRight, Usable, Own, Pages
<1>3. Translate(memory, vpn) = 0 /\ memory' \in handleTLBMiss(memory, s, vpn) /\ UNCHANGED version
  BY <1>0 DEF Miss
<1>4. memory' \in Memory /\ (memory'.stopped = "no" => Right(memory', s, version) /\ EntriesKept(memory, memory'))
  BY <1>1, <1>2, <1>3, TLBMissRight
<1> QED
  BY <1>0, <1>1, <1>3, <1>4 DEF AccessRight

LEMMA AccessMemory ==
  ASSUME IInv, MInv, NEW t \in Threads, currentThread = t, AccessRight(t), Continue(t), UNCHANGED calls,
         thread'[t].space = thread[t].space,
         \A u \in Threads : Uses(thread'[u]) => /\ Uses(thread[u]) /\ thread'[u].space = thread[u].space
                                               /\ thread'[u].stack = thread[u].stack
  PROVE  MInv'
<1>1. Running' => memory'.stopped = "no" /\ currentThread' = t
  BY DEF Running, Continue
<1>2. ASSUME Running' PROVE Right(memory', thread'[currentThread'].space, version') /\ StacksRight(memory', thread')
  <2>1. Right(memory', thread'[currentThread'].space, version') /\ EntriesKept(memory, memory')
    BY <1>1, <1>2 DEF AccessRight
  <2>2. StacksRight(memory', thread')
    BY <2>1, RightNow, SameStacks
  <2> QED
    BY <2>1, <2>2
<1>3. memory' \in Memory /\ version' \in [Spaces -> Seq({-1, 0, 1})]
  BY DEF AccessRight
<1>4. calls' \in [Fork : 0..MaxForks, Exec : 0..MaxExecs]
  BY RightNow
<1> QED
  BY <1>2, <1>3, <1>4, MemoryStep

LEMMA OneInstructionMemory ==
  ASSUME IInv, MInv, NEW t \in Threads, OneInstruction(t)
  PROVE  MInv'
<1>1. currentThread = t /\ Uses(thread[t]) /\ Continue(t) /\ UNCHANGED <<thread, calls>>
  BY DEF OneInstruction, At, Uses
<1>2. AccessRight(t)
  BY <1>1, HitRight, MissRight DEF OneInstruction
<1> QED
  BY <1>1, <1>2, AccessMemory

LEMMA ReadMemory ==
  ASSUME IInv, MInv, NEW t \in Threads, Read_Syscall(t)
  PROVE  MInv'
<1>1. currentThread = t /\ Uses(thread[t]) /\ Continue(t) /\ UNCHANGED <<thread, calls>>
  BY DEF Read_Syscall, At, Uses
<1>2. AccessRight(t)
  BY <1>1, HitRight, MissRight DEF Read_Syscall, copyout
<1> QED
  BY <1>1, <1>2, AccessMemory

LEMMA copyinMemory ==
  ASSUME IInv, MInv, NEW t \in Threads, copyin(t)
  PROVE  MInv'
<1>1. currentThread = t /\ Uses(thread[t]) /\ Continue(t) /\ UNCHANGED calls
  BY DEF copyin, At, Uses
<1>2. AccessRight(t)
  BY <1>1, HitRight, MissRight DEF copyin
<1>3. UNCHANGED thread \/ Goto(t, "execing")
  BY DEF copyin
<1>4. CASE UNCHANGED thread
  BY <1>1, <1>2, <1>4, AccessMemory
<1>5. CASE Goto(t, "execing")
  <2>1. thread'[t].space = thread[t].space
    BY <1>5, GotoType DEF IInv
  <2>2. \A u \in Threads : Uses(thread'[u]) => /\ Uses(thread[u]) /\ thread'[u].space = thread[u].space
                                              /\ thread'[u].stack = thread[u].stack
    BY <1>1, <1>5, GotoStacks
  <2> QED
    BY <1>1, <1>2, <2>1, <2>2, AccessMemory
<1> QED
  BY <1>3, <1>4, <1>5

\* A space gets pages: those of the others are as they were.
LEMMA AddedUsable ==
  ASSUME NEW m, NEW n, NEW s \in Spaces, EntriesAdded(m, n, s), NEW th, th.space \in Spaces, Usable(m, th)
  PROVE  Usable(n, th)
<1>1. CASE th.space # s
  BY <1>1 DEF EntriesAdded, Usable
<1>2. CASE th.space = s
  BY <1>2 DEF EntriesAdded, Usable
<1> QED
  BY <1>1, <1>2

\* The thread u gets its stack; the stacks of the others in its space are among the
\* pages that were there.
LEMMA AddedStacks ==
  ASSUME NEW m, NEW n, NEW th, NEW new, NEW s \in Spaces, NEW u \in Threads,
         StacksRight(m, th), EntriesAdded(m, n, s),
         \A t \in Threads : Uses(th[t]) => th[t].space \in Spaces,
         \A t \in Threads \ {u} : new[t] = th[t],
         new[u].space = s, Usable(n, new[u]), new[u].stack \cap DOMAIN m.pageTable[s] = {}
  PROVE  StacksRight(n, new)
<1>1. ASSUME NEW t \in Threads, Uses(new[t]) PROVE Usable(n, new[t])
  <2>1. CASE t = u
    BY <2>1
  <2>2. CASE t # u
    BY <1>1, <2>2, AddedUsable DEF StacksRight
  <2> QED
    BY <2>1, <2>2
<1>2. ASSUME NEW t \in Threads \ {u}, Uses(new[t]) PROVE Apart(new[t], new[u]) /\ Apart(new[u], new[t])
  <2>1. Usable(m, new[t])
    BY <1>2 DEF StacksRight
  <2>2. new[t].space = s => new[t].stack \subseteq DOMAIN m.pageTable[s]
    BY <2>1 DEF Usable, Own
  <2> QED
    BY <2>2 DEF Apart
<1>3. ASSUME NEW t \in Threads, NEW v \in Threads, t # v, Uses(new[t]), Uses(new[v])
      PROVE  Apart(new[t], new[v])
  <2>1. CASE t = u \/ v = u
    BY <1>2, <1>3, <2>1
  <2>2. CASE t # u /\ v # u
    BY <1>3, <2>2 DEF StacksRight
  <2> QED
    BY <2>1, <2>2
<1> QED
  BY <1>1, <1>3 DEF StacksRight

LEMMA VersionType ==
  ASSUME NEW ver \in [Spaces -> Seq({-1, 0, 1})], NEW s \in Spaces, NEW known \in Seq({-1, 0, 1})
  PROVE  [ver EXCEPT ![s] = known] \in [Spaces -> Seq({-1, 0, 1})]
  OBVIOUS

LEMMA kernel_threadMemory ==
  ASSUME IInv, MInv, NEW t \in Threads, kernel_thread(t)
  PROVE  MInv'
<1>0. PICK s : s = thread[t].space
  OBVIOUS
<1>1. PICK n : n = Len(memory.pageTable[s])
  OBVIOUS
<1>2. PICK stack : stack = (n + 1)..(n + StackPages)
  OBVIOUS
<1>3. /\ currentThread = t /\ thread[t].pc = "kernel_thread" /\ memory' = AddStack(memory, s)
      /\ thread' = [thread EXCEPT ![t].pc = "user", ![t].stack = stack]
      /\ version' = [version EXCEPT ![s] = @ \o [i \in 1..StackPages |-> -1]]
      /\ UNCHANGED <<currentThread, calls>>
  BY <1>0, <1>1, <1>2 DEF kernel_thread, At
<1>4. Uses(thread[t]) /\ s \in Spaces
  BY <1>0, <1>3, UsersHaveSpaces DEF Uses
<1>5. /\ Right(memory, s, version) /\ StacksRight(memory, thread) /\ memory \in Memory
      /\ version \in [Spaces -> Seq({-1, 0, 1})] /\ calls \in [Fork : 0..MaxForks, Exec : 0..MaxExecs]
  BY <1>0, <1>3, RightNow
<1>6. Right(memory', s, version') /\ EntriesAdded(memory, memory', s)
      /\ DOMAIN memory'.pageTable[s] = 1..(n + StackPages)
  BY <1>1, <1>3, <1>4, <1>5, AddStackRight
<1>7. n \in Nat /\ DOMAIN memory.pageTable[s] = 1..n /\ StackPages \in Nat /\ numNonStackPages \in Nat
  BY <1>1, <1>4, <1>5, TableTypes, Sizes
<1>8. /\ thread'[t].pc = "user" /\ thread'[t].space = s /\ thread'[t].stack = stack
      /\ \A u \in Threads \ {t} : thread'[u] = thread[u]
  <2>1. thread[t] \in Thread /\ DOMAIN thread = Threads
    BY DEF IInv, TypesRight
  <2> QED
    BY <1>0, <1>3, <2>1 DEF Thread
<1>9. Usable(memory, thread[t])
  BY <1>4, <1>5 DEF StacksRight
<1>10. 1..numNonStackPages \subseteq 1..n
  BY <1>0, <1>7, <1>9 DEF Usable, Own
<1>11. stack \cap 1..n = {} /\ 1..n \cup stack = 1..(n + StackPages)
  BY <1>2, <1>7
<1>12. Usable(memory', thread'[t])
  <2>1. Own(thread'[t]) \subseteq DOMAIN memory'.pageTable[s]
    BY <1>6, <1>8, <1>10, <1>11 DEF Own
  <2>2. stack \cap 1..numNonStackPages = {}
    BY <1>10, <1>11
  <2>3. ASSUME NEW vpn \in Own(thread'[t]), memory'.pageTable[s][vpn].location = "SWAP"
        PROVE  memory'.pageTable[s][vpn].valid
    <3>1. CASE vpn \in 1..numNonStackPages
      <4>1. memory'.pageTable[s][vpn] = memory.pageTable[s][vpn]
        BY <1>6, <1>7, <1>10, <3>1 DEF EntriesAdded
      <4> QED
        BY <1>0, <1>9, <2>3, <3>1, <4>1 DEF Usable, Own
    <3>2. CASE vpn \in stack
      <4>1. vpn \in DOMAIN memory'.pageTable[s] \ DOMAIN memory.pageTable[s]
        BY <1>6, <1>7, <1>11, <3>2
      <4> QED
        BY <1>6, <2>3, <4>1 DEF EntriesAdded
    <3> QED
      BY <1>8, <3>1, <3>2 DEF Own
  <2> QED
    BY <1>8, <2>1, <2>2, <2>3 DEF Usable
<1>13. StacksRight(memory', thread')
  <2>1. \A u \in Threads : Uses(thread[u]) => thread[u].space \in Spaces
    BY UsersHaveSpaces
  <2>2. thread'[t].stack \cap DOMAIN memory.pageTable[s] = {}
    BY <1>7, <1>8, <1>11
  <2> QED
    BY <1>4, <1>5, <1>6, <1>8, <1>12, <2>1, <2>2, AddedStacks
<1>14. version' \in [Spaces -> Seq({-1, 0, 1})]
  <2> DEFINE h == [i \in 1..StackPages |-> -1]
  <2>1. h \in [1..StackPages -> {-1, 0, 1}]
    OBVIOUS
  <2>2. version' = [version EXCEPT ![s] = version[s] \o h]
    BY <1>3
  <2> HIDE DEF h
  <2>3. h \in Seq({-1, 0, 1})
    BY <1>7, <2>1
  <2>4. version[s] \o h \in Seq({-1, 0, 1})
    BY <1>4, <1>5, <2>3
  <2> QED
    BY <1>4, <1>5, <2>2, <2>4, VersionType
<1>15. memory' \in Memory
  BY <1>6 DEF Right, Accounted
<1> QED
  BY <1>3, <1>5, <1>6, <1>8, <1>13, <1>14, <1>15, MemoryStep

LEMMA FirstPages ==
  /\ FirstVersions = Known /\ Known \in Seq({-1, 0, 1})
  /\ FirstStack \cap 1..numNonStackPages = {}
  /\ 1..numNonStackPages \cup FirstStack = 1..(numNonStackPages + StackPages)
<1>1. numNonStackPages \in Nat /\ StackPages \in Nat /\ numNonStackPages + StackPages \in Nat
  BY Sizes
<1>2. Known \in [1..(numNonStackPages + StackPages) -> {-1, 0, 1}]
  BY DEF Known
<1>3. FirstVersions = Known
  BY DEF FirstVersions, Known
<1> QED
  BY <1>1, <1>2, <1>3 DEF FirstStack

\* The first thread of a new space.
LEMMA FirstUsable ==
  ASSUME NEW m, NEW n, NEW s \in Spaces, EntriesAdded(m, n, s), m.pageTable[s] = <<>>,
         DOMAIN n.pageTable[s] = 1..(numNonStackPages + StackPages),
         NEW th, th.space = s, th.stack = FirstStack
  PROVE  Usable(n, th)
<1>1. DOMAIN m.pageTable[s] = {}
  OBVIOUS
<1>2. \A vpn \in DOMAIN n.pageTable[s] : n.pageTable[s][vpn].location # "SWAP"
  BY <1>1 DEF EntriesAdded
<1>3. Own(th) = DOMAIN n.pageTable[s]
  BY FirstPages DEF Own
<1> QED
  BY <1>2, <1>3, FirstPages DEF Usable

LEMMA kernel_execMemory ==
  ASSUME IInv, MInv, NEW t \in Threads, kernel_exec(t)
  PROVE  MInv'
<1>1. PICK s \in Spaces :
        /\ memory.pageTable[s] = <<>> /\ memory' = NewAddrSpace(memory, s)
        /\ thread' = [thread EXCEPT ![t] = [@ EXCEPT !.pc = "user", !.space = s, !.stack = FirstStack]]
        /\ version' = [version EXCEPT ![s] = FirstVersions]
  BY DEF kernel_exec
<1>2. currentThread = t /\ thread[t].pc = "kernel_exec" /\ UNCHANGED <<currentThread, calls>>
  BY DEF kernel_exec, At
<1>3. thread[t] \in Thread /\ DOMAIN thread = Threads
  BY DEF IInv, TypesRight
<1>4. /\ thread'[t].pc = "user" /\ thread'[t].space = s /\ thread'[t].stack = FirstStack
      /\ \A u \in Threads \ {t} : thread'[u] = thread[u]
  BY <1>1, <1>3 DEF Thread
<1>5. /\ Right(memory, thread[t].space, version) /\ StacksRight(memory, thread) /\ memory \in Memory
      /\ version \in [Spaces -> Seq({-1, 0, 1})] /\ calls \in [Fork : 0..MaxForks, Exec : 0..MaxExecs]
  BY <1>2, RightNow
<1>6. Right(memory, s, version)
  BY <1>2, <1>5, NoSpaceRight, MemoryAssumption DEF IInv, ThreadsHaveSpaces
<1>7. /\ Right(memory', s, version') /\ EntriesAdded(memory, memory', s)
      /\ DOMAIN memory'.pageTable[s] = 1..(numNonStackPages + StackPages)
  BY <1>1, <1>5, <1>6, NewAddrSpaceRight, FirstPages
<1>8. Usable(memory', thread'[t])
  BY <1>1, <1>4, <1>7, FirstUsable
<1>9. StacksRight(memory', thread')
  <2>1. \A u \in Threads : Uses(thread[u]) => thread[u].space \in Spaces
    BY UsersHaveSpaces
  <2>2. thread'[t].stack \cap DOMAIN memory.pageTable[s] = {}
    BY <1>1
  <2> QED
    BY <1>4, <1>5, <1>7, <1>8, <2>1, <2>2, AddedStacks
<1>10. version' \in [Spaces -> Seq({-1, 0, 1})]
  BY <1>1, <1>5, FirstPages, VersionType
<1>11. memory' \in Memory
  BY <1>7 DEF Right, Accounted
<1> QED
  BY <1>2, <1>4, <1>5, <1>7, <1>9, <1>10, <1>11, MemoryStep

\* A space gives pages back: a thread that uses none of them, or is in another space,
\* has its pages as they were.
LEMMA DroppedUsable ==
  ASSUME NEW m, NEW n, NEW s \in Spaces, NEW pages, EntriesDropped(m, n, s, pages),
         NEW th, th.space \in Spaces, Usable(m, th), th.space = s => Own(th) \cap pages = {}
  PROVE  Usable(n, th)
<1>1. CASE th.space # s
  BY <1>1 DEF EntriesDropped, Usable
<1>2. CASE th.space = s
  <2>1. \A vpn \in Own(th) : vpn \in DOMAIN n.pageTable[s] /\ n.pageTable[s][vpn] = m.pageTable[s][vpn]
    BY <1>2 DEF EntriesDropped, Usable
  <2> QED
    BY <1>2, <2>1 DEF Usable
<1> QED
  BY <1>1, <1>2

LEMMA DroppedStacks ==
  ASSUME NEW m, NEW n, NEW th, NEW new, NEW s \in Spaces, NEW pages, NEW u \in Threads,
         StacksRight(m, th), EntriesDropped(m, n, s, pages),
         \A t \in Threads : Uses(th[t]) => th[t].space \in Spaces,
         \A t \in Threads \ {u} : new[t] = th[t], ~Uses(new[u]),
         \A t \in Threads \ {u} : Uses(th[t]) /\ th[t].space = s => Own(th[t]) \cap pages = {}
  PROVE  StacksRight(n, new)
<1>1. ASSUME NEW t \in Threads, Uses(new[t]) PROVE Usable(n, new[t])
  <2>1. t # u /\ new[t] = th[t]
    BY <1>1
  <2>2. th[t].space \in Spaces /\ Usable(m, th[t]) /\ (th[t].space = s => Own(th[t]) \cap pages = {})
    BY <1>1, <2>1 DEF StacksRight
  <2> QED
    BY <2>1, <2>2, DroppedUsable
<1>2. ASSUME NEW t \in Threads, NEW v \in Threads, t # v, Uses(new[t]), Uses(new[v])
      PROVE  Apart(new[t], new[v])
  BY <1>2 DEF StacksRight
<1> QED
  BY <1>1, <1>2 DEF StacksRight

\* The last thread of a process is the only one that uses its space.
LEMMA OnlyUser ==
  ASSUME IInv, NEW t \in Threads, thread[t].pc = "user", NEW s, s = thread[t].space, ~OtherThreads(s)
  PROVE  \A u \in Threads \ {t} : ~(Uses(thread[u]) /\ thread[u].space = s)
<1>1. s \in Spaces /\ t \in Using(s)
  BY DEF IInv, ThreadsHaveSpaces, Using
<1>2. Cardinality(Using(s)) \in Nat /\ Cardinality(ForkingIn(s)) \in Nat /\ Cardinality(Using(s)) # 0
  BY <1>1, AreThreads, Counting
<1>3. ProcessTable[s] = 1
  BY <1>1, UserCounted DEF IInv, OtherThreads
<1>4. Cardinality(Using(s)) = 1
  BY <1>1, <1>2, <1>3 DEF IInv, ThreadsCounted
<1>5. Using(s) = {t}
  BY <1>1, <1>4, AreThreads, Counting
<1> QED
  BY <1>5 DEF Using, Uses

LEMMA ExitMemory ==
  ASSUME IInv, MInv, NEW t \in Threads, Exit_Syscall(t)
  PROVE  MInv'
<1>0. PICK s : s = thread[t].space
  OBVIOUS
<1>1. PICK stack : stack = thread[t].stack
  OBVIOUS
<1>2. currentThread = t /\ thread[t].pc = "user" /\ UNCHANGED calls /\ Uses(thread[t])
  BY DEF Exit_Syscall, At, Uses
<1>3. s \in Spaces
  BY <1>0, <1>2, UsersHaveSpaces
<1>4. /\ Right(memory, s, version) /\ StacksRight(memory, thread) /\ memory \in Memory
      /\ version \in [Spaces -> Seq({-1, 0, 1})] /\ calls \in [Fork : 0..MaxForks, Exec : 0..MaxExecs]
  BY <1>0, <1>2, RightNow
<1>5. \A u \in Threads : Uses(thread[u]) => thread[u].space \in Spaces
  BY UsersHaveSpaces
<1>6. ASSUME Goto(t, "exiting")
      PROVE  thread'[t].space = s /\ ~Uses(thread'[t]) /\ \A u \in Threads \ {t} : thread'[u] = thread[u]
  <2>1. thread'[t].pc = "exiting" /\ thread'[t].space = s /\ \A u \in Threads \ {t} : thread'[u] = thread[u]
    BY <1>0, <1>6, GotoType DEF IInv
  <2> QED
    BY <2>1 DEF Uses
<1>7. CASE OtherThreads(s)
  <2>1. /\ memory' = ExitSpace(memory, s, stack) /\ Goto(t, "exiting") /\ UNCHANGED currentThread
        /\ version' = [version EXCEPT ![s] = [vpn \in DOMAIN @ |-> IF vpn \in stack THEN -1 ELSE @[vpn]]]
    BY <1>0, <1>1, <1>7 DEF Exit_Syscall
  <2>2. stack \in SUBSET DOMAIN memory.pageTable[s] /\ stack \cap 1..numNonStackPages = {}
    BY <1>0, <1>1, <1>2, <1>4 DEF StacksRight, Usable, Own
  <2>3. Right(memory', s, version') /\ EntriesDropped(memory, memory', s, stack)
    <3>1. Right(memory', s, Forgotten(version, s, stack)) /\ EntriesDropped(memory, memory', s, stack)
      BY <1>3, <1>4, <2>1, <2>2, ExitSpaceRight
    <3>2. version' = Forgotten(version, s, stack)
      BY <2>1 DEF Forgotten
    <3> QED
      BY <3>1, <3>2
  <2>4. ASSUME NEW u \in Threads \ {t}, Uses(thread[u]), thread[u].space = s PROVE Own(thread[u]) \cap stack = {}
    <3>1. Apart(thread[t], thread[u])
      BY <1>2, <1>4, <2>4 DEF StacksRight
    <3> QED
      BY <1>0, <1>1, <2>2, <2>4, <3>1 DEF Apart, Own
  <2>5. StacksRight(memory', thread')
    <3>1. ~Uses(thread'[t]) /\ \A u \in Threads \ {t} : thread'[u] = thread[u]
      BY <1>6, <2>1
    <3> QED
      BY <1>3, <1>4, <1>5, <2>3, <2>4, <3>1, DroppedStacks
  <2>6. version' \in [Spaces -> Seq({-1, 0, 1})]
    <3>1. PICK q \in Seq({-1, 0, 1}) : q = version[s]
      BY <1>3, <1>4
    <3> DEFINE new == [vpn \in DOMAIN q |-> IF vpn \in stack THEN -1 ELSE q[vpn]]
    <3>2. DOMAIN q = 1..Len(q) /\ Len(q) \in Nat
      BY <3>1
    <3>3. new \in [1..Len(q) -> {-1, 0, 1}]
      BY <3>1, <3>2
    <3>4. version' = [version EXCEPT ![s] = new]
      BY <1>3, <2>1, <3>1
    <3> HIDE DEF new
    <3>5. new \in Seq({-1, 0, 1})
      BY <3>2, <3>3
    <3> QED
      BY <1>3, <1>4, <3>4, <3>5, VersionType
  <2>7. memory' \in Memory
    BY <2>3 DEF Right, Accounted
  <2> QED
    BY <1>2, <1>4, <1>6, <2>1, <2>3, <2>5, <2>6, <2>7, MemoryStep
<1>8. CASE ~OtherThreads(s) /\ LastOfAll(s)
  BY <1>0, <1>2, <1>4, <1>8, MemoryStep DEF Exit_Syscall, Running
<1>9. CASE ~OtherThreads(s) /\ ~LastOfAll(s)
  <2>1. PICK fifo \in EraseResults(memory.pageTable[s], memory.FIFOList) :
          /\ memory' = DeleteSpace(memory, s, fifo) /\ Goto(t, "exiting") /\ UNCHANGED currentThread
          /\ version' = [version EXCEPT ![s] = <<>>]
    BY <1>0, <1>9 DEF Exit_Syscall
  <2>2. PICK pages : pages = DOMAIN memory.pageTable[s]
    OBVIOUS
  <2>3. Right(memory', s, version') /\ EntriesDropped(memory, memory', s, pages)
    BY <1>3, <1>4, <2>1, <2>2, DeleteSpaceRight
  <2>4. \A u \in Threads \ {t} : ~(Uses(thread[u]) /\ thread[u].space = s)
    BY <1>0, <1>2, <1>9, OnlyUser
  <2>5. StacksRight(memory', thread')
    <3>1. ~Uses(thread'[t]) /\ \A u \in Threads \ {t} : thread'[u] = thread[u]
      BY <1>6, <2>1
    <3> QED
      BY <1>3, <1>4, <1>5, <2>3, <2>4, <3>1, DroppedStacks
  <2>6. version' \in [Spaces -> Seq({-1, 0, 1})]
    <3>1. <<>> \in Seq({-1, 0, 1})
      OBVIOUS
    <3> QED
      BY <1>3, <1>4, <2>1, <3>1, VersionType
  <2>7. memory' \in Memory
    BY <2>3 DEF Right, Accounted
  <2> QED
    BY <1>2, <1>4, <1>6, <2>1, <2>3, <2>5, <2>6, <2>7, MemoryStep
<1> QED
  BY <1>7, <1>8, <1>9

NoVersions == [s \in Spaces |-> <<>>]

LEMMA NewMemoryRight ==
  ASSUME NEW space
  PROVE  Right(NewMemory, space, NoVersions) /\ NoVersions \in [Spaces -> Seq({-1, 0, 1})]
<1>1. PICK m : m = NewMemory
  OBVIOUS
<1>2. /\ IsRecord(m) /\ m.mainMemory = [f \in Frames |-> Garbage] /\ m.swapFile = [p \in SwapPages |-> Garbage]
      /\ m.tlb = [i \in 1..TLBSize |-> NoTranslation] /\ m.currentTLB = 1
      /\ m.IPT = [f \in Frames |-> NoIPTEntry] /\ m.FIFOList = <<>> /\ m.pageTableBitMap = {}
      /\ m.swapBitMap = {} /\ m.pageTable = [s \in Spaces |-> <<>>] /\ m.stopped = "no"
  BY <1>1 DEF NewMemory, IsRecord
<1>3. NoTranslation \in TranslationEntry /\ ~NoTranslation.valid
  BY DEF NoTranslation, TranslationEntry
<1>4. NoIPTEntry \in IPTEntry /\ ~NoIPTEntry.valid
  BY DEF NoIPTEntry, IPTEntry
<1>5. 1 \in 1..TLBSize
  BY Sizes
<1>6. FieldsTyped(m)
  <2>1. Garbage \in Contents
    BY DEF Contents
  <2> QED
    BY <1>2, <1>3, <1>4, <1>5, <2>1 DEF FieldsTyped
<1>7. m \in Memory
  BY <1>2, <1>6, MemoryIs
<1>8. \A f \in Frames : ~m.IPT[f].valid
  BY <1>2, <1>4
<1>9. \A i \in 1..TLBSize : ~m.tlb[i].valid
  BY <1>2, <1>3
<1>10. \A s \in Spaces : DOMAIN m.pageTable[s] = {}
  BY <1>2
<1>11. BitsRight(m, {}) /\ FramesOwned(m) /\ PagesMapped(m) /\ SlotsOwned(m) /\ PagesSwapped(m)
  BY <1>2, <1>8, <1>10 DEF BitsRight, FramesOwned, PagesMapped, SlotsOwned, PagesSwapped
<1>12. QueueLong(m)
  BY <1>2, FS_EmptySet DEF QueueLong
<1>13. TLBRight(m, space)
  BY <1>9 DEF TLBRight
<1>14. PagesRight(m, NoVersions)
  BY <1>10 DEF PagesRight, NoVersions
<1>15. NoVersions \in [Spaces -> Seq({-1, 0, 1})]
  BY DEF NoVersions
<1>16. Right(m, space, NoVersions)
  BY <1>2, <1>7, <1>11, <1>12, <1>13, <1>14 DEF Right, Accounted
<1> QED
  BY <1>1, <1>15, <1>16

LEMMA InitMemory == Init => MInv
<1>1. SUFFICES ASSUME Init PROVE MInv
  OBVIOUS
<1>2. PICK t \in Threads, s \in Spaces : StartProcess(t, s)
  BY <1>1 DEF Init
<1>3. PICK m : m = NewMemory
  OBVIOUS
<1>4. memory = NewAddrSpace(m, s) /\ m.pageTable[s] = <<>>
  <2>1. NewMemory.pageTable[s] = <<>>
    BY DEF NewMemory
  <2> QED
    BY <1>2, <1>3, <2>1 DEF StartProcess
<1>5. /\ thread[t].space = s /\ thread[t].stack = FirstStack /\ currentThread = t
      /\ \A u \in Threads \ {t} : thread[u].pc = "unused"
  BY <1>2 DEF StartProcess, Unused
<1>6. version = [NoVersions EXCEPT ![s] = Known]
  BY <1>2, FirstPages DEF StartProcess, NoVersions
<1>7. Right(m, s, NoVersions) /\ NoVersions \in [Spaces -> Seq({-1, 0, 1})]
  BY <1>3, NewMemoryRight
<1>8. /\ Right(memory, s, version) /\ EntriesAdded(m, memory, s)
      /\ DOMAIN memory.pageTable[s] = 1..(numNonStackPages + StackPages)
  BY <1>4, <1>6, <1>7, NewAddrSpaceRight
<1>9. Usable(memory, thread[t])
  BY <1>4, <1>5, <1>8, FirstUsable
<1>10. StacksRight(memory, thread)
  BY <1>5, <1>9 DEF StacksRight, Uses
<1>11. version \in [Spaces -> Seq({-1, 0, 1})]
  BY <1>6, <1>7, FirstPages, VersionType
<1>12. calls \in [Fork : 0..MaxForks, Exec : 0..MaxExecs]
  BY <1>1, ProcessAssumption DEF Init
<1>13. memory \in Memory
  BY <1>8 DEF Right, Accounted
<1> QED
  BY <1>5, <1>8, <1>10, <1>11, <1>12, <1>13 DEF MInv

LEMMA StepMemory == IInv /\ MInv /\ [Next]_vars => MInv'
<1> SUFFICES ASSUME IInv, MInv, [Next]_vars PROVE MInv'
  OBVIOUS
<1>1. CASE UNCHANGED vars
  BY <1>1 DEF vars, MInv, Running
<1>2. CASE Next
  <2>1. PICK t \in Threads :
          \/ TimeSlice(t) \/ Finish(t) \/ OneInstruction(t) \/ copyin(t) \/ Read_Syscall(t) \/ Yield_Syscall(t)
          \/ Fork_Syscall(t) \/ ForkThread(t) \/ kernel_thread(t)
          \/ Exec_Syscall(t) \/ ExecThread(t) \/ kernel_exec(t) \/ Exit_Syscall(t)
    BY <1>2 DEF Next
  <2>2. CASE TimeSlice(t) \/ Finish(t) \/ OneInstruction(t) \/ copyin(t) \/ Read_Syscall(t) \/ Yield_Syscall(t)
    BY <2>2, TimeSliceMemory, FinishMemory, OneInstructionMemory, copyinMemory, ReadMemory, YieldSyscallMemory
  <2>3. CASE Fork_Syscall(t) \/ ForkThread(t) \/ kernel_thread(t)
    BY <2>3, ForkSyscallMemory, ForkThreadMemory, kernel_threadMemory
  <2>4. CASE Exec_Syscall(t) \/ ExecThread(t) \/ kernel_exec(t) \/ Exit_Syscall(t)
    BY <2>4, ExecSyscallMemory, ExecThreadMemory, kernel_execMemory, ExitMemory
  <2> QED
    BY <2>1, <2>2, <2>3, <2>4
<1> QED
  BY <1>1, <1>2

\* The virtual memory stays right whatever threads fork, execute, exit and give way:
\* the page tables, the IPT and the bit maps agree, the TLB shows the running space,
\* and every page that is known is where its entry says.
THEOREM MemoryInvariance == Spec => []MInv
<1>1. Init => MInv
  BY InitMemory
<1>2. IInv /\ MInv /\ [Next]_vars => MInv'
  BY StepMemory
<1> QED
  BY <1>1, <1>2, ProcessInvariance, PTL DEF Spec

\* TypeOK holds in every reachable state: no frame, page of the swap file, TLB index or
\* count leaves its range.
THEOREM TypesStay == Spec => []TypeOK
<1>1. IInv /\ MInv => TypeOK
  BY DEF IInv, TypesRight, MInv, TypeOK
<1> QED
  BY <1>1, ProcessInvariance, MemoryInvariance, PTL

LEMMA RightIsCoherent == MInv => Coherent
<1> SUFFICES ASSUME MInv, Running PROVE Coherent
  BY DEF Coherent
<1>1. Right(memory, thread[currentThread].space, version)
  BY DEF MInv
<1>2. ASSUME NEW s \in Spaces, NEW vpn \in DOMAIN version[s], version[s][vpn] # -1
      PROVE  Stored(s, vpn) = <<s, vpn, version[s][vpn]>>
  <2>1. PageRight(memory, s, vpn, version[s][vpn])
    BY <1>1, <1>2 DEF Right, PagesRight
  <2> QED
    BY <2>1 DEF PageRight, Stored, IsAt
<1>3. ASSUME NEW i \in 1..TLBSize, memory.tlb[i].valid
      PROVE  LET e == memory.tlb[i]
             IN  /\ memory.IPT[e.physicalPage].valid
                 /\ memory.IPT[e.physicalPage].PID = thread[currentThread].space
                 /\ memory.IPT[e.physicalPage].virtualPage = e.virtualPage
  BY <1>1, <1>3 DEF Right, TLBRight
<1> QED
  BY <1>2, <1>3 DEF Coherent

\* Coherent holds in every reachable state: no write is lost and no page is mixed up with
\* another, for any size of main memory, TLB and swap file and either eviction policy.
THEOREM PagesCoherent == Spec => []Coherent
  BY RightIsCoherent, MemoryInvariance, PTL

\* QueueCoversMemory holds in every reachable state: ~AddrSpace, which may leave the
\* frames of its space in the queue and erase others, never erases more than it frees.
THEOREM QueueCovers == Spec => []QueueCoversMemory
<1>1. MInv => QueueCoversMemory
  BY DEF MInv, Right, QueueLong, QueueCoversMemory
<1> QED
  BY <1>1, MemoryInvariance, PTL

LEMMA RightIsAccounted == MInv => FramesAccounted
<1> DEFINE pages(location) ==
             UNION {{s} \X In(memory.pageTable[s], DOMAIN memory.pageTable[s], location) : s \in Spaces}
           frame(p) == memory.pageTable[p[1]][p[2]].physicalPage
           slot(p) == memory.pageTable[p[1]][p[2]].byteOffset
<1> SUFFICES ASSUME MInv, Running
             PROVE  /\ memory.pageTableBitMap = {f \in Frames : memory.IPT[f].valid}
                    /\ memory.pageTableBitMap = {frame(p) : p \in pages("MAIN")}
                    /\ \A p \in pages("MAIN") : /\ memory.IPT[frame(p)].PID = p[1]
                                                /\ memory.IPT[frame(p)].virtualPage = p[2]
                    /\ memory.swapBitMap = {slot(p) : p \in pages("SWAP")}
                    /\ \A p, q \in pages("SWAP") : slot(p) = slot(q) => p = q
  BY DEF FramesAccounted
<1>1. Accounted(memory, {})
  BY DEF MInv, Right
<1>2. memory.pageTableBitMap = {f \in Frames : memory.IPT[f].valid}
  BY <1>1 DEF Accounted, BitsRight
<1>3. ASSUME NEW location
      PROVE  /\ \A p \in pages(location) : /\ p[1] \in Spaces /\ p[2] \in DOMAIN memory.pageTable[p[1]]
                                           /\ IsAt(memory.pageTable[p[1]][p[2]], location) /\ p = <<p[1], p[2]>>
             /\ \A s \in Spaces : \A vpn \in DOMAIN memory.pageTable[s] :
                  IsAt(memory.pageTable[s][vpn], location) => <<s, vpn>> \in pages(location)
  BY DEF In, IsAt
<1> HIDE DEF pages
<1>4. ASSUME NEW p \in pages("MAIN")
      PROVE  /\ frame(p) \in Frames /\ memory.IPT[frame(p)].valid
             /\ memory.IPT[frame(p)].PID = p[1] /\ memory.IPT[frame(p)].virtualPage = p[2]
  <2>0. PICK s, vpn : s = p[1] /\ vpn = p[2]
    OBVIOUS
  <2>1. s \in Spaces /\ vpn \in DOMAIN memory.pageTable[s] /\ IsAt(memory.pageTable[s][vpn], "MAIN")
    BY <1>3, <2>0
  <2>2. PagesMapped(memory)
    BY <1>1 DEF Accounted
  <2>3. PICK f : f = memory.pageTable[s][vpn].physicalPage
    OBVIOUS
  <2>4. f \in Frames /\ memory.IPT[f].valid /\ memory.IPT[f].PID = s /\ memory.IPT[f].virtualPage = vpn
    BY <2>1, <2>2, <2>3 DEF PagesMapped, OnFrame
  <2> QED
    BY <2>0, <2>3, <2>4
<1>5. ASSUME NEW f \in Frames, memory.IPT[f].valid PROVE \E p \in pages("MAIN") : frame(p) = f
  <2>1. PICK s, vpn : s = memory.IPT[f].PID /\ vpn = memory.IPT[f].virtualPage
    OBVIOUS
  <2>2. /\ s \in Spaces /\ vpn \in DOMAIN memory.pageTable[s]
        /\ IsAt(memory.pageTable[s][vpn], "MAIN") /\ memory.pageTable[s][vpn].physicalPage = f
    BY <1>1, <1>5, <2>1 DEF Accounted, FramesOwned
  <2>3. <<s, vpn>> \in pages("MAIN") /\ frame(<<s, vpn>>) = f
    BY <1>3, <2>2
  <2> QED
    BY <2>3
<1>6. memory.pageTableBitMap = {frame(p) : p \in pages("MAIN")}
  <2> HIDE DEF frame
  <2>1. \A f \in memory.pageTableBitMap : \E p \in pages("MAIN") : frame(p) = f
    BY <1>2, <1>5
  <2>2. \A p \in pages("MAIN") : frame(p) \in memory.pageTableBitMap
    BY <1>2, <1>4
  <2> QED
    BY <2>1, <2>2
<1>7. ASSUME NEW p \in pages("SWAP")
      PROVE  /\ slot(p) \in memory.swapBitMap
             /\ \A q \in pages("SWAP") : slot(p) = slot(q) => p = q
  <2>1. \A q \in pages("SWAP") : /\ q[1] \in Spaces /\ q[2] \in DOMAIN memory.pageTable[q[1]]
                                 /\ IsAt(memory.pageTable[q[1]][q[2]], "SWAP") /\ q = <<q[1], q[2]>>
    BY <1>3
  <2>2. PagesSwapped(memory)
    BY <1>1 DEF Accounted
  <2>3. slot(p) \in memory.swapBitMap
    BY <2>1, <2>2 DEF PagesSwapped
  <2>4. ASSUME NEW q \in pages("SWAP"), slot(p) = slot(q) PROVE p = q
    <3>1. q[1] = p[1] /\ q[2] = p[2]
      BY <2>1, <2>2, <2>4 DEF PagesSwapped
    <3>2. p = <<p[1], p[2]>> /\ q = <<q[1], q[2]>>
      BY <2>1
    <3> QED
      BY <3>1, <3>2
  <2> QED
    BY <2>3, <2>4
<1>8. ASSUME NEW b \in memory.swapBitMap PROVE \E p \in pages("SWAP") : slot(p) = b
  <2>0. PICK s \in Spaces : \E vpn \in DOMAIN memory.pageTable[s] :
          IsAt(memory.pageTable[s][vpn], "SWAP") /\ memory.pageTable[s][vpn].byteOffset = b
    BY <1>1 DEF Accounted, SlotsOwned
  <2>1. PICK vpn \in DOMAIN memory.pageTable[s] :
          IsAt(memory.pageTable[s][vpn], "SWAP") /\ memory.pageTable[s][vpn].byteOffset = b
    BY <2>0
  <2>2. <<s, vpn>> \in pages("SWAP") /\ slot(<<s, vpn>>) = b
    BY <1>3, <2>1
  <2> QED
    BY <2>2
<1>9. memory.swapBitMap = {slot(p) : p \in pages("SWAP")}
  BY <1>7, <1>8
<1> QED
  BY <1>2, <1>4, <1>6, <1>7, <1>9

\* FramesAccounted holds in every reachable state: no frame and no page of the swap file
\* is leaked or shared by the evictions, the exits and the deletions of spaces.
THEOREM FramesStayAccounted == Spec => []FramesAccounted
  BY RightIsAccounted, MemoryInvariance, PTL
=============================================================================
