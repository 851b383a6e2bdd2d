# A TLA+ verification of the 402 Nachos network servers and kernel

The repository is a Nachos operating system (C++) extended with a distributed
service: up to five server machines keep locks, condition variables (CVs) and
monitor variables (MVs, shared integer arrays), and the system calls of user
programs on any number of client machines reach them over the simulated network.
Below that are demand-paged virtual memory, processes and the kernel's
synchronization; above it, and in an earlier version inside the kernel, runs a
passport office simulation. All paths below are relative to
`src/nachos-csci402/code/`.

## Inventory

| Part | Code | State | Operations | Hard behaviour |
|---|---|---|---|---|
| Network server | `network/nettest.cc` | `serverLocks`, `serverCVs`, `serverMVs` with bitmaps; `pendingRequests` | 13 message types, each as a client's call, a server's request, a server's reply | requests forwarded between servers, concurrent creation of one name, answers that cross |
| Client system calls | `userprog/exception.cc` 875-1465 | mailbox of the thread | 13 system calls, to a random server | Release and Destroy do not wait; the first message in the mailbox is taken for the answer |
| Post office, network | `network/post.cc`, `machine/network.cc` | mailboxes, `sendLock`, two semaphores, one packet each way | Send, Receive, PostalDelivery, interrupts | interrupts against threads, lost packets (`-l`), size assertions |
| Kernel synchronization | `threads/synch.cc`, `synchlist.cc` | value/owner/`waitingLock` and queues | P, V, Acquire, Release, Wait, Signal, Broadcast | interrupts off, hand-off, Broadcast outside its critical section |
| Threads, scheduler | `threads/thread.cc`, `scheduler.cc` | ready list, thread status | Fork, Yield, Sleep, Finish, ReadyToRun | thread destroyed by its successor |
| Kernel lock/CV tables | `exception.cc` 519-875 (no NETWORK) | `lockTable`, `conditionTable`, bitmaps | create, destroy, use | destroy while in use |
| Processes | `exception.cc` 251-417, `threads/system.cc` 40-90 | process table, thread counts, `execCalled` | Fork, Exec, Exit | last thread of the last process; a Fork or Exec under way while others exit |
| Virtual memory | `exception.cc` 1528-1748, `userprog/addrspace.cc`, `machine/translate.cc` | TLB, IPT, page tables, swap bitmap, `FIFOList` | TLB miss, IPT miss, eviction, fork, exit, context switch | dirty bits in three places, frames freed while queued |
| Passport office, threads | `threads/proj1Part2.cc` | line counts and states of the clerks, data at the counters, filed documents, who is inside | customer, senator, four kinds of clerks, manager | lines that a manager may wake at any time, breaks, senators who need the office to themselves |
| Passport office, user programs | `test/P*.c`, `test/passportSetup.h`, `test/PreNetworkingPassportOffice.c` | the same over system calls | the same | the same |
| Console, file system, machine simulator, tools | `userprog/synchconsole.cc`, `filesys/`, `machine/`, `bin/` | devices | I/O | base Nachos, not this project's logic |

**How the parts interact.** A client thread's system call formats a message and
sends it to mailbox 0 of one of the machines 0-4 (`clientSendMail` retries other
machines until a send succeeds). The server handles a call itself if the object's
id or name is its own; otherwise it stores a `PendingRequest` and sends it to every
other running server. A server that is asked answers YES (and does the operation,
sending the result to the client itself) or NO. When every server has said NO the
first one does the operation: for a creation that makes the object, for the others
it reports that there is no such object. Calls of one client and answers of
several servers travel independently; only the mail from one machine to another
keeps its order.

In the kernel a page fault enters `handleTLBMiss`, which looks in the IPT, and on
a miss `handleIPTmiss`, which takes a free frame or evicts one. Every context switch
calls `SaveState` of the old thread's space, which empties the TLB. Fork, Exec and Exit
change the process table, and Exit frees stack pages or the whole space. In the
passport office a person stands in a line of a clerk (under the line lock of the
kind), is called, and then talks to the clerk through a monitor of the clerk's
own; the manager looks at all lines and at the doors.

**What makes each part correct.** The server: a lock excludes; nobody is left in a
queue that nobody serves; one object per kind and name; an id is valid from the
create to the last destroy; each call gets exactly one result, and calls that need
not wait return. Post office: mailboxes are reliable and FIFO, sends do not
overlap. Kernel synchronization: the usual monitor properties, no lost wake-up.
Virtual memory: wherever a page is, it holds what was last written at that virtual
address; frames and swap pages have one owner each; the eviction queue is not empty
when memory is full. Processes: a space outlives its threads, and the machine
halts exactly when the last thread exits. Passport office: one person at a counter,
whose SSN the clerk goes by; a line is always open; papers come in order; a senator
is alone; everyone leaves with a passport.

## Modules

- `ServerObjects`: one server's state as a record, and every `serverDo...`,
  routing and reply function as an operator on it.
- `NetServer`: the system: servers, mailboxes, clients; the properties.
- `MCNetServer`: sets of calls for TLC, and the symmetry of the clients.
- `NetServerProofs`: theorems for every value of the constants.
- `SynchPrims`: the kernel's locks, condition variables and semaphores as
  operators on the state of the kernel.
  `SynchPrimsProofs`: lemmas about them, for whatever program uses them.
- `Synch`: threads that call them in any order; `MCSynch`, its instances;
  `SynchProofs`, its theorems.
- `Mailboxes`: what the post office promises, mailboxes that are queues.
- `PostOffice`: Send, Receive, the postal worker and the network's interrupts over
  `SynchPrims`, shown to implement `Mailboxes`; `MCPostOffice`, its instance;
  `PostOfficeProofs`, its theorems, and `MailboxesProofs`, the refinement.
- `VirtualMemory`: the TLB, IPT, page tables, swap file and eviction queue as a
  record, and the functions of the page fault handler and of `AddrSpace` as
  operators on it. `VirtualMemoryProofs`: lemmas about them, for whatever program uses
  them.
- `Processes`: threads that run programs, fork, exec, exit and are preempted, over
  `VirtualMemory`; `MCProcesses`, its instances; `ProcessesProofs`, its theorems.
- `PassportOffice`: the simulation of `proj1Part2.cc`; `MCPassportOffice`, its
  instances; `PassportOfficeProofs`, its theorems.

The layers meet in `Mailboxes`: `PostOffice` implements it from the kernel's
primitives, and `NetServer` is written on top of it, with `mail` and `inbox` as its
mailboxes. `PassportOffice` takes the monitors it is built on as what `Synch` shows
them to be: a critical section is one step and Signal wakes the first in the queue.

### State and code

`srv[s]` is a server: `locks`, `cvs`, `mvs` are its tables (`size` entries of the
vector, the bitmap `bits`, the entries `slot`), `pending` is `pendingRequests`,
`nextReq` is `pendingRequestCount`, `out` the mail the current handler has still to
send, `loop` the rest of a loop of the handler. `mail[s]` is mailbox 0 of server
`s`; `inbox[c]` is the mailbox of client thread `c`; `call[c]` is the system call
`c` is in. `handle[c][n]` is the id the program got for name `n`; the programs
address objects by ids they were given. `holds` and `refs` are history variables
that only the properties and the discipline below read.

In `Synch` and `PostOffice`, `k` holds the kernel: `lock[l]` with `state`, `owner` and
`queue` (`lockState`, `lockOwner`, `queue`), `cond[c]` with `waitingLock` and `queue`,
`sem[s]` with `value` and `queue`, and `blocked`, the threads with status `BLOCKED`.
`pc[t]` is where thread `t` is inside an operation. `inside[t]` is a history variable
of `Synch`: the locks whose `Acquire` or `Wait` has returned. In `PostOffice`,
`list[u]` is the `SynchList` of mailbox `u`, `socket[m]` the Unix socket of machine
`m`, `inbox[m]` the packet in its device (`inHdr.length` 0 is `NULL`), `due[m]` the
`SendDone` interrupts scheduled.

In `Processes`, `memory` is the record of `VirtualMemory`, whose fields have the names
of the variables (`tlb`, `IPT`, `pageTable` of each space, `pageTableBitMap`,
`swapBitMap`, `swapFile`, `mainMemory`, `FIFOList`, `currentTLB`; `stopped` is whether
the machine was halted or aborted). `thread[t]` has where the thread is in a system
call, its space and its stack pages; `currentThread` and `readyList` are the
scheduler's; `ProcessTable[s]` is the thread count of the process whose space is `s`.
`version[s][vpn]` is a history variable: whether the program has written the page,
and -1 once the code gives no contents to it. The contents of a page are a
space, a page number and a version; `Garbage` stands for anything else.

In `PassportOffice`, `person[p]` has the locals of Customer or Senator: where it is
between two critical sections, the line it stands in, its money, and the errands
left. `clerk[c]` is the same for a clerk, `counter[c]` what is shared about it: its
state, the counts and queues of its two lines, its condition variable and the data
at its counter. `breakCV`, `office`, `filed` and `manager` are the break conditions,
what `managerLock` protects, the arrays of filed documents and the manager's place in
its loop.

### Actions and atomicity

`ClientCall` is a system call up to the end of `clientSendMail`; `ClientReturn` is
the rest. One action per message type (`CreateLock`, `Acquire`, ... `Get`) is a
whole branch of `Server()`; its mail goes to `out` and leaves one `sendMail` at a
time (`ServerSend`), because `Send` blocks and other machines run meanwhile. A
server is one thread: it takes the next message only when `out` is empty and no
loop is left. `BroadcastLoop` and `Create...Loop` are the rounds of the two loops
around a `sendMail`.

The kernel's operations run with interrupts off, so each is one step up to the
point where the thread sleeps (`AcquireCall`, `WaitCall`, `PCall`...), and another when
it is run again (`AcquireReturn`, `WaitReturn`, `PRound`). The loop of `Broadcast` runs
with interrupts on: one step per round. A thread is switched only where interrupts
are enabled again, and there any ready thread may be next; `PostOffice` therefore
takes `list->Append` and `Signal` in one step, and a network interrupt
(`SendDone`, `CheckPktAvail`) may come between any two.

In `Processes`, one step is what the running thread does until interrupts are
enabled, and a time slice may come after any. `OneInstruction` is an access that
hits the TLB or one whole page fault, which `handleTLBMiss` handles with interrupts
off; the access is tried again afterwards, and a switch in between may have emptied
the TLB. Each system call is one step per stretch
between two points where the thread may lose the processor (`Fork_Syscall`, `ForkThread`,
`kernel_thread`; `Exec_Syscall`, `copyin`, `ExecThread`, `kernel_exec`). A lock held for one
assignment is part of the step of the assignment.

In `PassportOffice`, one step is a critical section: what a thread does under
`managerLock`, a line lock or a counter's lock, up to a Wait. A clerk's counter
lock shows where it is kept over Yields, while pictures and passports are filed;
the filing has at least 20 Yields, so that the customer, woken before, is in the
lock's queue by then and gets the lock from `Release` (`HandOverCounter`). In the same way
everyone the manager wakes under `managerLock` (senators let in, customers let back in)
has run before its next look (`WokenHaveRun`, a guard of the next round): the manager Yields
three times between rounds (proj1Part2.cc 1293-1295), the ready list is first in, first
out, a thread woken from Wait asks for the lock before interrupts are on again (synch.cc
212-213), and `Release` hands the lock on in the order it was asked for. Merged into
one step are a clerk's two looks at `managerLock` in a row, the manager's end-of-day
check with the senator check after it, and the four wake-up checks, each under its
own line lock. The Yield after a bribe is left out. A customer that is woken in line
uncalled and finds no senator goes on to the counter with an assignment outside any lock,
which `customerCheckSenator` takes together with the look under `managerLock`; by
`CountersStayInOrder` nobody is woken uncalled unless people are sent outside.

### What is abstracted

- Message text is a record. A reply carries the arguments of its request, as the
  text does. Name lengths and `MaxMailSize` are left out.
- `(char*) ss.str().c_str()` is a pointer into a freed string. Where it is used at
  once (almost everywhere) the text is taken to be intact, as it is in practice;
  where it is stored in a queue and sent later (`r->msg`, nettest.cc 783) the
  status is either value (`StoredReply`). A client that may have read TRUE counts
  as holding the lock.
- A result that has no value where a value is read leaves an `int` uninitialised:
  any id (`AnyId`).
- The network is reliable and ordered per receiving machine: Unix datagram sockets
  with the default `-l 1`. A send to a machine that is not running fails, so the
  set of servers is `Servers`, fixed (WRITEUP, assumption 4: a server does not
  terminate while user programs are running). The 500 attempts of `clientSendMail`
  are taken to find one of them.
- In the kernel, `Wait(NULL)`, destructors and debug output are left out. The order of
  the ready list is left open. In the post office, lengths and headers are left
  out; a mailbox has one receiver, its thread, as in the servers and the clients.
- `TableSize` is 100 in the code; 2 in `one_server_monitor`, where two names can fill the table
  of locks (no create comes after that), 1 in the other runs, where a kind has one name.
- A page is a value. An access is to any page of the thread's space; registers,
  instruction decoding, addresses beyond the space and the file calls are left out.
  Frames and swap pages that are freed are set to `Garbage`, so that a read of one
  shows. `copyin` repeats an access until it succeeds, so that the failure branches of
  Exec cannot be reached through it; `copyout` gives up at the first fault, as the
  code does.
- With `USEFIFO` FALSE the victim of an eviction is any frame, as with `-P RAND`, which
  includes every choice of the FIFO list.
- In the office, money matters only for who may bribe; the clerks' takings are
  written and printed only. Sleeping times, printing, the test menu and the loop over
  days are left out. `ClerkCount` and `LongLine` are parameters; the code has one
  number of clerks of each kind from the user and wakes a clerk at more than 3 waiting.

`Disciplined` restricts clients to what a monitor requires (`Proper`): release,
wait, signal with the lock held, no second acquire, use between create and
destroy. The runs about two servers need it for exclusion and ids, as the
programs follow it; `one_server_monitor` and `kernel_synch` run without.

## Runs

In every run threads and programs may stop: clients need not call, clerks may stay
on break for good (nobody wakes them at the end of the day), the machine halts.
Deadlock is therefore not checked; `NoLostCall`, `CallsReturn`, `LastExitHalts`,
`EveryoneLeaves` and the other liveness properties say what must not block.

| Run | Bounds | States | Shows |
|---|---|---|---|
| `one_server_monitor` | 1 server, 2 clients, 4 calls each on 2 locks and a CV, in any order | 1.7 M | exclusion, no forgotten waiter, one place per queue, at most one result per call and none lost, tables without gaps |
| `two_servers_mutex` | 2 servers, 2 clients, 3 calls each, disciplined, destroys included | 242,000 | one lock per name, valid ids, one result per call |
| `two_servers_calls` | 2 servers, 2 clients, 2 calls each that create a lock, a CV or an MV or use the MV, fair | 343,000 | one result per call; every call returns |
| `kernel_synch` | 4 threads, 2 locks, 1 condition, 1 semaphore up to 2, any calls, fair | 554,000 | exclusion, hand-off, consistent queues, no lost V; a Broadcast ends |
| `post_office` | 3 threads on 2 machines, 1 send each, loss, fair | 26,578 | mailboxes are queues; one send at a time; no empty read; Send returns, and mail that is not lost is received |
| `processes` | 2 spaces, 2 threads, 2 frames, 1 TLB entry, 2 swap pages, 1 page of the executable and 1 of stack per thread, 1 Fork, 1 Exec | 668,480 | no write lost, frames and swap pages accounted for, the queue covers memory, spaces outlive threads, the last exit halts |
| `passport_office` | 1 customer, 1 senator, one clerk of each kind, fair | 289,776 | papers in order, everyone leaves with a passport |
| `two_senators` | 1 customer, 2 senators, 2 picture clerks, fair | 95,048 | senators and customers apart; everyone leaves, with breaks |
| `clerk_lines` | 2 customers who may bribe once, 1 senator, 2 picture clerks | 822,574 | a line is open; one person at a counter and the right SSN |
| `release_overtaken`, `three_servers_create`, `stack_page_lost` | | | violations, see below |

**Servers.** Four calls let a client create, acquire, wait and release (or destroy) on one
server with contention from the other client, and fill and empty a table of two.
Two or three calls with two servers let a create race with a create, an acquire or
a destroy of the other client, with every order of forwarding; the fourth call is
what `release_overtaken` needs. Two clients suffice for contention and for a queue
of one; longer queues are covered by the proofs for the properties proved. The clients
are symmetric, except in the run with liveness, which uses no symmetry.

**Kernel.** Four threads let a queue hold two threads while one holds the lock and
another signals; two locks let every mismatch of lock and condition occur.
The semaphore's bound 2 leaves room for a V that is taken before the woken thread
runs. `BroadcastReturns` says that a thread stays in the loop of `Broadcast` only if,
again and again, the waiters wait with another lock or threads come to wait: a
Broadcast with another lock than the waiters' prints a message and loops
(synch.cc 243), where Wait and Signal return.

**Post office.** Two threads of one machine compete for `sendLock`, their packets meet in
the one-packet buffer and in the mailbox of the third, and one sends to its own machine.
The refinement `AreQueues` maps a mailbox to its list followed by the mail for it in
the worker's hands, in the device and in the socket; a lost packet, the interrupts
and the worker's steps are stuttering steps.

**Processes.** Two threads are enough for a process of two threads, for two processes, and
for an Exec whose new process is not yet in the table when its parent exits. Two
frames for up to four pages keep memory full, so that accesses evict pages of the
other process, dirty and clean, to a swap file that just holds them; a TLB of one entry
makes the dirty bit leave the TLB at every miss, and time slices do so at every
switch. Random eviction includes the FIFO victims.

**Passport office.** With one clerk of each kind every errand, punishment and senator round
occurs; the whole day ends under fairness. A cashier's rejection never does, here or with
more customers (`Certified`, below). `clerk_lines` has what one clerk
cannot show: breaks, the choice of a line and a bribe line, the broadcast of a line in
which two people stand, and a clerk that comes off its break. One kind is enough, as lines of
different kinds do not interact. `LongLine` is 0 there, so that the manager does wake a clerk.
`two_senators` has a senator that arrives while another waits, is inside, or leaves and
lets the customer back in; two clerks, so that they go on break, and are woken or not,
while everyone has to leave in the end.

Fairness (`FairSpec`) is weak fairness of each server's steps and of each client's
return. `Server()` is an endless loop around `Receive`, woken by the postal worker,
and a client blocked in `Receive` is woken by its mail; nothing obliges a program
to make a call, so `ClientCall` has no fairness. In `Synch` and `PostOffice` it is weak
fairness of each thread inside an operation, of scheduled interrupts and of the
poll: the ready list is first in, first out, the timer preempts, and
`CheckPktAvail` schedules itself again. No thread has to call anything. In
`PassportOffice` it is weak fairness of every person, clerk and the manager, who are
threads of one FIFO scheduler and Yield in every loop, and strong fairness of
`LikePicture`: a customer dislikes a picture with probability a fifth, so it likes
one in the end.

### What the code does not do

Three runs find a property violated, each a behaviour of the code that a document
or comment of the repository excludes (see `findings` in `PROJECT.json`).

- `release_overtaken`: with two servers, exclusion fails. Client 1 holds a lock of
  server 0, with client 2 queued. Its Release goes to server 1, which forwards it.
  Its next Acquire goes to server 0 and is answered "already owned". The Release
  arrives, and client 2 is given the lock too.
- `three_servers_create`: with three servers two locks of one name are created. One
  server refuses a creation before it starts its own, and is refused in turn
  because of its machine id.
- `stack_page_lost`: a stack page evicted before its first write is recorded as being in
  the executable, from where it is read next time, at no offset of a page. `version` is -1
  for such a page until the program writes it, so that `Coherent` does not depend on it.

More was met with other constants of the same modules, or by reading; it bounds what
the passing runs can claim.

- `NoLostCall` with destroys and two servers: the YES for one client's create drops
  another client's pending create of that name (nettest.cc 2003); if the lock is
  destroyed before that one's request arrives, its NO finds no pending request and
  the client waits forever. `two_servers_calls` makes two calls per client and no
  DestroyLock, which is too few for it.
- `NoDoubleResult` with three servers: a create taken over by the lower server
  (nettest.cc 2064) may have been handled by the third as well, and the client gets
  two results.
- CreateLock on a full table of a server other than 0 succeeds with the id of no lock
  (nettest.cc 694): -1 has the machine id added before it is tested. With servers 0 and 1,
  `TableSize` 1, two lock names and disciplined clients TLC finds `ReferencedObjectsExist`
  violated in 17 steps. No passing run creates on a full table.
- A Wait on one server with a lock of another takes four calls of each client
  (two creates, Acquire, Wait). With CreateLock, Acquire, CreateCondition, Wait and
  Signal, disciplined, four calls each and two servers, TLC finds no violation of
  `WaitingLockIffWaiters`, `QueuedOnce` and `NoDoubleResult` in 6.5 million states; this is
  too many for a run that is made often. `WaitingLockIffWaiters` is proved for any servers.
- The separation of senators and customers rests on the manager's Yields. Without
  `WokenHaveRun`, a manager that looks again before a senator it let in has run counts the
  senator as waiting still, and TLC finds `SenatorsAlone` violated.
- The cashier's rejection does not signal the customer; the branch cannot be reached
  while customers come in the order of their errands.
- `~AddrSpace` compares the list and the page table at the same index (addrspace.cc
  272): the eviction queue keeps frames of deleted spaces and may lose those of
  others. `QueueCoversMemory` says what is left of its purpose. With random eviction,
  `removePageFromFIFOQ` may then print "This should never be printed".
- `copyout` gives up at a page fault, so a Read into a page that is not in the TLB
  returns short. Exec of a file that is no executable stops the machine by an assertion.

## Proofs

`NetServerProofs` proves, with TLAPS, for any set of servers within 0..4, any
clients, names, calls, `MaxCalls` and `TableSize` > 0, disciplined or not:

- `TypeCorrect`: `Spec => []TypeOK`;
- `TablesHaveNoGap`: `Spec => []NoTableGap` (the `ASSERT(FALSE)` of the create
  functions is unreachable, and a full table is exactly one with no clear bit);
- `FreeLocksUnwanted`: `Spec => []FreeLocksHaveNoWaiters`;
- `WaitingLockCorrect`: `Spec => []WaitingLockIffWaiters`.

They follow from `Invariance`: `Spec => []IInv`. `IInv` says that every server is in
`GoodServer`: its tables have no gap and no name twice, their entries are good locks, CVs
and MVs (a free lock has no queue, `waitingLock` is set exactly while the CV's queue is
not empty, an MV's array has the MV's size), and the condition variable of a
broadcast in progress exists. None of the properties is inductive alone: `Signal`
and `Broadcast` keep types only if the queue they remove from is not empty, which is
`WaitingLockIffWaiters` for the former and the existence of the loop's CV for the
latter; `Set` keeps the type of an MV only if its length is its size; a create
keeps the lock table typed only if the bit found is not beyond its end. One lemma
per operator says that it maps good servers to good servers; `HandleByIdGood` and
`HandleCreateGood` lift them to handlers, and `NextIInv` goes through the actions.

About a single server (`OneServer`), again for any clients, names, calls, `MaxCalls` and
`TableSize`, and whether or not the clients are disciplined:

- `NamesAreUnique`: `Spec => []UniqueNames`;
- `OneServerQueuesOnce`: `Spec => []QueuedOnce`;
- `OneServerAnswersOnce`: `Spec => []NoDoubleResult`;
- `OneServerLosesNothing`: `Spec => []NoLostCall`;
- `OneServerExcludes`: `Spec /\ []BroadcastsMatch => []MutualExclusion`.

With more servers `UniqueNames` and `MutualExclusion` are false (`three_servers_create`,
`release_overtaken`), and the other three are checked for two servers in the bounds of
the runs only. `UniqueNames` follows from `IInv`. The others rest on a map `W` from clients to
places: idle, with its request in the mail, in the server's hands, in the queue of one
lock or of one condition variable, in the loop of a Broadcast, in `out`, or with the
result in its inbox. `Placed(b, W)` says that every queue, message and answer is where
`W` says, and nowhere else; `AnsweredOnce` and `Excluded` say that there is such a `W`,
for `b` FALSE and TRUE (`OneServerPlaces`, `OneServerOwners`). A handler moves the clients it deals
with, and one lemma per operator of `ServerObjects` says which. The difference between the two is what
clients believe: with `b` TRUE, a client that was told that it has a lock, and has not asked
to give it up, is the owner that the server's lock names. It is
stated apart because it needs an assumption on the clients, `BroadcastsMatch`: that a
Broadcast names the lock its waiters passed. `Signal` compares the two locks and
refuses; `Broadcast` does not, and moves the waiters to whatever lock it was given, so
that they return from Wait as owners of that one, believing to hold the other. The
four other properties need no such assumption. `Owed`, which `NoDoubleResult` and `NoLostCall`
are stated with, counts a set of promises, one for each position of a queue or message.
Both invariants were checked with TLC before they were proved.

About machine 0 as the only server, with disciplined clients:

- `ReferencesLast`: `Spec => []ReferencedObjectsExist`.

Its hypotheses are `Servers = {0}`, `Disciplined`, and `ObjectsApart`: no name is that of two kinds
of objects (a client of the model keeps one id per name), and two calls that create the same
monitor variable ask for the same size. Each is needed. A server other than 0 answers a
CreateLock on a full table with success and the id of no lock (nettest.cc 694); a client that
destroys what it has not created uses up another's count; a CreateMV of another size fails,
and leaves the client with -1 for an object it has. The argument is an accounting: the count of an
entry is, at any time, the number of claims to it (`Counted`). A claim is a reference a client has,
a destroy in the mailbox, or the success of a create that its client has not read yet. A create
read by the server makes a claim of the last kind, `ClientReturn` turns it into one of the first,
the call of a destroy into one of the second, and the destroy read by the server takes it away with
one of the count. So an entry that somebody claims has a count other than 0, and the
destroys, and Release and Wait on a lock marked to be destroyed, leave it and its name alone
(`Keeps`, `Recounted`). Messages are claims by their number among all that the server is ever sent,
so that reading one leaves the others what they are: `Referred` says that there is a number `b` of messages
read for which `References(b)` holds. That a client has one result to come, at most, is
`OneAnswer`, from `OneServerPlaces`; that a repeated create of a client returns the same id is the
uniqueness of names in `IInv`. The two-server case is checked by `two_servers_mutex`.

The assumptions are the named ones of the two modules: `ServersAssumption`,
`TableSizeAssumption`, `NoClientAssumption`, `NullAssumption`, `CallsAssumption`,
`MaxCallsAssumption`, `DisciplinedAssumption`.

Model-checked only: `CallsReturn` (liveness is out of the prover's reach).

`SynchProofs` proves, for any finite set of threads and any locks, condition variables
and semaphores, disciplined or not, `Spec => []P` for each of `TypeOK`, `InsideOwns`
(`LocksExclude`), `WokenOwns` (`HandOff`), `FreeUnowned`, `SignalFindsWaiter`,
`QueuedWhereAsleep` (`NobodyForgotten`) and `NoLostV` (`VsAreNotLost`), from
`KernelInvariance`, their conjunction, which is inductive. Exclusion needs all of it
but the last: `Acquire` returns without a second test when its thread is woken, so the
woken thread must own the lock already (`WokenOwns`); that holds because `Release` wakes
the head of the lock's own queue, which must be a thread in `Acquire` of that lock, and
because `Signal` and `V` wake threads of their own queues only (`QueuedWhereAsleep`, with
no thread twice in a queue); and no other `Acquire` may take the lock because it is not
`FREE` while owned (`FreeUnowned`). `Signal` keeps types only because of
`SignalFindsWaiter`. `NoLostV` compares a semaphore's value with the number of threads
that were woken and have not run: a `V` that wakes a thread adds to both, and a `P`
that takes the value under it sends that thread back to sleep.

What the argument says of the primitives themselves is in `SynchPrimsProofs`. `Sound(kk,
pp)` is the invariant with the places of the threads as a parameter: `pc` in `Synch`,
and in `PostOffice` the operation each thread is in (`place`). Its lemmas say, of each
operation of a sound kernel, which fields change, who sleeps and who is woken, and that
the kernel is sound with the caller's new place. Assumptions: `NullIsNoThread`,
`NullIsNoLock`, `InitialAssumption`, `ThreadsAssumption`. Model-checked only:
`BroadcastReturns` (liveness).

`PostOfficeProofs` proves, for any machines, threads, placement of threads on machines,
routes and `MaxSends`, with or without loss:

- `WorkerAlwaysFindsPacket`: `Spec => []WorkerFindsPacket`;
- `SendsTakeTurns`: `Spec => []OneSendAtATime`.

Both follow from `PostOfficeInvariance`. The interrupt of a packet raises
`messageAvailable` and fills the buffer together, so what it takes from the socket must
be a message and not the mark of an empty buffer, hence everything that was ever sent
must be one. The worker passes `P` only by taking one from the semaphore, so that the
value and a worker at the device together count the packet in the buffer. A machine's
sends take turns because its kernel is `Sound`, so that whoever is between `Acquire` and
`Release` of `sendLock` owns it (`SendersOwn`), and because the interrupt of a packet is
scheduled, or counted in `messageSent`, exactly as long as its sender waits for it
(`SendsCounted`): one left over from an earlier send would let the next one overtake.

`MailboxesProofs` proves `MailboxesAreQueues`: `Spec => AreQueues`, the refinement of
`Mailboxes`. The mail of `u` under way is what `For` selects from the packet in the device
and the socket; the lemmas say what it selects from a socket that is appended to or
whose head is taken. `For` is a recursive function, and the induction over its
argument is by the least number of a set of naturals that fails, since the induction
theorems of the library cannot be instantiated. A send appends, `ReceiveTake` removes the
head, and every other step, the loss of a packet included, leaves each mailbox as it
is: moving a packet from the socket to the device, to the worker's hands and to the
list keeps their concatenation.

Assumptions: `HostAssumption`, `MaxSendsAssumption`, `NullIsNoMessage`, `NullIsNoObject`,
`UsersAreNoWorkers`. Model-checked only: `SendReturns` and `MailIsReceived` (liveness).

`PassportOfficeProofs` proves, for any customers, senators, kinds of clerks and numbers
of clerks of each kind, any `LongLine` and `MaxBribes`:

- `ALineStaysOpen`: `Spec => []ALineIsOpen`;
- `PapersInOrder`: `Spec => []DocumentsInOrder`;
- `OfficeTypes`: `Spec => []TypeOK`;
- `SenatorsAreAlone`: `Spec => []SenatorsAlone`;
- `OneCustomerAtATime`: `Spec => []OneAtEachCounter`.

The first two follow from `OfficeInvariance`. `ALineIsOpen` is inductive with the shape of the
counters: no step but a clerk's own makes a counter ONBREAK, and that step sees
another clerk of the kind at work under the kind's line lock. `DocumentsInOrder` is not: the
cashier checks a customer's certificate, waits for the money at its counter, and
files the passport by the SSN it has kept. `CashierKnows` says that in between the
customer it charges is certified; it holds because a wake-up at any counter, of
whomever, changes no clerk's customer, and certificates are never taken back.
Nothing has to be known about where customers are, so that invariant says nothing of
them.

`TypeOK` does: that no line count is ever negative is a statement about who stands where.
It follows from `OfficeInOrder`, whose invariant has four more parts.

- `PersonsInOrder`: a purse holds $100 and a multiple of $500, less the fee once it is
  paid; the cashier is the last errand; who is with a clerk is in a line that exists.
- `LinesInOrder`: the count of a line is the number of persons in it, asleep or woken,
  and its queue holds those asleep, each once. A clerk's Signal leaves the count to the
  customer it wakes, so count and queue differ in between.
- `SSNsKnown`: a counter at which somebody has been served has the SSN of a person, so that only
  persons are filed. The thread that waits for an SSN is the clerk of the counter; this
  is where `PersonsAssumption` says that no person is a clerk.
- `DeskInOrder`: the shape of the manager's variables and of the queues for breaks.

`SenatorsAlone` follows from `SenatorsStayInOrder`, an invariant relative to that one, with
two parts. `Counted` says that `senatorLineCount` is the number of senators in their line,
woken or not, `senatorPresentCount` of those inside, and `customersPresentCount` of the
customers inside. `Separated` says that while `senatorSafeToEnter` is set customers are kept
out and none is on an errand or on its way back in, and that while it is not no senator
has been let in. The manager sets the flag when it counts no customer inside; customers on their way
back in are not counted yet, and it is `WokenHaveRun` that leaves none of them when the
manager looks. It takes the flag back when it counts no senator waiting and none
inside, so that no senator is caught between. What clerks and the manager do
moves persons, but none of them into the office or out of it (`PersonsStay`).

`OneAtEachCounter` follows from `CountersStayInOrder`, whose invariant `CounterInv` is
relative to both. The clerk and its customer wait for each other on one condition
variable and release the counter's lock whenever they do, so what has to be said is
where each is while the other waits.

- `CountersInOrder` says it for each counter from four things: the counter's variables, the clerk's, where
  every visitor is (`Visitors`), and whether people are sent outside. A clerk that calls
  waits for the one customer who has come or, with the counter still SIGNALEDCUSTOMER,
  for one who has been woken; a clerk that serves and its customer, who gave the SSN,
  wait on the condition variable in turn; and a customer who only has to like its
  picture can find the clerk gone on to other things, its lock handed over. Unless
  people are sent outside, only one person is woken at a time, and it is the one the clerk called.
  This needs `Separated`: the manager wakes whole lines only while people are sent
  outside, and takes that back when no customer stands in a line any more. Somebody
  woken and not called would otherwise be taken for the one who was called.
- `Queued`: whoever stands in a line is in its queue, so that a Signal wakes somebody.
- `BreaksInOrder`: the manager wakes only clerks that are on their break.
- `Certified`: nobody comes to a cashier uncertified, so the cashier's rejection
  (`filed.rejection`) stays empty. A customer that is rejected would leave the counter
  while its clerk waits for money. It holds because Customer and Senator go on from the
  passport clerk only when certified, and the cashier is right behind it in `Errands`.

The steps of a counter (`NothingSaid`, `RoundsSaid`, `CallSaid`, `WokenSaid`,
`PersonSaid`, `ClerkSaid`, `FiledSaid`, `LeaveSaid`) are proved about records alone;
each action is then shown to be one of them at its own counter and nothing at the others.

Assumptions: `KindsAssumption`, `ClerkCountAssumption`, `PersonsAssumption`,
`BoundsAssumption`. The invariants were checked with TLC on the three configurations before
they were proved. Model-checked only: the liveness properties.

`ProcessesProofs` proves, for any threads, spaces and sizes of memory, and either choice
of eviction:

- `SpacesOutlive`: `Spec => []SpacesOutliveThreads`;
- `HaltsAtLastExit`: `Spec => []LastExitHalts`.

Both follow from `ProcessInvariance`. The count of a process is the number of threads
that use its space plus the number of Forks that have counted their thread and not
made it yet (`ThreadsCounted`), and `execCalled` is the number of Execs under way, the
caller's part and the new thread's (`ExecsCounted`). With that, the last thread of the
table with `execCalled` 0 is the last of all; and an Exit that goes on leaves another
thread alive, which is in the ready list (`AllScheduled`, `SomeAlive`), so `Finish` never
finds it empty. That a process in the table has its page table needs of the virtual
memory only that no page fault, eviction or switch changes the length of one
(`SameTables`), which is shown operator by operator.

About the memory of the processes, again for any threads, spaces, sizes of main
memory, TLB and swap file, and either choice of eviction:

- `TypesStay`: `Spec => []TypeOK`;
- `PagesCoherent`: `Spec => []Coherent`;
- `FramesStayAccounted`: `Spec => []FramesAccounted`;
- `QueueCovers`: `Spec => []QueueCoversMemory`.

They follow from `MemoryInvariance`: `Spec => []MInv`, an invariant relative to that of
`ProcessInvariance`, which says that while the machine runs the memory is `Right` and
the stacks are (`StacksRight`). `Right` has four parts.

- `Accounted`: the bit map of the frames is that of the valid IPT entries; an IPT entry
  and the page table entry it names point at each other; a marked page of the swap file
  is that of exactly one page, and this page is dirty for good.
- `QueueLong`: the eviction queue has at least as many entries as frames are in use.
- `TLBRight`: the TLB has pages of the running space only, as the IPT has them, and no
  frame twice.
- `PagesRight`: a page the program knows is where its entry says, with what was last
  written; in main memory and clean in both the TLB and the IPT, it is as the executable
  has it.

`Coherent` needs nearly all of it. An eviction drops a clean page and sets its location
back to the executable, so cleanness must mean just that; it looks for the dirty bit in
the TLB entry of the frame, so there must be no second one; the frame it takes must be
the page's own, which is `Accounted`; and a switch of threads must have emptied the
TLB, or the next space would be seen through it. In the middle of a page fault a frame
is taken and has no page yet, so `Accounted` has such frames as a parameter.

`StacksRight` is about `Exit`, which frees the stack of one thread out of a page table
that others go on using: stacks of threads of a space are disjoint from each other and
from the code, and a page that a thread may touch is never one that `Exit` has left
with the location `SWAP` and not valid. Without it a fault could read a freed page of
the swap file. `QueueLong` is what holds of the queue although `~AddrSpace` erases by
index: it may erase an entry that is not the space's, but never more entries than it
frees frames (`EraseResults`, `WithoutFrames`). Both loops are recursive functions, with the
induction over their argument done as for `For`. `VirtualMemoryProofs` has one lemma per
operator and part of the invariant, along the calls of the page fault handler
(`InvalidateTLB`, `WriteBack`, `handleMemoryFull`, `ReadPage`, `MapPage`,
`handleIPTmiss`, `handleTLBMiss`) and of `AddrSpace` (its creation, growth, `SaveState`,
`Exit` and deletion); `ProcessesProofs` lifts them to the actions.

Assumptions: `MemoryAssumption`, `ProcessAssumption`. All invariants of `Processes` that a
passing run checks are proved; `WasInExecutable` is refuted by `stack_page_lost`.

## Not modelled

- The lock and condition tables of the kernel, for the build without NETWORK
  (`exception.cc` 519-875): the delivered build has NETWORK, where they are not compiled;
  the objects in the tables are those of `Synch`. Release there uses the table entry
  after the release (exception.cc 605), which a destroy may have deleted.
- The passport offices of user programs: copies of `proj1Part2.cc` ported to system
  calls. Over two servers they rest on exclusion, which `release_overtaken` refutes.
- Message lengths and the ten mailboxes of a machine: both are assertions on sizes of
  data that the model abstracts (post.cc 274, 275).
- The open file table, the file and print system calls, the console: I/O.
- The base file system, which the network and virtual memory kernels replace by Unix
  files; the instruction set, the disk and console devices of the simulator; the object
  file tools, tests and examples: base Nachos or course material.
- The loop over days of the passport office, which resets the counters between days
  (proj1Part2.cc 1668).
