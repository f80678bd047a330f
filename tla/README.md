# OSSO and minirighi32 in TLA+

The archive holds some fifteen kernels of the Italian OS development community.
This project verifies two of them:

* **OSSO 0.0.4** (`src/OSSO-0.0.4/src`): threads, blocking semaphores, message
  passing, signals, events, paging and `fork`, device resources, and the name server
  `mps` with which its user-level drivers boot. Paths below are relative to
  `src/OSSO-0.0.4/src/kernel/` unless they say otherwise.
* **minirighi32 0.11.00** (`src/minirighi32-0.11.00`): its scheduler, semaphores and
  life of a task. Unlike OSSO it is preempted inside the kernel. Its paths begin
  with `mr32:`.

`PROJECT.json` gives, for every definition that models code, the lines it models,
and for every run its properties; this file explains how the pieces fit.

## 1. The system

### Parts, state, operations

| Part | Source | State | Operations |
|---|---|---|---|
| Ready queue | `coda_pronti.c` | ring `CodaPronti`, `testa_`, `coda_CodaPronti` | add, get first, remove from the middle |
| Scheduler | `scheduler.c` | `Thread_In_Esecuzione`, `Processo_In_Esecuzione` | `Schedule_Next_Thread`, the timer handler `scheduler` |
| Semaphores | `semaphore.c` | value, list of waiters threaded through `Threads[]` | `P`, `V`, `Bool_P`, `Bool_V`, `Non_Block_P`, `Non_Block_Bool_P` |
| Threads, processes | `process.c` | tables `Threads[]` and `Processi[]`, `Last_Pid_Used` | create thread / process, `fork`, exit, destroy |
| Messages | `messages.c` | ring `msgqueue` of physical pages and the semaphore `Messages`, one per process | `getbmsg`, `freemsg`, `sendmsg`, `recmsg` |
| Signals | `signals.c` | ring `signals_queue` per process | `Signal`: stop, continue, destroy, queue |
| Events | `events.c` | public events (one per interrupt line), private events (lists of cells from a pool), mutexes | `getevent`, `clearevent`, `setevent`, `signal`, `wait` |
| Memory | `memory.c`, `paging.c` | `pagelist`, `free_pages`, `pt_pages`; page directory and tables of each process, `last_used_page` | `getpage`, `getpagetable`, `freepage`, `Linear_alloc`, `Linear_free`, `mallosso`, `freosso` |
| Entry | `interrupts.c`, `syscall.c`, `kernel.c` | IDT | system call dispatch, IRQ handlers, boot, idle loop |
| Devices | `dma.c`, `dma_memory.c`, `chardevs.c`, `gdt.c` | DMA channels and blocks, character buffers with a mutex each, descriptors | request, free, program; open, read, write, release |
| Name server | `../drivers/mps*.c`, `../drivers/lib/*2mps.c`, `../boot/init.c` | registered drivers and their instances, clients that wait, drivers awaited, end of the boot phase | register, ask for a driver, announce, complete |
| Other drivers, VFS, library, loader | `../drivers`, `../lib`, `../boot` | user-level servers | protocols over messages and events |
| minirighi32 scheduler | `mr32:os/kernel/sched.c` | ready, wait and zombie queue, `curr_task`, `refresh_queues_flag`, dynamic priorities | `schedule`, refresh, `sleep_task`, `wakeup_task` |
| minirighi32 semaphores | `mr32:os/kernel/semaphore.c`, `mr32:include/kernel/semaphore.h` | `count`, `sleepers`, `waitq` | `DOWN`, `UP` |
| minirighi32 tasks | `mr32:os/kernel/task.c`, `kpagerd.c` | state, type, father | create, fork, exec, kill, waitpid, free the dead |

### How they interact

A system call (`int 0x40`) enters `Syscall`, which calls an operation directly:
everything below is function calls on shared tables. The scheduler is entered by
the timer interrupt, by a `P` that has to wait and by an exit. `V` makes a waiter
ready. `recmsg` waits on the semaphore of the process, `sendmsg` raises it;
messages are pages that leave one memory map and enter another. `Signal` acts on
the first thread of a process: it puts it into the ready queue, takes it out, or
destroys it. Interrupt handlers `V` the semaphore of the public event of their
line. Exits and `Destroy_Thread` touch every table, but not those of the devices,
whose owners are compared with the pid of the caller.

`init` starts the modules of the boot image one after the other, tells `mps` which
drivers to wait for, and at the end that there are no more. Drivers register with
`mps`, programs ask it for the pid of a driver and may wait for it; all of this is
messages, and everybody receives whatever comes first in its mailbox. The boot phase
ends when all the awaited drivers have registered; whoever still waits is then told
that there is no such driver.

In minirighi32 anybody sets the *state* of a task (`wakeup_task`, `kill`,
`sleep_task`) and sets a flag; the queues follow at the next `schedule`, which moves
every task to the queue of its state. `kpagerd`, woken when a zombie is moved, frees
the dead.

### What is atomic

The kernel is uniprocessor in the configuration built. All IDT entries are
interrupt gates (`interrupts.c:632-638`, `658-726`), so a system call runs with
interrupts off, and `P`, `V` and the queue operations also save the flags and
`cli`. **The only place inside the kernel where another thread can run is
`jump_tss` in `Schedule_Next_Thread`.** So an operation is one step of the model,
except that `P`, `Bool_P` and `recmsg` have a second part, executed when the
suspended thread is resumed: `inP` (the saved context) and `receiving` keep track
of it. The timer may come between any two system calls. Mutexes that are taken and
released within a step are never seen taken and are left out; those of `events.c`
and of the character buffers, which can stay taken, are modelled.

`mps` is a process with tables of its own: it handles a message in one step, but the
messages it sends leave one at a time, and others run in between.

In minirighi32 traps and IRQs leave interrupts on, so the clock can switch tasks
anywhere in the kernel, except between `spin_lock_irqsave` and its restore and
between `sched_enter_critical_region` and `sched_leave_critical_region`. Those
stretches are the steps of RighiTasks, with the `lock`ed instructions of `DOWN` and
`UP`; `pc` says where a task is between them.

### What is hard about it

Interleavings of threads at the system call boundary with wakeups, signals and
exits in between; state of dead threads and processes that survives in slots
reused later; conservation (of pages, messages, semaphore credit, event cells)
through operations that move things between owners; rings and tables at their
limits; code paths that leave a lock taken; registrations and questions that overtake
one another during the boot; in minirighi32, tests and sleeps that are not one step,
and tasks freed while others still point to them. `PROJECT.json` lists the hazards at
their lines with the properties that cover them.

## 2. The modules

```
ThreadSched  <--implements--  Kernel  --extends-->  ReadyRing
   ^                            ^
   |                            |
ThreadSchedProofs  <--INSTANCE--  KernelProofs            (theorems)
Processes   one INSTANCE of ThreadSched: a semaphore per process slot
   ^
   |
ProcessesProofs                                           (theorems)
Memory      <---  MemoryProofs                            (theorems)
Events      <---  EventsProofs                            (theorems)
CharQueues  <--implements--  Devices  <---  DevicesProofs (theorems)
NameServer  <---  NameServerProofs                        (theorems)
RighiTasks  <---  RighiTasksProofs                        (theorems)
```

* **ThreadSched** is the abstract specification of scheduler and semaphores: plain
  FIFO sequences, one action per operation (`P`, `V`, ..., `Create_Thread`,
  `Exit_Thread`, the timer's `scheduler`, `idle_loop`, `IRQ`). `credit` is a
  history variable (initial value, plus effective `V`s, minus `P`s that returned).
  A `Bool_V` on a semaphore that is already 1 is not an effective one.
* **ReadyRing** is the ring of `coda_pronti.c` as a record of cells and two
  indices, with the shift of `Remove_Thread_From_CodaPronti`.
* **Kernel** repeats the operations on the ring, on `Threads[]` and on the linked
  lists of the `DYNAMIC_SEMAPHORE` build (the one configured). Its refinement
  mapping reads the ring and follows the links (`Waiters`, which stops after
  `MAX_THREADS` links should a list ever be circular).
* **Processes** adds the process table, pids, message queues and signals to an
  instance of ThreadSched whose semaphores are the `Messages` of the slots.
  `recmsg` is two actions. Pages are values that have an owner. `exhausted` is a
  panic for want of a slot, a thread, a page or room in a ring; `panicked` is any
  other one. The idle loop only yields, as the timer does, so `scheduler` stands
  for both. The loop of `Exit_Process` over the thread table is a recursive function,
  `DestroyOthers`.
* **Events** is `events.c`, with every call cut at each `P`: `kernel` is the thread
  inside the kernel, `at` what it does next. The scheduler is abstracted to
  "whoever has been woken is resumed". `clients`, chosen at the start, says which events
  the program of each thread names and which careless calls (section "What clients are
  assumed to do") it makes.
* **Memory** has pages, page tables and virtual addresses. An operation is a
  function of a *cursor* (the memory, the space of one process, why the kernel
  stopped), so that the many small allocations of one system call compose in the
  order of the code; its loops (`UnmapPages`, `CopyTables`, `DestroyOthers`) are
  recursive functions. `halt` tells the panics for want of memory from the misuses
  ("unallocated" is the panic of `Linear_free`, "undefined" that something outside an
  array, or in a directory already freed, is used); a boot that does not find the memory
  for the first process is left out (`BootAssumption`). A process has its table of
  threads, as the code keeps it: `Destroy_Thread` leaves the dead thread there, with its
  stacks, and whoever destroys it again frees them again.
* **Devices** has the resources a driver takes from the kernel, for processes that
  start, use them and exit without closing anything. **CharQueues** is what character
  buffers promise (bounded queues, `last` being the last transfer as its caller saw
  it), and Devices implements it, with the bytes between `head` and `tail` as the
  mapping. Character buffers and DMA share no state, so a behaviour uses one of them
  (`Services`).
* **NameServer** is `mps`, `init` and the client side of both libraries. A name stands
  for a category and a name. `Areas` is what an uninitialised pointer may be
  (`mps_struct.c:471` asks `MyRealloc` for 0 bytes the first time): usable, or NULL.
* **RighiTasks** is minirighi32. `After`, `SleepPc` and `SchedPc` name the three points
  of every sleep: before the state is set, before `schedule`, and after it.
  `create` is the common part of `create_thread`, `do_fork` and `exec_file`. All
  tasks have the same static priority, `Levels` below zero, as in the code. The two
  loops of `do_refresh_queues` are recursive functions over the queue as it was when the
  loop began; `Doomed`, the threads that die with their fathers, is the least set that a
  sweep of `kill` would not enlarge.

What each action stands for is in the `map` of `PROJECT.json`. Names are those of
the source. Definitions called "Wrong variant" are deliberately broken forms used
to confirm that each property can fail; no specification uses them.

Pages have sizes the code does not have (16 bytes, tables of 8 entries) but the
arithmetic of the code: rounding, the header of 4 bytes, the gap before each stack,
`last_used_page` rounded twice, tables taken from the top.

### What clients are assumed to do

The kernel trusts its programs in places, so some runs restrict them. These restrictions
are constants, which another configuration can lift:

* `Processes!Disciplined`: `SIGNAL_CONT` and `SIGNAL_DESTROY` only to a thread that
  is not running, ready or waiting, and `SIGNAL_DESTROY` only to the one thread of a
  process, not stopped inside `recmsg`. This is how the repository uses them:
  `boot/init.c:263-266` and `test/shell.c:283-285` continue a process they have just
  created. Run `spurious_continue` drops it.
* `Events!Clients`: what the clients may be like, among it the careless calls that they
  make. `"clears"`: `clearevent` of a private event, which leaves `Events_Sem` taken.
  `"leaves_locked"`: the other calls that leave a mutex taken, and clearing a public event
  somebody waits for. `"clears_inside"`: clearing a private event that is behind another
  in the list. In the run `events` the clients have none or the first; with the first,
  cells go back to the pool and are taken again, in any order and with the mutex free or
  not. `CellsAccounted` is checked for all of them, the other properties say `Careful`:
  clients without the first two.
* `Memory!Careless` likewise, a set for all the clients. `"destroyer"`: a thread is
  destroyed that has itself destroyed one. `"listed"`: a process is destroyed, or ends,
  whose table of threads names a dead thread, another's, or one twice. `"header"`: a block
  is freed that ends within the header's four bytes of a page end; it may always be
  allocated. `"unlisted"`: whoever destroys a thread is found in the table that
  `Destroy_Thread` searches, and taken out of it; which table that is depends on pids,
  which are in Processes (`destroy_wrong_entry`). The run `memory` has none of them. With
  any of the first three the code does break a property: see the end of section 3.
* `RighiTasks!KillWaiters` off: no task is killed while it is in the queue of a
  semaphore; on, `NoDangling` fails. `RighiTasks!Allocates = {TRUE}`: memory lasts for
  new tasks; with `FALSE` too, `OneQueue` fails.
* `Devices!Sizes` has no 0, and `Devices!Garbage = {0}`: the byte after the table of
  buffers is 0.

These are not constants, and what they exclude is not in the models:

* Calls with addresses that are not what the kernel returned. `DMA_Memory_Free_Block`
  frees the block that the address belongs to and looks at no owner
  (`dma_memory.c:122-130`), so a process could free again what another has taken since;
  in Devices it is called for blocks that the caller holds.
* In Memory, what a thread does after its process has ended without it: its directory
  and stacks are free pages. Only a process whose table does not name all its threads
  leaves one.
* In ThreadSched and Kernel, a `Create_Thread` with all the slots taken. The code panics
  (`process.c:351`) with nothing changed but `Threads_Mutex`, and no step follows: a step
  that only sets `panicked` disturbs none of their properties, but `panicked` would then
  no longer say what the theorems about the ring are about, that the *ring* has room.
  Processes (`exhausted`) and Memory (`Tables_Full`) have that panic.

## 3. The runs

Those that pass:

| Run | States | Shows |
|---|---|---|
| `sched` | 2 937 | No thread is lost, no `V` is lost or used twice (`CreditConserved`), `P`s return in FIFO order through both queues, a ready thread runs |
| `kernel` | 21 278 | Kernel implements ThreadSched, fairness included; lists end in their tail and share nothing; status agrees with the queues; removal from the ring keeps order |
| `messages` | 806 560 | One owner per page, the semaphore counts the queue, nobody sleeps on mail |
| `signals` | 214 481 | Stop, continue, destroy and queued signals with slots reused: no mail for a successor, the tables agree, no queue of a live process has a dead thread, a woken receiver runs |
| `events` | 153 767 | With careful clients no call ends, or sleeps on an event, with a mutex taken, who sleeps in `wait` can be woken, and every call returns or waits for an event; with clients that clear private events too, first of the list first, no cell is lost or used twice, whatever mutex that leaves taken |
| `memory` | 444 975 | Every page has one use, the count of free pages is right, what a process holds stays mapped, nothing is freed that is not its own, up to and including exhaustion |
| `devices` | 109 300 | The rings are bounded queues through wrap around, partial transfers, release and reuse; an open buffer can be used; what the dead leave is lost but nobody else takes or programs it |
| `names` | 116 002 | As long as a program waits, its question or its answer is in exactly one place; "not found" is only said of what is not there; an instance has one client; a driver's first message is the reply it waits for; everyone is answered unless the boot is blocked for one of the reasons of `BootBlocked` |
| `righi_tasks` | 985 978 | Exclusion by the semaphore; every task in exactly one queue until it is freed; nothing freed that the kernel will still read; no thread outlives its father, through any number of generations |

**Bounds.** `sched`, `kernel`: idle thread and three others, a ring of four cells
(so it is full, and its indices wrap), a counting semaphore raised by interrupts
and a mutex: enough for one thread running, one woken and not yet run, and one
waiting, which is what the conservation and order properties relate. `MaxStatus`
stops a semaphore nobody takes. `messages`: two pages and a queue of two messages
(three cells) for two processes with three threads between them, so two receivers of
one process wait while messages come. `signals` creates processes until `MaxPid` (the
first five pids are used at boot) with two threads besides the idle one, so slots of
dead processes and threads are taken again. `MaxPid < MAX_PROCESSES` also keeps
`Destroy_Thread`'s use of a pid as index inside the array. `events`: two
cells, so the pool runs out, and three kinds of clients: a thread in each of two processes
that names one public and two private events; two threads in a process, one of which
signals what the other waits for, next to another process with the same public event; and
a thread in each process that clears private events, one with two of them, so that the
cells change their order and their process. `memory`:
sixteen pages, of which kernel and first process take nine and a user-level process
seven; two processes, three threads and two entries in the table of each process, so that
all the tables fill up; blocks of one and of two pages, and stacks of less than one; a
second process or a fork and some blocks exhaust the memory and the two searches for
pages meet. `MaxVPage` bounds the addresses, which the code never uses again; it leaves
two page tables per process. `devices`: one buffer of two or four
cells (one is always empty) and transfers of one or three bytes, so that rings are
full, wrap around and cut transfers short; three processes and two descriptors, so
that one takes over what another left, and the descriptors run out. `names`: six boot
images, each for a case: clients that ask before their driver starts, a driver that
asks before it registers, one that may exit first, a duplicate, an incompatible one,
two instances of a multi-instance driver; the boot queue has two entries and so has
that of a driver, so both fill up. `righi_tasks`: besides the idle task and `kpagd` a
shell that creates, forks, kills and exits, a child of the shell, which waits for its
own child, exits, and may be killed while it waits, and that child; one semaphore
shared by the first two, and priorities between -1 and -3.

Deadlock is not checked where the model stops on purpose: after a panic
(`Processes`, `Memory`, `Devices`, `Events` when everybody waits), at `MaxPid`, or when
everybody has been answered (`NameServer`).
`sched`, `kernel` and `righi_tasks` check it.

**Fairness.** `WF(scheduler)`: `main()` unmasks IRQ 0 before the idle loop, the
handler re-arms the line, and threads run with interrupts on; so a timer tick comes
as long as the kernel runs. Nothing is assumed of programs: they may never call,
wait or exit. `WF(recmsg_returns)`: a resumed call goes on, with interrupts off.
In Events, `WF` that the call in the kernel proceeds, for the same reason, and `SF`
of each `Resume`, which is the round robin that `ReadyRuns` establishes in
ThreadSched: a woken thread runs although others enter the kernel meanwhile. In
NameServer, `WF` of `init`, of `mps` and of each module, separately: each is a process,
and the same round robin gives each its turn. RighiTasks states no fairness. No
fairness is assumed of interrupts, signals or entering a call.

Those that show a disagreement of the code with what it says of itself
(`findings`):

| Run | Code | What happens |
|---|---|---|
| `spurious_continue` | `signals.c:241` | `SIGNAL_CONT` to a process waiting in `recmsg` makes it ready without a message; `recmsg` reaches its panic "This should not happen NOW!!" |
| `destroy_wrong_entry` | `process.c:876` | `Destroy_Thread` uses a pid as a slot index and looks for the running thread instead of the destroyed one. With the code's three reserved pids, the sixth process (slot 6) that destroys the second (pid 6) loses its own entry; its `Exit_Thread` would panic |
| `lost_wakeup` | `mr32:os/kernel/semaphore.c:48` | a task that has released `semaphore_lock` and has not yet set its state is woken in vain by `UP`; it then sleeps although the semaphore is free and nobody is left to wake it |

Other disagreements met while modelling, for which there is no run of its own:

In OSSO:

* `events.c:375`: clearing a private event leaves `Events_Sem` taken, and the next
  caller never returns; `events.c:443` and `555` leave a mutex taken in the same way.
  With `"clears"` or `"leaves_locked"`, and without their condition `Careful`,
  `MutexesFree` and `CallsReturn` fail.
* `events.c:198`: `free_event_in_list`, of which `events.c:174` says "This remove the
  requested event from the list", frees the cell *after* an event that is not the first,
  and unlinks nothing. With `"clears_inside"` and `"clears"`, `CellsAccounted` fails when
  a process takes two of three cells and clears the event it took first: the cell that
  was free is lost.
* `events.c:361-366`: a public event cleared by one thread while another of the process
  waits for it forgets that one when it is taken again. With `"leaves_locked"`,
  and without the condition, `WaitersReachable` fails.
* `syscall.c:238`: with a full table of threads `SYS_CREATE_THREAD` makes
  `threads[-1]` ready. `Processes!Sys_Create_Thread` has it; with
  `MAX_THREADS_PER_PROCESS` = 1 and more threads `NoBrokenAssumption` fails.
* `include/signals.h:71` calls `SIGNAL_DESTROY` a complete destruction; it destroys
  the first thread and nothing else.
* `process.c:876`: `Destroy_Thread` neither takes the dead thread out of the table of its
  process nor forgets its stacks: a second `SIGNAL_DESTROY` to the process, or the exit of
  another thread of it, frees them again, and the kernel panics with "Freeing unallocated
  memory !!" (`memory.c:409`). With `"listed"`, `FreesItsOwn` fails.
* `memory.c:399`: `Linear_free`, which "free a linear aligned block" (`memory.c:386`),
  adds the header to a size that has it already: a block that ends within four bytes of a
  page end is freed with the first page of the following one. With `"header"`,
  `HeldIsMapped` and `FreesItsOwn` fail.
* `process.c:1216`: the loop of `Exit_Process` starts at directory entry 31,
  which is the kernel's when there are more than 124 MB, although
  `../LIMITATIONS:26` allows 128. With `KernelTables = KDIR`, `FreesItsOwn`
  fails at the first exit.
* `process.c:882`: `Destroy_Thread` tests and clears the kernel stack of the
  running thread: who has destroyed one and is destroyed later is freed at address 0.
  With `"destroyer"`, `FreesItsOwn` fails.
* `getpagetable` can return NULL, which `process.c:390`, `478` and `1033` do not
  test. Memory stops there (`halt = "null_table"`).
* The ring has 50 cells and `MAX_THREADS` is 150: the fiftieth ready thread is a
  panic. `QueueFits` is the condition under which it cannot happen.
* `../drivers/mps_struct.c:819`: clients in the queue of a multi-instance driver when
  the boot phase closes are dropped without an answer, although `mps_boot.c:205` says
  "sending the 'driver not found' message to all programs left". `NoClientLost` and
  `ClientsAnswered` except them.
* `../drivers/mps_struct.c:628`: a driver whose kind does not fit the registered one gets
  no reply at all. It, a duplicate (`DRVPRESENT`) or a driver that exits first keeps
  the boot phase from ending if `mps` was told to wait for it; so does a driver that
  asks for one that is not in the image (`fat.c:1478`, `ide.c:634`).
* `../drivers/mps_struct.c:781-787`: `DeleteInstance` follows a next pointer that may be
  NULL; no registered driver of the repository exits.
* `chardevs.c:147`: the reader of a released buffer sleeps for ever: the semaphore is
  initialised anew with the entry, and forgets it. `chardevs.c:120` looks past the end
  of the table: with `Garbage = {0, 1}`, `DevTypeOK` fails. A buffer of size 0 makes
  `write` divide by zero.
* `process.c:1167`: "This should close all the resources". None is; DMA blocks mapped in
  the process are freed as if they were pages. `DMA_Free_Channel` leaves a programmed
  transfer running, and `DMA_Memory_Free_Block` frees a block of anybody's.

In minirighi32:

* `waitpid` (`mr32:os/kernel/task.c:1303-1314`), `kpagerd` (`kpagerd.c:39-43`) and
  `wait_event` (`mr32:include/kernel/sched.h:104`) have the window of `lost_wakeup`.
  `do_refresh_queues` clears at its end (`sched.c:122`) the flag that waking `kpagd`
  has set, so that `kpagd` may stay in the wait queue until the next refresh.
* A father that waits for a child that is dead and still in a queue is not woken again.
* A task woken between its death and the next refresh is alive again
  (`wakeup_task` tests for `TASK_READY` only).
* `task.c:561` (and its like) frees a structure that is in the zombie queue.
* The counters have a floor at twice the highest priority, below which the first of the
  queue always wins (`sched.c:198-213`): with more than 17 ready tasks some may starve.

Each property of each passing run comes with a wrong variant of a definition under
which TLC reports it violated (`mutants`).

## 4. The proofs

Eight modules hold theorems. Unless a hypothesis is named, they are about every value of
the constants that the assumptions of the module allow.

### The scheduler: ThreadSchedProofs

For any sets of threads and semaphores, any initial values and any ring size
(`ThreadAssumption`, `SemAssumption`, `SizeAssumption`):

* **TypeCorrect**: `Spec => []TypeOK`. By induction, one step per action, with a
  lemma for each building block (`Add...`, `Schedule_Next_Thread`, `Resume`, `Take`,
  `Suspend`, `Release`).
* **PlacedUntilPanic**: until the ready ring overflows, whatever its size,
  `SomeoneRuns`, `OnePlace`, `NoThreadLost` and `NoLostWakeup` hold.
* **ThreadsPlaced**: if there are no more threads than cells in the ring
  (`QueueFits`), the kernel never panics and those four hold for ever.
* **PaidUntilPanic**, **CreditCorrect**: `CreditConserved`, until the ring overflows
  (for a finite set of threads), and for ever under `QueueFits`.

The inductive invariant is `IInv == TypeOK /\ (panicked \/ Placed)`, where `Placed`
is the conjunction of the four. None of them is inductive alone: that a `P` which
suspends leaves somebody running needs the idle thread in the ready queue
(`SomeoneRuns`); that it is not put into the queue it is already in needs
`OnePlace`; that a woken thread is active, so that making it ready is no panic,
needs `NoThreadLost`; and that waking one loses nobody needs that `OnePlace` and
`NoThreadLost` speak of all the semaphores at once. For `ThreadsPlaced` a counting
argument is added (`RoomInQueue`): the ready threads are distinct, exclude the
running one and the one to be added, so they are at most `MAX_REFERENCES - 2`, and
the ring has room. `QueueFits` is an assumption of the theorem and not of the
module, since the shipped configuration does not satisfy it: for that one
`PlacedUntilPanic` is the result. For the credit, the invariant is the property with
`IInv`: the threads woken and not yet run change by one, or not at all, in each step,
because `OnePlace` says that whoever is woken, or dispatched, was in no other queue.

`SomeoneRuns`, `OnePlace`, `NoLostWakeup` and `NeverPanics` are no properties of a run
of their own: the theorems have them for every instance.

### The ring and the linked lists: KernelProofs

For any number of slots, any ring and any semaphores (`KernelAssumption`):

* **SoundUntilPanic**: `ListsWellFormed` and `StatusFollowsQueue` until the kernel
  panics. **KernelSound**: when the table fits the ring (`TableFits`), for ever, and
  there is no panic.
* **StepsAreThreadSched** (under `TableFits`), **StepsUntilPanic** (without): the
  initial states and every step of Kernel are those of ThreadSched, or stutters, under
  the refinement mapping. This is `ImplementsThreadSched` but for the fairness
  condition, which the run checks. The step that panics is excepted in the second: the
  code then stops in the middle of an operation that ThreadSched does as a whole.
* **RemovalSound**: `RemovalKeepsOrder`, under `TableFits`: the shift in
  `Remove_Thread_From_CodaPronti` keeps the order of the others wherever the ring wraps
  around.

The invariant is `KInv`: the types; TypeOK and `Placed` of ThreadSched *under the
mapping*, taken over from ThreadSchedProofs by `INSTANCE` (the lists change as promised
only because a thread is in one of them at a time); `Lists` (following the links from
`Head_Thread` ends in `Tail_Thread`, and the lists are disjoint); `InnerLinks` (the
`next` of a thread that is in no list is `THREAD_INVALID`: without it, the last thread
of a list would drag others along when it is appended); and `Statused`. The ring is first
shown to be a sequence (`Put`, `DropFirst` and `TakeOut` against `Append`, `Tail` and
removal, from the arithmetic of `% MAX_REFERENCES`), then the lists.

### Processes, messages and signals: ProcessesProofs

For any sizes of the tables, rings and queues and any set of pages, with clients that
are `Disciplined` (section 2) and respect `WellUsed`:

* **SoundUntilPanic**, **PropertiesUntilPanic**: until the kernel panics, all the
  properties of `messages` and `signals` but the liveness one, and the two assertions
  `RecvFindsMessage` and `RunningIsListed`, which `spurious_continue` and
  `destroy_wrong_entry` show violated where the two hypotheses do not hold.
* Under `RoomForAll` (`MAX_THREADS <= MAX_REFERENCES`) for ever: **KernelNeverPanics**,
  **ProcessTypes** (`ProcTypeOK`), **PagesHaveOneOwner** (`OnePageOneOwner`),
  **MailIsCounted** (`MessagesCounted`), **MailIsTaken** (`NoSleepOnMail`,
  `RecvFindsMessage`), **MailIsForTheLiving** (`NoMailForTheDead`),
  **TablesAndQueuesSound** (`TablesAgree`, `QueuesSound`, `RunningIsListed`).

The shipped configuration has 150 threads and a ring of 50 cells, so `RoomForAll` is a
hypothesis of those theorems and not of the module; for that configuration the first two
are the result. The module assumes `MaxPid < MAX_PROCESSES`: pids are never given back,
so the theorems, like the runs, are about the life of a system until as many processes
have been created as the table has slots less the reserved pids. After that
`Destroy_Thread` indexes `Processi` beyond its end with a pid.

`WellUsed` excludes the two calls the kernel does not check and that break its tables:
a thread created in a process whose table is full (`syscall.c:238`), while there is still
a free slot for it, and the destruction of a thread whose pid happens to be the index of
the caller's slot (`process.c:876`). It is a condition on steps, so the theorems have
the form `Spec /\ [][WellUsed]_vars => []...`. Every step of the runs `messages` and `signals`
satisfies it (TLC agrees when it is added to them as a property): their tables have an
entry for every thread, and they do not reach the pid of their caller's index.

The invariant is `PInv`: the types; `Scheduled` (the ready queue and the waiters of *live*
processes, for the semaphore of a dead one keeps the threads destroyed while they waited
on it, until a new process initialises it); `Tabled` (every active thread is listed by the
live process that owns it, and a process that has a thread lists no other process's);
`Paged`; `MessagesCounted` and `NoMailForTheDead`. `Paged` says that there is a function
which gives each page its place, free, in a map or in a queue, such that the sets and
the queues are what the function says. Moving a page is then an update at one point, and
that no page is in two places needs no case analysis over pairs of owners. A process
whose last thread was destroyed by a signal stays in the table and still lists that
thread, which another process may get: `ListsOwn` therefore speaks only of processes that
have a thread. For an exit, what the loop of `Exit_Process` has
done after k turns (`DestroyOthers`) is described by induction: the entries destroyed so
far are gone from `CodaPronti`, the rest is as before and in the same order.

### Pages and maps: MemoryProofs

For any amount of memory, any page, table and program size, any slots, threads, queues
and bounds (`MemoryAssumption`; `RoomAssumption`: the memory and the bounded range of
addresses have room for the first process; `StackAssumption`: a stack does not fill its
last page, which in the code are 8000 bytes of two pages, `include/constants.h:100-101`;
`BootAssumption`: the first process is loaded):

* **PagesStayAccounted** (`PagesAccounted`), **FreePagesStayCounted**
  (`FreePagesCounted`), **HeldStaysMapped** (`HeldIsMapped`), if `Careful`, that is
  `Careless \subseteq {"destroyer"}`, and however much memory the kernel maps. So no block
  is freed that ends within four bytes of a page end: with one, `HeldIsMapped` is false. And no process is destroyed or ends whose table names a dead
  thread, the slot of which another process may have got since.
* **OnlyItsOwnIsFreed** (`FreesItsOwn`), if `Careless = {}` and `KernelTables < KDIR`.
  With `"listed"` it is false, and so it is with `"destroyer"`, with
  `"header"` and with `KernelTables = KDIR` (section 3).

A step that goes wrong stops the kernel, and the model keeps nothing of it, so with
`"destroyer"` the first three theorems say that up to that panic nothing is amiss.

The invariant is `IInv`. `Accounted`: there is a function from the pages to their owners
(the kernel, nobody, or a slot and the place there: directory, queue, table d, virtual
page v, the mail) which agrees with `pagelist`, with every space and with `free_pages`
(`Kept`). As in Processes, taking, freeing or sending a page is then an update of
that function at one point; only at an exit many points change at once. It is not
inductive by itself: that `Linear_free` finds the pages of a block mapped needs `Well`,
for every process: the extents of its blocks, buffers and stacks are mapped and share no
page (`Proper`), and nothing is mapped above `last_used_page`, so that what is
allocated next is apart from all of them (`InOrder`). `InOrder` also has the table
of every mapped page, for `fork` copies only what the father's tables reach,
and the directory and queue that an exit frees once each. A slot that is not in use has
nothing, and the threads belong to processes that are there: their stacks are extents of
the process that lists them (`Lists`). `OwnHalts` is `FreesItsOwn` in a form that the
steps keep.

The handlers are functions built from a few others, so the proof goes the same way:
what one page more (`MapPage`, `AllocPage`) and one less (`UnmapPage`) do to a cursor;
the loops, by induction over their turns; and then each handler. In
`Exit_Process` the loop over the table of threads leaves, after k turns, only the stacks
of the threads still to come (`DestroyOthersIs`); in `fork` the child has a page where
the father has one, as far as the copy has come. `recmsg` takes the page from the mail,
allocates a table and then maps the page, which between the two has no owner: the proof
takes the table first, which comes to the same, and then moves the page in one update.

### The events: EventsProofs

For any processes, threads, names, cells and bound (`EventsAssumption`,
`NamesAssumption`: distinct things have distinct names; `CallAssumption`):

* **EventsTypesKept** (`EventsTypeOK`), **MutexesStayFree** (`MutexesFree`),
  **WaitersStayReachable** (`WaitersReachable`), all from **EventsSound**:
  `Spec => [](Careful => EInv)`. Of clients that are not `Careful` the last two would be
  false.
* **CellsStayAccounted** (`CellsAccounted`), for any clients:
  `Spec /\ [][ClearsFirst]_vars => []CellsAccounted`. `ClearsFirst` is a condition on
  steps: each `clearevent` of a private event is of the first in the list of its process,
  or of none of it. Where it does not hold, a cell is lost (section 3). So this
  covers the cells that go back to the pool, which in EventsSound none does, since that
  leaves `Events_Sem` taken.

For the second, `Cells` (the chains below) is inductive by itself, with `Calling`, that a
call on private events is at one of its places; it needs no mutex.

`MutexesFree` only speaks of the moments at which nobody is in the kernel. `Locks` says
at every stage of a call (`Stages`) which mutex is taken, `StillCareful` that what made
the call a careful one has not changed since it began, and `Counts` bounds the events.
`Pool` says that the lists of the processes and the free list are chains that share no
cell and leave none out; that a step moves one cell and cuts no chain is
what `getevent` and `clearevent` must be shown to do. `Names` (no two cells of a process
with one name) is what makes `searchevent_priv` find the cell a waiter sleeps on;
`Sleepers` says who sleeps where, once, and needs the other three.

### The devices: DevicesProofs

For any processes, sizes, counts and tables:

* **OpenStaysUsable** (`OpenIsUsable`) and **LeftoversStayInert** (`LeftoversInert`),
  whatever lies after the table of buffers.
* **DevicesTyped** (`DevTypeOK`) and **RingsAreQueues** (`ImplementsCharQueues`), if the
  byte after the table is 0 (`Garbage \subseteq {0}`): otherwise `getcharbuffer` grows the
  table and both fail, as section 3 says.

The invariant is `DevInv`: an entry that was ever opened still has a ring of its size
(`release` leaves it there), an entry is open exactly when its mutex is free
(`releasecharbuffer` takes it for good, `getcharbuffer` initialises it anew), and the DMA
tables agree with who lives and who has exited. For the refinement, a transfer of n bytes,
a loop over the ring, is shown to append, or take, what fits: by induction over the
turns (`WriteStep`, `ReadStep`). CharQueues states no fairness, so this refinement is
proved completely.

### minirighi32: RighiTasksProofs

For any finite set of tasks, any programs and any number of
priority levels (`TaskAssumption`, `PriorityAssumption`), with `Allocates` and
`KillWaiters` as they may be:

* **CountCorrect**: `Spec => []CountAccounts`: `count` is one, less the holders, less
  those that have decremented it and are not yet in the queue, less `sleepers`.
* **SemaphoreExcludes**: `Spec => []MutualExclusion`.

`MutualExclusion` is far from inductive: a task gets in by `DOWN` or by one of the two
tries of `__down_failed`, each of which looks at `count` alone. The invariant is
`SemInv`: `Placed` (where a task that holds the semaphore, or is on its way to it, can
be, and that `sleepers` is 0 or 1), `CountAccounts`, and that there is at most one
holder. A try succeeds if `count` plus the sleepers other than the caller is not
negative, which by `CountAccounts` leaves no room for a holder; the lemmas about
cardinality follow how each of the two sets changes by one task.

* **RighiTypeCorrect** (`TypeOK`), for every instance: above all, the dynamic priorities
  stay between their floor and the static priority.
* **TasksInOneQueue** (`OneQueue`), **NoTaskFreedInUse** (`NoDangling`) and
  **NoThreadOutlives** (`NoOrphanThread`), under `Spared`: memory lasts (`FALSE \notin
  Allocates`) and no task is killed in the queue of a semaphore (`KillWaiters = FALSE`,
  as in the run).

`Spared` names the two ways in which the code breaks these promises: a creation that
fails late frees a structure that is in the zombie queue already (section 3), and a
waiter that is killed stays in the queue of the semaphore, which `UP` will wake. The
invariant is `LifeInv`: `TypeInv`, which adds to the types which step of its life a task
can be in (`Stations`), and `Lives`. No two of the three promises can be separated, and
`Lives` adds what they rest on: that the queues hold exactly the tasks that are born
and not freed, each once (`Once`), and the states agree with that (`Unborn`); that a child
comes before its father in the zombie queue, so that the father is freed last
(`Graves`): `kill` takes the father from every child in the other two queues when he
dies, so that only those moved before him still name him; that the idle
task and `kpagd` never die (`Roots`); that a dead task that still runs is on its way
to `schedule` (`Runs`); that until a refresh is asked for, the ready queue is that of the
ready (`Fresh`), so that `schedule` never picks a task that is not; and that the father
of a task in the two queues is alive (`Fathers`).

### The name server: NameServerProofs

For any modules, drivers, kinds, boot images and table sizes (`ModuleAssumption`,
`BoundAssumption`):

* **QuestionsKept** (`NoClientLost`), **RepliesComeFirst** (`AnswerComesFirst`),
  **InstancesOwned** (`OneClientPerInstance`).
* **RefusalsAreTrue** (`NotFoundIsTrue`), if `MAX_BOOT_WAIT_QUEUE <= MAX_WAITQUEUE`: both
  are 32 in the code (`../drivers/mps_boot.c:82`, `mps_struct.c:83`). When a driver
  registers, those in the boot queue that asked for it move to its own; were there no
  room, they would be refused although it is there.

The invariants come in layers, each inductive given those below it. `TypeInv` says what
a module can be doing at each point of its life. `AccountInv` keeps, for each module, a
ledger (`Balanced`): its questions with `mps`, its entries in the boot queue and in the
queue of a driver, the replies on the way and the mails it has not read are one
together while it waits, and none while it does not; each step of `mps` moves one entry
from one column to another. `NoClientLost` is one line of it. That no request is among
those mails (`Unsought`) is needed because a module takes whatever comes first for its
answer. `AnswerInv`: nobody holds the pid of a driver whose mailbox is empty, unless the
reply to the driver is on the way ahead of everything that tells of it. `OwnerInv`: a
multi-instance driver is registered once, in one place, and who knows of it is one
program. `RefusalInv`: nobody is in a queue for a driver of which an instance could be
had, which is why a refusal by a full queue or at the end of the boot is true.

### Induction over data

Loops, rings and chains are recursive functions, and the theorems of the library for
them take an operator as a parameter. The proofs go around that with sets: a
subset of Nat that has 0, and with k also k + 1, is Nat (`Inductive`), a set of
naturals that is not empty has a least element (`LeastExists`), and a recursive function
over `0 .. n` exists (`LoopExists`), so that "the invariant holds after k turns" is
membership in a set. Each module begins with those of these lemmas that it cites, and
the two about rings (DevicesProofs, KernelProofs) with the arithmetic of `%` near its
divisor: they are about numbers and sequences, and the same in all of them.

### Only model-checked

Liveness (`ReadyRuns`, `WokenReceives`, `CallsReturn`, `ClientsAnswered`) and the
fairness half of `ImplementsThreadSched`, which are outside this prover; `FIFOWakeup`,
which filters sequences.

## 5. Not modelled

*OSSO*: CPU exceptions; register-level code of drivers, console, PCI, PnP and SMP
probing (sequential I/O); the ELF format (an image is a number of pages); contents of
pages and messages; delivery of queued signals, whose only call is commented out in
`scheduler()`; `Destroy_Process`, which has no caller; what the servers do once they
are registered; the library and the loader; the page a DMA block shares with the
memory of a process that exits.

*minirighi32*: `wait_event` and `wakeup_queue`, which only drivers use; the allocator,
copy on write, paging; drivers, file systems and network. Liveness: the window of
`lost_wakeup` refutes the interesting statements, and the graph of states of an
instance with a zombie, a waiter and a holder is too large for TLC's liveness check.

The other kernels of the archive (ItaliOs in five snapshots, DreamOS, U-OS and smaller
ones) are independent programs, for the most part boot code, drivers and consoles
with a round-robin task switch or none. The archive has 292 000 lines; the
definitions here stand for the few thousand lines of the two kernels with processes
that interact, and coverage of the archive as a whole stays small.

## 6. Plan

Done, in this order: ThreadSched, ReadyRing, Kernel, Processes, Events, Memory, the
proofs about ThreadSched, RighiTasks and its proofs, NameServer, Devices, the proofs about
Devices, Kernel, Events and Processes, those about the life of tasks in RighiTasks and
those about NameServer and Memory.

1. *VFS*: the request and answer protocol of `drivers/vfs.c` on top of NameServer.
2. *A composition of Processes and Memory* for `fork`'s child in the scheduler.
3. *wait_event* of minirighi32, with the drivers that use it.

## 7. Running

In this directory:

    tlc -workers 2 -config MCThreadSched.cfg MCThreadSched
    tlc -workers 2 -config MCMessages.cfg MCProcesses
    tlc -workers 2 -config MCRighiTasks.cfg MCRighiTasks
    tlapm ThreadSchedProofs.tla
    tlapm KernelProofs.tla

(and so on, with the files of section 3 and the modules of section 4; MemoryProofs,
the longest, takes six minutes on four cores.)
