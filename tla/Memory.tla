--------------------------------- MODULE Memory ---------------------------------
(***************************************************************************)
(* Physical pages and the memory maps of the processes: memory.c, the      *)
(* kernel's mapping of paging.c, and the parts of process.c and messages.c *)
(* that allocate, copy, hand over and free pages.                          *)
(*                                                                         *)
(* pagelist says what each physical page is used for.  Data pages and page *)
(* directories are searched from the bottom, page tables are taken from    *)
(* the top, downwards from pt_pages.  A virtual page is a number; entry d  *)
(* of a page directory is about the pages d * PTES .. (d + 1) * PTES - 1.  *)
(* The first KDIR entries of every directory are the kernel's, which map   *)
(* the physical memory to itself.                                          *)
(*                                                                         *)
(* Every operation runs with interrupts off and never sleeps with Mem_Sem  *)
(* or Mem_Mutex taken, so each one is a step, of any thread: the order in  *)
(* which the threads run is the matter of ThreadSched.  Waiting for a      *)
(* message is the matter of Processes: here recmsg is possible when there  *)
(* is one.                                                                 *)
(***************************************************************************)
EXTENDS Integers, Sequences, FiniteSets, FiniteSetsExt

CONSTANTS
    mem_pages,       \* physical pages in pagelist
    BASE_FRAMES,     \* physical pages below them
    PTES,            \* entries of a page table, 1024 in the code
    KDIR,            \* entries of a page directory kept for the kernel, 0x20
    DIM_PAGE,        \* bytes of a page
    STACKS_SIZE,     \* THREAD_KERNEL_STACKS_SIZE and THREAD_USER_STACKS_SIZE
    IMAGE_PAGES,     \* pages of the program of every process
    Slot, Thread,    \* process and thread slots, initial segments of Nat
    MAX_THREADS_PER_PROCESS,
    Sizes,           \* what clients ask mallosso for, in bytes
    MAX_MESSAGES,    \* bound on the messages queued for a process
    MaxVPage,        \* bound on last_used_page
    Careless         \* what clients do that the code does not stop and gets wrong:
                     \*   "destroyer"  a thread is destroyed that has destroyed one
                     \*   "listed"     SIGNAL_DESTROY or Exit_Process for a process whose table
                     \*                of threads names what is not a thread of it, or one twice
                     \*   "unlisted"   a thread is destroyed by one that is found in the table that
                     \*                Destroy_Thread searches
                     \*   "header"     a block is freed that fills its last page

NULL == -1
HEADER == 4
Page == 0..mem_pages - 1
UserBase == KDIR * PTES
VPage == UserBase..MaxVPage
Pde == KDIR..MaxVPage \div PTES
Index == 0..MAX_THREADS_PER_PROCESS - 1

\* The entry of the directory for virtual page v.
Entry(v) == v \div PTES

\* init_PDE: the kernel's entries in use, as many as the physical memory needs.
KernelTables == (BASE_FRAMES + mem_pages + PTES - 1) \div PTES

ASSUME MemoryAssumption ==
    /\ mem_pages \in Nat /\ BASE_FRAMES \in Nat
    /\ PTES \in Nat \ {0} /\ KDIR \in Nat \ {0} /\ KernelTables <= KDIR
    /\ DIM_PAGE \in Nat /\ DIM_PAGE > HEADER
    /\ STACKS_SIZE \in Nat /\ IMAGE_PAGES \in Nat /\ Sizes \subseteq Nat
    /\ Max(Slot) \in Nat /\ Slot = 0..Max(Slot)
    /\ Max(Thread) \in Nat /\ Thread = 0..Max(Thread)
    /\ MAX_THREADS_PER_PROCESS \in Nat \ {0} /\ MaxVPage \in Nat
    /\ Careless \subseteq {"destroyer", "listed", "unlisted", "header"}

VARIABLES
    mem,      \* pagelist, free_pages and pt_pages
    space,    \* the memory of each process, see NoSpace
    Threads,  \* active, task, kernel_stack and user_stack of every thread
    halt      \* why the kernel has stopped, or "no": "finished", a panic for want of
              \* memory; "null_table", a page table at address 0, where getpagetable's
              \* NULL is not tested; "unallocated", the panic of Linear_free;
              \* "kernel_freed", pages of the kernel's own mapping given away;
              \* "panic", any other panic; "undefined", what is before an array, or in
              \* a directory that was freed, is used

vars == <<mem, space, Threads, halt>>

\* tables and map say which page each entry of the directory and of its tables
\* points to.  blocks are the blocks of mallosso, with the size found in their
\* header, and buffers the message buffers: what the program knows it has.  threads is
\* the table of its threads.
NoSpace ==
    [active |-> FALSE, user |-> FALSE, threads |-> [i \in Index |-> NULL], PageDir |-> NULL,
     msgqueue |-> NULL, mail |-> <<>>, last_used_page |-> UserBase,
     tables |-> [d \in Pde |-> NULL], map |-> [v \in VPage |-> NULL],
     blocks |-> {}, buffers |-> {}]

NoThread == [active |-> FALSE, task |-> 0, kernel_stack |-> 0, user_stack |-> 0]

\* The operations work on a cursor c: the memory, the space of one process and the
\* state of the kernel.  Once c.halt is set the rest of c means nothing, see Commit.
Cursor(as) == [mem |-> mem, as |-> as, halt |-> halt]
Going(m, as) == [mem |-> m, as |-> as, halt |-> "no"]

--------------------------------------------------------------------------------
(* memory.c.                                                                   *)

\* The page where the search of mem_getpage stops: the first one that is free or
\* holds a page table.
Found(m) == Min({i \in Page : m.pagelist[i] \in {"FREE", "PTAB"}})

Taken(m, i, tipo) == [m EXCEPT !.pagelist[i] = tipo, !.free_pages = @ - 1]

\* The same for a page table, which is the next one from the top.
TakenTop(m) == [Taken(m, m.pt_pages, "PTAB") EXCEPT !.pt_pages = @ - 1]

\* mem_getpage takes Found(c.mem), which its caller puts in its place in as; it panics
\* where the search stops at a page table.
mem_getpage(c, tipo, as) ==
    IF c.halt # "no" THEN c
    ELSE IF c.mem.pagelist[Found(c.mem)] # "FREE" THEN [c EXCEPT !.halt = "finished"]
    ELSE Going(Taken(c.mem, Found(c.mem), tipo), as)

\* A new page table for virtual page v, if its entry has none.
getpagetable(c, v, onNull) ==
    LET top == c.mem.pt_pages
    IN  IF c.halt # "no" \/ c.as.tables[Entry(v)] # NULL THEN c
        ELSE IF c.mem.pagelist[top] # "FREE" THEN [c EXCEPT !.halt = onNull]
        ELSE Going(TakenTop(c.mem), [c.as EXCEPT !.tables[Entry(v)] = top])

\* Wrong variant: free_pages is not updated.
freepage_NotCounted(m, p) == [m EXCEPT !.pagelist[p] = "FREE"]

\* freepage only prints a line when the page is free already.
freepage(m, p) == [m EXCEPT !.pagelist[p] = "FREE", !.free_pages = @ + 1]

\* A new data page at virtual page v.
MapPage(c, v) == mem_getpage(c, "DATA", [c.as EXCEPT !.map[v] = Found(c.mem)])

\* Bytes to pages, rounded up.
Pages(bytes) == (bytes + DIM_PAGE - 1) \div DIM_PAGE

\* The next virtual page, v: the page first, then the table.
AllocPage(c, v) ==
    getpagetable(MapPage([c EXCEPT !.as.last_used_page = v], v), v, "finished")

Linear_alloc(c, dimensione) ==
    LET n == Pages(dimensione)
        turn[j \in 0..n] ==
            IF j = 0 THEN c ELSE AllocPage(turn[j - 1], c.as.last_used_page + j)
    IN  IF c.halt # "no" THEN c
        ELSE IF n > c.mem.free_pages THEN [c EXCEPT !.halt = "finished"]
        ELSE turn[n]

\* One round of Linear_free.  Address 0 and whatever is below UserBase is mapped by
\* the kernel's entries.
UnmapPage(c, v) ==
    IF c.halt # "no" THEN c
    ELSE IF v < UserBase THEN [c EXCEPT !.halt = "kernel_freed"]
    ELSE IF v > MaxVPage \/ c.as.map[v] = NULL THEN [c EXCEPT !.halt = "unallocated"]
    ELSE Going(freepage(c.mem, c.as.map[v]), [c.as EXCEPT !.map[v] = NULL])

UnmapPages(c, v, n) ==
    LET turn[j \in 0..n] == IF j = 0 THEN c ELSE UnmapPage(turn[j - 1], v + j - 1)
    IN  turn[n]

\* Wrong variant: always one page more.
Linear_free_RoundsTwice(c, v, dimensione) ==
    UnmapPages(c, v, Pages(dimensione + HEADER) + 1)

\* Linear_free adds the header to the size, although the size that mallosso keeps
\* in the header has it already, and stacks have none.
Linear_free(c, v, dimensione) == UnmapPages(c, v, Pages(dimensione + HEADER))

--------------------------------------------------------------------------------
(* Steps of the running thread.                                                *)

task(t) == Threads[t].task

\* What a thread does whose process has ended without it is left out: see "unlisted".
Running(t) == halt = "no" /\ Threads[t].active /\ space[task(t)].active

\* The outcome of an operation.  If the kernel stops, what was done of it is of no
\* interest any more.
Outcome(m, sp, thr, h) ==
    /\ halt' = h
    /\ IF h = "no" THEN mem' = m /\ space' = sp /\ Threads' = thr
       ELSE UNCHANGED <<mem, space, Threads>>

\* The outcome of an operation on slot s, with the thread table it leaves.
Commit(s, c, thr) == Outcome(c.mem, [space EXCEPT ![s] = c.as], thr, c.halt)

\* Room for n more virtual pages below the bound.
Room(s, n) == space[s].last_used_page + n <= MaxVPage

mallosso(t, dimensione) ==
    LET s == task(t)
        at == space[s].last_used_page + 1
    IN  /\ Running(t)
        /\ Room(s, Pages(dimensione + HEADER))
        /\ Commit(s, [Linear_alloc(Cursor(space[s]), dimensione + HEADER) EXCEPT
                        !.as.blocks = @ \cup {[at |-> at, size |-> dimensione + HEADER]}],
                  Threads)

\* The header, counted twice, makes no page more.
HeaderFits(b) == Pages(b.size + HEADER) = Pages(b.size)

freosso(t) ==
    LET s == task(t)
    IN  /\ Running(t)
        /\ \E b \in space[s].blocks :
              /\ "header" \notin Careless => HeaderFits(b)
              /\ Commit(s, [Linear_free(Cursor(space[s]), b.at, b.size)
                              EXCEPT !.as.blocks = @ \ {b}],
                        Threads)

getbmsg(t) ==
    LET s == task(t)
        v == space[s].last_used_page + 1
    IN  /\ Running(t)
        /\ Room(s, 1)
        /\ Commit(s, [AllocPage(Cursor(space[s]), v) EXCEPT !.as.buffers = @ \cup {v}], Threads)

freemsg(t) ==
    LET s == task(t)
    IN  /\ Running(t)
        /\ \E v \in space[s].buffers :
              Commit(s, [UnmapPage(Cursor(space[s]), v) EXCEPT !.as.buffers = @ \ {v}], Threads)

\* sendmsg: the page leaves the map of the sender for the queue of slot d.  (What
\* happens when the queue is full is in Processes.)
sendmsg(t, d) ==
    LET s == task(t)
    IN  /\ Running(t)
        /\ space[d].active /\ Len(space[d].mail) < MAX_MESSAGES
        /\ \E v \in space[s].buffers :
              LET sent == [space EXCEPT ![s].map[v] = NULL, ![s].buffers = @ \ {v}]
              IN  space' = [sent EXCEPT ![d].mail = Append(@, space[s].map[v])]
        /\ UNCHANGED <<mem, Threads, halt>>

recmsg(t) ==
    LET s == task(t)
        v == space[s].last_used_page + 1
        taken == Cursor([space[s] EXCEPT !.mail = Tail(@), !.last_used_page = v])
    IN  /\ Running(t)
        /\ space[s].mail # <<>>
        /\ Room(s, 1)
        /\ Commit(s, [getpagetable(taken, v, "finished") EXCEPT
                        !.as.map[v] = Head(space[s].mail), !.as.buffers = @ \cup {v}],
                  Threads)

--------------------------------------------------------------------------------
(* process.c.                                                                  *)

StackPages == Pages(STACKS_SIZE)

\* The kernel's own tables leave some memory, and the bound on the addresses room for
\* the program and the stacks of a process.
ASSUME RoomAssumption ==
    /\ KernelTables < mem_pages
    /\ UserBase + IMAGE_PAGES + 3 + 2 * (StackPages + 1) <= MaxVPage

\* A stack does not fill its last page: 8000 bytes and pages of 4096 in the code.
ASSUME StackAssumption == Pages(STACKS_SIZE + HEADER) = StackPages

\* Create_Thread leaves a page unmapped below each stack.
Gap(c) == [c EXCEPT !.as.last_used_page = @ + 1]

Stacks(c) ==
    LET kernel == Linear_alloc(Gap(c), STACKS_SIZE)
    IN  IF c.as.user THEN Linear_alloc(Gap(kernel), STACKS_SIZE) ELSE kernel

\* The thread that gets these stacks.
StackedThread(s, as) ==
    [active |-> TRUE, task |-> s, kernel_stack |-> as.last_used_page + 2,
     user_stack |-> IF as.user THEN as.last_used_page + StackPages + 3 ELSE 0]

FreeThreads == {t \in Thread : ~Threads[t].active}

FreeSlots == {s \in Slot : ~space[s].active}

StackRoom(as) ==
    as.last_used_page + (IF as.user THEN 2 ELSE 1) * (StackPages + 1) <= MaxVPage

\* A table of threads: does it list u, a thread or NULL for a free entry; x put in the
\* first entry that does.
Lists(table, u) == \E i \in Index : table[i] = u

Relist(table, u, x) == [table EXCEPT ![Min({i \in Index : table[i] = u})] = x]

\* Where the table is full the system call goes on with entry -1.
Add_Thread_To_Process(c, n) ==
    IF c.halt # "no" THEN c
    ELSE IF ~Lists(c.as.threads, NULL) THEN [c EXCEPT !.halt = "undefined"]
    ELSE [c EXCEPT !.as.threads = Relist(@, NULL, n)]

Create_Thread(t) ==
    LET s == task(t)
        n == Min(FreeThreads)
    IN  /\ Running(t)
        /\ FreeThreads # {} /\ StackRoom(space[s])
        /\ Commit(s, Add_Thread_To_Process(Stacks(Cursor(space[s])), n),
                  [Threads EXCEPT ![n] = StackedThread(s, space[s])])

\* Get_Free_Thread_Slot and Get_Free_Process_Slot panic if there is none.
Tables_Full(t) ==
    /\ Running(t)
    /\ FreeThreads = {} \/ FreeSlots = {}
    /\ halt' = "panic"
    /\ UNCHANGED <<mem, space, Threads>>

\* mem_alloc_and_copy and mem_alloc_and_fill: table first, NULL not tested.
LoadPage(c, v) == MapPage(getpagetable(c, v, "null_table"), v)

PageDirectory(c) == mem_getpage(c, "PDIR", [c.as EXCEPT !.PageDir = Found(c.mem)])

MessageQueue(c) == mem_getpage(c, "DATA", [c.as EXCEPT !.msgqueue = Found(c.mem)])

Program(c) ==
    LET turn[j \in 0..IMAGE_PAGES] ==
            IF j = 0 THEN c ELSE LoadPage(turn[j - 1], UserBase + j - 1)
    IN  turn[IMAGE_PAGES]

\* The table of threads of a new process.
Only(n) == [NoSpace.threads EXCEPT ![0] = n]

\* A process of a given level in a free slot: directory, program, message queue.
\* last_used_page is rounded up twice past the program.
Loaded(c) ==
    [MessageQueue(Program(PageDirectory(c))) EXCEPT
       !.as.last_used_page = UserBase + IMAGE_PAGES + 3]

Create_Process_From_ELF(t, user) ==
    LET s == Min(FreeSlots)
        n == Min(FreeThreads)
        c == Loaded(Cursor([NoSpace EXCEPT !.active = TRUE, !.user = user, !.threads = Only(n)]))
    IN  /\ Running(t)
        /\ FreeSlots # {} /\ FreeThreads # {}
        /\ Commit(s, Stacks(c), [Threads EXCEPT ![n] = StackedThread(s, c.as)])

\* A page for virtual page v if the father has one there; a table for entry d and the
\* pages of that table, if he has the table; all his tables.
CopyPage(c, father, v) ==
    IF v <= MaxVPage /\ father.map[v] # NULL THEN MapPage(c, v) ELSE c

CopyTable(c, father, d) ==
    LET turn[j \in 0..PTES] ==
            IF j = 0 THEN getpagetable(c, d * PTES, "null_table")
            ELSE CopyPage(turn[j - 1], father, d * PTES + j - 1)
    IN  IF father.tables[d] # NULL THEN turn[PTES] ELSE c

CopyTables(c, father) ==
    LET n == MaxVPage \div PTES - KDIR + 1
        turn[k \in 0..n] == IF k = 0 THEN c ELSE CopyTable(turn[k - 1], father, KDIR + k - 1)
    IN  turn[n]

\* fork: a queue of its own, a directory, and a copy of every table in use and of
\* every page mapped.  The child has a copy of the calling thread only.
fork(t) ==
    LET n == Min(FreeThreads)
        father == space[task(t)]
        empty == [father EXCEPT !.threads = Only(n), !.msgqueue = NULL, !.PageDir = NULL,
                                !.mail = <<>>, !.tables = NoSpace.tables, !.map = NoSpace.map]
    IN  /\ Running(t)
        /\ FreeSlots # {} /\ FreeThreads # {}
        /\ Commit(Min(FreeSlots), CopyTables(PageDirectory(MessageQueue(Cursor(empty))), father),
                  [Threads EXCEPT ![n] = [Threads[t] EXCEPT !.task = Min(FreeSlots)]])

\* Exit_Thread and Exit_Process free the stacks that the thread still has.
FreeStacks(c, thr) ==
    LET k == IF thr.kernel_stack = 0 THEN c ELSE Linear_free(c, thr.kernel_stack, STACKS_SIZE)
    IN  IF thr.user_stack = 0 THEN k ELSE Linear_free(k, thr.user_stack, STACKS_SIZE)

\* A thread that is no more, of its own doing: it has no stacks.
Ended(x) == [x EXCEPT !.active = FALSE, !.kernel_stack = 0, !.user_stack = 0]

\* It panics if its process does not list it.
Exit_Thread(t) ==
    LET s == task(t)
        c == Cursor(space[s])
    IN  /\ Running(t)
        /\ Commit(s, IF Lists(space[s].threads, t)
                     THEN [FreeStacks(c, Threads[t]) EXCEPT !.as.threads = Relist(@, t, NULL)]
                     ELSE [c EXCEPT !.halt = "panic"],
                  [Threads EXCEPT ![t] = Ended(@)])

\* The stacks that Destroy_Thread(t) by me frees, on x, the cursor on t's process and
\* the thread table: it looks whether the running thread has a kernel stack, not t,
\* and it is the running thread that loses its stacks in the table.
FreeStacksOf(x, me, t) ==
    LET kernel == IF x.thr[me].kernel_stack = 0 THEN x.c
                  ELSE Linear_free(x.c, x.thr[t].kernel_stack, STACKS_SIZE)
        has_user == x.thr[t].user_stack # 0
    IN  [c |-> IF has_user THEN Linear_free(kernel, x.thr[t].user_stack, STACKS_SIZE) ELSE kernel,
         thr |-> [x.thr EXCEPT ![t].active = FALSE,
                               ![me].kernel_stack = 0,
                               ![me].user_stack = IF has_user THEN 0 ELSE @]]

\* The whole kernel.
Kern == [mem |-> mem, space |-> space, thr |-> Threads, halt |-> halt]

\* The thread me taken out of the table of slot q, if it is there.
Unlisted(sp, q, me) ==
    IF q # NULL /\ Lists(sp[q].threads, me)
    THEN [sp EXCEPT ![q].threads = Relist(@, me, NULL)]
    ELSE sp

\* Destroy_Thread(t) by me on the kernel k.  It takes the pid of t's process for a slot
\* and the running thread out of the table of that slot, q (Processes says which it
\* is).  The table of the process still names t, and t's entry its stacks.
Destroy_Thread(k, me, t, q) ==
    LET s == k.thr[t].task
        sp == Unlisted(k.space, q, me)
        x == FreeStacksOf([c |-> [mem |-> k.mem, as |-> sp[s], halt |-> k.halt],
                           thr |-> k.thr], me, t)
        frees == k.thr[me].kernel_stack # 0 \/ k.thr[t].user_stack # 0
    IN  IF k.halt # "no" THEN k
        ELSE IF t = me THEN [k EXCEPT !.halt = "panic"]
        ELSE IF frees /\ ~sp[s].active THEN [k EXCEPT !.halt = "undefined"]
        ELSE [mem |-> x.c.mem, space |-> [sp EXCEPT ![s] = x.c.as], thr |-> x.thr,
              halt |-> x.c.halt]

\* The threads that the table of slot s names.
Named(s) == {space[s].threads[i] : i \in Index} \ {NULL}

\* They are its threads, each named once.
Sane(s) ==
    /\ \A u \in Named(s) : Threads[u].active /\ task(u) = s
    /\ \A i, j \in Index : space[s].threads[i] = space[s].threads[j] =>
          i = j \/ space[s].threads[i] = NULL

\* The threads D of slot s are destroyed.  A thread that has destroyed another no longer
\* knows its kernel stack.
MayDestroy(s, D) ==
    /\ "listed" \notin Careless => Sane(s)
    /\ "destroyer" \notin Careless => \A u \in D : Threads[u].kernel_stack # 0

\* The slots whose table the running thread may be taken out of.
Searched == {NULL} \cup (IF "unlisted" \in Careless THEN Slot ELSE {})

\* SIGNAL_DESTROY: the thread in the first entry of a process is destroyed, and nothing
\* else.  Signal does not look whether there is one, or whether it is alive.
SIGNAL_DESTROY(t, s) ==
    LET victim == space[s].threads[0]
    IN  /\ Running(t)
        /\ space[s].active /\ MayDestroy(s, {victim} \ {NULL})
        /\ \E q \in Searched :
              LET k == IF victim = NULL THEN [Kern EXCEPT !.halt = "undefined"]
                       ELSE Destroy_Thread(Kern, t, victim, q)
              IN  Outcome(k.mem, k.space, k.thr, k.halt)

\* The loop of Exit_Process over the table of the threads of the process.
DestroyOthers(t, q) ==
    LET n == MAX_THREADS_PER_PROCESS
        listed == space[task(t)].threads
        turn[i \in 0..n] ==
            IF i = 0 THEN Kern
            ELSE IF listed[i - 1] \in {NULL, t} THEN turn[i - 1]
            ELSE Destroy_Thread(turn[i - 1], t, listed[i - 1], q)
    IN  turn[n]

\* The pages of a space, once for each place it has them in.
Held(as) ==
    {<<"dir", 0, as.PageDir>>, <<"queue", 0, as.msgqueue>>}
      \cup {<<"table", d, as.tables[d]>> : d \in {e \in Pde : as.tables[e] # NULL}}
      \cup {<<"map", v, as.map[v]>> : v \in {w \in VPage : as.map[w] # NULL}}
      \cup {<<"mail", i, as.mail[i]>> : i \in DOMAIN as.mail}

\* The memory m with those pages freed, one freepage for each.
Freed(m, held) ==
    [m EXCEPT !.pagelist = [p \in Page |-> IF \E h \in held : h[3] = p THEN "FREE" ELSE @[p]],
              !.free_pages = @ + Cardinality(held)]

\* Wrong variant: the page tables are not freed.
GiveBack_KeepsTables(c) ==
    IF c.halt # "no" THEN c
    ELSE IF KernelTables = KDIR THEN [c EXCEPT !.halt = "kernel_freed"]
    ELSE Going(Freed(c.mem, {h \in Held(c.as) : h[1] # "table"}), NoSpace)

\* What Exit_Process frees in the end: messages, queue, pages, tables, directory.  Its
\* loop starts with entry KDIR - 1, the last of the kernel's, if that is in use.
GiveBack(c) ==
    IF c.halt # "no" THEN c
    ELSE IF KernelTables = KDIR THEN [c EXCEPT !.halt = "kernel_freed"]
    ELSE Going(Freed(c.mem, Held(c.as)), NoSpace)

Exit_Process(t) ==
    LET s == task(t)
    IN  /\ Running(t)
        /\ MayDestroy(s, Named(s) \ {t})
        /\ \E q \in Searched :
              LET k == DestroyOthers(t, q)
                  c == GiveBack(FreeStacks([mem |-> k.mem, as |-> k.space[s], halt |-> k.halt],
                                           k.thr[t]))
              IN  Outcome(c.mem, [k.space EXCEPT ![s] = c.as], [k.thr EXCEPT ![t] = Ended(@)], c.halt)

--------------------------------------------------------------------------------
\* The memory after meminit, init_paging and initchardevs, which keeps page 0.
BootMem ==
    [pagelist |-> [p \in Page |-> IF p = 0 THEN "DATA"
                                  ELSE IF p >= mem_pages - KernelTables THEN "PTAB" ELSE "FREE"],
     free_pages |-> mem_pages - KernelTables - 1,
     pt_pages |-> mem_pages - KernelTables - 1]

\* main() creates the first process, at supervisor level.
FirstLoaded ==
    Loaded(Going(BootMem, [NoSpace EXCEPT !.active = TRUE, !.user = FALSE, !.threads = Only(0)]))

Booted == Stacks(FirstLoaded)

\* There is memory enough for the first process: the panic of a boot without is left out.
ASSUME BootAssumption == Booted.halt = "no"

Init ==
    /\ mem = Booted.mem
    /\ space = [q \in Slot |-> IF q = 0 THEN Booted.as ELSE NoSpace]
    /\ Threads = [t \in Thread |-> IF t = 0 THEN StackedThread(0, FirstLoaded.as) ELSE NoThread]
    /\ halt = Booted.halt

Next ==
    \E t \in Thread :
       \/ \E d \in Sizes : mallosso(t, d)
       \/ freosso(t) \/ getbmsg(t) \/ freemsg(t) \/ recmsg(t)
       \/ \E d \in Slot : sendmsg(t, d)
       \/ Create_Thread(t) \/ Tables_Full(t) \/ Exit_Thread(t)
       \/ \E user \in BOOLEAN : Create_Process_From_ELF(t, user)
       \/ fork(t) \/ Exit_Process(t)
       \/ \E s \in Slot : SIGNAL_DESTROY(t, s)

Spec == Init /\ [][Next]_vars

--------------------------------------------------------------------------------
(* Properties.                                                                 *)

\* The slots that hold page p, with the place they have it in.
Users(p) == {u \in UNION {{s} \X Held(space[s]) : s \in {q \in Slot : space[q].active}} :
               u[2][3] = p}

Kernels(p) == p = 0 \/ p >= mem_pages - KernelTables

\* Every page has one use: a page that pagelist calls free is in no directory, table,
\* map or message queue, and one that it calls used is there once, in the role
\* that pagelist says.  So nothing is leaked by an exit, given to two processes
\* by fork or a message, or freed while it is in use.
PagesAccounted ==
    \A p \in Page \ {q \in Page : Kernels(q)} :
       /\ Cardinality(Users(p)) = (IF mem.pagelist[p] = "FREE" THEN 0 ELSE 1)
       /\ \A u \in Users(p) :
             mem.pagelist[p] = CASE u[2][1] = "dir" -> "PDIR" [] u[2][1] = "table" -> "PTAB"
                                 [] OTHER -> "DATA"

\* free_pages, which Linear_alloc relies on and getmeminfo reports, is the number of
\* free pages.
FreePagesCounted ==
    mem.free_pages = Cardinality({p \in Page : mem.pagelist[p] = "FREE"})

Mapped(as, v, bytes) == \A w \in v..v + Pages(bytes) - 1 : w \in VPage /\ as.map[w] # NULL

\* memory.c says of Linear_free: "This function free a linear aligned block in the
\* logical mapping of the process".  Freeing one takes nothing else away: the blocks
\* and buffers that a process has and the stacks of its threads are mapped.
HeldIsMapped ==
    \A s \in Slot : space[s].active =>
       /\ \A b \in space[s].blocks : Mapped(space[s], b.at, b.size)
       /\ \A v \in space[s].buffers : Mapped(space[s], v, 1)
       /\ \A t \in Thread : Threads[t].active /\ Threads[t].task = s =>
             /\ Threads[t].kernel_stack # 0 => Mapped(space[s], Threads[t].kernel_stack, STACKS_SIZE)
             /\ Threads[t].user_stack # 0 => Mapped(space[s], Threads[t].user_stack, STACKS_SIZE)

\* The kernel never frees what is not allocated (the panic "Freeing unallocated
\* memory !!") nor pages of its own mapping.
FreesItsOwn == halt \notin {"unallocated", "kernel_freed"}

================================================================================
