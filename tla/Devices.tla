-------------------------------- MODULE Devices ---------------------------------
(* What the kernel of OSSO gives to drivers: character buffers (chardevs.c), DMA   *)
(* channels (dma.c), DMA memory (dma_memory.c) and the descriptor of a thread      *)
(* (gdt.c), with the exit of a process, which gives back the descriptor alone.     *)
(* Every system call runs with interrupts off: it is one step, and the mutexes it  *)
(* takes and gives back are free again at its end. What is left is the semaphore   *)
(* of a buffer, which releasecharbuffer() keeps. A process has one thread.         *)
EXTENDS Integers, SequencesExt

CONSTANTS
    Proc,           \* pids, which are never reused
    Channels,       \* DMA channels a process asks for, 4 included; 0 panics in StartDMA
    Blocks,         \* blocks of DMA memory, 0 .. Blocks - 1
    MAXCHARDEVS,
    CHARBUFMAXSIZE,
    Sizes,          \* the sizes buffers are asked with
    Byte, Junk,     \* Junk: what is in a page that nobody has written
    Count,          \* the numbers of bytes that are read or written
    Entries,        \* gdt_size, less the entries of the kernel
    Garbage,        \* how far past the end of chardevs[] the next byte 0 may be
    NoPid,
    Services        \* sets of services: processes use those of one of the sets

ASSUME DeviceAssumption ==
    /\ NoPid \notin Proc /\ Junk \notin Byte
    /\ Channels \subseteq 1 .. 7
    /\ Blocks \in Nat /\ Entries \in Nat
    /\ MAXCHARDEVS \in Nat \ {0}
    /\ Services \subseteq SUBSET {"chardevs", "dma"}
    /\ Sizes \subseteq Nat \ {0} /\ Count \subseteq Nat /\ Garbage \subseteq Nat

VARIABLES
    uses,       \* the services that processes use: the tables have nothing in common
    alive,      \* the processes that run
    exited,
    tss_des,    \* Proc -> the descriptor of its thread, 0 without one
    chardevs,   \* the table of buffers, from 1
    sleeping,   \* Proc -> the buffer whose semaphore it sleeps on, 0 if it does not
    last,       \* the last transfer: what its caller asked for and what went
    DMA_CHANNEL,    \* Channels -> its owner, NoPid if it is free
    armed,      \* Channels -> who programmed it last
    Block_Used, \* the blocks in use
    mapped,     \* Proc -> the blocks in its page tables, which are never unmapped
    held,       \* Proc -> the blocks it was given and has not freed
    halted      \* panic

buffers == <<chardevs, sleeping, last>>
dma == <<DMA_CHANNEL, armed, Block_Used, mapped, held>>
procs == <<uses, alive, exited, tss_des>>
vars == <<procs, buffers, dma, halted>>

FirstOf(S) == CHOOSE i \in S : \A j \in S : i <= j

Runs(p) == p \in alive /\ sleeping[p] = 0 /\ ~halted

------------------------------------------------------------------------------
(* Character buffers *)

Closed == [present |-> FALSE, ownerpid |-> NoPid, size |-> 0, head |-> 0, tail |-> 0,
           semaforo |-> 0, buffer |-> <<>>]

\* Wrong variant: the semaphore stays as releasecharbuffer() left it.
Opened_Locked(d, p, dim) ==
    [d EXCEPT !.present = TRUE, !.ownerpid = p, !.size = dim, !.head = 0, !.tail = 0,
              !.buffer = [k \in 0 .. dim - 1 |-> Junk]]

\* A new buffer over a page nobody has written.
Opened(d, p, dim) ==
    [d EXCEPT !.present = TRUE, !.ownerpid = p, !.size = dim, !.head = 0, !.tail = 0,
              !.buffer = [k \in 0 .. dim - 1 |-> Junk], !.semaforo = 1]

\* Wrong variant: the end of the table is not tested.
getcharbuffer_NoEnd(p) ==
    \E dim \in Sizes :
        LET free == {i \in DOMAIN chardevs : ~chardevs[i].present}
            new == IF free = {} THEN Len(chardevs) + 1 ELSE FirstOf(free)
        IN /\ dim <= CHARBUFMAXSIZE
           /\ chardevs' = IF free = {} THEN Append(chardevs, Opened(Closed, p, dim))
                          ELSE [chardevs EXCEPT ![new] = Opened(@, p, dim)]
           /\ UNCHANGED <<sleeping, last, procs, dma, halted>>

\* The loop for a free entry stops at the first one, or past the end where the memory
\* happens to be 0: only an entry right after the table makes it an error.
getcharbuffer(p) ==
    \E dim \in Sizes, k \in Garbage :
        LET free == {i \in DOMAIN chardevs : ~chardevs[i].present}
        IN /\ dim <= CHARBUFMAXSIZE
           /\ free # {} \/ k # 0
           /\ chardevs' = IF free = {} THEN Append(chardevs, Opened(Closed, p, dim))
                          ELSE [chardevs EXCEPT ![FirstOf(free)] = Opened(@, p, dim)]
           /\ UNCHANGED <<sleeping, last, procs, dma, halted>>

\* Bool_P in read() and write(): the buffer need not be open, but it once was.
Known(i) == i \in DOMAIN chardevs /\ chardevs[i].size # 0

Sleep(p, i) ==
    /\ chardevs[i].semaforo = 0
    /\ sleeping' = [sleeping EXCEPT ![p] = i]
    /\ UNCHANGED <<chardevs, last>>

\* Wrong variant: the test for a full ring forgets the wrap around.
PutByte_NoWrap(t, b) ==
    IF t.d.head = t.d.tail + 1 THEN t
    ELSE [d |-> [t.d EXCEPT !.buffer[t.d.tail] = b, !.tail = (@ + 1) % t.d.size],
          bytes |-> Append(t.bytes, b)]

\* One turn of the loops of write() and read(); once they break they stay where they are.
PutByte(t, b) ==
    IF t.d.head = (t.d.tail + 1) % t.d.size THEN t
    ELSE [d |-> [t.d EXCEPT !.buffer[t.d.tail] = b, !.tail = (@ + 1) % t.d.size],
          bytes |-> Append(t.bytes, b)]
GetByte(t) ==
    IF t.d.head = t.d.tail THEN t
    ELSE [d |-> [t.d EXCEPT !.head = (@ + 1) % t.d.size],
          bytes |-> Append(t.bytes, t.d.buffer[t.d.head])]

WriteLoop(d, s) ==
    LET turn[k \in 0 .. Len(s)] ==
            IF k = 0 THEN [d |-> d, bytes |-> <<>>] ELSE PutByte(turn[k - 1], s[k])
    IN turn[Len(s)]
ReadLoop(d, count) ==
    LET turn[k \in 0 .. count] ==
            IF k = 0 THEN [d |-> d, bytes |-> <<>>] ELSE GetByte(turn[k - 1])
    IN turn[count]

write(p, i, s) ==
    \/ /\ chardevs[i].semaforo = 1
       /\ LET end == WriteLoop(chardevs[i], s)
          IN /\ chardevs' = [chardevs EXCEPT ![i] = end.d]
             /\ last' = [kind |-> "write", asked |-> s, bytes |-> end.bytes]
       /\ UNCHANGED sleeping
    \/ Sleep(p, i)

read(p, i, count) ==
    \/ /\ chardevs[i].semaforo = 1
       /\ LET end == ReadLoop(chardevs[i], count)
          IN /\ chardevs' = [chardevs EXCEPT ![i] = end.d]
             /\ last' = [kind |-> "read", asked |-> count, bytes |-> end.bytes]
       /\ UNCHANGED sleeping
    \/ Sleep(p, i)

Transfer(p) ==
    /\ \E i \in DOMAIN chardevs, n \in Count :
          /\ Known(i)
          /\ read(p, i, n) \/ \E s \in [1 .. n -> Byte] : write(p, i, s)
    /\ UNCHANGED <<procs, dma, halted>>

\* The semaphore of the buffer is taken and not given back. Its Bool_P never sleeps:
\* an open buffer has its semaphore free, see OpenIsUsable.
releasecharbuffer(p) ==
    \E i \in DOMAIN chardevs :
        /\ chardevs[i].present /\ chardevs[i].ownerpid = p
        /\ chardevs[i].semaforo = 1
        /\ chardevs' = [chardevs EXCEPT ![i].present = FALSE, ![i].semaforo = 0]
        /\ UNCHANGED <<sleeping, last, procs, dma, halted>>

------------------------------------------------------------------------------
(* DMA *)

DMA_Request_Channel(p) ==
    /\ \E c \in Channels :
          /\ c # 4 /\ DMA_CHANNEL[c] = NoPid
          /\ DMA_CHANNEL' = [DMA_CHANNEL EXCEPT ![c] = p]
    /\ UNCHANGED <<armed, Block_Used, mapped, held, procs, buffers, halted>>

DMA_Free_Channel(p) ==
    /\ \E c \in Channels :
          /\ DMA_CHANNEL[c] = p
          /\ DMA_CHANNEL' = [DMA_CHANNEL EXCEPT ![c] = NoPid]
    /\ UNCHANGED <<armed, Block_Used, mapped, held, procs, buffers, halted>>

\* Wrong variant: the channel need only be in use.
StartDMA_NoOwner(p) ==
    /\ \E c \in Channels :
          /\ DMA_CHANNEL[c] # NoPid
          /\ armed' = [armed EXCEPT ![c] = p]
    /\ UNCHANGED <<DMA_CHANNEL, Block_Used, mapped, held, procs, buffers, halted>>

StartDMA(p) ==
    /\ \E c \in Channels :
          /\ DMA_CHANNEL[c] = p
          /\ armed' = [armed EXCEPT ![c] = p]
    /\ UNCHANGED <<DMA_CHANNEL, Block_Used, mapped, held, procs, buffers, halted>>

DMA_Memory_Get_Block(p) ==
    /\ Block_Used # 0 .. Blocks - 1
    /\ LET i == FirstOf((0 .. Blocks - 1) \ Block_Used)
       IN /\ Block_Used' = Block_Used \cup {i}
          /\ mapped' = [mapped EXCEPT ![p] = @ \cup {i}]
          /\ held' = [held EXCEPT ![p] = @ \cup {i}]
    /\ UNCHANGED <<DMA_CHANNEL, armed, procs, buffers, halted>>

\* The block stays in the page tables of the process; nobody checks whose it is, but a
\* driver frees only what it holds.
DMA_Memory_Free_Block(p) ==
    /\ \E i \in held[p] :
          /\ Block_Used' = Block_Used \ {i}
          /\ held' = [held EXCEPT ![p] = @ \ {i}]
    /\ UNCHANGED <<DMA_CHANNEL, armed, mapped, procs, buffers, halted>>

------------------------------------------------------------------------------
(* Processes *)

Taken == {tss_des[p] : p \in Proc} \ {0}

\* A process starts: its thread gets a descriptor, or the kernel panics.
Start(p) ==
    /\ p \notin alive \cup exited /\ ~halted
    /\ IF Taken = 1 .. Entries
       THEN halted' = TRUE /\ UNCHANGED <<alive, tss_des>>
       ELSE /\ alive' = alive \cup {p}
            /\ tss_des' = [tss_des EXCEPT ![p] = FirstOf((1 .. Entries) \ Taken)]
            /\ UNCHANGED halted
    /\ UNCHANGED <<uses, exited, buffers, dma>>

\* Exit_Process(): of all this, only the descriptor is given back.
Exit_Process(p) ==
    /\ alive' = alive \ {p}
    /\ exited' = exited \cup {p}
    /\ tss_des' = [tss_des EXCEPT ![p] = 0]
    /\ UNCHANGED <<uses, buffers, dma, halted>>

Init ==
    /\ uses \in Services
    /\ alive = {} /\ exited = {}
    /\ tss_des = [p \in Proc |-> 0]
    /\ chardevs = [i \in 1 .. MAXCHARDEVS |-> Closed]
    /\ sleeping = [p \in Proc |-> 0]
    /\ last = [kind |-> "none"]
    /\ DMA_CHANNEL = [c \in Channels |-> NoPid]
    /\ armed = [c \in Channels |-> NoPid]
    /\ Block_Used = {}
    /\ mapped = [p \in Proc |-> {}] /\ held = [p \in Proc |-> {}]
    /\ halted = FALSE

Call(p) ==
    /\ Runs(p)
    /\ \/ /\ "chardevs" \in uses
          /\ getcharbuffer(p) \/ releasecharbuffer(p) \/ Transfer(p)
       \/ /\ "dma" \in uses
          /\ \/ DMA_Request_Channel(p) \/ DMA_Free_Channel(p) \/ StartDMA(p)
             \/ DMA_Memory_Get_Block(p) \/ DMA_Memory_Free_Block(p)
       \/ Exit_Process(p)

Next == \E p \in Proc : Start(p) \/ Call(p)

Spec == Init /\ [][Next]_vars

------------------------------------------------------------------------------
(* Properties *)

\* The table of buffers never grows past its end, whatever getcharbuffer() finds
\* there, and the indices of every buffer stay inside it; no descriptor has two threads.
DevTypeOK ==
    /\ Len(chardevs) = MAXCHARDEVS
    /\ \A i \in DOMAIN chardevs : chardevs[i].present =>
          /\ chardevs[i].head \in 0 .. chardevs[i].size - 1
          /\ chardevs[i].tail \in 0 .. chardevs[i].size - 1
    /\ \A p, q \in alive : p # q => tss_des[p] # tss_des[q]

\* The bytes between head and tail, in the order of write().
Content(d) ==
    IF ~d.present THEN <<>>
    ELSE [k \in 1 .. (d.tail - d.head) % d.size |-> d.buffer[(d.head + k - 1) % d.size]]

CQ == INSTANCE CharQueues WITH
          Id <- 1 .. MAXCHARDEVS,
          room <- [i \in 1 .. MAXCHARDEVS |->
                      IF chardevs[i].present THEN chardevs[i].size - 1 ELSE -1],
          queue <- [i \in 1 .. MAXCHARDEVS |-> Content(chardevs[i])]

\* The rings of chardevs.c, one entry of which is always left empty, are bounded
\* queues: whatever processes read is what was written, in order, once, across wrap
\* around, partial transfers and the release and reuse of a table entry.
ImplementsCharQueues == CQ!Spec

\* releasecharbuffer() leaves the semaphore of the entry taken. An open buffer can
\* be used all the same: nobody goes to sleep on it for ever, whoever held it before.
OpenIsUsable ==
    \A i \in DOMAIN chardevs : chardevs[i].present => chardevs[i].semaforo = 1

\* Exit_Process() gives no DMA channel or block back. What the dead leave is lost but
\* inert: nobody programs their channels or takes them, and no block that a process
\* holds, dead or alive, is given to another.
LeftoversInert ==
    [][/\ \A c \in Channels : DMA_CHANNEL[c] \in exited =>
             DMA_CHANNEL'[c] = DMA_CHANNEL[c] /\ armed'[c] = armed[c]
       /\ \A p, q \in Proc : p # q => held[p] \cap held'[q] = {}]_vars
================================================================================
