------------------------------- MODULE Processes -------------------------------
(***************************************************************************)
(* Processes, their message queues and signals in the OSSO kernel          *)
(* (process.c, messages.c, signals.c), on top of the scheduler and the     *)
(* semaphores of ThreadSched: each process slot has one counting semaphore *)
(* Messages, on which recmsg waits.                                        *)
(*                                                                         *)
(* A system call runs with interrupts off and gives up the processor only  *)
(* in a P that suspends it, so each one is a step.  The boolean semaphores *)
(* Mutex, Msg_Sem, Sig_Sem, Mem_Sem and Processi_Mutex are taken and       *)
(* released inside one step: nobody ever finds them taken.                 *)
(*                                                                         *)
(* A message is a page that changes owner.  Addresses are abstracted to    *)
(* the page they are mapped to: getbmsg and recmsg map each page at a      *)
(* fresh address.                                                          *)
(***************************************************************************)
EXTENDS Integers, SequencesExt

CONSTANTS
    MAX_PROCESSES, MAX_THREADS, MAX_THREADS_PER_PROCESS, MAX_REFERENCES,
    MAX_MESSAGES,         \* cells of the ring msgqueue
    MAX_SIGNALS_PENDING,  \* cells of the ring signals_queue
    Page,                 \* the pages that getpage can return
    Reserved_Pids,        \* the pids left for the kernel, 3 in the code
    MaxPid,               \* bound on Last_Pid_Used
    Signals,              \* the signals that clients send
    Disciplined,          \* clients send SIGNAL_CONT and SIGNAL_DESTROY only as
                          \* init.c and shell.c do, see MayContinue
    NoSem

ASSUME SizeAssumption ==
    /\ MAX_PROCESSES \in Nat /\ MaxPid \in Nat /\ MaxPid < MAX_PROCESSES
    /\ Reserved_Pids \in Nat /\ Reserved_Pids + 2 <= MaxPid
    /\ MAX_THREADS \in Nat /\ MAX_THREADS > 1
    /\ MAX_THREADS_PER_PROCESS \in Nat \ {0}
    /\ MAX_REFERENCES \in Nat /\ MAX_REFERENCES > 1
    /\ MAX_MESSAGES \in Nat \ {0} /\ MAX_SIGNALS_PENDING \in Nat \ {0}
    /\ NoSem \notin Nat
    /\ Signals \subseteq {"CONT", "STOP", "DESTROY", "TERM"}
    /\ Disciplined \in BOOLEAN

Slot == 0..MAX_PROCESSES - 1
Thread == 0..MAX_THREADS - 1
THREAD_INVALID == -1
kernel_thread == 0
init_thread == 1
kernel_slot == 0

VARIABLES
    active, CodaPronti, Thread_In_Esecuzione, panicked,
    Status, queue, inP, credit,  \* of the semaphores Messages
    Processi,         \* active, pid, threads and pending signals of every slot
    Last_Pid_Used,
    owner,            \* Threads[].task and Threads[].pid
    msgqueue,         \* the messages of each slot, between msg_head and msg_tail
    mapped,           \* the message pages mapped in each process
    freepages,
    receiving,        \* the slot whose P(Messages) has just returned to the
                      \* running thread, the rest of recmsg being still to run
    exhausted         \* panic() for want of a slot, a thread, a page or room

schedvars == <<active, CodaPronti, Thread_In_Esecuzione, Status, queue, inP, credit, panicked>>
vars == <<schedvars, Processi, Last_Pid_Used, owner, msgqueue, mapped, freepages, receiving,
          exhausted>>

Sched == INSTANCE ThreadSched WITH
    Semaphore <- Slot,
    Bool_Semaphore <- {},
    IRQ_Semaphore <- {},
    InitStatus <- [s \in Slot |-> 0],
    MaxStatus <- MAX_MESSAGES

NoThreads == [i \in 1..MAX_THREADS_PER_PROCESS |-> THREAD_INVALID]

FreeProcess == [active |-> FALSE, pid |-> 0, threads |-> NoThreads, signals |-> 0]

\* A process with a single thread.
NewProcess(pid, t) ==
    [active |-> TRUE, pid |-> pid, threads |-> [NoThreads EXCEPT ![1] = t], signals |-> 0]

\* main() has made the kernel's process and INIT, and put INIT's thread in
\* CodaPronti.
Init ==
    /\ Sched!Init
    /\ Processi = [s \in Slot |-> CASE s = kernel_slot -> NewProcess(Reserved_Pids + 1, kernel_thread)
                                    [] s = 1 -> NewProcess(Reserved_Pids + 2, init_thread)
                                    [] OTHER -> FreeProcess]
    /\ Last_Pid_Used = Reserved_Pids + 2
    /\ owner = [t \in Thread |->
                  IF t = init_thread THEN [task |-> 1, pid |-> Reserved_Pids + 2]
                                     ELSE [task |-> kernel_slot, pid |-> Reserved_Pids + 1]]
    /\ msgqueue = [s \in Slot |-> <<>>]
    /\ mapped = [s \in Slot |-> {}]
    /\ freepages = Page
    /\ receiving = NoSem
    /\ exhausted = FALSE

--------------------------------------------------------------------------------
(* The running thread and its process.                                         *)

\* Processo_In_Esecuzione, the task of the running thread.
Me == owner[Thread_In_Esecuzione].task

Running == ~exhausted /\ receiving = NoSem

\* The running thread executes a system call.
Syscall == Running /\ Sched!SystemCall

\* The kernel stops for want of something.
Exhausted ==
    /\ exhausted' = TRUE
    /\ UNCHANGED <<schedvars, Processi, Last_Pid_Used, owner, msgqueue, mapped, freepages, receiving>>

\* Schedule_Next_Thread with the ready queue q and the running thread cur; ctx is
\* where each thread stands in P.  A thread resumed inside P goes on with recmsg.
Switch(q, cur, ctx) ==
    /\ Sched!Schedule_Next_Thread(q, cur)
    /\ Sched!Resume(ctx)
    /\ receiving' = IF Thread_In_Esecuzione' \in Thread THEN ctx[Thread_In_Esecuzione'] ELSE NoSem

\* Wrong variant: a thread that is not at the head stays.
Without_HeadOnly(q, t) == IF q # <<>> /\ Head(q) = t THEN Tail(q) ELSE q

\* Remove_Thread_From_CodaPronti: the first occurrence, if any.
Without(q, t) == RemoveFirst(q, t)

scheduler ==
    /\ Running /\ ~panicked
    /\ Switch(CodaPronti, Thread_In_Esecuzione, inP)
    /\ UNCHANGED <<active, Status, queue, panicked, Processi, Last_Pid_Used, owner, msgqueue,
                   mapped, freepages, exhausted>>

--------------------------------------------------------------------------------
(* messages.c.                                                                 *)

\* getbmsg: a free page becomes a message buffer of the caller; mem_getpage
\* panics when there is none.
getbmsg ==
    /\ Syscall
    /\ IF freepages = {}
       THEN Exhausted
       ELSE /\ \E p \in freepages :
                  /\ freepages' = freepages \ {p}
                  /\ mapped' = [mapped EXCEPT ![Me] = @ \cup {p}]
            /\ UNCHANGED <<schedvars, Processi, Last_Pid_Used, owner, msgqueue, receiving, exhausted>>

\* freemsg of a buffer of the caller.
freemsg ==
    /\ Syscall
    /\ \E p \in mapped[Me] :
          /\ freepages' = freepages \cup {p}
          /\ mapped' = [mapped EXCEPT ![Me] = @ \ {p}]
    /\ UNCHANGED <<schedvars, Processi, Last_Pid_Used, owner, msgqueue, receiving, exhausted>>

\* Wrong variant: the page stays mapped in the sender.
sendmsg_KeepsPage(d, p) ==
    /\ Syscall
    /\ p \in mapped[Me] /\ Processi[d].active
    /\ Len(msgqueue[d]) < MAX_MESSAGES - 1
    /\ msgqueue' = [msgqueue EXCEPT ![d] =
                       Append(@, [page |-> p, to |-> Processi[d].pid])]
    /\ Sched!Release(d, Status[d] + 1)
    /\ UNCHANGED <<Processi, Last_Pid_Used, owner, freepages, receiving, exhausted, mapped>>

\* Wrong variant: signals the receiver only when the queue was empty.
sendmsg_WakesOnce(d, p) ==
    /\ Syscall
    /\ p \in mapped[Me] /\ Processi[d].active
    /\ Len(msgqueue[d]) < MAX_MESSAGES - 1
    /\ mapped' = [mapped EXCEPT ![Me] = @ \ {p}]
    /\ msgqueue' = [msgqueue EXCEPT ![d] =
                       Append(@, [page |-> p, to |-> Processi[d].pid])]
    /\ IF msgqueue[d] = <<>> THEN Sched!Release(d, Status[d] + 1) ELSE UNCHANGED schedvars
    /\ UNCHANGED <<Processi, Last_Pid_Used, owner, freepages, receiving, exhausted>>

\* sendmsg of the buffer p to the process in slot d: p leaves the sender, joins
\* the receiver's queue and V(Messages) is called.  The field to is history.  A
\* pid that is dead or unknown is an error that changes nothing; a full queue is
\* a panic.  The kernel's own process has no msgqueue and is left out.
sendmsg(d, p) ==
    /\ Syscall
    /\ p \in mapped[Me] /\ Processi[d].active
    /\ IF Len(msgqueue[d]) = MAX_MESSAGES - 1
       THEN Exhausted
       ELSE /\ mapped' = [mapped EXCEPT ![Me] = @ \ {p}]
            /\ msgqueue' = [msgqueue EXCEPT ![d] =
                 Append(@, [page |-> p, to |-> Processi[d].pid])]
            /\ Sched!Release(d, Status[d] + 1)
            /\ UNCHANGED <<Processi, Last_Pid_Used, owner, freepages, receiving, exhausted>>

\* Wrong variant: P does not count the message it takes.
recmsg_NotCounted ==
    /\ Syscall
    /\ \/ Sched!Take(Me, Status[Me]) /\ receiving' = Me
       \/ /\ Status[Me] = 0
          /\ queue' = [queue EXCEPT ![Me] = Append(@, Thread_In_Esecuzione)]
          /\ Switch(CodaPronti, THREAD_INVALID, [inP EXCEPT ![Thread_In_Esecuzione] = Me])
          /\ UNCHANGED <<active, Status, panicked>>
    /\ UNCHANGED <<Processi, Last_Pid_Used, owner, msgqueue, mapped, freepages, exhausted>>

\* recmsg up to the return of P(Messages); with NO_BLOCK it returns NULL instead
\* of being suspended, which changes nothing.
recmsg ==
    /\ Syscall
    /\ \/ /\ Sched!Take(Me, Status[Me] - 1)
          /\ receiving' = Me
       \/ /\ Status[Me] = 0
          /\ queue' = [queue EXCEPT ![Me] = Append(@, Thread_In_Esecuzione)]
          /\ Switch(CodaPronti, THREAD_INVALID, [inP EXCEPT ![Thread_In_Esecuzione] = Me])
          /\ UNCHANGED <<active, Status, panicked>>
    /\ UNCHANGED <<Processi, Last_Pid_Used, owner, msgqueue, mapped, freepages, exhausted>>

\* The rest of recmsg: the first message leaves the queue and its page is mapped
\* in the receiver; an empty queue is the panic "This should not happen NOW!!".
recmsg_returns ==
    /\ ~exhausted /\ ~panicked /\ receiving # NoSem
    /\ receiving' = NoSem
    /\ IF msgqueue[receiving] = <<>>
       THEN panicked' = TRUE /\ UNCHANGED <<msgqueue, mapped>>
       ELSE /\ msgqueue' = [msgqueue EXCEPT ![receiving] = Tail(@)]
            /\ mapped' = [mapped EXCEPT ![receiving] = @ \cup {Head(msgqueue[receiving]).page}]
            /\ UNCHANGED panicked
    /\ UNCHANGED <<active, CodaPronti, Thread_In_Esecuzione, Status, queue, inP, credit,
                   Processi, Last_Pid_Used, owner, freepages, exhausted>>

--------------------------------------------------------------------------------
(* process.c.                                                                  *)

\* Get_Free_Thread_Slot and Get_Free_Process_Slot.
FreeThreads == Thread \ active
FreeSlots == {s \in Slot : ~Processi[s].active}

\* Create_Thread in slot t for the process in slot s.
Create_Thread(t, s, pid) ==
    /\ active' = active \cup {t}
    /\ owner' = [owner EXCEPT ![t] = [task |-> s, pid |-> pid]]
    /\ inP' = [inP EXCEPT ![t] = NoSem]

\* Where Add_Thread_To_Process puts a thread, and whether it can.
FreeEntries(s) == {i \in 1..MAX_THREADS_PER_PROCESS : Processi[s].threads[i] = THREAD_INVALID}

\* SYS_CREATE_THREAD.  When the process has no free entry, Add_Thread_To_Process
\* returns -1 and the thread made ready is threads[-1], the word before the array:
\* Messages.Tail_Thread of the previous slot.
Sys_Create_Thread ==
    /\ Syscall
    /\ IF FreeThreads = {}
       THEN Exhausted
       ELSE LET t == Min(FreeThreads)
                before == queue[Me - 1]
            IN  /\ Create_Thread(t, Me, Processi[Me].pid)
                /\ IF FreeEntries(Me) # {}
                   THEN /\ Processi' = [Processi EXCEPT ![Me].threads[Min(FreeEntries(Me))] = t]
                        /\ Sched!Add_Thread_To_CodaPronti(t)
                   ELSE /\ UNCHANGED Processi
                        /\ IF before = <<>>
                           THEN panicked' = TRUE /\ UNCHANGED CodaPronti
                           ELSE Sched!Add_Thread_To_CodaPronti(Last(before))
                /\ UNCHANGED <<Thread_In_Esecuzione, Status, queue, credit, Last_Pid_Used, msgqueue,
                               mapped, freepages, receiving, exhausted>>

\* Wrong variant: msg_head and msg_tail are left as the dead process had them.
Create_KeepsQueue ==
    /\ Syscall
    /\ Last_Pid_Used < MaxPid
    /\ FreeSlots # {} /\ FreeThreads # {}
    /\ LET s == Min(FreeSlots)
           t == Min(FreeThreads)
       IN  /\ Create_Thread(t, s, Last_Pid_Used + 1)
           /\ Processi' = [Processi EXCEPT ![s] = NewProcess(Last_Pid_Used + 1, t)]
           /\ Last_Pid_Used' = Last_Pid_Used + 1
           /\ Status' = [Status EXCEPT ![s] = 0]
           /\ queue' = [queue EXCEPT ![s] = <<>>]
           /\ credit' = [credit EXCEPT ![s] = 0]
           /\ UNCHANGED <<CodaPronti, Thread_In_Esecuzione, panicked, msgqueue, mapped, freepages,
                          receiving, exhausted>>

\* Create_Process_From_ELF of a well-formed image: the first free slot gets the
\* next pid, a fresh Messages semaphore, an empty queue and one thread, which is
\* active but not ready: SIGNAL_CONT starts it.
Create_Process_From_ELF ==
    /\ Syscall
    /\ Last_Pid_Used < MaxPid
    /\ IF FreeSlots = {} \/ FreeThreads = {}
       THEN Exhausted
       ELSE LET s == Min(FreeSlots)
                t == Min(FreeThreads)
            IN  /\ Create_Thread(t, s, Last_Pid_Used + 1)
                /\ Processi' = [Processi EXCEPT ![s] = NewProcess(Last_Pid_Used + 1, t)]
                /\ Last_Pid_Used' = Last_Pid_Used + 1
                /\ Status' = [Status EXCEPT ![s] = 0]
                /\ queue' = [queue EXCEPT ![s] = <<>>]
                /\ credit' = [credit EXCEPT ![s] = 0]
                /\ msgqueue' = [msgqueue EXCEPT ![s] = <<>>]
                /\ UNCHANGED <<CodaPronti, Thread_In_Esecuzione, panicked, mapped, freepages,
                               receiving, exhausted>>

\* The process table pr once the first entry of slot s that holds t is cleared.
Unlist(pr, s, t) ==
    LET at == {i \in 1..MAX_THREADS_PER_PROCESS : pr[s].threads[i] = t}
    IN  IF at = {} THEN pr ELSE [pr EXCEPT ![s].threads[Min(at)] = THREAD_INVALID]

\* Exit_Thread.  The process stays, even when this was its last thread.
Exit_Thread ==
    /\ Syscall
    /\ IF Unlist(Processi, Me, Thread_In_Esecuzione) = Processi
       THEN /\ panicked' = TRUE
            /\ UNCHANGED <<active, CodaPronti, Thread_In_Esecuzione, inP, credit, receiving, Processi>>
       ELSE /\ Processi' = Unlist(Processi, Me, Thread_In_Esecuzione)
            /\ active' = active \ {Thread_In_Esecuzione}
            /\ Switch(Without(CodaPronti, Thread_In_Esecuzione), THREAD_INVALID, inP)
            /\ UNCHANGED panicked
    /\ UNCHANGED <<Status, queue, Last_Pid_Used, owner, msgqueue, mapped, freepages, exhausted>>

\* What Destroy_Thread(t) leaves of the process table: it means to clear t's entry
\* in the table of t's process, but takes the slot whose index is t's pid and
\* clears the entry of the running thread.
Destroy_Unlists(pr, t) == Unlist(pr, owner[t].pid, Thread_In_Esecuzione)

\* Wrong variant: only the calling thread ends.
Exit_LeavesThreads ==
    /\ Syscall
    /\ Processi' = [Processi EXCEPT ![Me].active = FALSE, ![Me].threads = NoThreads]
    /\ active' = active \ {Thread_In_Esecuzione}
    /\ freepages' = freepages \cup mapped[Me] \cup {msgqueue[Me][i].page : i \in DOMAIN msgqueue[Me]}
    /\ mapped' = [mapped EXCEPT ![Me] = {}]
    /\ Switch(Without(CodaPronti, Thread_In_Esecuzione), THREAD_INVALID, inP)
    /\ UNCHANGED <<Status, queue, panicked, Last_Pid_Used, owner, msgqueue, exhausted>>

\* The loop of Exit_Process: what it leaves of the process table and of CodaPronti.
DestroyOthers ==
    LET mine == Processi[Me].threads
        turn[k \in 0..MAX_THREADS_PER_PROCESS] ==
            IF k = 0 THEN [table |-> Processi, ready |-> CodaPronti]
            ELSE IF mine[k] \in {THREAD_INVALID, Thread_In_Esecuzione} THEN turn[k - 1]
            ELSE [table |-> Destroy_Unlists(turn[k - 1].table, mine[k]),
                  ready |-> Without(turn[k - 1].ready, mine[k])]
    IN  turn[MAX_THREADS_PER_PROCESS]

\* Exit_Process: destroys the other threads listed in the process, frees the
\* queued messages and the mapped pages, and gives the slot and the running
\* thread back.  msg_head, msg_tail and the semaphore Messages, with the
\* destroyed threads that wait on it, stay as they are.
Exit_Process ==
    LET others == ToSet(Processi[Me].threads) \ {THREAD_INVALID}
        swept == DestroyOthers.table
    IN  /\ Syscall
        /\ Processi' = [swept EXCEPT ![Me].active = FALSE,
                                     ![Me].threads = [i \in DOMAIN NoThreads |->
                                        IF swept[Me].threads[i] = Thread_In_Esecuzione
                                        THEN Thread_In_Esecuzione ELSE THREAD_INVALID]]
        /\ active' = active \ (others \cup {Thread_In_Esecuzione})
        /\ freepages' = freepages \cup mapped[Me]
                          \cup {msgqueue[Me][i].page : i \in DOMAIN msgqueue[Me]}
        /\ mapped' = [mapped EXCEPT ![Me] = {}]
        /\ Switch(Without(DestroyOthers.ready, Thread_In_Esecuzione), THREAD_INVALID, inP)
        /\ UNCHANGED <<Status, queue, panicked, Last_Pid_Used, owner, msgqueue, exhausted>>

--------------------------------------------------------------------------------
(* signals.c.  A signal goes to the first entry of the thread table of a process.
   The signals that are not for the kernel are only queued: the call to
   Process_Signals in scheduler() is commented out.  Signals to the kernel's own
   process and to a process whose first thread has exited, where the code uses
   the index THREAD_INVALID, are left out.                                      *)

\* An active thread that nobody will run until SIGNAL_CONT.
Parked(t) ==
    /\ t \in active
    /\ t # Thread_In_Esecuzione
    /\ ~Sched!Ready(t)
    /\ \A s \in Slot : ~Sched!SuspendedOn(t, s)

First_Thread(s) == Processi[s].threads[1]

\* Disciplined clients continue only a process that has not started or has been
\* stopped; the programs of the repository that use signals, init.c and shell.c,
\* send SIGNAL_CONT to a process they have just created.
MayContinue(s) == Disciplined => Parked(First_Thread(s)) /\ owner[First_Thread(s)].task = s

\* And they destroy only such a process, with no other thread and not stopped
\* inside recmsg.
MayDestroy(s) == Disciplined =>
    /\ Parked(First_Thread(s)) /\ owner[First_Thread(s)].task = s
    /\ inP[First_Thread(s)] = NoSem
    /\ \A i \in 2..MAX_THREADS_PER_PROCESS : Processi[s].threads[i] = THREAD_INVALID

\* Signal(pid, sig) by the running thread, for the process in slot s.
Signal(s, sig) ==
    /\ Syscall
    /\ sig \in Signals
    /\ s # kernel_slot
    /\ Processi[s].active
    /\ First_Thread(s) # THREAD_INVALID
    /\ UNCHANGED <<Thread_In_Esecuzione, Status, queue, inP, credit, Last_Pid_Used, owner, msgqueue,
                   mapped, freepages, receiving>>

SIGNAL_CONT(s) ==
    /\ Signal(s, "CONT")
    /\ MayContinue(s)
    /\ UNCHANGED active
    /\ Sched!Add_Thread_To_CodaPronti(First_Thread(s))
    /\ UNCHANGED <<Processi, exhausted>>

\* SIGNAL_STOP takes the thread out of CodaPronti; it does nothing to a thread that
\* is running or suspended.
SIGNAL_STOP(s) ==
    /\ Signal(s, "STOP")
    /\ CodaPronti' = Without(CodaPronti, First_Thread(s))
    /\ UNCHANGED <<active, panicked, Processi, exhausted>>

SIGNAL_DESTROY(s) ==
    LET t == First_Thread(s)
    IN  /\ Signal(s, "DESTROY")
        /\ MayDestroy(s)
        /\ IF t = Thread_In_Esecuzione
           THEN panicked' = TRUE /\ UNCHANGED <<active, CodaPronti, Processi>>
           ELSE /\ active' = active \ {t}
                /\ CodaPronti' = Without(CodaPronti, t)
                /\ Processi' = Destroy_Unlists(Processi, t)
                /\ UNCHANGED panicked
        /\ UNCHANGED exhausted

\* Wrong variant: the signal queue has no limit.
Signal_NoLimit(s) ==
    /\ Signal(s, "TERM")
    /\ Processi' = [Processi EXCEPT ![s].signals = @ + 1]
    /\ UNCHANGED <<active, CodaPronti, panicked, exhausted>>

\* SIGNAL_TERM, SIGNAL_USER1 and the like.
Signal_Queued(s) ==
    /\ Signal(s, "TERM")
    /\ IF Processi[s].signals = MAX_SIGNALS_PENDING - 1
       THEN exhausted' = TRUE /\ UNCHANGED Processi
       ELSE Processi' = [Processi EXCEPT ![s].signals = @ + 1] /\ UNCHANGED exhausted
    /\ UNCHANGED <<active, CodaPronti, panicked>>

--------------------------------------------------------------------------------
Next ==
    \/ scheduler
    \/ getbmsg
    \/ freemsg
    \/ \E d \in Slot \ {kernel_slot}, p \in Page : sendmsg(d, p)
    \/ recmsg
    \/ recmsg_returns
    \/ Sys_Create_Thread
    \/ Create_Process_From_ELF
    \/ Exit_Thread
    \/ Exit_Process
    \/ \E s \in Slot : SIGNAL_CONT(s) \/ SIGNAL_STOP(s) \/ SIGNAL_DESTROY(s) \/ Signal_Queued(s)

\* The timer keeps interrupting, and a system call that has been resumed goes on:
\* it runs with interrupts off.
Spec == Init /\ [][Next]_vars /\ WF_vars(scheduler) /\ WF_vars(recmsg_returns)

--------------------------------------------------------------------------------
(* Properties.                                                                 *)

Pids == 0..MaxPid

\* Type invariant of the process table, the message queues and the pages.
ProcTypeOK ==
    /\ Sched!TypeOK
    /\ Processi \in [Slot -> [active : BOOLEAN, pid : Pids,
                              threads : [1..MAX_THREADS_PER_PROCESS -> Thread \cup {THREAD_INVALID}],
                              signals : 0..MAX_SIGNALS_PENDING - 1]]
    /\ owner \in [Thread -> [task : Slot, pid : Pids]]
    /\ \A s \in Slot :
          /\ Len(msgqueue[s]) < MAX_MESSAGES
          /\ \A i \in DOMAIN msgqueue[s] :
                msgqueue[s][i] \in [page : Page, to : Pids]
    /\ mapped \in [Slot -> SUBSET Page]
    /\ freepages \in SUBSET Page
    /\ receiving \in Slot \cup {NoSem}

QueuedPages(s) == {msgqueue[s][i].page : i \in DOMAIN msgqueue[s]}

\* A message page has one owner at any time: it is free, or mapped in one process,
\* or once in the queue of one process.  So a message is received exactly once, a
\* sender can no longer touch it, and a process that exits gives back what was
\* mapped and what was queued, and nothing of anybody else.
OnePageOneOwner ==
    \A p \in Page :
       Cardinality({s \in Slot : p \in mapped[s]})
         + Cardinality({at \in Slot \X (1..MAX_MESSAGES) :
                          /\ Processi[at[1]].active
                          /\ at[2] \in DOMAIN msgqueue[at[1]] /\ msgqueue[at[1]][at[2]].page = p})
         + (IF p \in freepages THEN 1 ELSE 0) = 1

\* The threads for which a V of Messages was done and whose recmsg has not got its
\* message yet: in CodaPronti, stopped by a signal, or just resumed.
Served(s) == {t \in active : inP[t] = s /\ ~Sched!SuspendedOn(t, s)}
               \cup {t \in {Thread_In_Esecuzione} : receiving = s}

\* The semaphore Messages counts the messages in the queue, except those already
\* promised to a receiver that V has woken: recmsg never finds the queue empty
\* after its P, and no message stays behind uncounted.
MessagesCounted ==
    \A s \in Slot : Processi[s].active =>
       Len(msgqueue[s]) = Status[s] + Cardinality(Served(s))

\* No process sleeps on its mail: while a thread waits in recmsg, every message in
\* the queue has a receiver that is already awake.
NoSleepOnMail ==
    \A s \in Slot : Processi[s].active /\ queue[s] # <<>> =>
       Len(msgqueue[s]) = Cardinality(Served(s))

\* A message is only ever in the queue of the process it was sent to: a process
\* that takes over the slot of a dead one does not get its mail.
NoMailForTheDead ==
    \A s \in Slot : Processi[s].active =>
       \A i \in DOMAIN msgqueue[s] : msgqueue[s][i].to = Processi[s].pid

Listed(t, s) == \E i \in DOMAIN NoThreads : Processi[s].threads[i] = t

\* The assertion of recmsg, "This should not happen NOW!!": after P(Messages) the
\* queue has a message.
RecvFindsMessage == receiving # NoSem => msgqueue[receiving] # <<>>

\* The assertion of Exit_Thread, "Thread not found in process' list!!": the running
\* thread is in the table of its process.
RunningIsListed == Listed(Thread_In_Esecuzione, Me)

\* No panic for a broken assumption of the kernel: an empty queue after P, a dead
\* thread made ready, a thread missing from the table of its process.  (Running
\* out of slots, pages or room is exhausted, another matter.)
NoBrokenAssumption == ~panicked

\* The tables agree: an active thread is listed in its process, which is active,
\* and in no other active one that counts it as its own; the running thread is
\* active; two active processes never have the same pid.
TablesAgree ==
    /\ \A t \in active : Processi[owner[t].task].active /\ Listed(t, owner[t].task)
    /\ Thread_In_Esecuzione \in active
    /\ \A r, s \in Slot : Processi[r].active /\ Processi[s].active /\ r # s =>
          Processi[r].pid # Processi[s].pid

\* The promise of the scheduler survives processes and signals: no thread is in two
\* places, and what is in CodaPronti or waits for the messages of a live process is
\* an active thread.
QueuesSound ==
    /\ Sched!Distinct(CodaPronti)
    /\ ~Sched!Ready(Thread_In_Esecuzione)
    /\ \A t \in Thread : Sched!Ready(t) => t \in active
    /\ \A s \in Slot : Processi[s].active =>
          /\ Sched!Distinct(queue[s])
          /\ \A t \in Thread : Sched!SuspendedOn(t, s) =>
                t \in active /\ owner[t].task = s /\ ~Sched!Ready(t) /\ t # Thread_In_Esecuzione

\* A receiver that V has woken, or that SIGNAL_CONT has put back, runs and goes on
\* with its recmsg, unless its process exits, it is stopped or the kernel stops: the
\* timer takes everybody else off the processor.
WokenReceives ==
    \A t \in Thread :
       Sched!Ready(t) /\ inP[t] # NoSem ~>
          \/ Thread_In_Esecuzione = t /\ inP[t] = NoSem
          \/ t \notin active \/ Parked(t) \/ panicked \/ exhausted

================================================================================
