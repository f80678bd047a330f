------------------------------ MODULE ThreadSched ------------------------------
(***************************************************************************)
(* What the OSSO kernel promises about threads and semaphores: the ready   *)
(* queue CodaPronti (coda_pronti.c), the round-robin dispatcher            *)
(* (scheduler.c) and the counting and boolean semaphores (semaphore.c),    *)
(* with each queue a plain FIFO sequence.  The module Kernel gives the     *)
(* same operations on the data structures of the code, a ring of indices   *)
(* and linked lists threaded through Threads[], and is shown to implement  *)
(* this one.                                                               *)
(*                                                                         *)
(* Every operation is one step: each of them runs between cli and the      *)
(* restoring of the flags, and system calls enter through an interrupt     *)
(* gate, so on the uniprocessor build only the call to jump_tss inside     *)
(* Schedule_Next_Thread lets another thread run.                           *)
(***************************************************************************)
EXTENDS Integers, Sequences, FiniteSets

CONSTANTS
    Thread,          \* the slots of Threads[]
    kernel_thread,   \* the thread of main(), later the idle loop
    init_thread,     \* the thread of the first process, created by main()
    THREAD_INVALID,  \* -1: no thread
    Semaphore,       \* counting semaphores
    Bool_Semaphore,  \* boolean semaphores
    IRQ_Semaphore,   \* the counting semaphores the interrupt handlers V
    NoSem,           \* not inside P
    InitStatus,      \* value given by Init_Semaphore / Init_Bool_Semaphore
    MAX_REFERENCES,  \* cells of the ring CodaPronti
    MaxStatus        \* bound on Status, to keep the state space finite

Sem == Semaphore \cup Bool_Semaphore

ASSUME ThreadAssumption ==
    /\ kernel_thread \in Thread
    /\ init_thread \in Thread \ {kernel_thread}
    /\ THREAD_INVALID \notin Thread

ASSUME SemAssumption ==
    /\ Semaphore \cap Bool_Semaphore = {}
    /\ IRQ_Semaphore \subseteq Semaphore
    /\ NoSem \notin Semaphore /\ NoSem \notin Bool_Semaphore
    /\ InitStatus \in [Semaphore \cup Bool_Semaphore -> Nat]
    /\ \A s \in Bool_Semaphore : InitStatus[s] \in {0, 1}

ASSUME SizeAssumption ==
    /\ MAX_REFERENCES \in Nat /\ MAX_REFERENCES > 1
    /\ MaxStatus \in Nat

VARIABLES
    active,                \* the threads whose Threads[t].active is 1
    CodaPronti,            \* the ready threads, first to run first
    Thread_In_Esecuzione,  \* the running thread
    Status,                \* Sem->Status
    queue,                 \* the threads suspended on each semaphore
    inP,                   \* the saved context of a thread: the semaphore in
                           \* whose P it was suspended, or NoSem
    credit,                \* history: initial value + effective V's - P's that
                           \* have returned having taken the semaphore
    panicked               \* panic() was called

vars == <<active, CodaPronti, Thread_In_Esecuzione, Status, queue, inP, credit,
          panicked>>

Init ==
    /\ active = {kernel_thread, init_thread}
    /\ CodaPronti = <<init_thread>>
    /\ Thread_In_Esecuzione = kernel_thread
    /\ Status = InitStatus
    /\ queue = [s \in Sem |-> <<>>]
    /\ inP = [t \in Thread |-> NoSem]
    /\ credit = InitStatus
    /\ panicked = FALSE

--------------------------------------------------------------------------------
(* The ready queue and the dispatcher.                                         *)

\* Add_Thread_To_CodaPronti: panics if the ring is full (one of its cells is
\* always empty) or if the thread is not active.
Add_Thread_To_CodaPronti(t) ==
    IF Len(CodaPronti) = MAX_REFERENCES - 1 \/ t \notin active'
    THEN panicked' = TRUE /\ UNCHANGED CodaPronti
    ELSE CodaPronti' = Append(CodaPronti, t) /\ UNCHANGED panicked

\* Wrong variant: the preempted thread is not put back in the queue.
Schedule_DropsCurrent(q, cur) ==
    IF q = <<>>
    THEN Thread_In_Esecuzione' = cur /\ CodaPronti' = q
    ELSE Thread_In_Esecuzione' = Head(q) /\ CodaPronti' = Tail(q)

\* Wrong variant: the preempted thread goes to the front of the queue.
Schedule_CurrentFirst(q, cur) ==
    IF q = <<>>
    THEN Thread_In_Esecuzione' = cur /\ CodaPronti' = q
    ELSE /\ Thread_In_Esecuzione' = Head(q)
         /\ CodaPronti' = IF cur = THREAD_INVALID
                          THEN Tail(q)
                          ELSE <<cur>> \o Tail(q)

\* Schedule_Next_Thread, entered with q as CodaPronti and cur as
\* Thread_In_Esecuzione: the first ready thread runs and cur, if any, goes to the
\* end of the queue.  With no ready thread it returns to its caller.  Putting cur
\* back cannot panic: a thread has just left the ring and cur is active.
Schedule_Next_Thread(q, cur) ==
    IF q = <<>>
    THEN Thread_In_Esecuzione' = cur /\ CodaPronti' = q
    ELSE /\ Thread_In_Esecuzione' = Head(q)
         /\ CodaPronti' = IF cur \in {THREAD_INVALID, Head(q)}
                          THEN Tail(q)
                          ELSE Append(Tail(q), cur)

\* The thread given the processor goes on from where its context ctx was saved:
\* if that was inside P, its P returns now.
Resume(ctx) ==
    LET t == Thread_In_Esecuzione'
    IN  IF t \in Thread /\ ctx[t] \in Sem
        THEN /\ inP' = [ctx EXCEPT ![t] = NoSem]
             /\ credit' = [credit EXCEPT ![ctx[t]] = @ - 1]
        ELSE inP' = ctx /\ UNCHANGED credit

\* A thread other than the idle loop executes a system call.
SystemCall == ~panicked /\ Thread_In_Esecuzione \in Thread \ {kernel_thread}

\* scheduler(), the handler of IRQ 0.
scheduler ==
    /\ ~panicked
    /\ Schedule_Next_Thread(CodaPronti, Thread_In_Esecuzione)
    /\ Resume(inP)
    /\ UNCHANGED <<active, Status, queue, panicked>>

\* The idle loop of main() yields as soon as some thread is ready.
idle_loop ==
    /\ ~panicked
    /\ Thread_In_Esecuzione = kernel_thread
    /\ CodaPronti # <<>>
    /\ Schedule_Next_Thread(CodaPronti, kernel_thread)
    /\ Resume(inP)
    /\ UNCHANGED <<active, Status, queue, panicked>>

--------------------------------------------------------------------------------
(* Semaphores.                                                                 *)

\* Wrong variant: the value is decremented without looking at it.
Take_Unchecked(s, left) ==
    /\ Status' = [Status EXCEPT ![s] = left]
    /\ credit' = [credit EXCEPT ![s] = @ - 1]
    /\ UNCHANGED <<active, CodaPronti, Thread_In_Esecuzione, queue, inP, panicked>>

\* The caller takes the semaphore, leaving it with value left.
Take(s, left) ==
    /\ Status[s] > 0
    /\ Status' = [Status EXCEPT ![s] = left]
    /\ credit' = [credit EXCEPT ![s] = @ - 1]
    /\ UNCHANGED <<active, CodaPronti, Thread_In_Esecuzione, queue, inP, panicked>>

\* The caller is suspended at the end of the semaphore's queue.
Suspend(s) ==
    /\ Status[s] = 0
    /\ queue' = [queue EXCEPT ![s] = Append(@, Thread_In_Esecuzione)]
    /\ Schedule_Next_Thread(CodaPronti, THREAD_INVALID)
    /\ Resume([inP EXCEPT ![Thread_In_Esecuzione] = s])
    /\ UNCHANGED <<active, Status, panicked>>

\* Wrong variant: increments the value even when it wakes a waiter.
Release_AlsoCounts(s, v) ==
    /\ Status' = [Status EXCEPT ![s] = v]
    /\ IF queue[s] = <<>>
       THEN /\ credit' = [credit EXCEPT ![s] = @ + v - Status[s]]
            /\ UNCHANGED <<active, CodaPronti, queue, panicked>>
       ELSE /\ UNCHANGED active
            /\ Add_Thread_To_CodaPronti(Head(queue[s]))
            /\ queue' = IF panicked' THEN queue ELSE [queue EXCEPT ![s] = Tail(@)]
            /\ credit' = [credit EXCEPT ![s] = @ + 1]
    /\ UNCHANGED <<Thread_In_Esecuzione, inP>>

\* Wrong variant: wakes the last waiter.
Release_WakesLast(s, v) ==
    /\ IF queue[s] = <<>>
       THEN /\ Status' = [Status EXCEPT ![s] = v]
            /\ credit' = [credit EXCEPT ![s] = @ + v - Status[s]]
            /\ UNCHANGED <<active, CodaPronti, queue, panicked>>
       ELSE /\ UNCHANGED <<active, Status>>
            /\ Add_Thread_To_CodaPronti(queue[s][Len(queue[s])])
            /\ queue' = [queue EXCEPT ![s] = SubSeq(@, 1, Len(@) - 1)]
            /\ credit' = [credit EXCEPT ![s] = @ + 1]
    /\ UNCHANGED <<Thread_In_Esecuzione, inP>>

\* The semaphore takes the value v if nobody waits for it; otherwise its first
\* waiter becomes ready and the value stays.  If making it ready panics, the
\* kernel stops before the list is updated.
Release(s, v) ==
    /\ IF queue[s] = <<>>
       THEN /\ Status' = [Status EXCEPT ![s] = v]
            /\ credit' = [credit EXCEPT ![s] = @ + v - Status[s]]
            /\ UNCHANGED <<active, CodaPronti, queue, panicked>>
       ELSE /\ UNCHANGED <<active, Status>>
            /\ Add_Thread_To_CodaPronti(Head(queue[s]))
            /\ queue' = IF panicked' THEN queue ELSE [queue EXCEPT ![s] = Tail(@)]
            /\ credit' = [credit EXCEPT ![s] = @ + 1]
    /\ UNCHANGED <<Thread_In_Esecuzione, inP>>

P(s) == SystemCall /\ (Take(s, Status[s] - 1) \/ Suspend(s))

Bool_P(s) == SystemCall /\ (Take(s, 0) \/ Suspend(s))

\* The non-blocking forms return E_SHOULD_BLOCK instead of suspending.
Non_Block_P(s) ==
    SystemCall /\ (Take(s, Status[s] - 1) \/ (Status[s] = 0 /\ UNCHANGED vars))

Non_Block_Bool_P(s) ==
    SystemCall /\ (Take(s, 0) \/ (Status[s] = 0 /\ UNCHANGED vars))

V(s) == SystemCall /\ Status[s] < MaxStatus /\ Release(s, Status[s] + 1)

Bool_V(s) == SystemCall /\ Release(s, 1)

\* An interrupt handler IRQ1 .. IRQF: V of the semaphore of its public event,
\* on top of whatever thread is running, the idle loop included.
IRQ(s) == ~panicked /\ Status[s] < MaxStatus /\ Release(s, Status[s] + 1)

--------------------------------------------------------------------------------
(* Threads.                                                                    *)

\* SYS_CREATE_THREAD: a free slot becomes a ready thread.
Create_Thread ==
    /\ SystemCall
    /\ \E t \in Thread \ active :
          /\ active' = active \cup {t}
          /\ Add_Thread_To_CodaPronti(t)
    /\ UNCHANGED <<Thread_In_Esecuzione, Status, queue, inP, credit>>

\* SYS_EXIT_THREAD: the running thread gives its slot back and another runs.
Exit_Thread ==
    /\ SystemCall
    /\ active' = active \ {Thread_In_Esecuzione}
    /\ Schedule_Next_Thread(CodaPronti, THREAD_INVALID)
    /\ Resume(inP)
    /\ UNCHANGED <<Status, queue, panicked>>

--------------------------------------------------------------------------------
Next ==
    \/ scheduler
    \/ idle_loop
    \/ \E s \in Semaphore : P(s) \/ Non_Block_P(s) \/ V(s)
    \/ \E s \in Bool_Semaphore : Bool_P(s) \/ Non_Block_Bool_P(s) \/ Bool_V(s)
    \/ \E s \in IRQ_Semaphore : IRQ(s)
    \/ Create_Thread
    \/ Exit_Thread

\* The timer keeps interrupting: main() unmasks IRQ 0 before the idle loop, the
\* handler re-arms the timer, and a thread runs with interrupts enabled except
\* inside the kernel.
Spec == Init /\ [][Next]_vars /\ WF_vars(scheduler)

--------------------------------------------------------------------------------
(* Properties.                                                                 *)

\* Type invariant of the scheduler's and the semaphores' state.
TypeOK ==
    /\ active \in SUBSET Thread
    /\ CodaPronti \in Seq(Thread)
    /\ Thread_In_Esecuzione \in Thread \cup {THREAD_INVALID}
    /\ Status \in [Sem -> Nat]
    /\ queue \in [Sem -> Seq(Thread)]
    /\ inP \in [Thread -> Sem \cup {NoSem}]
    /\ credit \in [Sem -> Int]
    /\ panicked \in BOOLEAN

InSeq(t, q) == \E i \in 1..Len(q) : q[i] = t

Distinct(q) == \A i, j \in 1..Len(q) : q[i] = q[j] => i = j

Ready(t) == InSeq(t, CodaPronti)

SuspendedOn(t, s) == InSeq(t, queue[s])

\* Some active thread always has the processor: a P or an Exit_Thread that finds
\* CodaPronti empty would return to its caller with nobody running (the branch
\* of Schedule_Next_Thread that only has the comment "CodaPronti Empty!!").
\* What excludes it is that the idle loop is never suspended.
SomeoneRuns ==
    /\ Thread_In_Esecuzione \in active
    /\ Thread_In_Esecuzione = kernel_thread \/ Ready(kernel_thread)

\* A thread is in one place only: running, or once in CodaPronti, or once in the
\* queue of one semaphore.  The PROBLEMS file of OSSO reports what happens
\* otherwise: the same thread twice in the ready queue ends in a GPF.
OnePlace ==
    /\ Distinct(CodaPronti)
    /\ ~Ready(Thread_In_Esecuzione)
    /\ \A s \in Sem :
          /\ Distinct(queue[s])
          /\ ~SuspendedOn(Thread_In_Esecuzione, s)
          /\ \A t \in Thread : SuspendedOn(t, s) =>
                ~Ready(t) /\ \A r \in Sem \ {s} : ~SuspendedOn(t, r)

\* No thread is lost, and no dead thread is kept: the active threads are exactly
\* those that run, are ready or are suspended, and a suspended thread is in the
\* queue of the semaphore its saved P is about.
NoThreadLost ==
    /\ \A t \in Thread :
          t \in active <=> \/ t = Thread_In_Esecuzione
                          \/ Ready(t)
                          \/ \E s \in Sem : SuspendedOn(t, s)
    /\ \A t \in Thread, s \in Sem : SuspendedOn(t, s) => inP[t] = s

\* No lost wakeup: a semaphore that can be taken has nobody waiting for it, and
\* a boolean semaphore never exceeds 1.
NoLostWakeup ==
    /\ \A s \in Sem : Status[s] > 0 => queue[s] = <<>>
    /\ \A s \in Bool_Semaphore : Status[s] \in {0, 1}

\* The threads inside P on s that have been woken and have not run yet.
Woken(s) == {t \in Thread : Ready(t) /\ inP[t] = s}

\* Every P that returns was paid for by the initial value or by a V, and no V
\* is forgotten: what is left over is the semaphore's value plus the threads
\* woken by V whose P has still to return.
CreditConserved ==
    \A s \in Sem : credit[s] = Status[s] + Cardinality(Woken(s))

\* The thread table is no larger than the ring.  (The default configuration has
\* MAX_THREADS = 150 and MAX_REFERENCES = 50, which does not satisfy this.)
QueueFits == IsFiniteSet(Thread) /\ Cardinality(Thread) <= MAX_REFERENCES

\* With no more threads than cells in the ring, the ready queue never overflows
\* and no dead thread is ever made ready: no call of Add_Thread_To_CodaPronti
\* panics.
NeverPanics == ~panicked

\* The threads inside P on s in the order in which their P will return.
Pending(s) == LET woken(t) == inP[t] = s
              IN  SelectSeq(CodaPronti, woken) \o queue[s]

\* P's on one semaphore return in the order in which they were called, through
\* the semaphore's queue and then through the ready queue, whoever else is
\* preempted, created or woken meanwhile.
FIFOWakeup ==
    [][\A s \in Sem :
         \E rest \in {Pending(s)} \cup (IF Pending(s) = <<>> THEN {} ELSE {Tail(Pending(s))}) :
            \/ Pending(s)' = rest
            \/ Pending(s)' = Append(rest, Thread_In_Esecuzione)]_vars

\* Round robin starves nobody: a ready thread eventually runs, so a thread woken
\* by V eventually returns from its P.
ReadyRuns == \A t \in Thread : Ready(t) ~> Thread_In_Esecuzione = t

================================================================================
