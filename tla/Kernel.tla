--------------------------------- MODULE Kernel ---------------------------------
(***************************************************************************)
(* Threads, scheduler and semaphores of the OSSO kernel on the data        *)
(* structures of the code: the thread table Threads[], the ready ring of   *)
(* coda_pronti.c, and the semaphores of the DYNAMIC_SEMAPHORE build, whose *)
(* waiters form a list from Head_Thread to Tail_Thread linked through      *)
(* Threads[].next_thread_suspended_on_my_semaphore (next below).           *)
(*                                                                         *)
(* The operations are those of ThreadSched, which this module implements.  *)
(***************************************************************************)
EXTENDS ReadyRing, Sequences, FiniteSets

CONSTANTS
    MAX_THREADS,
    Semaphore, Bool_Semaphore, IRQ_Semaphore,
    NoSem,
    InitStatus,
    MaxStatus

THREAD_INVALID == -1
kernel_thread == 0
init_thread == 1

Tid == 0..MAX_THREADS - 1
Sem == Semaphore \cup Bool_Semaphore

\* The table has room for the thread of main() and for that of the first process.
ASSUME KernelAssumption ==
    /\ MAX_THREADS \in Nat /\ MAX_THREADS > 1
    /\ MAX_REFERENCES \in Nat /\ MAX_REFERENCES > 1
    /\ Semaphore \cap Bool_Semaphore = {} /\ IRQ_Semaphore \subseteq Semaphore
    /\ NoSem \notin Semaphore \cup Bool_Semaphore
    /\ InitStatus \in [Semaphore \cup Bool_Semaphore -> Nat]
    /\ \A s \in Bool_Semaphore : InitStatus[s] \in {0, 1}
    /\ MaxStatus \in Nat

VARIABLES
    Threads,               \* active, status and next of every thread
    ring,                  \* CodaPronti, testa_CodaPronti, coda_CodaPronti
    Thread_In_Esecuzione,
    sem,                   \* Status, Head_Thread and Tail_Thread of every semaphore
    inP,                   \* the semaphore in whose P a thread's context was saved
    credit,                \* history, as in ThreadSched
    panicked

vars == <<Threads, ring, Thread_In_Esecuzione, sem, inP, credit, panicked>>

FreeThread == [active |-> FALSE, status |-> "DEAD", next |-> THREAD_INVALID]

Init ==
    /\ Threads = [t \in Tid |->
                    IF t = kernel_thread THEN [FreeThread EXCEPT !.active = TRUE]
                    ELSE IF t = init_thread
                    THEN [active |-> TRUE, status |-> "READY", next |-> THREAD_INVALID]
                    ELSE FreeThread]
    /\ ring = Put(EmptyRing, init_thread)
    /\ Thread_In_Esecuzione = kernel_thread
    /\ sem = [s \in Sem |-> [Status |-> InitStatus[s],
                             Head_Thread |-> THREAD_INVALID,
                             Tail_Thread |-> THREAD_INVALID]]
    /\ inP = [t \in Tid |-> NoSem]
    /\ credit = InitStatus
    /\ panicked = FALSE

--------------------------------------------------------------------------------
(* coda_pronti.c and scheduler.c.                                              *)

\* Wrong variant: the status of the thread is not updated.
Add_KeepsStatus(thr, t) ==
    IF IsFull(ring) \/ ~thr[t].active
    THEN panicked' = TRUE /\ ring' = ring /\ Threads' = thr
    ELSE ring' = Put(ring, t) /\ Threads' = thr /\ UNCHANGED panicked

\* Add_Thread_To_CodaPronti with the thread table thr.
Add_Thread_To_CodaPronti(thr, t) ==
    IF IsFull(ring) \/ ~thr[t].active
    THEN panicked' = TRUE /\ ring' = ring /\ Threads' = thr
    ELSE /\ ring' = Put(ring, t)
         /\ Threads' = [thr EXCEPT ![t].status = "READY"]
         /\ UNCHANGED panicked

\* Wrong variant: the thread preempted by the timer is not put back.
Schedule_DropsCurrent(thr, q, cur) ==
    IF IsEmpty(q)
    THEN Thread_In_Esecuzione' = cur /\ ring' = q /\ Threads' = thr
    ELSE /\ Thread_In_Esecuzione' = First(q)
         /\ ring' = DropFirst(q)
         /\ Threads' = [thr EXCEPT ![First(q)].status = "RUN"]

\* Schedule_Next_Thread with the thread table thr, the ring q and the current
\* thread cur: Get_Thread_From_CodaPronti, then, if the thread it returns is
\* neither invalid nor the current one, cur goes back to the ring and the other
\* runs.  A cell has just been freed, so the ring is not full.
Schedule_Next_Thread(thr, q, cur) ==
    LET t == First(q)
        got == [thr EXCEPT ![t].status = "STOPPED"]
    IN  IF IsEmpty(q)
        THEN Thread_In_Esecuzione' = cur /\ ring' = q /\ Threads' = thr
        ELSE /\ Thread_In_Esecuzione' = t
             /\ ring' = IF cur \in {THREAD_INVALID, t} THEN DropFirst(q) ELSE Put(DropFirst(q), cur)
             /\ Threads' = CASE cur = t -> got
                             [] cur = THREAD_INVALID -> [got EXCEPT ![t].status = "RUN"]
                             [] OTHER -> [got EXCEPT ![t].status = "RUN", ![cur].status = "READY"]

\* The thread switched to goes on from its saved context.
jump_tss(ctx) ==
    LET t == Thread_In_Esecuzione'
    IN  IF t # THREAD_INVALID /\ ctx[t] # NoSem
        THEN /\ inP' = [ctx EXCEPT ![t] = NoSem]
             /\ credit' = [credit EXCEPT ![ctx[t]] = @ - 1]
        ELSE inP' = ctx /\ UNCHANGED credit

scheduler ==
    /\ ~panicked
    /\ Schedule_Next_Thread(Threads, ring, Thread_In_Esecuzione)
    /\ jump_tss(inP)
    /\ UNCHANGED <<sem, panicked>>

idle_loop ==
    /\ ~panicked
    /\ Thread_In_Esecuzione = kernel_thread
    /\ ~IsEmpty(ring)
    /\ Schedule_Next_Thread(Threads, ring, kernel_thread)
    /\ jump_tss(inP)
    /\ UNCHANGED <<sem, panicked>>

Syscall == ~panicked /\ Thread_In_Esecuzione \notin {THREAD_INVALID, kernel_thread}

--------------------------------------------------------------------------------
(* semaphore.c.                                                                *)

Take(s, left) ==
    /\ sem[s].Status > 0
    /\ sem' = [sem EXCEPT ![s].Status = left]
    /\ credit' = [credit EXCEPT ![s] = @ - 1]
    /\ UNCHANGED <<Threads, ring, Thread_In_Esecuzione, inP, panicked>>

\* Wrong variant: forgets to link the old tail to the new waiter.
Suspend_NoLink(s) ==
    LET me == Thread_In_Esecuzione
    IN  /\ sem[s].Status = 0
        /\ sem' = [sem EXCEPT ![s].Tail_Thread = me,
                              ![s].Head_Thread = IF @ = THREAD_INVALID THEN me ELSE @]
        /\ Schedule_Next_Thread([Threads EXCEPT ![me].next = THREAD_INVALID], ring, THREAD_INVALID)
        /\ jump_tss([inP EXCEPT ![me] = s])
        /\ UNCHANGED panicked

\* The caller links itself at the tail of the waiters and gives up the processor.
Suspend(s) ==
    LET me == Thread_In_Esecuzione
        tail == sem[s].Tail_Thread
        linked == IF sem[s].Head_Thread = THREAD_INVALID
                  THEN Threads
                  ELSE [Threads EXCEPT ![tail].next = me]
    IN  /\ sem[s].Status = 0
        /\ sem' = [sem EXCEPT ![s].Tail_Thread = me,
                              ![s].Head_Thread = IF @ = THREAD_INVALID THEN me ELSE @]
        /\ Schedule_Next_Thread([linked EXCEPT ![me].next = THREAD_INVALID], ring, THREAD_INVALID)
        /\ jump_tss([inP EXCEPT ![me] = s])
        /\ UNCHANGED panicked

\* With no waiter the semaphore takes the value v; otherwise the head of the list
\* is unlinked and made ready.
Release(s, v) ==
    LET head == sem[s].Head_Thread
        rest == Threads[head].next
    IN  /\ IF head = THREAD_INVALID
           THEN /\ sem' = [sem EXCEPT ![s].Status = v]
                /\ credit' = [credit EXCEPT ![s] = @ + v - sem[s].Status]
                /\ UNCHANGED <<Threads, ring, panicked>>
           ELSE /\ Add_Thread_To_CodaPronti([Threads EXCEPT ![head].next = THREAD_INVALID], head)
                /\ sem' = IF panicked' THEN sem
                          ELSE [sem EXCEPT ![s].Head_Thread = rest,
                                           ![s].Tail_Thread =
                                              IF rest = THREAD_INVALID THEN THREAD_INVALID ELSE @]
                /\ credit' = [credit EXCEPT ![s] = @ + 1]
        /\ UNCHANGED <<Thread_In_Esecuzione, inP>>

P(s) == Syscall /\ (Take(s, sem[s].Status - 1) \/ Suspend(s))

Bool_P(s) == Syscall /\ (Take(s, 0) \/ Suspend(s))

Non_Block_P(s) ==
    Syscall /\ (Take(s, sem[s].Status - 1) \/ (sem[s].Status = 0 /\ UNCHANGED vars))

Non_Block_Bool_P(s) ==
    Syscall /\ (Take(s, 0) \/ (sem[s].Status = 0 /\ UNCHANGED vars))

V(s) == Syscall /\ sem[s].Status < MaxStatus /\ Release(s, sem[s].Status + 1)

Bool_V(s) == Syscall /\ Release(s, 1)

IRQ(s) == ~panicked /\ sem[s].Status < MaxStatus /\ Release(s, sem[s].Status + 1)

--------------------------------------------------------------------------------
(* process.c, as far as the thread table is concerned.                         *)

\* Get_Free_Thread_Slot: the first slot that is not active.
FirstFree == CHOOSE t \in Tid : ~Threads[t].active /\ \A u \in 0..t - 1 : Threads[u].active

Create_Thread ==
    /\ Syscall
    /\ \E t \in Tid : ~Threads[t].active
    /\ Add_Thread_To_CodaPronti([Threads EXCEPT ![FirstFree].active = TRUE], FirstFree)
    /\ UNCHANGED <<Thread_In_Esecuzione, sem, inP, credit>>

\* SYS_EXIT_THREAD: the running thread leaves the ring, should it be there, and
\* gives its slot back.
Exit_Thread ==
    LET me == Thread_In_Esecuzione
        q == IF Holds(ring, me) THEN TakeOut(ring, me) ELSE ring
        status == IF Holds(ring, me) THEN "STOPPED" ELSE Threads[me].status
    IN  /\ Syscall
        /\ Schedule_Next_Thread([Threads EXCEPT ![me].active = FALSE, ![me].status = status],
                                q, THREAD_INVALID)
        /\ jump_tss(inP)
        /\ UNCHANGED <<sem, panicked>>

--------------------------------------------------------------------------------
Next ==
    \/ scheduler
    \/ idle_loop
    \/ \E s \in Semaphore : P(s) \/ Non_Block_P(s) \/ V(s)
    \/ \E s \in Bool_Semaphore : Bool_P(s) \/ Non_Block_Bool_P(s) \/ Bool_V(s)
    \/ \E s \in IRQ_Semaphore : IRQ(s)
    \/ Create_Thread
    \/ Exit_Thread

\* The timer keeps interrupting, as in ThreadSched.
Spec == Init /\ [][Next]_vars /\ WF_vars(scheduler)

--------------------------------------------------------------------------------
(* What the linked lists and the ring stand for.                               *)

\* The threads found by following the links of the table thr from head; a walk that
\* does not end within MAX_THREADS links is cut there.
Chain(thr, head) ==
    LET at[n \in 1..MAX_THREADS + 1] ==
          IF n = 1 THEN head
          ELSE IF at[n - 1] = THREAD_INVALID THEN THREAD_INVALID
          ELSE thr[at[n - 1]].next
    IN  [n \in {m \in 1..MAX_THREADS + 1 : at[m] # THREAD_INVALID} |-> at[n]]

\* The waiters of s, first to be woken first.
Waiters(s) == Chain(Threads, sem[s].Head_Thread)

Abstract == INSTANCE ThreadSched WITH
    Thread <- Tid,
    active <- {t \in Tid : Threads[t].active},
    CodaPronti <- Contents(ring),
    Status <- [s \in Sem |-> sem[s].Status],
    queue <- [s \in Sem |-> Waiters(s)]

\* The ring and the linked lists implement the FIFO queues of ThreadSched, the
\* same step of the code being the same step of the promise: no P, V, dispatch,
\* creation or exit ever corrupts a list or the ring.
ImplementsThreadSched == Abstract!Spec

\* The list of waiters is well formed: Tail_Thread is its last thread, where the
\* next P links itself, and the links of the threads that wait for nothing are
\* THREAD_INVALID.
ListsWellFormed ==
    /\ \A s \in Sem :
          /\ (sem[s].Head_Thread = THREAD_INVALID) <=> (sem[s].Tail_Thread = THREAD_INVALID)
          /\ sem[s].Head_Thread # THREAD_INVALID =>
                sem[s].Tail_Thread = Waiters(s)[Len(Waiters(s))]
    /\ \A t \in Tid : Threads[t].next # THREAD_INVALID =>
          \E s \in Sem : \E i \in 1..Len(Waiters(s)) - 1 : Waiters(s)[i] = t

\* The sequence w less its k-th element.
Without(w, k) == [i \in 1..Len(w) - 1 |-> IF i < k THEN w[i] ELSE w[i + 1]]

\* Remove_Thread_From_CodaPronti, on whatever ring the kernel has got to and wherever
\* its indices have wrapped to: the queue loses that thread, keeps the others in
\* order and has room again.
RemovalKeepsOrder ==
    \A t \in Tid : Holds(ring, t) =>
       LET q == TakeOut(ring, t)
       IN  /\ \E k \in 1..Len(Contents(ring)) :
                 Contents(ring)[k] = t /\ Contents(q) = Without(Contents(ring), k)
           /\ ~Holds(q, t)
           /\ ~IsFull(q)

\* Threads[].status says READY exactly for the threads in the ring; the thread
\* switched to has RUN (the boot thread has no status until it is first switched
\* to).  Nothing is said of suspended threads: P leaves their status at RUN.
StatusFollowsQueue ==
    \A t \in Tid : Threads[t].active =>
       /\ Threads[t].status = "READY" <=> Holds(ring, t)
       /\ t = Thread_In_Esecuzione => Threads[t].status \in {"RUN", "DEAD"}

================================================================================
