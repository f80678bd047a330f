--------------------------- MODULE ThreadSchedProofs ---------------------------
(***************************************************************************)
(* Theorems about ThreadSched, for every set of threads and semaphores.    *)
(***************************************************************************)
EXTENDS ThreadSched, FiniteSetTheorems, TLAPS

USE DEF Sem

--------------------------------------------------------------------------------
(* What the fragments of the actions do to the type of the state.              *)

\* Putting a thread in the ready queue keeps CodaPronti a sequence of threads.
LEMMA AddType ==
    ASSUME TypeOK, NEW t \in Thread, Add_Thread_To_CodaPronti(t)
    PROVE  CodaPronti' \in Seq(Thread) /\ panicked' \in BOOLEAN
<1>1. CodaPronti \in Seq(Thread) /\ panicked \in BOOLEAN
  BY DEF TypeOK
<1>2. CASE Len(CodaPronti) = MAX_REFERENCES - 1 \/ t \notin active'
  <2>1. CodaPronti' = CodaPronti
    BY <1>2 DEF Add_Thread_To_CodaPronti
  <2>2. panicked' = TRUE
    BY <1>2, Zenon DEF Add_Thread_To_CodaPronti
  <2>3. QED
    BY <1>1, <2>1, <2>2, Zenon
<1>3. CASE ~(Len(CodaPronti) = MAX_REFERENCES - 1 \/ t \notin active')
  <2>1. CodaPronti' = Append(CodaPronti, t)
    BY <1>3 DEF Add_Thread_To_CodaPronti
  <2>2. panicked' = panicked
    BY <1>3, Zenon DEF Add_Thread_To_CodaPronti
  <2>3. CodaPronti' \in Seq(Thread)
    BY <1>1, <2>1
  <2>4. QED
    BY <1>1, <2>2, <2>3, Zenon
<1>4. QED
  BY <1>2, <1>3

\* The dispatcher keeps CodaPronti a sequence of threads and chooses a thread, or
\* keeps the one it was called with.
LEMMA ScheduleType ==
    ASSUME TypeOK, NEW cur \in Thread \cup {THREAD_INVALID}, Schedule_Next_Thread(CodaPronti, cur)
    PROVE  /\ CodaPronti' \in Seq(Thread)
           /\ Thread_In_Esecuzione' \in Thread \cup {THREAD_INVALID}
<1>1. CASE CodaPronti = <<>>
  BY <1>1 DEF TypeOK, Schedule_Next_Thread
<1>2. CASE CodaPronti # <<>>
  <2>1. Head(CodaPronti) \in Thread /\ Tail(CodaPronti) \in Seq(Thread)
    BY <1>2 DEF TypeOK
  <2>2. QED
    BY <1>2, <2>1 DEF Schedule_Next_Thread
<1>3. QED
  BY <1>1, <1>2

\* Resuming a thread keeps the saved contexts and the credits well typed.
LEMMA ResumeType ==
    ASSUME TypeOK, NEW ctx \in [Thread -> Sem \cup {NoSem}], Resume(ctx)
    PROVE  inP' \in [Thread -> Sem \cup {NoSem}] /\ credit' \in [Sem -> Int]
BY DEF TypeOK, Resume

\* Taking, suspending on and releasing a semaphore preserve the type invariant.
LEMMA TakeType ==
    ASSUME TypeOK, NEW s \in Sem, NEW left \in Nat, Take(s, left)
    PROVE  TypeOK'
BY DEF TypeOK, Take

\* Suspending the caller of a P keeps every type.
LEMMA SuspendType ==
    ASSUME TypeOK, NEW s \in Sem, Suspend(s), Thread_In_Esecuzione \in Thread
    PROVE  TypeOK'
<1>1. queue' \in [Sem -> Seq(Thread)]
  BY DEF TypeOK, Suspend
<1>2. CodaPronti' \in Seq(Thread) /\ Thread_In_Esecuzione' \in Thread \cup {THREAD_INVALID}
  BY ScheduleType DEF Suspend
<1>3. inP' \in [Thread -> Sem \cup {NoSem}] /\ credit' \in [Sem -> Int]
  <2>1. [inP EXCEPT ![Thread_In_Esecuzione] = s] \in [Thread -> Sem \cup {NoSem}]
    BY DEF TypeOK
  <2>2. QED
    BY <2>1, ResumeType DEF Suspend
<1>4. QED
  BY <1>1, <1>2, <1>3 DEF TypeOK, Suspend

\* Raising a semaphore, or handing it to a waiter, keeps every type.
LEMMA ReleaseType ==
    ASSUME TypeOK, NEW s \in Sem, NEW v \in Nat, Release(s, v)
    PROVE  TypeOK'
<1>1. CASE queue[s] = <<>>
  <2>1. Status' \in [Sem -> Nat]
    BY <1>1 DEF TypeOK, Release
  <2>2. credit' \in [Sem -> Int]
    <3>1. credit[s] + v - Status[s] \in Int
      BY DEF TypeOK
    <3>2. credit' = [credit EXCEPT ![s] = credit[s] + v - Status[s]]
      BY <1>1 DEF TypeOK, Release
    <3>3. QED
      BY <3>1, <3>2 DEF TypeOK
  <2>3. panicked' \in BOOLEAN
    BY <1>1, Zenon DEF TypeOK, Release
  <2>4. QED
    BY <1>1, <2>1, <2>2, <2>3 DEF TypeOK, Release
<1>2. CASE queue[s] # <<>>
  <2>1. Head(queue[s]) \in Thread /\ Tail(queue[s]) \in Seq(Thread)
    BY <1>2 DEF TypeOK
  <2>2. CodaPronti' \in Seq(Thread) /\ panicked' \in BOOLEAN
    BY <1>2, <2>1, AddType DEF Release
  <2>3. queue' \in [Sem -> Seq(Thread)]
    BY <1>2, <2>1 DEF TypeOK, Release
  <2>4. credit' \in [Sem -> Int]
    BY <1>2 DEF TypeOK, Release
  <2>5. QED
    BY <1>2, <2>2, <2>3, <2>4 DEF TypeOK, Release
<1>3. QED
  BY <1>1, <1>2

\* Every step preserves the type invariant.
LEMMA NextType == TypeOK /\ [Next]_vars => TypeOK'
<1> SUFFICES ASSUME TypeOK, [Next]_vars PROVE TypeOK'
  OBVIOUS
<1>1. CASE scheduler
  <2>1. CodaPronti' \in Seq(Thread) /\ Thread_In_Esecuzione' \in Thread \cup {THREAD_INVALID}
    BY <1>1, ScheduleType DEF scheduler, TypeOK
  <2>2. inP' \in [Thread -> Sem \cup {NoSem}] /\ credit' \in [Sem -> Int]
    BY <1>1, ResumeType DEF scheduler, TypeOK
  <2>3. QED
    BY <1>1, <2>1, <2>2 DEF scheduler, TypeOK
<1>2. CASE idle_loop
  <2>1. CodaPronti' \in Seq(Thread) /\ Thread_In_Esecuzione' \in Thread \cup {THREAD_INVALID}
    BY <1>2, ScheduleType, ThreadAssumption DEF idle_loop, TypeOK
  <2>2. inP' \in [Thread -> Sem \cup {NoSem}] /\ credit' \in [Sem -> Int]
    BY <1>2, ResumeType DEF idle_loop, TypeOK
  <2>3. QED
    BY <1>2, <2>1, <2>2 DEF idle_loop, TypeOK
<1>3. ASSUME NEW s \in Semaphore, P(s) \/ Non_Block_P(s) \/ V(s)
      PROVE  TypeOK'
  <2>1. ASSUME Take(s, Status[s] - 1) PROVE TypeOK'
    <3>1. Status[s] - 1 \in Nat
      BY <2>1 DEF TypeOK, Take
    <3>2. QED
      BY <2>1, <3>1, TakeType
  <2>2. ASSUME SystemCall, Suspend(s) PROVE TypeOK'
    BY <2>2, SuspendType DEF SystemCall
  <2>3. ASSUME Release(s, Status[s] + 1) PROVE TypeOK'
    <3>1. Status[s] + 1 \in Nat
      BY DEF TypeOK
    <3>2. QED
      BY <2>3, <3>1, ReleaseType
  <2>4. ASSUME UNCHANGED vars PROVE TypeOK'
    BY <2>4 DEF TypeOK, vars
  <2>5. QED
    BY <1>3, <2>1, <2>2, <2>3, <2>4 DEF P, Non_Block_P, V
<1>4. ASSUME NEW s \in Bool_Semaphore, Bool_P(s) \/ Non_Block_Bool_P(s) \/ Bool_V(s)
      PROVE  TypeOK'
  <2>1. ASSUME Take(s, 0) PROVE TypeOK'
    BY <2>1, TakeType
  <2>2. ASSUME SystemCall, Suspend(s) PROVE TypeOK'
    BY <2>2, SuspendType DEF SystemCall
  <2>3. ASSUME Release(s, 1) PROVE TypeOK'
    BY <2>3, ReleaseType
  <2>4. ASSUME UNCHANGED vars PROVE TypeOK'
    BY <2>4 DEF TypeOK, vars
  <2>5. QED
    BY <1>4, <2>1, <2>2, <2>3, <2>4 DEF Bool_P, Non_Block_Bool_P, Bool_V
<1>5. ASSUME NEW s \in IRQ_Semaphore, IRQ(s) PROVE TypeOK'
  <2>1. s \in Sem /\ Status[s] + 1 \in Nat
    BY SemAssumption DEF TypeOK
  <2>2. QED
    BY <1>5, <2>1, ReleaseType DEF IRQ
<1>6. CASE Create_Thread
  <2>1. PICK t \in Thread \ active : active' = active \cup {t} /\ Add_Thread_To_CodaPronti(t)
    BY <1>6 DEF Create_Thread
  <2>2. CodaPronti' \in Seq(Thread) /\ panicked' \in BOOLEAN
    BY <2>1, AddType
  <2>3. QED
    BY <1>6, <2>1, <2>2 DEF Create_Thread, TypeOK
<1>7. CASE Exit_Thread
  <2>1. CodaPronti' \in Seq(Thread) /\ Thread_In_Esecuzione' \in Thread \cup {THREAD_INVALID}
    BY <1>7, ScheduleType DEF Exit_Thread
  <2>2. inP' \in [Thread -> Sem \cup {NoSem}] /\ credit' \in [Sem -> Int]
    BY <1>7, ResumeType DEF Exit_Thread, TypeOK
  <2>3. QED
    BY <1>7, <2>1, <2>2 DEF Exit_Thread, TypeOK
<1>8. CASE UNCHANGED vars
  BY <1>8 DEF TypeOK, vars
<1>9. QED
  BY <1>1, <1>2, <1>3, <1>4, <1>5, <1>6, <1>7, <1>8 DEF Next

\* The initial state has its type.
LEMMA TypeCorrectInit == Init => TypeOK
<1> SUFFICES ASSUME Init PROVE TypeOK
  OBVIOUS
<1>1. active \in SUBSET Thread /\ Thread_In_Esecuzione \in Thread
  BY ThreadAssumption DEF Init
<1>2. CodaPronti \in Seq(Thread)
  BY ThreadAssumption DEF Init
<1>3. Status \in [Sem -> Nat] /\ credit \in [Sem -> Int]
  BY SemAssumption DEF Init
<1>4. queue \in [Sem -> Seq(Thread)] /\ inP \in [Thread -> Sem \cup {NoSem}]
  BY DEF Init
<1>5. panicked \in BOOLEAN
  BY Zenon DEF Init
<1>6. QED
  BY <1>1, <1>2, <1>3, <1>4, <1>5 DEF TypeOK

\* The scheduler's and the semaphores' state always has its type, whatever the
\* sets of threads and semaphores.
THEOREM TypeCorrect == Spec => []TypeOK
BY TypeCorrectInit, NextType, PTL DEF Spec

--------------------------------------------------------------------------------
(* Membership and absence of duplicates in a queue.                            *)

LEMMA InAppend ==
    ASSUME NEW S, NEW q \in Seq(S), NEW x \in S, NEW t
    PROVE  InSeq(t, Append(q, x)) <=> (InSeq(t, q) \/ t = x)
<1>1. Len(Append(q, x)) = Len(q) + 1 /\ Append(q, x)[Len(q) + 1] = x
  OBVIOUS
<1>2. \A i \in 1..Len(q) : Append(q, x)[i] = q[i]
  OBVIOUS
<1>3. QED
  BY <1>1, <1>2 DEF InSeq

\* Adding a thread that is not in a queue keeps its members distinct.
LEMMA DistinctAppend ==
    ASSUME NEW S, NEW q \in Seq(S), NEW x \in S, Distinct(q), ~InSeq(x, q)
    PROVE  Distinct(Append(q, x))
<1>1. Len(Append(q, x)) = Len(q) + 1 /\ Append(q, x)[Len(q) + 1] = x
  OBVIOUS
<1>2. \A i \in 1..Len(q) : Append(q, x)[i] = q[i]
  OBVIOUS
<1>3. QED
  BY <1>1, <1>2 DEF InSeq, Distinct

\* The rest of a queue without repetitions has all its members but the first.
LEMMA InTail ==
    ASSUME NEW S, NEW q \in Seq(S), q # <<>>, Distinct(q)
    PROVE  /\ Head(q) \in S /\ Tail(q) \in Seq(S)
           /\ InSeq(Head(q), q)
           /\ Distinct(Tail(q))
           /\ \A t : InSeq(t, Tail(q)) <=> (InSeq(t, q) /\ t # Head(q))
<1>1. /\ Head(q) \in S /\ Tail(q) \in Seq(S)
      /\ Len(q) \in Nat \ {0} /\ Len(Tail(q)) = Len(q) - 1 /\ Head(q) = q[1]
      /\ \A i \in 1..Len(Tail(q)) : Tail(q)[i] = q[i + 1]
  OBVIOUS
<1>2. InSeq(Head(q), q)
  BY <1>1 DEF InSeq
<1>3. Distinct(Tail(q))
  BY <1>1 DEF Distinct
<1>4. ASSUME NEW t, InSeq(t, Tail(q))
      PROVE  InSeq(t, q) /\ t # Head(q)
  BY <1>1, <1>4 DEF InSeq, Distinct
<1>5. ASSUME NEW t, InSeq(t, q), t # Head(q)
      PROVE  InSeq(t, Tail(q))
  <2>1. PICK i \in 1..Len(q) : q[i] = t
    BY <1>5 DEF InSeq
  <2>2. i # 1
    BY <1>1, <1>5, <2>1
  <2>3. i - 1 \in 1..Len(Tail(q)) /\ Tail(q)[i - 1] = t
    BY <1>1, <2>1, <2>2
  <2>4. QED
    BY <2>3 DEF InSeq
<1>6. QED
  BY <1>1, <1>2, <1>3, <1>4, <1>5

--------------------------------------------------------------------------------
(* Where the fragments of the actions put the threads.                         *)

\* The dispatcher takes one ready thread out of the queue, and puts cur in it.
LEMMA ScheduleMoves ==
    ASSUME TypeOK, Distinct(CodaPronti), CodaPronti # <<>>,
           NEW cur \in Thread \cup {THREAD_INVALID}, ~Ready(cur),
           Schedule_Next_Thread(CodaPronti, cur)
    PROVE  /\ Thread_In_Esecuzione' \in Thread
           /\ Ready(Thread_In_Esecuzione')
           /\ Distinct(CodaPronti')
           /\ \A t \in Thread : InSeq(t, CodaPronti') <=>
                  \/ Ready(t) /\ t # Thread_In_Esecuzione'
                  \/ t = cur
<1> DEFINE h == Head(CodaPronti)
<1>1. /\ h \in Thread /\ Tail(CodaPronti) \in Seq(Thread) /\ Ready(h)
      /\ Distinct(Tail(CodaPronti))
      /\ \A t : InSeq(t, Tail(CodaPronti)) <=> (Ready(t) /\ t # h)
  BY InTail DEF TypeOK, Ready
<1>2. cur # h
  BY <1>1
<1>3. Thread_In_Esecuzione' = h
  BY DEF Schedule_Next_Thread
<1>4. CASE cur = THREAD_INVALID
  <2>1. CodaPronti' = Tail(CodaPronti)
    BY <1>4 DEF Schedule_Next_Thread
  <2>2. QED
    BY <1>1, <1>3, <1>4, <2>1, ThreadAssumption
<1>5. CASE cur \in Thread
  <2>1. CodaPronti' = Append(Tail(CodaPronti), cur)
    BY <1>2, <1>5, ThreadAssumption DEF Schedule_Next_Thread
  <2>2. \A t : InSeq(t, CodaPronti') <=> (InSeq(t, Tail(CodaPronti)) \/ t = cur)
    BY <1>1, <1>5, <2>1, InAppend
  <2>3. Distinct(CodaPronti')
    BY <1>1, <1>5, <2>1, DistinctAppend
  <2>4. QED
    BY <1>1, <1>3, <2>2, <2>3
<1>6. QED
  BY <1>4, <1>5

\* Adding to the queue, when it does not panic.
LEMMA AddMoves ==
    ASSUME TypeOK, Distinct(CodaPronti), NEW x \in Thread, ~Ready(x),
           Add_Thread_To_CodaPronti(x), ~panicked'
    PROVE  /\ x \in active'
           /\ Distinct(CodaPronti')
           /\ \A t \in Thread : InSeq(t, CodaPronti') <=> (Ready(t) \/ t = x)
<1>1. ~(Len(CodaPronti) = MAX_REFERENCES - 1 \/ x \notin active')
  BY Zenon DEF Add_Thread_To_CodaPronti
<1>2. CodaPronti' = Append(CodaPronti, x)
  BY <1>1, Zenon DEF Add_Thread_To_CodaPronti
<1>3. QED
  BY <1>1, <1>2, InAppend, DistinctAppend DEF TypeOK, Ready

\* Resuming a thread changes no other saved context.
LEMMA ResumeOthers ==
    ASSUME TypeOK, NEW ctx \in [Thread -> Sem \cup {NoSem}], Resume(ctx)
    PROVE  \A t \in Thread : t # Thread_In_Esecuzione' => inP'[t] = ctx[t]
BY DEF Resume

--------------------------------------------------------------------------------
(* The inductive invariant.                                                    *)

Placed == SomeoneRuns /\ OnePlace /\ NoThreadLost /\ NoLostWakeup

IInv == TypeOK /\ (panicked \/ Placed)

\* Nothing but threads is ever ready.
LEMMA ReadyThread == ASSUME TypeOK, NEW t, Ready(t) PROVE t \in Thread
BY DEF TypeOK, Ready, InSeq

\* THREAD_INVALID is not ready, and neither is the running thread.
LEMMA NotReady ==
    ASSUME TypeOK, OnePlace
    PROVE  ~Ready(THREAD_INVALID) /\ ~Ready(Thread_In_Esecuzione)
BY ReadyThread, ThreadAssumption DEF OnePlace

\* When another thread than the idle loop runs, some thread is ready.
LEMMA SomeoneReady ==
    ASSUME TypeOK, SomeoneRuns, Thread_In_Esecuzione # kernel_thread
    PROVE  CodaPronti # <<>>
<1>1. Ready(kernel_thread)
  BY DEF SomeoneRuns
<1>2. QED
  BY <1>1 DEF Ready, InSeq

\* A dispatch that keeps the running thread runnable, as the timer does.
LEMMA PreemptPlaced ==
    ASSUME TypeOK, Placed, Schedule_Next_Thread(CodaPronti, Thread_In_Esecuzione), Resume(inP),
           UNCHANGED <<active, Status, queue>>
    PROVE  Placed'
<1>1. \A t \in Thread : t # Thread_In_Esecuzione' => inP'[t] = inP[t]
  BY ResumeOthers DEF TypeOK
<1>2. CASE CodaPronti = <<>>
  <2>1. CodaPronti' = CodaPronti /\ Thread_In_Esecuzione' = Thread_In_Esecuzione
    BY <1>2 DEF Schedule_Next_Thread
  <2>2. QED
    BY <1>1, <2>1 DEF Placed, SomeoneRuns, OnePlace, NoThreadLost, NoLostWakeup, Ready, SuspendedOn
<1>3. CASE CodaPronti # <<>>
  <2>1. Thread_In_Esecuzione \in Thread
    BY DEF TypeOK, Placed, SomeoneRuns
  <2>2. /\ Thread_In_Esecuzione' \in Thread
        /\ Ready(Thread_In_Esecuzione')
        /\ Distinct(CodaPronti')
        /\ \A t \in Thread : InSeq(t, CodaPronti') <=>
               \/ Ready(t) /\ t # Thread_In_Esecuzione'
               \/ t = Thread_In_Esecuzione
    BY <1>3, <2>1, ScheduleMoves DEF Placed, OnePlace
  <2>3. SomeoneRuns'
    BY <2>1, <2>2, ThreadAssumption DEF Placed, SomeoneRuns, OnePlace, NoThreadLost, Ready
  <2>4. OnePlace'
    BY <2>1, <2>2 DEF Placed, OnePlace, Ready, SuspendedOn
  <2>5. NoThreadLost'
    BY <1>1, <2>1, <2>2 DEF Placed, OnePlace, NoThreadLost, Ready, SuspendedOn
  <2>6. NoLostWakeup'
    BY DEF Placed, NoLostWakeup
  <2>7. QED
    BY <2>3, <2>4, <2>5, <2>6 DEF Placed
<1>4. QED
  BY <1>2, <1>3

\* Taking a semaphore moves no thread.
LEMMA TakePlaced ==
    ASSUME TypeOK, Placed, NEW s \in Sem, NEW left \in Nat, Take(s, left),
           s \in Bool_Semaphore => left \in {0, 1}
    PROVE  Placed'
<1>1. queue[s] = <<>>
  BY DEF Take, Placed, NoLostWakeup
<1>2. NoLostWakeup'
  BY <1>1 DEF Take, Placed, NoLostWakeup, TypeOK
<1>3. QED
  BY <1>2 DEF Take, Placed, SomeoneRuns, OnePlace, NoThreadLost, Ready, SuspendedOn

\* A suspended thread leaves the processor for the semaphore's queue.
LEMMA SuspendPlaced ==
    ASSUME TypeOK, Placed, SystemCall, NEW s \in Sem, Suspend(s)
    PROVE  Placed'
<1> DEFINE me == Thread_In_Esecuzione
<1>1. me \in Thread /\ me # kernel_thread /\ CodaPronti # <<>>
  BY SomeoneReady DEF SystemCall, Placed
<1>2. /\ Thread_In_Esecuzione' \in Thread
      /\ Ready(Thread_In_Esecuzione')
      /\ Distinct(CodaPronti')
      /\ \A t \in Thread : InSeq(t, CodaPronti') <=> (Ready(t) /\ t # Thread_In_Esecuzione')
  <2>1. Distinct(CodaPronti) /\ ~Ready(THREAD_INVALID)
    BY NotReady DEF Placed, OnePlace
  <2>2. QED
    BY <1>1, <2>1, ScheduleMoves, ThreadAssumption DEF Suspend
<1>3. /\ \A r \in Sem \ {s} : queue'[r] = queue[r]
      /\ queue'[s] = Append(queue[s], me)
  BY DEF Suspend, TypeOK
<1>4. /\ Distinct(queue'[s])
      /\ \A t : InSeq(t, queue'[s]) <=> (SuspendedOn(t, s) \/ t = me)
  <2>1. queue[s] \in Seq(Thread) /\ Distinct(queue[s]) /\ ~InSeq(me, queue[s])
    BY DEF TypeOK, Placed, OnePlace, SuspendedOn
  <2>2. QED
    BY <1>1, <1>3, <2>1, InAppend, DistinctAppend DEF SuspendedOn
<1>5. \A t \in Thread : t # Thread_In_Esecuzione' =>
         inP'[t] = IF t = me THEN s ELSE inP[t]
  <2>1. [inP EXCEPT ![me] = s] \in [Thread -> Sem \cup {NoSem}]
    BY DEF TypeOK
  <2>2. QED
    BY <1>1, <2>1, ResumeOthers DEF Suspend, TypeOK
<1>6. SomeoneRuns'
  BY <1>1, <1>2, ThreadAssumption DEF Placed, SomeoneRuns, NoThreadLost, Ready, Suspend
<1>7. OnePlace'
  <2>1. Thread_In_Esecuzione' # me
    BY <1>2 DEF Placed, OnePlace
  <2>2. Distinct(CodaPronti') /\ ~InSeq(Thread_In_Esecuzione', CodaPronti')
    BY <1>2
  <2>3. \A t \in Thread, r \in Sem : InSeq(t, queue'[r]) <=> (SuspendedOn(t, r) \/ (t = me /\ r = s))
    BY <1>3, <1>4 DEF SuspendedOn
  <2>4. \A r \in Sem : Distinct(queue'[r])
    BY <1>3, <1>4 DEF Placed, OnePlace
  <2>5. \A r \in Sem : ~InSeq(Thread_In_Esecuzione', queue'[r])
    BY <1>2, <2>1, <2>3 DEF Placed, OnePlace
  <2>6. \A r \in Sem, t \in Thread : InSeq(t, queue'[r]) =>
           ~InSeq(t, CodaPronti') /\ \A r2 \in Sem \ {r} : ~InSeq(t, queue'[r2])
    BY <1>2, <2>3 DEF Placed, OnePlace
  <2>7. QED
    BY <2>2, <2>4, <2>5, <2>6 DEF OnePlace, Ready, SuspendedOn
<1>8. NoThreadLost'
  <2>1. \A t \in Thread, r \in Sem : InSeq(t, queue'[r]) <=> (SuspendedOn(t, r) \/ (t = me /\ r = s))
    BY <1>3, <1>4 DEF SuspendedOn
  <2>2. active' = active
    BY DEF Suspend
  <2>3. \A t \in Thread : t \in active' <=> \/ t = Thread_In_Esecuzione'
                                          \/ InSeq(t, CodaPronti')
                                          \/ \E r \in Sem : InSeq(t, queue'[r])
    BY <1>1, <1>2, <2>1, <2>2 DEF Placed, NoThreadLost
  <2>4. \A t \in Thread, r \in Sem : InSeq(t, queue'[r]) => t # Thread_In_Esecuzione'
    BY <1>2, <2>1 DEF Placed, OnePlace
  <2>5. \A t \in Thread, r \in Sem : InSeq(t, queue'[r]) => inP'[t] = r
    BY <1>5, <2>1, <2>4 DEF Placed, OnePlace, NoThreadLost
  <2>6. QED
    BY <2>3, <2>5 DEF NoThreadLost, Ready, SuspendedOn
<1>9. NoLostWakeup'
  BY <1>3 DEF Placed, NoLostWakeup, Suspend
<1>10. QED
  BY <1>6, <1>7, <1>8, <1>9 DEF Placed

\* V moves the first waiter, if there is one, from the semaphore's queue to the
\* ready queue.
LEMMA ReleasePlaced ==
    ASSUME TypeOK, Placed, NEW s \in Sem, NEW v \in Nat, Release(s, v), ~panicked',
           s \in Bool_Semaphore => v \in {0, 1}
    PROVE  Placed'
<1>1. CASE queue[s] = <<>>
  <2>1. NoLostWakeup'
    BY <1>1 DEF Release, Placed, NoLostWakeup, TypeOK
  <2>2. UNCHANGED <<active, CodaPronti, queue, Thread_In_Esecuzione, inP>>
    BY <1>1 DEF Release
  <2>3. QED
    BY <2>1, <2>2 DEF Placed, SomeoneRuns, OnePlace, NoThreadLost, Ready, SuspendedOn
<1>2. CASE queue[s] # <<>>
  <2> DEFINE h == Head(queue[s])
  <2>1. queue[s] \in Seq(Thread) /\ Distinct(queue[s])
    BY DEF TypeOK, Placed, OnePlace
  <2>2. /\ h \in Thread /\ SuspendedOn(h, s)
        /\ Distinct(Tail(queue[s]))
        /\ \A t : InSeq(t, Tail(queue[s])) <=> (SuspendedOn(t, s) /\ t # h)
    BY <1>2, <2>1, InTail DEF SuspendedOn
  <2>3. /\ UNCHANGED <<active, Status, Thread_In_Esecuzione, inP>>
        /\ Add_Thread_To_CodaPronti(h)
    BY <1>2 DEF Release
  <2>4. queue' = [queue EXCEPT ![s] = Tail(queue[s])]
    BY <1>2 DEF Release, TypeOK
  <2>5. /\ Distinct(CodaPronti')
        /\ \A t \in Thread : InSeq(t, CodaPronti') <=> (Ready(t) \/ t = h)
    BY <2>2, <2>3, AddMoves DEF Placed, OnePlace
  <2>6. /\ \A r \in Sem : Distinct(queue'[r])
        /\ \A t \in Thread, r \in Sem :
              InSeq(t, queue'[r]) <=> (SuspendedOn(t, r) /\ ~(t = h /\ r = s))
    BY <2>2, <2>4 DEF TypeOK, Placed, OnePlace, SuspendedOn
  <2>7. SomeoneRuns'
    BY <2>3, <2>5, ThreadAssumption DEF Placed, SomeoneRuns, Ready
  <2>8. OnePlace'
    <3>1. h # Thread_In_Esecuzione
      BY <2>2 DEF Placed, OnePlace
    <3>2. Distinct(CodaPronti') /\ ~InSeq(Thread_In_Esecuzione', CodaPronti')
      BY <2>3, <2>5, <3>1 DEF Placed, OnePlace, SomeoneRuns, TypeOK
    <3>3. \A r \in Sem : ~InSeq(Thread_In_Esecuzione', queue'[r])
      BY <2>3, <2>6 DEF Placed, OnePlace, SomeoneRuns, TypeOK
    <3>4. \A r \in Sem, t \in Thread : InSeq(t, queue'[r]) =>
             ~InSeq(t, CodaPronti') /\ \A r2 \in Sem \ {r} : ~InSeq(t, queue'[r2])
      BY <2>2, <2>5, <2>6 DEF Placed, OnePlace
    <3>5. QED
      BY <2>6, <3>2, <3>3, <3>4 DEF OnePlace, Ready, SuspendedOn
  <2>9. NoThreadLost'
    <3>1. \A t \in Thread : t \in active' <=> \/ t = Thread_In_Esecuzione'
                                            \/ InSeq(t, CodaPronti')
                                            \/ \E r \in Sem : InSeq(t, queue'[r])
      BY <2>2, <2>3, <2>5, <2>6 DEF Placed, NoThreadLost
    <3>2. \A t \in Thread, r \in Sem : InSeq(t, queue'[r]) => inP'[t] = r
      BY <2>3, <2>6 DEF Placed, NoThreadLost
    <3>3. QED
      BY <3>1, <3>2 DEF NoThreadLost, Ready, SuspendedOn
  <2>10. NoLostWakeup'
    <3>1. Status[s] = 0
      BY <1>2 DEF TypeOK, Placed, NoLostWakeup
    <3>2. QED
      BY <2>3, <2>4, <3>1 DEF TypeOK, Placed, NoLostWakeup
  <2>11. QED
    BY <2>7, <2>8, <2>9, <2>10 DEF Placed
<1>3. QED
  BY <1>1, <1>2

\* A new thread was nowhere before it became ready.
LEMMA CreatePlaced ==
    ASSUME TypeOK, Placed, Create_Thread, ~panicked'
    PROVE  Placed'
<1>1. PICK x \in Thread \ active : active' = active \cup {x} /\ Add_Thread_To_CodaPronti(x)
  BY DEF Create_Thread
<1>2. ~Ready(x) /\ x # Thread_In_Esecuzione /\ \A s \in Sem : ~SuspendedOn(x, s)
  BY DEF Placed, NoThreadLost
<1>3. /\ Distinct(CodaPronti')
      /\ \A t \in Thread : InSeq(t, CodaPronti') <=> (Ready(t) \/ t = x)
  BY <1>1, <1>2, AddMoves DEF Placed, OnePlace
<1>4. UNCHANGED <<Thread_In_Esecuzione, Status, queue, inP>>
  BY DEF Create_Thread
<1>5. Thread_In_Esecuzione \in Thread
  BY DEF TypeOK, Placed, SomeoneRuns
<1>6. SomeoneRuns'
  BY <1>1, <1>3, <1>4, ThreadAssumption DEF Placed, SomeoneRuns, Ready
<1>7. OnePlace'
  BY <1>2, <1>3, <1>4, <1>5 DEF Placed, OnePlace, Ready, SuspendedOn
<1>8. NoThreadLost'
  BY <1>1, <1>3, <1>4 DEF Placed, NoThreadLost, Ready, SuspendedOn
<1>9. NoLostWakeup'
  BY <1>4 DEF Placed, NoLostWakeup
<1>10. QED
  BY <1>6, <1>7, <1>8, <1>9 DEF Placed

\* An exiting thread leaves the processor for nowhere.
LEMMA ExitPlaced ==
    ASSUME TypeOK, Placed, Exit_Thread
    PROVE  Placed'
<1> DEFINE me == Thread_In_Esecuzione
<1>1. me \in Thread /\ me # kernel_thread /\ CodaPronti # <<>>
  BY SomeoneReady DEF Exit_Thread, SystemCall, Placed
<1>2. /\ Thread_In_Esecuzione' \in Thread
      /\ Ready(Thread_In_Esecuzione')
      /\ Distinct(CodaPronti')
      /\ \A t \in Thread : InSeq(t, CodaPronti') <=> (Ready(t) /\ t # Thread_In_Esecuzione')
  <2>1. Distinct(CodaPronti) /\ ~Ready(THREAD_INVALID)
    BY NotReady DEF Placed, OnePlace
  <2>2. QED
    BY <1>1, <2>1, ScheduleMoves, ThreadAssumption DEF Exit_Thread
<1>3. \A t \in Thread : t # Thread_In_Esecuzione' => inP'[t] = inP[t]
  BY ResumeOthers DEF TypeOK, Exit_Thread
<1>4. active' = active \ {me} /\ UNCHANGED <<Status, queue>>
  BY DEF Exit_Thread
<1>5. Thread_In_Esecuzione' # me
  BY <1>2 DEF Placed, OnePlace
<1>6. SomeoneRuns'
  BY <1>1, <1>2, <1>4, <1>5, ThreadAssumption DEF Placed, SomeoneRuns, NoThreadLost, Ready
<1>7. OnePlace'
  BY <1>2, <1>4 DEF Placed, OnePlace, Ready, SuspendedOn
<1>8. NoThreadLost'
  BY <1>1, <1>2, <1>3, <1>4, <1>5 DEF Placed, OnePlace, NoThreadLost, Ready, SuspendedOn
<1>9. NoLostWakeup'
  BY <1>4 DEF Placed, NoLostWakeup
<1>10. QED
  BY <1>6, <1>7, <1>8, <1>9 DEF Placed

\* Every step keeps each thread in its one place, unless it panics.
LEMMA NextPlaced ==
    ASSUME TypeOK, Placed, Next, ~panicked'
    PROVE  Placed'
<1>1. CASE scheduler
  BY <1>1, PreemptPlaced DEF scheduler
<1>2. CASE idle_loop
  BY <1>2, PreemptPlaced DEF idle_loop
<1>3. ASSUME NEW s \in Semaphore, P(s) \/ Non_Block_P(s) \/ V(s)
      PROVE  Placed'
  <2>1. s \in Sem /\ s \notin Bool_Semaphore /\ Status[s] \in Nat
    BY SemAssumption DEF TypeOK
  <2>2. ASSUME Take(s, Status[s] - 1) PROVE Placed'
    <3>1. Status[s] - 1 \in Nat
      BY <2>1, <2>2 DEF Take
    <3>2. QED
      BY <2>1, <2>2, <3>1, TakePlaced
  <2>3. ASSUME SystemCall, Suspend(s) PROVE Placed'
    BY <2>1, <2>3, SuspendPlaced
  <2>4. ASSUME Release(s, Status[s] + 1) PROVE Placed'
    BY <2>1, <2>4, ReleasePlaced
  <2>5. ASSUME UNCHANGED vars PROVE Placed'
    BY <2>5 DEF vars, Placed, SomeoneRuns, OnePlace, NoThreadLost, NoLostWakeup, Ready, SuspendedOn
  <2>6. QED
    BY <1>3, <2>2, <2>3, <2>4, <2>5 DEF P, Non_Block_P, V
<1>4. ASSUME NEW s \in Bool_Semaphore, Bool_P(s) \/ Non_Block_Bool_P(s) \/ Bool_V(s)
      PROVE  Placed'
  <2>1. ASSUME Take(s, 0) PROVE Placed'
    BY <2>1, TakePlaced
  <2>2. ASSUME SystemCall, Suspend(s) PROVE Placed'
    BY <2>2, SuspendPlaced
  <2>3. ASSUME Release(s, 1) PROVE Placed'
    BY <2>3, ReleasePlaced
  <2>4. ASSUME UNCHANGED vars PROVE Placed'
    BY <2>4 DEF vars, Placed, SomeoneRuns, OnePlace, NoThreadLost, NoLostWakeup, Ready, SuspendedOn
  <2>5. QED
    BY <1>4, <2>1, <2>2, <2>3, <2>4 DEF Bool_P, Non_Block_Bool_P, Bool_V
<1>5. ASSUME NEW s \in IRQ_Semaphore, IRQ(s) PROVE Placed'
  <2>1. s \in Sem /\ s \notin Bool_Semaphore /\ Status[s] + 1 \in Nat
    BY SemAssumption DEF TypeOK
  <2>2. QED
    BY <1>5, <2>1, ReleasePlaced DEF IRQ
<1>6. CASE Create_Thread
  BY <1>6, CreatePlaced
<1>7. CASE Exit_Thread
  BY <1>7, ExitPlaced
<1>8. QED
  BY <1>1, <1>2, <1>3, <1>4, <1>5, <1>6, <1>7 DEF Next

\* Nothing happens after a panic.
LEMMA PanicStops == Next => ~panicked
BY DEF Next, scheduler, idle_loop, P, Non_Block_P, V, Bool_P, Non_Block_Bool_P,
       Bool_V, IRQ, Create_Thread, Exit_Thread, SystemCall

\* The initial state has the idle loop running and the first process ready.
LEMMA InitPlaced == Init => Placed
<1> SUFFICES ASSUME Init PROVE Placed
  OBVIOUS
<1>1. \A t : Ready(t) <=> t = init_thread
  BY DEF Init, Ready, InSeq
<1>2. Distinct(CodaPronti)
  BY DEF Init, Distinct
<1>3. \A t : \A s \in Sem : ~SuspendedOn(t, s)
  BY DEF Init, SuspendedOn, InSeq
<1>4. \A s \in Sem : Distinct(queue[s]) /\ queue[s] = <<>>
  BY DEF Init, Distinct
<1>5. SomeoneRuns
  BY <1>1 DEF Init, SomeoneRuns
<1>6. OnePlace
  BY <1>1, <1>2, <1>3, <1>4, ThreadAssumption DEF Init, OnePlace
<1>7. NoThreadLost
  BY <1>1, <1>3, ThreadAssumption DEF Init, NoThreadLost
<1>8. NoLostWakeup
  BY <1>4, SemAssumption DEF Init, NoLostWakeup
<1>9. QED
  BY <1>5, <1>6, <1>7, <1>8 DEF Placed

\* The inductive invariant is preserved by every step.
LEMMA NextIInv == IInv /\ [Next]_vars => IInv'
<1> SUFFICES ASSUME IInv, [Next]_vars PROVE IInv'
  OBVIOUS
<1>1. TypeOK'
  BY NextType DEF IInv
<1>2. CASE UNCHANGED vars
  BY <1>1, <1>2 DEF IInv, vars, Placed, SomeoneRuns, OnePlace, NoThreadLost, NoLostWakeup, Ready, SuspendedOn
<1>3. CASE Next
  <2>1. Placed
    BY <1>3, PanicStops DEF IInv
  <2>2. ~panicked' => Placed'
    BY <1>3, <2>1, NextPlaced DEF IInv
  <2>3. QED
    BY <1>1, <2>2 DEF IInv
<1>4. QED
  BY <1>2, <1>3

\* Until the kernel panics, some thread runs, every thread is in one place, no
\* thread is lost and no wakeup is lost, for any number of threads, semaphores
\* and cells of the ready queue.
THEOREM PlacedUntilPanic == Spec => [](panicked \/ Placed)
<1>1. Init => IInv
  BY TypeCorrectInit, InitPlaced DEF IInv
<1>2. IInv => (panicked \/ Placed)
  BY DEF IInv
<1>3. QED
  BY <1>1, <1>2, NextIInv, PTL DEF Spec

--------------------------------------------------------------------------------
(* The ready queue does not overflow.                                          *)

\* There is a free cell for a thread that is neither running nor ready.
LEMMA RoomInQueue ==
    ASSUME QueueFits, TypeOK, Distinct(CodaPronti),
           Thread_In_Esecuzione \in Thread, ~Ready(Thread_In_Esecuzione),
           NEW x \in Thread, x # Thread_In_Esecuzione, ~Ready(x)
    PROVE  Len(CodaPronti) < MAX_REFERENCES - 1
<1> DEFINE n == Len(CodaPronti)
           T1 == Thread \ {Thread_In_Esecuzione}
           T2 == T1 \ {x}
<1>1. n \in Nat /\ CodaPronti \in [1..n -> Thread]
  BY DEF TypeOK
<1>2. CodaPronti \in [1..n -> T2]
  <2>1. ASSUME NEW i \in 1..n PROVE CodaPronti[i] \in T2
    BY <1>1, <2>1 DEF Ready, InSeq
  <2>2. QED
    BY <1>1, <2>1
<1>3. CodaPronti \in Injection(1..n, T2)
  BY <1>2 DEF Injection, IsInjective, Distinct
<1>4. IsFiniteSet(T1) /\ Cardinality(T1) = Cardinality(Thread) - 1
  BY FS_RemoveElement DEF QueueFits
<1>5. IsFiniteSet(T2) /\ Cardinality(T2) = Cardinality(T1) - 1
  BY <1>4, FS_RemoveElement
<1>6. Cardinality(1..n) = n
  BY <1>1, FS_Interval, SMTT(20)
<1>7. Cardinality(1..n) <= Cardinality(T2)
  BY <1>3, <1>5, FS_Injection
<1>8. Cardinality(Thread) \in Nat /\ Cardinality(Thread) <= MAX_REFERENCES
  BY FS_CardinalityType DEF QueueFits
<1>9. QED
  BY <1>1, <1>4, <1>5, <1>6, <1>7, <1>8, SizeAssumption

\* No step panics.
LEMMA NextNeverPanics ==
    ASSUME QueueFits, TypeOK, Placed, NeverPanics, Next
    PROVE  NeverPanics'
<1>1. Thread_In_Esecuzione \in Thread /\ Distinct(CodaPronti) /\ ~Ready(Thread_In_Esecuzione)
  BY DEF TypeOK, Placed, SomeoneRuns, OnePlace
<1>2. ASSUME NEW x \in Thread, x \in active', x # Thread_In_Esecuzione, ~Ready(x),
             Add_Thread_To_CodaPronti(x)
      PROVE  NeverPanics'
  <2>1. Len(CodaPronti) < MAX_REFERENCES - 1
    BY <1>1, <1>2, RoomInQueue
  <2>2. Len(CodaPronti) # MAX_REFERENCES - 1
    BY <2>1, SizeAssumption DEF TypeOK
  <2>3. panicked' = panicked
    BY <1>2, <2>2, Zenon DEF Add_Thread_To_CodaPronti
  <2>4. QED
    BY <2>3 DEF NeverPanics
<1>3. ASSUME NEW s \in Sem, NEW v \in Nat, Release(s, v) PROVE NeverPanics'
  <2>1. CASE queue[s] = <<>>
    BY <1>3, <2>1 DEF Release, NeverPanics
  <2>2. CASE queue[s] # <<>>
    <3>1. Head(queue[s]) \in Thread /\ SuspendedOn(Head(queue[s]), s)
      BY <2>2, InTail DEF TypeOK, Placed, OnePlace, SuspendedOn
    <3>2. /\ Head(queue[s]) \in active
          /\ Head(queue[s]) # Thread_In_Esecuzione
          /\ ~Ready(Head(queue[s]))
      BY <3>1 DEF Placed, OnePlace, NoThreadLost
    <3>3. active' = active /\ Add_Thread_To_CodaPronti(Head(queue[s]))
      BY <1>3, <2>2 DEF Release
    <3>4. QED
      BY <1>2, <3>1, <3>2, <3>3
  <2>3. QED
    BY <2>1, <2>2
<1>4. CASE Create_Thread
  <2>1. PICK x \in Thread \ active : active' = active \cup {x} /\ Add_Thread_To_CodaPronti(x)
    BY <1>4 DEF Create_Thread
  <2>2. ~Ready(x) /\ x # Thread_In_Esecuzione
    BY DEF Placed, NoThreadLost
  <2>3. QED
    BY <1>2, <2>1, <2>2
<1>5. CASE panicked' = panicked
  BY <1>5 DEF NeverPanics
<1>6. ASSUME NEW s \in Semaphore, P(s) \/ Non_Block_P(s) \/ V(s) PROVE NeverPanics'
  <2>1. Status[s] + 1 \in Nat
    BY DEF TypeOK
  <2>2. QED
    BY <1>3, <1>5, <1>6, <2>1 DEF P, Non_Block_P, V, Take, Suspend, vars
<1>7. ASSUME NEW s \in Bool_Semaphore, Bool_P(s) \/ Non_Block_Bool_P(s) \/ Bool_V(s)
      PROVE  NeverPanics'
  BY <1>3, <1>5, <1>7 DEF Bool_P, Non_Block_Bool_P, Bool_V, Take, Suspend, vars
<1>8. ASSUME NEW s \in IRQ_Semaphore, IRQ(s) PROVE NeverPanics'
  <2>1. s \in Sem /\ Status[s] + 1 \in Nat
    BY SemAssumption DEF TypeOK
  <2>2. QED
    BY <1>3, <1>8, <2>1 DEF IRQ
<1>9. QED
  BY <1>4, <1>5, <1>6, <1>7, <1>8 DEF Next, scheduler, idle_loop, Exit_Thread

\* If the thread table fits in the ready queue, Add_Thread_To_CodaPronti never
\* panics, and so the placement of the threads holds in every state.
THEOREM ThreadsPlaced ==
    ASSUME QueueFits
    PROVE  Spec => [](NeverPanics /\ SomeoneRuns /\ OnePlace /\ NoThreadLost /\ NoLostWakeup)
<1> DEFINE Inv == IInv /\ NeverPanics
<1>1. Init => Inv
  BY TypeCorrectInit, InitPlaced DEF IInv, NeverPanics, Init
<1>2. Inv /\ [Next]_vars => Inv'
  <2> SUFFICES ASSUME Inv, [Next]_vars PROVE Inv'
    OBVIOUS
  <2>1. TypeOK /\ Placed
    BY DEF IInv, NeverPanics
  <2>2. NeverPanics'
    <3>1. CASE Next
      BY <2>1, <3>1, NextNeverPanics
    <3>2. CASE UNCHANGED vars
      BY <3>2 DEF vars, NeverPanics
    <3>3. QED
      BY <3>1, <3>2
  <2>3. QED
    BY <2>2, NextIInv
<1>3. Inv => NeverPanics /\ SomeoneRuns /\ OnePlace /\ NoThreadLost /\ NoLostWakeup
  BY DEF IInv, NeverPanics, Placed
<1>4. QED
  BY <1>1, <1>2, <1>3, PTL DEF Spec

--------------------------------------------------------------------------------
(* Every P that returns has been paid for.                                     *)

\* Only threads that are ready or suspended stand inside P: the running thread,
\* and a slot that is free, do not.
ContextsSettled ==
    \A t \in Thread : inP[t] # NoSem => Ready(t) \/ \E s \in Sem : SuspendedOn(t, s)

CreditInv == ContextsSettled /\ CreditConserved

\* The woken threads are counted.
LEMMA WokenFinite ==
    ASSUME IsFiniteSet(Thread), NEW s
    PROVE  IsFiniteSet(Woken(s)) /\ Cardinality(Woken(s)) \in Nat
<1>1. Woken(s) \in SUBSET Thread
  BY DEF Woken
<1>2. QED
  BY <1>1, FS_Subset, FS_CardinalityType

\* A step that neither wakes nor resumes anybody.
LEMMA SameWoken ==
    ASSUME TypeOK, CreditInv,
           UNCHANGED <<CodaPronti, Thread_In_Esecuzione, queue, inP>>,
           \A s \in Sem : credit'[s] - Status'[s] = credit[s] - Status[s],
           credit' \in [Sem -> Int], Status' \in [Sem -> Nat],
           IsFiniteSet(Thread)
    PROVE  CreditInv'
<1>1. \A s \in Sem : Woken(s)' = Woken(s)
  BY DEF Woken, Ready
<1>2. ContextsSettled'
  BY DEF CreditInv, ContextsSettled, Ready, SuspendedOn
<1>3. CreditConserved'
  <2> SUFFICES ASSUME NEW s \in Sem
               PROVE  credit'[s] = Status'[s] + Cardinality(Woken(s)')
    BY DEF CreditConserved
  <2>1. credit[s] = Status[s] + Cardinality(Woken(s))
    BY DEF CreditInv, CreditConserved
  <2>2. credit[s] \in Int /\ Status[s] \in Int /\ credit'[s] \in Int /\ Status'[s] \in Int
    BY DEF TypeOK
  <2>3. Cardinality(Woken(s)) \in Nat /\ credit'[s] - Status'[s] = credit[s] - Status[s]
    BY WokenFinite
  <2>4. QED
    BY <1>1, <2>1, <2>2, <2>3
<1>4. QED
  BY <1>2, <1>3 DEF CreditInv

\* A dispatch: the thread switched to pays for the P it returns from, if any, and
\* leaves the woken threads.  The thread switched from is inside no P, or has just
\* been suspended.
LEMMA DispatchCredit ==
    ASSUME TypeOK, CreditConserved, Distinct(CodaPronti), CodaPronti # <<>>,
           NEW cur \in Thread \cup {THREAD_INVALID}, ~Ready(cur),
           NEW ctx \in [Thread -> Sem \cup {NoSem}],
           \A t \in Thread : Ready(t) => ctx[t] = inP[t],
           cur \in Thread => ctx[cur] = NoSem,
           Schedule_Next_Thread(CodaPronti, cur), Resume(ctx), Status' = Status,
           IsFiniteSet(Thread)
    PROVE  /\ CreditConserved'
           /\ inP'[Thread_In_Esecuzione'] = NoSem
<1> DEFINE n == Thread_In_Esecuzione'
<1>1. /\ n \in Thread /\ Ready(n)
      /\ \A t \in Thread : InSeq(t, CodaPronti') <=> (Ready(t) /\ t # n) \/ t = cur
  BY ScheduleMoves
<1>2. \A t \in Thread : t # n => inP'[t] = ctx[t]
  BY ResumeOthers
<1>3. inP'[n] = NoSem /\ credit' = [s \in Sem |-> IF ctx[n] = s THEN credit[s] - 1 ELSE credit[s]]
  BY <1>1, SemAssumption DEF Resume, TypeOK, Sem
<1>4. ASSUME NEW s \in Sem
      PROVE  credit'[s] = Status'[s] + Cardinality(Woken(s)')
  <2>1. s # NoSem
    BY SemAssumption DEF Sem
  <2>2. Woken(s)' = Woken(s) \ {n}
    BY <1>1, <1>2, <1>3, <2>1 DEF Woken, Ready
  <2>3. n \in Woken(s) <=> ctx[n] = s
    BY <1>1 DEF Woken
  <2>4. credit[s] = Status[s] + Cardinality(Woken(s)) /\ credit[s] \in Int /\ Status[s] \in Int
    BY DEF CreditConserved, TypeOK
  <2>5. Cardinality(Woken(s) \ {n}) = IF n \in Woken(s) THEN Cardinality(Woken(s)) - 1
                                      ELSE Cardinality(Woken(s))
    BY WokenFinite, FS_RemoveElement
  <2>6. QED
    BY <1>3, <2>2, <2>3, <2>4, <2>5, WokenFinite
<1>5. QED
  BY <1>3, <1>4 DEF CreditConserved

\* Only the contexts of the threads switched from and to change in a dispatch.
LEMMA DispatchSettled ==
    ASSUME TypeOK, Placed, ContextsSettled, CodaPronti # <<>>,
           NEW cur \in Thread \cup {THREAD_INVALID}, ~Ready(cur),
           NEW ctx \in [Thread -> Sem \cup {NoSem}],
           \A t \in Thread : t # Thread_In_Esecuzione => ctx[t] = inP[t],
           \/ ctx[Thread_In_Esecuzione] = NoSem
           \/ \E s \in Sem : InSeq(Thread_In_Esecuzione, queue'[s]),
           \A t \in Thread, s \in Sem : SuspendedOn(t, s) => InSeq(t, queue'[s]),
           Schedule_Next_Thread(CodaPronti, cur), Resume(ctx),
           inP'[Thread_In_Esecuzione'] = NoSem
    PROVE  ContextsSettled'
<1>1. /\ Thread_In_Esecuzione' \in Thread
      /\ \A t \in Thread : InSeq(t, CodaPronti') <=>
            (Ready(t) /\ t # Thread_In_Esecuzione') \/ t = cur
  BY ScheduleMoves DEF Placed, OnePlace
<1>2. \A t \in Thread : t # Thread_In_Esecuzione' => inP'[t] = ctx[t]
  BY ResumeOthers
<1>3. QED
  BY <1>1, <1>2 DEF ContextsSettled, Ready, SuspendedOn

\* The timer and the idle loop.
LEMMA PreemptCredit ==
    ASSUME TypeOK, Placed, CreditInv, IsFiniteSet(Thread),
           Schedule_Next_Thread(CodaPronti, Thread_In_Esecuzione), Resume(inP),
           UNCHANGED <<Status, queue>>
    PROVE  CreditInv'
<1>1. Thread_In_Esecuzione \in Thread /\ inP[Thread_In_Esecuzione] = NoSem
  BY DEF TypeOK, Placed, SomeoneRuns, OnePlace, CreditInv, ContextsSettled
<1>2. CASE CodaPronti = <<>>
  <2>1. CodaPronti' = CodaPronti /\ Thread_In_Esecuzione' = Thread_In_Esecuzione
    BY <1>2 DEF Schedule_Next_Thread
  <2>2. inP' = inP /\ credit' = credit
    BY <1>1, <2>1, SemAssumption DEF Resume, Sem
  <2>3. QED
    BY <2>1, <2>2, SameWoken DEF TypeOK
<1>3. CASE CodaPronti # <<>>
  <2>1. Distinct(CodaPronti) /\ ~Ready(Thread_In_Esecuzione) /\ inP \in [Thread -> Sem \cup {NoSem}]
    BY DEF Placed, OnePlace, TypeOK
  <2>2. CreditConserved' /\ inP'[Thread_In_Esecuzione'] = NoSem
    BY <1>1, <1>3, <2>1, DispatchCredit DEF CreditInv
  <2>3. ContextsSettled'
    <3>1. \A t \in Thread, s \in Sem : SuspendedOn(t, s) => InSeq(t, queue'[s])
      BY DEF SuspendedOn
    <3>2. QED
      BY <1>1, <1>3, <2>1, <2>2, <3>1, DispatchSettled DEF CreditInv
  <2>4. QED
    BY <2>2, <2>3 DEF CreditInv
<1>4. QED
  BY <1>2, <1>3

\* A P that does not sleep pays at once.
LEMMA TakeCredit ==
    ASSUME TypeOK, CreditInv, IsFiniteSet(Thread),
           NEW s \in Sem, NEW left \in Nat, Take(s, left), left = Status[s] - 1
    PROVE  CreditInv'
<1>1. /\ UNCHANGED <<CodaPronti, Thread_In_Esecuzione, queue, inP>>
      /\ Status' = [Status EXCEPT ![s] = left]
      /\ credit' = [credit EXCEPT ![s] = credit[s] - 1]
  BY DEF Take, TypeOK
<1>2. Status' \in [Sem -> Nat] /\ credit' \in [Sem -> Int]
  BY <1>1 DEF TypeOK
<1>3. \A r \in Sem : credit'[r] - Status'[r] = credit[r] - Status[r]
  BY <1>1 DEF TypeOK
<1>4. QED
  BY <1>1, <1>2, <1>3, SameWoken

\* A P that sleeps pays nothing yet.
LEMMA SuspendCredit ==
    ASSUME TypeOK, Placed, CreditInv, IsFiniteSet(Thread), SystemCall, NEW s \in Sem, Suspend(s)
    PROVE  CreditInv'
<1> DEFINE me == Thread_In_Esecuzione
           ctx == [inP EXCEPT ![me] = s]
<1>1. me \in Thread /\ CodaPronti # <<>> /\ Distinct(CodaPronti)
  BY SomeoneReady DEF SystemCall, Placed, OnePlace
<1>2. ~Ready(me) /\ ~Ready(THREAD_INVALID) /\ THREAD_INVALID \notin Thread
  BY NotReady, ThreadAssumption DEF Placed
<1>3. /\ ctx \in [Thread -> Sem \cup {NoSem}]
      /\ \A t \in Thread : t # me => ctx[t] = inP[t]
      /\ \A t \in Thread : Ready(t) => ctx[t] = inP[t]
  BY <1>2 DEF TypeOK
<1>4. /\ Schedule_Next_Thread(CodaPronti, THREAD_INVALID) /\ Resume(ctx) /\ Status' = Status
      /\ queue' = [queue EXCEPT ![s] = Append(queue[s], me)]
  BY DEF Suspend, TypeOK
<1>5. CreditConserved' /\ inP'[Thread_In_Esecuzione'] = NoSem
  BY <1>1, <1>2, <1>3, <1>4, DispatchCredit DEF CreditInv
<1>6. /\ InSeq(me, queue'[s])
      /\ \A t \in Thread, r \in Sem : SuspendedOn(t, r) => InSeq(t, queue'[r])
  <2>1. queue[s] \in Seq(Thread) /\ queue'[s] = Append(queue[s], me)
        /\ \A r \in Sem \ {s} : queue'[r] = queue[r]
    BY <1>4 DEF TypeOK
  <2>2. \A t : InSeq(t, queue'[s]) <=> (InSeq(t, queue[s]) \/ t = me)
    BY <1>1, <2>1, InAppend
  <2>3. QED
    BY <2>1, <2>2 DEF SuspendedOn
<1>7. ContextsSettled'
  BY <1>1, <1>2, <1>3, <1>4, <1>5, <1>6, DispatchSettled DEF CreditInv
<1>8. QED
  BY <1>5, <1>7 DEF CreditInv

\* A V with nobody waiting raises the value; otherwise it moves a waiter, whose P is
\* then paid for.
LEMMA ReleaseCredit ==
    ASSUME TypeOK, Placed, CreditInv, IsFiniteSet(Thread), NEW s \in Sem, NEW v \in Nat,
           Release(s, v), ~panicked'
    PROVE  CreditInv'
<1>1. CASE queue[s] = <<>>
  <2>1. /\ UNCHANGED <<CodaPronti, Thread_In_Esecuzione, queue, inP>>
        /\ Status' = [Status EXCEPT ![s] = v]
        /\ credit' = [credit EXCEPT ![s] = credit[s] + v - Status[s]]
    BY <1>1 DEF Release, TypeOK
  <2>2. Status' \in [Sem -> Nat] /\ credit' \in [Sem -> Int]
    BY <2>1 DEF TypeOK
  <2>3. \A r \in Sem : credit'[r] - Status'[r] = credit[r] - Status[r]
    BY <2>1 DEF TypeOK
  <2>4. QED
    BY <2>1, <2>2, <2>3, SameWoken
<1>2. CASE queue[s] # <<>>
  <2> DEFINE h == Head(queue[s])
  <2>1. queue[s] \in Seq(Thread) /\ Distinct(queue[s])
    BY DEF TypeOK, Placed, OnePlace
  <2>2. /\ h \in Thread /\ SuspendedOn(h, s)
        /\ \A t : InSeq(t, Tail(queue[s])) <=> (SuspendedOn(t, s) /\ t # h)
    BY <1>2, <2>1, InTail DEF SuspendedOn
  <2>3. ~Ready(h) /\ inP[h] = s
    BY <2>2 DEF Placed, OnePlace, NoThreadLost
  <2>4. /\ UNCHANGED <<Status, Thread_In_Esecuzione, inP>>
        /\ Add_Thread_To_CodaPronti(h)
        /\ queue' = [queue EXCEPT ![s] = Tail(queue[s])]
        /\ credit' = [credit EXCEPT ![s] = credit[s] + 1]
    BY <1>2 DEF Release, TypeOK
  <2>5. \A t \in Thread : InSeq(t, CodaPronti') <=> (Ready(t) \/ t = h)
    BY <2>2, <2>3, <2>4, AddMoves DEF Placed, OnePlace
  <2>6. \A r \in Sem \ {s} : queue'[r] = queue[r]
    BY <2>4 DEF TypeOK
  <2>7. ContextsSettled'
    <3> SUFFICES ASSUME NEW t \in Thread, inP[t] # NoSem, t # h, ~Ready(t)
                 PROVE  \E r \in Sem : InSeq(t, queue'[r])
      BY <2>4, <2>5 DEF ContextsSettled, Ready, SuspendedOn
    <3>1. PICK r \in Sem : SuspendedOn(t, r)
      BY DEF CreditInv, ContextsSettled
    <3>2. InSeq(t, queue'[r])
      <4>1. CASE r = s
        <5>1. queue'[s] = Tail(queue[s])
          BY <2>4 DEF TypeOK
        <5>2. QED
          BY <2>2, <3>1, <4>1, <5>1
      <4>2. CASE r # s
        BY <2>6, <3>1, <4>2 DEF SuspendedOn
      <4>3. QED
        BY <4>1, <4>2
    <3>3. QED
      BY <3>2
  <2>8. ASSUME NEW r \in Sem
        PROVE  credit'[r] = Status'[r] + Cardinality(Woken(r)')
    <3>1. /\ credit[r] = Status[r] + Cardinality(Woken(r)) /\ Cardinality(Woken(r)) \in Nat
          /\ IsFiniteSet(Woken(r))
      BY WokenFinite DEF CreditInv, CreditConserved
    <3>2. credit[r] \in Int /\ Status[r] \in Int
      BY DEF TypeOK
    <3>3. CASE r = s
      <4>1. Woken(s)' = Woken(s) \cup {h} /\ h \notin Woken(s)
        BY <2>2, <2>3, <2>4, <2>5 DEF Woken, Ready
      <4>2. Cardinality(Woken(s) \cup {h}) = Cardinality(Woken(s)) + 1
        BY <3>1, <3>3, <4>1, FS_AddElement
      <4>3. credit'[s] = credit[s] + 1
        BY <2>4 DEF TypeOK
      <4>4. QED
        BY <2>4, <3>1, <3>2, <3>3, <4>1, <4>2, <4>3
    <3>4. CASE r # s
      <4>1. Woken(r)' = Woken(r)
        BY <2>3, <2>4, <2>5, <3>4 DEF Woken, Ready
      <4>2. credit'[r] = credit[r]
        BY <2>4, <3>4 DEF TypeOK
      <4>3. QED
        BY <2>4, <3>1, <4>1, <4>2
    <3>5. QED
      BY <3>3, <3>4
  <2>9. QED
    BY <2>7, <2>8 DEF CreditInv, CreditConserved
<1>3. QED
  BY <1>1, <1>2

\* A new thread is ready, and inside no P.
LEMMA CreateCredit ==
    ASSUME TypeOK, Placed, CreditInv, Create_Thread, ~panicked'
    PROVE  CreditInv'
<1>1. PICK x \in Thread \ active : Add_Thread_To_CodaPronti(x)
  BY DEF Create_Thread
<1>2. ~Ready(x) /\ inP[x] = NoSem
  BY DEF Placed, NoThreadLost, CreditInv, ContextsSettled
<1>3. \A t \in Thread : InSeq(t, CodaPronti') <=> (Ready(t) \/ t = x)
  BY <1>1, <1>2, AddMoves DEF Placed, OnePlace
<1>4. UNCHANGED <<Status, queue, inP, credit>>
  BY DEF Create_Thread
<1>5. \A s \in Sem : Woken(s)' = Woken(s)
  BY <1>2, <1>3, <1>4, SemAssumption DEF Woken, Ready, Sem
<1>6. QED
  BY <1>3, <1>4, <1>5 DEF CreditInv, ContextsSettled, CreditConserved, Ready, SuspendedOn

\* A thread that exits is inside no P.
LEMMA ExitCredit ==
    ASSUME TypeOK, Placed, CreditInv, IsFiniteSet(Thread), Exit_Thread
    PROVE  CreditInv'
<1>1. Thread_In_Esecuzione \in Thread /\ CodaPronti # <<>> /\ Distinct(CodaPronti)
  BY SomeoneReady DEF Exit_Thread, SystemCall, Placed, OnePlace
<1>2. ~Ready(THREAD_INVALID) /\ THREAD_INVALID \notin Thread
  BY NotReady, ThreadAssumption DEF Placed
<1>3. inP[Thread_In_Esecuzione] = NoSem /\ inP \in [Thread -> Sem \cup {NoSem}]
  BY <1>1 DEF TypeOK, Placed, OnePlace, CreditInv, ContextsSettled
<1>4. /\ Schedule_Next_Thread(CodaPronti, THREAD_INVALID) /\ Resume(inP)
      /\ UNCHANGED <<Status, queue>>
  BY DEF Exit_Thread
<1>5. CreditConserved' /\ inP'[Thread_In_Esecuzione'] = NoSem
  BY <1>1, <1>2, <1>3, <1>4, DispatchCredit DEF CreditInv
<1>6. \A t \in Thread, s \in Sem : SuspendedOn(t, s) => InSeq(t, queue'[s])
  BY <1>4 DEF SuspendedOn
<1>7. ContextsSettled'
  BY <1>1, <1>2, <1>3, <1>4, <1>5, <1>6, DispatchSettled DEF CreditInv
<1>8. QED
  BY <1>5, <1>7 DEF CreditInv

\* Every step keeps the account, unless it panics.
LEMMA NextCredit ==
    ASSUME TypeOK, Placed, CreditInv, IsFiniteSet(Thread), Next, ~panicked'
    PROVE  CreditInv'
<1>1. CASE scheduler
  BY <1>1, PreemptCredit DEF scheduler
<1>2. CASE idle_loop
  BY <1>2, PreemptCredit DEF idle_loop
<1>3. ASSUME NEW s \in Sem, Status[s] > 0 PROVE Status[s] - 1 \in Nat
  BY <1>3 DEF TypeOK
<1>4. ASSUME UNCHANGED vars PROVE CreditInv'
  BY <1>4 DEF vars, CreditInv, ContextsSettled, CreditConserved, Woken, Ready, SuspendedOn
<1>5. ASSUME NEW s \in Semaphore, P(s) \/ Non_Block_P(s) \/ V(s)
      PROVE  CreditInv'
  <2>1. s \in Sem /\ Status[s] + 1 \in Nat
    BY DEF TypeOK, Sem
  <2>2. ASSUME Take(s, Status[s] - 1) PROVE CreditInv'
    BY <1>3, <2>1, <2>2, TakeCredit DEF Take
  <2>3. ASSUME SystemCall, Suspend(s) PROVE CreditInv'
    BY <2>1, <2>3, SuspendCredit
  <2>4. ASSUME Release(s, Status[s] + 1) PROVE CreditInv'
    BY <2>1, <2>4, ReleaseCredit
  <2>5. QED
    BY <1>4, <1>5, <2>2, <2>3, <2>4 DEF P, Non_Block_P, V
<1>6. ASSUME NEW s \in Bool_Semaphore, Bool_P(s) \/ Non_Block_Bool_P(s) \/ Bool_V(s)
      PROVE  CreditInv'
  <2>1. s \in Sem /\ Status[s] \in {0, 1}
    BY DEF Placed, NoLostWakeup, Sem
  <2>2. ASSUME Take(s, 0) PROVE CreditInv'
    <3>1. 0 = Status[s] - 1
      BY <2>1, <2>2 DEF Take
    <3>2. QED
      BY <2>1, <2>2, <3>1, TakeCredit
  <2>3. ASSUME SystemCall, Suspend(s) PROVE CreditInv'
    BY <2>1, <2>3, SuspendCredit
  <2>4. ASSUME Release(s, 1) PROVE CreditInv'
    BY <2>1, <2>4, ReleaseCredit
  <2>5. QED
    BY <1>4, <1>6, <2>2, <2>3, <2>4 DEF Bool_P, Non_Block_Bool_P, Bool_V
<1>7. ASSUME NEW s \in IRQ_Semaphore, IRQ(s) PROVE CreditInv'
  <2>1. s \in Sem /\ Status[s] + 1 \in Nat
    BY SemAssumption DEF TypeOK, Sem
  <2>2. QED
    BY <1>7, <2>1, ReleaseCredit DEF IRQ
<1>8. CASE Create_Thread
  BY <1>8, CreateCredit
<1>9. CASE Exit_Thread
  BY <1>9, ExitCredit
<1>10. QED
  BY <1>1, <1>2, <1>5, <1>6, <1>7, <1>8, <1>9 DEF Next

\* At the start nobody is inside P and nothing has been taken.
LEMMA InitCredit == Init => CreditInv
<1> SUFFICES ASSUME Init PROVE CreditInv
  OBVIOUS
<1>1. ContextsSettled
  BY DEF Init, ContextsSettled
<1>2. \A s \in Sem : Woken(s) = {}
  BY SemAssumption DEF Init, Woken, Sem
<1>3. \A s \in Sem : credit[s] = Status[s] /\ Status[s] \in Nat
  BY SemAssumption DEF Init, Sem
<1>4. Cardinality({}) = 0
  BY FS_EmptySet, Zenon
<1>5. ASSUME NEW s \in Sem PROVE credit[s] = Status[s] + Cardinality(Woken(s))
  <2>1. Cardinality(Woken(s)) = 0
    BY <1>2, <1>4, Zenon
  <2>2. QED
    BY <1>3, <2>1
<1>6. QED
  BY <1>1, <1>5 DEF CreditInv, CreditConserved

\* Until the kernel panics, the P's that have returned on a semaphore are as many as
\* its initial value and the V's allow, and no V is forgotten, for any number of
\* threads and semaphores.
THEOREM PaidUntilPanic ==
    ASSUME IsFiniteSet(Thread)
    PROVE  Spec => [](panicked \/ CreditConserved)
<1> DEFINE Inv == IInv /\ (panicked \/ CreditInv)
<1>1. Init => Inv
  BY TypeCorrectInit, InitPlaced, InitCredit DEF IInv
<1>2. Inv /\ [Next]_vars => Inv'
  <2> SUFFICES ASSUME Inv, [Next]_vars PROVE Inv'
    OBVIOUS
  <2>1. IInv'
    BY NextIInv
  <2>2. CASE Next
    BY <2>1, <2>2, PanicStops, NextCredit DEF IInv
  <2>3. CASE UNCHANGED vars
    BY <2>1, <2>3 DEF vars, CreditInv, ContextsSettled, CreditConserved, Woken, Ready, SuspendedOn
  <2>4. QED
    BY <2>2, <2>3
<1>3. Inv => panicked \/ CreditConserved
  BY DEF CreditInv
<1>4. QED
  BY <1>1, <1>2, <1>3, PTL DEF Spec

\* If the thread table fits in the ready queue, every V and every P is accounted for
\* in every state.
THEOREM CreditCorrect ==
    ASSUME QueueFits
    PROVE  Spec => []CreditConserved
<1>1. IsFiniteSet(Thread)
  BY DEF QueueFits
<1>2. Spec => [](panicked \/ CreditConserved)
  BY <1>1, PaidUntilPanic
<1>3. Spec => [](NeverPanics /\ SomeoneRuns /\ OnePlace /\ NoThreadLost /\ NoLostWakeup)
  BY ThreadsPlaced
<1>4. QED
  BY <1>2, <1>3, PTL DEF NeverPanics

================================================================================
