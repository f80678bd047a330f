---------------------------- MODULE ProcessesProofs ----------------------------
(***************************************************************************)
(* Theorems about Processes: pages, message queues, the process table and  *)
(* the ready queue stay sound through sends, receipts, signals, creations  *)
(* and exits, for any sizes of the tables.                                 *)
(***************************************************************************)
EXTENDS Processes, FiniteSetTheorems, WellFoundedInduction, TLAPS

--------------------------------------------------------------------------------
(* Induction, with sets where the library has an operator P(_). *)

\* The order of the natural numbers, as the relation the library's theorems are about.
LEMMA LessThanRel == \A x, y \in Nat : <<x, y>> \in OpToRel(<, Nat) <=> x < y
  BY DEF OpToRel

\* A nonempty set of natural numbers has a least element.
LEMMA LeastExists ==
    ASSUME NEW T \in SUBSET Nat, T # {}
    PROVE  \E x \in T : \A y \in T : x <= y
<1>1. \E x \in T : \A y \in T : ~(<<y, x>> \in OpToRel(<, Nat))
  BY NatLessThanWellFounded, WFMin
<1>2. \A x, y \in T : <<y, x>> \in OpToRel(<, Nat) <=> y < x
  BY LessThanRel, Zenon
<1>3. \E x \in T : \A y \in T : ~(y < x)
  BY <1>1, <1>2, Zenon
<1>4. QED
  BY <1>3

\* Induction: a set of natural numbers that holds 0 and the successor of every member
\* holds them all.
LEMMA Inductive ==
    ASSUME NEW S \in SUBSET Nat, 0 \in S, \A n \in S : n + 1 \in S
    PROVE  S = Nat
<1>1. SUFFICES ASSUME Nat \ S # {} PROVE FALSE
  OBVIOUS
<1>2. PICK x \in Nat \ S : \A y \in Nat \ S : x <= y
  BY <1>1, LeastExists
<1>3. x # 0 /\ x - 1 \in Nat /\ x - 1 \in S
  BY <1>2
<1>4. QED
  BY <1>2, <1>3

\* A loop of n turns has a run, all of whose states are in the set its turns stay in.
LEMMA LoopExists ==
    ASSUME NEW T, NEW t0 \in T, NEW n \in Nat, NEW F \in [1 .. n -> [T -> T]]
    PROVE  \E g \in [0 .. n -> T] :
              g[0] = t0 /\ \A k \in 1 .. n : g[k] = F[k][g[k - 1]]
<1> DEFINE Turned(g, m) == g[0] = t0 /\ \A k \in 1 .. m : g[k] = F[k][g[k - 1]]
           S == {m \in Nat : m <= n => \E g \in [0 .. m -> T] : Turned(g, m)}
<1>1. 0 \in S
  <2>1. [k \in 0 .. 0 |-> t0] \in [0 .. 0 -> T] /\ Turned([k \in 0 .. 0 |-> t0], 0)
    OBVIOUS
  <2>2. QED
    BY <2>1
<1>2. ASSUME NEW m \in S PROVE m + 1 \in S
  <2> HIDE DEF Turned
  <2>0. SUFFICES ASSUME m + 1 <= n PROVE \E g \in [0 .. m + 1 -> T] : Turned(g, m + 1)
    BY <2>0
  <2>1. m \in Nat /\ m <= n
    BY <2>0
  <2>2. PICK g \in [0 .. m -> T] : Turned(g, m)
    BY <2>1
  <2> USE DEF Turned
  <2> DEFINE h == [k \in 0 .. m + 1 |-> IF k = m + 1 THEN F[m + 1][g[m]] ELSE g[k]]
  <2>3. h \in [0 .. m + 1 -> T]
    <3>1. F[m + 1][g[m]] \in T
      <4>1. m + 1 \in 1 .. n /\ m \in 0 .. m
        BY <2>0, <2>1
      <4>2. F[m + 1] \in [T -> T] /\ g[m] \in T
        BY <4>1
      <4>3. QED
        BY <4>2
    <3>2. QED
      BY <2>1, <3>1
  <2>4. h[0] = t0
    BY <2>1, <2>2
  <2>5. ASSUME NEW k \in 1 .. m + 1 PROVE h[k] = F[k][h[k - 1]]
    <3>1. k - 1 \in 0 .. m /\ h[k - 1] = g[k - 1]
      BY <2>1
    <3>2. CASE k = m + 1
      BY <2>1, <3>1, <3>2
    <3>3. CASE k # m + 1
      <4>1. k \in 1 .. m /\ h[k] = g[k]
        BY <2>1, <3>3
      <4>2. QED
        BY <2>2, <3>1, <4>1
    <3>4. QED
      BY <3>2, <3>3
  <2>6. QED
    BY <2>3, <2>4, <2>5
<1> HIDE DEF S
<1>3. S = Nat
  <2>1. S \in SUBSET Nat
    BY DEF S
  <2>2. QED
    BY <1>1, <1>2, <2>1, Inductive
<1>4. n \in S
  BY <1>3
<1>5. QED
  BY <1>4 DEF S


--------------------------------------------------------------------------------
(* The invariant.                                                              *)

Entry == Thread \cup {THREAD_INVALID}
Message == [page : Page, to : Pids]
Process ==
    [active : BOOLEAN, pid : Pids, threads : [1..MAX_THREADS_PER_PROCESS -> Entry],
     signals : 0..MAX_SIGNALS_PENDING - 1]
Table == [Slot -> Process]

Owners == [Thread -> [task : Slot, pid : Pids]]

SchedTypes ==
    /\ active \in SUBSET Thread
    /\ CodaPronti \in Seq(Thread)
    /\ Thread_In_Esecuzione \in Thread
    /\ Status \in [Slot -> Nat]
    /\ queue \in [Slot -> Seq(Thread)]
    /\ inP \in [Thread -> Slot \cup {NoSem}]
    /\ credit \in [Slot -> Int]
    /\ panicked \in BOOLEAN
TableTypes == Processi \in Table /\ Last_Pid_Used \in Pids /\ owner \in Owners
MailTypes ==
    /\ msgqueue \in [Slot -> Seq(Message)]
    /\ \A s \in Slot : Len(msgqueue[s]) < MAX_MESSAGES
PageTypes == mapped \in [Slot -> SUBSET Page] /\ freepages \in SUBSET Page
Types ==
    /\ SchedTypes /\ TableTypes /\ MailTypes /\ PageTypes
    /\ receiving \in Slot \cup {NoSem} /\ exhausted \in BOOLEAN

\* The scheduler: act is the active threads, own whose they are, tab the processes, st and
\* qs the semaphores, ctx where each thread stands in P, ready the ready queue and cur the
\* running thread, if any.  The idle thread can run; a thread is inside the recmsg of its
\* own process or of none; who is ready is active and in one place; who waits for the
\* messages of a live process is a thread of it, inside recmsg.
ReadySound(act, ready, cur) ==
    /\ kernel_thread \in act
    /\ kernel_thread = cur \/ Sched!InSeq(kernel_thread, ready)
    /\ Sched!Distinct(ready) /\ ~Sched!InSeq(cur, ready)
    /\ \A t \in Thread : Sched!InSeq(t, ready) \/ t = cur => t \in act
InOwn(act, own, ctx) ==
    /\ \A t \in act : ctx[t] \in {NoSem, own[t].task}
    /\ ctx[kernel_thread] = NoSem
Waits(t, s, act, own, ctx, ready, cur) ==
    /\ t \in act /\ own[t].task = s /\ ctx[t] = s
    /\ ~Sched!InSeq(t, ready) /\ t # cur
WaitersSound(act, own, tab, st, qs, ctx, ready, cur) ==
    \A s \in Slot : tab[s].active =>
       /\ Sched!Distinct(qs[s])
       /\ qs[s] # <<>> => st[s] = 0
       /\ \A t \in Thread : Sched!InSeq(t, qs[s]) => Waits(t, s, act, own, ctx, ready, cur)
Scheduling(act, own, tab, st, qs, ctx, ready, cur) ==
    /\ ReadySound(act, ready, cur)
    /\ InOwn(act, own, ctx)
    /\ WaitersSound(act, own, tab, st, qs, ctx, ready, cur)

\* The running thread is outside P; what was resumed is its recmsg.
Scheduled ==
    /\ Scheduling(active, owner, Processi, Status, queue, inP, CodaPronti, Thread_In_Esecuzione)
    /\ inP[Thread_In_Esecuzione] = NoSem
    /\ receiving # NoSem => receiving = Me

\* The process table tab has t in the table of slot s.
Lists(tab, s, t) == \E i \in 1..MAX_THREADS_PER_PROCESS : tab[s].threads[i] = t

\* An active thread belongs to a live process, which lists it; the kernel's has the
\* idle thread and no other.
Owned(tab, own, act) ==
    /\ tab[kernel_slot].active
    /\ \A t \in act :
          /\ tab[own[t].task].active /\ Lists(tab, own[t].task, t)
          /\ own[t].pid = tab[own[t].task].pid
          /\ own[t].task = kernel_slot <=> t = kernel_thread
    /\ \A s \in Slot \ {kernel_slot} : ~Lists(tab, s, kernel_thread)

\* A process with a thread lists only threads of its own, each of them once. One
\* whose last thread was destroyed still lists that one.
OnlyOwn(tab, own, act, s) ==
    \A i, j \in 1..MAX_THREADS_PER_PROCESS :
       tab[s].threads[i] # THREAD_INVALID =>
          /\ tab[s].threads[i] \in act
          /\ own[tab[s].threads[i]].task = s
          /\ tab[s].threads[i] = tab[s].threads[j] => i = j
ListsOwn(tab, own, act) ==
    \A s \in Slot : tab[s].active /\ (\E u \in act : own[u].task = s) =>
       OnlyOwn(tab, own, act, s)

\* Live processes have different pids, none of them still to be given out.
PidsSound(tab, last) ==
    /\ \A s \in Slot : tab[s].active => tab[s].pid <= last
    /\ \A r, s \in Slot : tab[r].active /\ tab[s].active /\ r # s => tab[r].pid # tab[s].pid

Tables(tab, own, act, last) ==
    Owned(tab, own, act) /\ ListsOwn(tab, own, act) /\ PidsSound(tab, last)
Tabled == Tables(Processi, owner, active, Last_Pid_Used)

\* The pages of a message queue; every one queued once; and the place of every page,
\* given by a function.
PagesOf(q) == {q[i].page : i \in DOMAIN q}
DistinctPages(q) == \A i, j \in DOMAIN q : q[i].page = q[j].page => i = j
QueuedOnce(tab, mq) == \A s \in Slot : tab[s].active => DistinctPages(mq[s])
Free == <<"free", kernel_slot>>
InMap(s) == <<"mapped", s>>
InQueue(s) == <<"queued", s>>
IsPlace(place, tab, mq, map, free) ==
    \A p \in Page :
       /\ place[p] = Free \/ \E s \in Slot : place[p] \in {InMap(s), InQueue(s)}
       /\ p \in free <=> place[p] = Free
       /\ \A s \in Slot : p \in map[s] <=> place[p] = InMap(s)
       /\ \A s \in Slot : tab[s].active /\ p \in PagesOf(mq[s]) <=> place[p] = InQueue(s)
PagesPlaced(tab, mq, map, free) ==
    QueuedOnce(tab, mq) /\ \E place : IsPlace(place, tab, mq, map, free)
Paged == PagesPlaced(Processi, msgqueue, mapped, freepages)

Base == Types /\ Scheduled /\ Tabled

PInv == Base /\ Paged /\ MessagesCounted /\ NoMailForTheDead

\* What the kernel does not check and its programs are assumed not to do: create a
\* thread in a process whose table is full (syscall.c:238), and destroy a thread whose
\* pid is the index of the slot of the caller (process.c:876).
WellUsed ==
    /\ Sys_Create_Thread => FreeEntries(Me) # {} \/ FreeThreads = {}
    /\ \A s \in Slot : SIGNAL_DESTROY(s) => owner[First_Thread(s)].pid # Me

--------------------------------------------------------------------------------
(* The scheduler and the semaphores.                                           *)

USE DEF kernel_slot

\* What ThreadSched assumes of its constants holds of those it is given here.
LEMMA Constants ==
    /\ kernel_thread \in Thread /\ init_thread \in Thread /\ kernel_thread # init_thread
    /\ THREAD_INVALID \notin Thread /\ NoSem \notin Slot
    /\ kernel_slot \in Slot /\ 1 \in Slot /\ Slot \subseteq Nat /\ Thread \subseteq Nat
    /\ Sched!Sem = Slot
    /\ IsFiniteSet(Thread) /\ Cardinality(Thread) = MAX_THREADS
<1>1. IsFiniteSet(0..MAX_THREADS - 1) /\ Cardinality(0..MAX_THREADS - 1) = MAX_THREADS
  <2> DEFINE m == MAX_THREADS - 1
  <2>1. 0 \in Int /\ m \in Int /\ (IF 0 > m THEN 0 ELSE m - 0 + 1) = MAX_THREADS
    BY SizeAssumption
  <2> HIDE DEF m
  <2>2. IsFiniteSet(0..m) /\ Cardinality(0..m) = IF 0 > m THEN 0 ELSE m - 0 + 1
    BY <2>1, FS_Interval
  <2>3. QED
    BY <2>1, <2>2 DEF m
<1>2. IsFiniteSet(Thread) /\ Cardinality(Thread) = MAX_THREADS
  BY <1>1, Zenon DEF Thread
<1>3. QED
  BY <1>2, SizeAssumption
     DEF Thread, Slot, kernel_thread, init_thread, THREAD_INVALID, Sched!Sem

\* Who is in a queue with one thread more at its end.
LEMMA InAppend ==
    ASSUME NEW S, NEW q \in Seq(S), NEW x \in S
    PROVE  /\ Append(q, x) \in Seq(S)
           /\ \A t : Sched!InSeq(t, Append(q, x)) <=> (Sched!InSeq(t, q) \/ t = x)
           /\ Sched!Distinct(q) /\ ~Sched!InSeq(x, q) => Sched!Distinct(Append(q, x))
<1>1. /\ Append(q, x) \in Seq(S) /\ Len(q) \in Nat
      /\ Len(Append(q, x)) = Len(q) + 1 /\ Append(q, x)[Len(q) + 1] = x
  OBVIOUS
<1>2. \A i \in 1..Len(q) : Append(q, x)[i] = q[i]
  OBVIOUS
<1>3. QED
  BY <1>1, <1>2 DEF Sched!InSeq, Sched!Distinct

\* Who is in the rest of a queue.
LEMMA InTail ==
    ASSUME NEW S, NEW q \in Seq(S), q # <<>>, Sched!Distinct(q)
    PROVE  /\ Head(q) \in S /\ Tail(q) \in Seq(S)
           /\ Sched!InSeq(Head(q), q)
           /\ Sched!Distinct(Tail(q))
           /\ \A t : Sched!InSeq(t, Tail(q)) <=> (Sched!InSeq(t, q) /\ t # Head(q))
<1>1. /\ Head(q) \in S /\ Tail(q) \in Seq(S)
      /\ Len(q) \in Nat \ {0} /\ Len(Tail(q)) = Len(q) - 1 /\ Head(q) = q[1]
      /\ \A i \in 1..Len(Tail(q)) : Tail(q)[i] = q[i + 1]
  OBVIOUS
<1>2. Sched!InSeq(Head(q), q)
  BY <1>1 DEF Sched!InSeq
<1>3. Sched!Distinct(Tail(q))
  BY <1>1 DEF Sched!Distinct
<1>4. ASSUME NEW t, Sched!InSeq(t, Tail(q))
      PROVE  Sched!InSeq(t, q) /\ t # Head(q)
  BY <1>1, <1>4 DEF Sched!InSeq, Sched!Distinct
<1>5. ASSUME NEW t, Sched!InSeq(t, q), t # Head(q)
      PROVE  Sched!InSeq(t, Tail(q))
  <2>1. PICK i \in 1..Len(q) : q[i] = t
    BY <1>5 DEF Sched!InSeq
  <2>2. i # 1
    BY <1>1, <1>5, <2>1
  <2>3. i - 1 \in 1..Len(Tail(q)) /\ Tail(q)[i - 1] = t
    BY <1>1, <2>1, <2>2
  <2>4. QED
    BY <2>3 DEF Sched!InSeq
<1>6. QED
  BY <1>1, <1>2, <1>3, <1>4, <1>5

\* A queue without a thread, the order of the others being as it was.
LEMMA InWithout ==
    ASSUME NEW q \in Seq(Thread), Sched!Distinct(q), NEW x
    PROVE  /\ Without(q, x) \in Seq(Thread) /\ Sched!Distinct(Without(q, x))
           /\ \A t : Sched!InSeq(t, Without(q, x)) <=> (Sched!InSeq(t, q) /\ t # x)
<1>1. CASE ~Sched!InSeq(x, q)
  <2>1. Without(q, x) = q
    BY <1>1, Zenon DEF Without, RemoveFirst, Sched!InSeq
  <2>2. QED
    BY <1>1, <2>1
<1>2. CASE Sched!InSeq(x, q)
  <2> DEFINE I == {i \in 1..Len(q) : q[i] = x}
  <2>1. PICK k \in 1..Len(q) : q[k] = x
    BY <1>2 DEF Sched!InSeq
  <2>2. I = {k}
    BY <2>1 DEF Sched!Distinct
  <2>3. Min({k}) = k
    BY DEF Min
  <2>4. SelectInSeq(q, LAMBDA v : v = x) = k
    BY <2>2, <2>3 DEF SelectInSeq
  <2>5. Without(q, x) = RemoveAt(q, k)
    BY <1>2, <2>4, Zenon DEF Without, RemoveFirst, Sched!InSeq
  <2>6. Without(q, x) = SubSeq(q, 1, k - 1) \o SubSeq(q, k + 1, Len(q))
    BY <2>5 DEF RemoveAt
  <2> DEFINE w == SubSeq(q, 1, k - 1) \o SubSeq(q, k + 1, Len(q))
  <2> DEFINE l == SubSeq(q, 1, k - 1)
             r == SubSeq(q, k + 1, Len(q))
  <2>7. Len(q) \in Nat /\ k \in Nat /\ 1 <= k /\ k <= Len(q)
    BY <2>1
  <2>8. l \in Seq(Thread) /\ Len(l) = k - 1 /\ \A i \in 1..k - 1 : l[i] = q[i]
    BY <2>7
  <2>9. r \in Seq(Thread) /\ Len(r) = Len(q) - k /\ \A i \in 1..Len(q) - k : r[i] = q[k + i]
    BY <2>7
  <2> HIDE DEF l, r
  <2>10. \A u, v \in Seq(Thread) :
           /\ u \o v \in Seq(Thread) /\ Len(u \o v) = Len(u) + Len(v)
           /\ \A i \in 1..Len(u) + Len(v) :
                 (u \o v)[i] = IF i <= Len(u) THEN u[i] ELSE v[i - Len(u)]
    OBVIOUS
  <2>11. /\ l \o r \in Seq(Thread) /\ Len(l \o r) = Len(l) + Len(r)
        /\ \A i \in 1..Len(l) + Len(r) :
              (l \o r)[i] = IF i <= Len(l) THEN l[i] ELSE r[i - Len(l)]
    BY <2>10, <2>8, <2>9, Zenon
  <2>12. /\ l \o r \in Seq(Thread) /\ Len(l \o r) = Len(q) - 1
        /\ \A i \in 1..Len(q) - 1 : (l \o r)[i] = IF i < k THEN l[i] ELSE r[i - (k - 1)]
    BY <2>11, <2>7, <2>8, <2>9
  <2>13. \A i \in 1..Len(q) - 1 : (l \o r)[i] = IF i < k THEN q[i] ELSE q[i + 1]
    <3>1. TAKE i \in 1..Len(q) - 1
    <3>2. CASE i < k
      BY <2>7, <2>8, <2>12, <3>2
    <3>3. CASE ~(i < k)
      <4>1. i - (k - 1) \in 1..Len(q) - k /\ k + (i - (k - 1)) = i + 1
        BY <2>7, <3>3
      <4>2. (l \o r)[i] = r[i - (k - 1)]
        BY <2>12, <3>3
      <4>3. QED
        BY <2>9, <3>3, <4>1, <4>2
    <3>4. QED
      BY <3>2, <3>3
  <2>14. /\ w \in Seq(Thread) /\ Len(w) = Len(q) - 1 /\ Len(q) \in Nat
        /\ \A i \in 1..Len(q) - 1 : w[i] = IF i < k THEN q[i] ELSE q[i + 1]
    BY <2>7, <2>12, <2>13 DEF l, r
  <2> HIDE DEF w
  <2>15. Sched!Distinct(w)
    BY <2>14 DEF Sched!Distinct
  <2>16. ASSUME NEW t, Sched!InSeq(t, w)
        PROVE  Sched!InSeq(t, q) /\ t # x
    BY <2>1, <2>14, <2>16 DEF Sched!InSeq, Sched!Distinct
  <2>17. ASSUME NEW t, Sched!InSeq(t, q), t # x
         PROVE  Sched!InSeq(t, w)
    <3>1. PICK i \in 1..Len(q) : q[i] = t
      BY <2>17 DEF Sched!InSeq
    <3>2. i # k
      BY <2>1, <2>17, <3>1
    <3>3. CASE i < k
      BY <2>1, <2>14, <3>1, <3>3 DEF Sched!InSeq
    <3>4. CASE k < i
      <4>1. i - 1 \in 1..Len(w) /\ w[i - 1] = t
        BY <2>1, <2>14, <3>1, <3>4
      <4>2. QED
        BY <4>1 DEF Sched!InSeq
    <3>5. QED
      BY <2>1, <3>1, <3>2, <3>3, <3>4
  <2>18. QED
    BY <2>6, <2>14, <2>15, <2>16, <2>17 DEF w
<1>3. QED
  BY <1>1, <1>2

\* What dispatching does, entered with the ready queue q, the running thread cur and
\* the contexts ctx.
Dispatched(q, cur, ctx) ==
    /\ Thread_In_Esecuzione' \in Thread
    /\ CodaPronti' \in Seq(Thread) /\ Sched!Distinct(CodaPronti')
    /\ ~Sched!InSeq(Thread_In_Esecuzione', CodaPronti')
    /\ \A t \in Thread :
          (Sched!InSeq(t, CodaPronti') \/ t = Thread_In_Esecuzione')
             <=> (Sched!InSeq(t, q) \/ t = cur)
    /\ inP' \in [Thread -> Slot \cup {NoSem}]
    /\ \A t \in Thread : inP'[t] = IF t = Thread_In_Esecuzione' THEN NoSem ELSE ctx[t]
    /\ credit' \in [Slot -> Int]
    /\ receiving' = ctx[Thread_In_Esecuzione']

\* The first ready thread runs, if there is one, and the one that ran is ready.
LEMMA Dispatch ==
    ASSUME NEW q \in Seq(Thread), Sched!Distinct(q),
           NEW cur \in Entry, ~Sched!InSeq(cur, q), q # <<>> \/ cur \in Thread,
           NEW ctx \in [Thread -> Slot \cup {NoSem}], credit \in [Slot -> Int],
           Switch(q, cur, ctx)
    PROVE  Dispatched(q, cur, ctx)
<1>1. Sched!Schedule_Next_Thread(q, cur) /\ Sched!Resume(ctx)
      /\ receiving' = IF Thread_In_Esecuzione' \in Thread THEN ctx[Thread_In_Esecuzione'] ELSE NoSem
  BY DEF Switch
<1>2. /\ Thread_In_Esecuzione' \in Thread
      /\ CodaPronti' \in Seq(Thread) /\ Sched!Distinct(CodaPronti')
      /\ ~Sched!InSeq(Thread_In_Esecuzione', CodaPronti')
      /\ \A t \in Thread :
            Sched!InSeq(t, CodaPronti') \/ t = Thread_In_Esecuzione'
               <=> Sched!InSeq(t, q) \/ t = cur
  <2>1. CASE q = <<>>
    <3>1. Thread_In_Esecuzione' = cur /\ CodaPronti' = q /\ cur \in Thread
      BY <1>1, <2>1 DEF Sched!Schedule_Next_Thread
    <3>2. QED
      BY <3>1
  <2>2. CASE q # <<>>
    <3> DEFINE h == Head(q)
               r == Tail(q)
    <3>1. /\ h \in Thread /\ r \in Seq(Thread) /\ Sched!InSeq(h, q) /\ Sched!Distinct(r)
          /\ \A t : Sched!InSeq(t, r) <=> (Sched!InSeq(t, q) /\ t # h)
      BY <2>2, InTail
    <3>2. cur # h /\ Thread_In_Esecuzione' = h
          /\ CodaPronti' = IF cur = THREAD_INVALID THEN r ELSE Append(r, cur)
      BY <1>1, <2>2, <3>1 DEF Sched!Schedule_Next_Thread
    <3> HIDE DEF h, r
    <3>3. CASE cur = THREAD_INVALID
      BY <3>1, <3>2, <3>3, Constants
    <3>4. CASE cur # THREAD_INVALID
      <4>1. cur \in Thread /\ CodaPronti' = Append(r, cur) /\ ~Sched!InSeq(cur, r)
        BY <3>1, <3>2, <3>4 DEF Entry
      <4>2. /\ CodaPronti' \in Seq(Thread) /\ Sched!Distinct(CodaPronti')
            /\ \A t : Sched!InSeq(t, CodaPronti') <=> (Sched!InSeq(t, r) \/ t = cur)
        BY <3>1, <4>1, InAppend
      <4>3. QED
        BY <3>1, <3>2, <4>1, <4>2
    <3>5. QED
      BY <3>3, <3>4
  <2>3. QED
    BY <2>1, <2>2
<1>3. PICK t \in Thread : t = Thread_In_Esecuzione'
  BY <1>2
<1>4. ctx[t] \in Slot \/ ctx[t] = NoSem
  OBVIOUS
<1>5. CASE ctx[t] \in Slot
  <2>1. inP' = [ctx EXCEPT ![t] = NoSem] /\ credit' = [credit EXCEPT ![ctx[t]] = credit[ctx[t]] - 1]
    BY <1>1, <1>3, <1>5, Constants, Zenon DEF Sched!Resume
  <2>2. QED
    BY <1>1, <1>2, <1>3, <1>5, <2>1 DEF Dispatched
<1>6. CASE ctx[t] = NoSem
  <2>1. inP' = ctx /\ credit' = credit
    BY <1>1, <1>3, <1>6, Constants DEF Sched!Resume
  <2>2. QED
    BY <1>1, <1>2, <1>3, <1>6, <2>1 DEF Dispatched
<1>7. QED
  BY <1>4, <1>5, <1>6

\* A thread made ready without a panic is active and comes last.
LEMMA Added ==
    ASSUME NEW t, Sched!Add_Thread_To_CodaPronti(t), ~panicked'
    PROVE  t \in active' /\ CodaPronti' = Append(CodaPronti, t) /\ panicked' = panicked
BY Zenon DEF Sched!Add_Thread_To_CodaPronti

\* What a V of the messages of slot d does when it does not panic.
Counts(d) ==
    /\ queue[d] = <<>>
    /\ Status' = [Status EXCEPT ![d] = Status[d] + 1]
    /\ CodaPronti' = CodaPronti /\ queue' = queue
Wakes(d) ==
    /\ queue[d] # <<>> /\ Status' = Status
    /\ Head(queue[d]) \in active
    /\ CodaPronti' = Append(CodaPronti, Head(queue[d]))
    /\ queue' = [queue EXCEPT ![d] = Tail(queue[d])]

\* A V of the messages of a process counts one more, or makes the first waiter ready;
\* it touches nothing else of the scheduler.
LEMMA Released ==
    ASSUME NEW d \in Slot, Types, Sched!Release(d, Status[d] + 1), ~panicked'
    PROVE  /\ Counts(d) \/ Wakes(d)
           /\ active' = active /\ Thread_In_Esecuzione' = Thread_In_Esecuzione /\ inP' = inP
           /\ credit' \in [Slot -> Int] /\ panicked' = panicked
<1>1. active' = active /\ Thread_In_Esecuzione' = Thread_In_Esecuzione /\ inP' = inP
  BY DEF Sched!Release
<1>2. CASE queue[d] = <<>>
  <2>1. /\ Status' = [Status EXCEPT ![d] = Status[d] + 1]
        /\ CodaPronti' = CodaPronti /\ queue' = queue /\ panicked' = panicked
        /\ credit' = [credit EXCEPT ![d] = credit[d] + (Status[d] + 1) - Status[d]]
    BY <1>2, Zenon DEF Sched!Release
  <2>2. credit[d] + (Status[d] + 1) - Status[d] \in Int
    BY DEF Types, SchedTypes
  <2>3. credit' \in [Slot -> Int]
    BY <2>1, <2>2 DEF Types, SchedTypes
  <2>4. QED
    BY <1>1, <1>2, <2>1, <2>3 DEF Counts
<1>3. CASE queue[d] # <<>>
  <2>1. /\ Status' = Status /\ Sched!Add_Thread_To_CodaPronti(Head(queue[d]))
        /\ queue' = [queue EXCEPT ![d] = Tail(queue[d])]
        /\ credit' = [credit EXCEPT ![d] = credit[d] + 1]
    BY <1>3, Zenon DEF Sched!Release
  <2>2. credit' \in [Slot -> Int]
    BY <2>1 DEF Types, SchedTypes
  <2>3. /\ Head(queue[d]) \in active' /\ CodaPronti' = Append(CodaPronti, Head(queue[d]))
        /\ panicked' = panicked
    BY <2>1, Added
  <2>4. QED
    BY <1>1, <1>3, <2>1, <2>2, <2>3 DEF Wakes
<1>4. QED
  BY <1>2, <1>3

--------------------------------------------------------------------------------
(* The table of processes.                                                     *)

\* pr2 is pr, but for entries that held t and are free now.
ClearsIn(e2, e, t) ==
    /\ e2.active = e.active /\ e2.pid = e.pid
    /\ \A i \in 1..MAX_THREADS_PER_PROCESS :
          \/ e2.threads[i] = e.threads[i]
          \/ e.threads[i] = t /\ e2.threads[i] = THREAD_INVALID
Clears(pr2, pr, t) == \A s \in Slot : ClearsIn(pr2[s], pr[s], t)

\* Clearing the first entry of one process that holds t.
LEMMA UnlistClears ==
    ASSUME NEW pr \in Table, NEW s \in Slot, NEW t
    PROVE  /\ Unlist(pr, s, t) \in Table /\ Clears(Unlist(pr, s, t), pr, t)
           /\ \A r \in Slot \ {s} : Unlist(pr, s, t)[r] = pr[r]
           /\ Unlist(pr, s, t) # pr => \E i \in 1..MAX_THREADS_PER_PROCESS :
                 pr[s].threads[i] = t /\ Unlist(pr, s, t)[s].threads[i] = THREAD_INVALID
           /\ (\E i \in 1..MAX_THREADS_PER_PROCESS : pr[s].threads[i] = t) /\ t \in Thread
                 => Unlist(pr, s, t) # pr
<1> DEFINE at == {i \in 1..MAX_THREADS_PER_PROCESS : pr[s].threads[i] = t}
<1>1. CASE at = {}
  <2>1. Unlist(pr, s, t) = pr
    BY <1>1 DEF Unlist
  <2>2. QED
    BY <1>1, <2>1 DEF Clears, ClearsIn
<1>2. CASE at # {}
  <2>1. at \in SUBSET Nat
    BY SizeAssumption
  <2>2. \E x \in at : \A y \in at : x <= y
    BY <1>2, <2>1, LeastExists
  <2>3. Min(at) \in at
    BY <2>2, Zenon DEF Min
  <2>4. PICK i \in 1..MAX_THREADS_PER_PROCESS : i = Min(at) /\ pr[s].threads[i] = t
    BY <2>3
  <2>5. Unlist(pr, s, t) = [pr EXCEPT ![s].threads[i] = THREAD_INVALID]
    BY <1>2, <2>4, Zenon DEF Unlist
  <2> DEFINE ts == [pr[s].threads EXCEPT ![i] = THREAD_INVALID]
             e == [pr[s] EXCEPT !.threads = ts]
  <2>6. Unlist(pr, s, t) = [pr EXCEPT ![s] = e]
    BY <2>5
  <2>7. /\ ts \in [1..MAX_THREADS_PER_PROCESS -> Entry]
        /\ ts[i] = THREAD_INVALID
        /\ \A j \in 1..MAX_THREADS_PER_PROCESS : j # i => ts[j] = pr[s].threads[j]
    BY DEF Table, Process, Entry
  <2> HIDE DEF ts
  <2>8. e \in Process /\ e.threads = ts /\ e.pid = pr[s].pid /\ e.active = pr[s].active
    BY <2>7 DEF Table, Process
  <2> HIDE DEF e
  <2>9. /\ Unlist(pr, s, t) \in Table /\ Unlist(pr, s, t)[s] = e
        /\ \A r \in Slot \ {s} : Unlist(pr, s, t)[r] = pr[r]
    BY <2>6, <2>8 DEF Table
  <2>10. Clears(Unlist(pr, s, t), pr, t)
    <3>1. ClearsIn(e, pr[s], t)
      BY <2>4, <2>7, <2>8 DEF ClearsIn
    <3>2. \A r \in Slot : ClearsIn(pr[r], pr[r], t)
      BY DEF ClearsIn
    <3>3. QED
      BY <2>9, <3>1, <3>2, Zenon DEF Clears
  <2>11. t \in Thread => Unlist(pr, s, t) # pr
    BY <2>4, <2>7, <2>8, <2>9, Constants
  <2>12. pr[s].threads[i] = t /\ Unlist(pr, s, t)[s].threads[i] = THREAD_INVALID
    BY <2>4, <2>7, <2>8, <2>9
  <2>13. QED
    BY <2>9, <2>10, <2>11, <2>12, Zenon
<1>3. QED
  BY <1>1, <1>2, Zenon

--------------------------------------------------------------------------------
(* The tables after each kind of step.                                         *)

\* Facts about an active thread and its process.
LEMMA OwnerFacts ==
    ASSUME NEW tab \in Table, NEW own \in Owners, NEW act \in SUBSET Thread, NEW last,
           Tables(tab, own, act, last), NEW t \in act
    PROVE  /\ t \in Thread /\ own[t].task \in Slot /\ own[t].pid \in Slot
           /\ tab[own[t].task].active /\ Lists(tab, own[t].task, t)
           /\ own[t].pid = tab[own[t].task].pid
           /\ own[t].task = kernel_slot <=> t = kernel_thread
           /\ OnlyOwn(tab, own, act, own[t].task)
<1>1. Pids \subseteq Slot
  BY SizeAssumption DEF Pids, Slot
<1>2. t \in Thread /\ own[t].task \in Slot /\ own[t].pid \in Slot
  BY <1>1 DEF Owners
<1>3. tab[own[t].task].active
  BY DEF Tables, Owned
<1>4. OnlyOwn(tab, own, act, own[t].task)
  BY <1>2, <1>3 DEF Tables, ListsOwn
<1>5. QED
  BY <1>2, <1>3, <1>4 DEF Tables, Owned

\* The tables do not look at the pending signals.
LEMMA TablesSame ==
    ASSUME NEW tab \in Table, NEW tab2 \in Table, NEW own \in Owners,
           NEW act \in SUBSET Thread, NEW last,
           Tables(tab, own, act, last),
           \A s \in Slot : /\ tab2[s].active = tab[s].active /\ tab2[s].pid = tab[s].pid
                           /\ tab2[s].threads = tab[s].threads
    PROVE  Tables(tab2, own, act, last)
<1>1. \A t \in act : own[t].task \in Slot
  BY DEF Owners
<1>2. \A s \in Slot : \A t : Lists(tab2, s, t) <=> Lists(tab, s, t)
  BY DEF Lists
<1>3. Owned(tab2, own, act)
  BY <1>1, <1>2, Constants DEF Tables, Owned
<1>4. ListsOwn(tab2, own, act)
  BY DEF Tables, ListsOwn, OnlyOwn
<1>5. PidsSound(tab2, last)
  BY DEF Tables, PidsSound
<1>6. QED
  BY <1>3, <1>4, <1>5 DEF Tables

\* Threads end, entries are cleared, processes end.
LEMMA TablesShrink ==
    ASSUME NEW tab \in Table, NEW tab2 \in Table, NEW own \in Owners,
           NEW act \in SUBSET Thread, NEW act2 \in SUBSET act, NEW last,
           Tables(tab, own, act, last),
           tab2[kernel_slot].active,
           \A s \in Slot :
              /\ tab2[s].pid = tab[s].pid
              /\ tab2[s].active => tab[s].active
              /\ \A i \in 1..MAX_THREADS_PER_PROCESS :
                    \/ tab2[s].threads[i] = tab[s].threads[i]
                    \/ tab2[s].threads[i] = THREAD_INVALID,
           \A t \in act2 : tab2[own[t].task].active /\ Lists(tab2, own[t].task, t),
           \A s \in Slot : (\E u \in act2 : own[u].task = s) =>
              \A i \in 1..MAX_THREADS_PER_PROCESS :
                 tab2[s].threads[i] \in act2 \cup {THREAD_INVALID}
    PROVE  Tables(tab2, own, act2, last)
<1>1. \A t \in act2 : t \in act /\ own[t].task \in Slot
  BY DEF Owners
<1>2. Owned(tab2, own, act2)
  <2>1. \A s \in Slot \ {kernel_slot} : ~Lists(tab2, s, kernel_thread)
    BY Constants DEF Tables, Owned, Lists
  <2>2. QED
    BY <1>1, <2>1 DEF Tables, Owned
<1>3. ListsOwn(tab2, own, act2)
  <2>1. SUFFICES ASSUME NEW s \in Slot, tab2[s].active, NEW u \in act2, own[u].task = s,
                        NEW i \in 1..MAX_THREADS_PER_PROCESS,
                        NEW j \in 1..MAX_THREADS_PER_PROCESS,
                        tab2[s].threads[i] # THREAD_INVALID
                 PROVE  /\ tab2[s].threads[i] \in act2
                        /\ own[tab2[s].threads[i]].task = s
                        /\ tab2[s].threads[i] = tab2[s].threads[j] => i = j
    BY DEF ListsOwn, OnlyOwn
  <2>2. tab2[s].threads[i] = tab[s].threads[i] /\ tab2[s].threads[i] \in act2
    BY <2>1
  <2>3. OnlyOwn(tab, own, act, s)
    BY <1>1, <2>1, OwnerFacts
  <2>4. tab2[s].threads[i] = tab2[s].threads[j] => tab2[s].threads[j] = tab[s].threads[j]
    BY <2>1
  <2>5. QED
    BY <2>1, <2>2, <2>3, <2>4 DEF OnlyOwn
<1>4. PidsSound(tab2, last)
  BY DEF Tables, PidsSound
<1>5. QED
  BY <1>2, <1>3, <1>4 DEF Tables

\* The tables when the thread t joins the process of slot s in entry i, or is that of a
\* new process in slot s.
OwnedBy(own, t, s, pid) == [own EXCEPT ![t] = [task |-> s, pid |-> pid]]
Joined(tab, s, i, t) == [tab EXCEPT ![s].threads[i] = t]
Created(tab, s, pid, t) == [tab EXCEPT ![s] = NewProcess(pid, t)]
Agree(own2, own, act) == \A v \in act : own2[v] = own[v]
SameLife(tab2, tab) ==
    \A r \in Slot : tab2[r].active = tab[r].active /\ tab2[r].pid = tab[r].pid

\* A thread joins a live process with threads of its own, in a free entry.
LEMMA TablesJoin ==
    ASSUME NEW tab \in Table, NEW own \in Owners, NEW act \in SUBSET Thread, NEW last,
           Tables(tab, own, act, last), kernel_thread \in act,
           NEW u \in act, u # kernel_thread, NEW s \in Slot, s = own[u].task,
           NEW t \in Thread \ act, NEW i \in 1..MAX_THREADS_PER_PROCESS,
           tab[s].threads[i] = THREAD_INVALID,
           NEW tab2, tab2 = Joined(tab, s, i, t),
           NEW own2, own2 = OwnedBy(own, t, s, tab[s].pid)
    PROVE  /\ tab2 \in Table /\ own2 \in Owners
           /\ Tables(tab2, own2, act \cup {t}, last)
           /\ SameLife(tab2, tab) /\ Agree(own2, own, act)
<1> DEFINE ts == [tab[s].threads EXCEPT ![i] = t]
           e == [tab[s] EXCEPT !.threads = ts]
<1>1. /\ tab[s].active /\ s # kernel_slot /\ tab[s] \in Process
      /\ tab \in [Slot -> Process] /\ t # kernel_thread /\ u \in Thread /\ u # t
  <2>1. tab[own[u].task].active /\ (own[u].task = kernel_slot <=> u = kernel_thread)
    BY OwnerFacts
  <2>2. tab[s].active /\ s # kernel_slot
    BY <2>1
  <2>3. QED
    BY <2>2 DEF Table
<1>2. /\ ts \in [1..MAX_THREADS_PER_PROCESS -> Entry] /\ ts[i] = t
      /\ \A j \in 1..MAX_THREADS_PER_PROCESS : j # i => ts[j] = tab[s].threads[j]
  BY <1>1 DEF Process, Entry
<1>3. tab2 = [tab EXCEPT ![s] = e]
  BY DEF Joined
<1> HIDE DEF ts
<1>4. e \in Process /\ e.threads = ts /\ e.active = tab[s].active /\ e.pid = tab[s].pid
  BY <1>1, <1>2 DEF Process
<1> HIDE DEF e
<1>5. /\ tab2 \in Table /\ tab2[s] = e /\ \A r \in Slot : r # s => tab2[r] = tab[r]
  BY <1>1, <1>3, <1>4 DEF Table
<1>6. \A r \in Slot : tab2[r].active = tab[r].active /\ tab2[r].pid = tab[r].pid
  BY <1>4, <1>5
<1>7. tab[s].pid \in Pids
  BY <1>1 DEF Process
<1>8. /\ own2 \in Owners /\ own2[t].task = s /\ own2[t].pid = tab[s].pid
      /\ \A v \in Thread : v # t => own2[v] = own[v]
  BY <1>7 DEF Owners, OwnedBy
<1>9. \A r \in Slot : \A v : Lists(tab, r, v) /\ v # THREAD_INVALID => Lists(tab2, r, v)
  <2>1. TAKE r \in Slot
  <2>2. CASE r = s
    BY <1>2, <1>4, <1>5, <2>2, ZenonT(40) DEF Lists
  <2>3. CASE r # s
    BY <1>5, <2>3 DEF Lists
  <2>4. QED
    BY <2>2, <2>3
<1>10. Lists(tab2, s, t)
  BY <1>2, <1>4, <1>5 DEF Lists
<1>11. \A r \in Slot : \A v : Lists(tab2, r, v) => Lists(tab, r, v) \/ v = t
  <2>1. TAKE r \in Slot
  <2>2. CASE r = s
    BY <1>2, <1>4, <1>5, <2>2, ZenonT(40) DEF Lists
  <2>3. CASE r # s
    BY <1>5, <2>3 DEF Lists
  <2>4. QED
    BY <2>2, <2>3
<1>12. Owned(tab2, own2, act \cup {t})
  <2>1. ASSUME NEW v \in act \cup {t}
        PROVE  /\ tab2[own2[v].task].active /\ Lists(tab2, own2[v].task, v)
               /\ own2[v].pid = tab2[own2[v].task].pid
               /\ own2[v].task = kernel_slot <=> v = kernel_thread
    <3>1. CASE v = t
      BY <1>1, <1>6, <1>8, <1>10, <3>1, ZenonT(40)
    <3>2. CASE v # t
      <4>1. v \in act /\ v \in Thread /\ own2[v] = own[v] /\ v # THREAD_INVALID
        BY <1>8, <3>2, Constants
      <4>2. own[v].task \in Slot /\ Lists(tab, own[v].task, v)
        BY <4>1, OwnerFacts
      <4>3. Lists(tab2, own2[v].task, v)
        BY <1>9, <4>1, <4>2
      <4>4. /\ tab[own[v].task].active /\ own[v].pid = tab[own[v].task].pid
            /\ own[v].task = kernel_slot <=> v = kernel_thread
        BY <4>1, OwnerFacts
      <4>5. QED
        BY <1>6, <4>1, <4>2, <4>3, <4>4
    <3>3. QED
      BY <3>1, <3>2
  <2>2. tab2[kernel_slot].active
    BY <1>6, Constants DEF Tables, Owned
  <2>3. \A r \in Slot \ {kernel_slot} : ~Lists(tab2, r, kernel_thread)
    BY <1>1, <1>11 DEF Tables, Owned
  <2>4. QED
    BY <2>1, <2>2, <2>3 DEF Owned
<1>13. ListsOwn(tab2, own2, act \cup {t})
  <2>1. SUFFICES ASSUME NEW r \in Slot, tab2[r].active,
                        NEW v \in act \cup {t}, own2[v].task = r,
                        NEW j \in 1..MAX_THREADS_PER_PROCESS,
                        NEW k \in 1..MAX_THREADS_PER_PROCESS,
                        tab2[r].threads[j] # THREAD_INVALID
                 PROVE  /\ tab2[r].threads[j] \in act \cup {t}
                        /\ own2[tab2[r].threads[j]].task = r
                        /\ tab2[r].threads[j] = tab2[r].threads[k] => j = k
    BY DEF ListsOwn, OnlyOwn
  <2>2. PICK w \in act : own[w].task = r
    BY <1>1, <1>8, <2>1
  <2>3. \A n, m \in 1..MAX_THREADS_PER_PROCESS : tab[r].threads[n] # THREAD_INVALID =>
           /\ tab[r].threads[n] \in act /\ tab[r].threads[n] # t
           /\ own[tab[r].threads[n]].task = r
           /\ tab[r].threads[n] = tab[r].threads[m] => n = m
    <3>1. OnlyOwn(tab, own, act, r)
      BY <2>2, OwnerFacts
    <3>2. QED
      BY <3>1 DEF OnlyOwn
  <2>4. CASE r # s
    <3>1. tab2[r] = tab[r]
      BY <1>5, <2>4
    <3>2. /\ tab[r].threads[j] \in act /\ tab[r].threads[j] # t
          /\ own[tab[r].threads[j]].task = r
          /\ tab[r].threads[j] = tab[r].threads[k] => j = k
      BY <2>1, <2>3, <3>1
    <3>3. QED
      BY <1>8, <3>1, <3>2
  <2>5. CASE r = s
    <3>1. /\ tab2[r].threads[i] = t
          /\ \A n \in 1..MAX_THREADS_PER_PROCESS : n # i =>
                tab2[r].threads[n] = tab[r].threads[n]
      <4>1. tab2[r].threads = ts
        BY <1>4, <1>5, <2>5
      <4>2. QED
        BY <1>2, <2>5, <4>1
    <3>2. CASE j = i
      <4>1. tab2[r].threads[j] = t
        BY <3>1, <3>2
      <4>2. k # i => tab2[r].threads[k] = tab[r].threads[k] /\ tab[r].threads[k] # t
        BY <2>3, <3>1, Constants
      <4>3. QED
        BY <1>8, <2>5, <3>2, <4>1, <4>2
    <3>3. CASE j # i
      <4>1. tab2[r].threads[j] = tab[r].threads[j] /\ tab[r].threads[j] # THREAD_INVALID
        BY <2>1, <3>1, <3>3
      <4>2. /\ tab[r].threads[j] \in act /\ tab[r].threads[j] # t
            /\ own[tab[r].threads[j]].task = r
            /\ tab[r].threads[j] = tab[r].threads[k] => j = k
        BY <2>3, <4>1
      <4> DEFINE y == tab[r].threads[j]
      <4>3. y \in act /\ y \in Thread /\ y # t /\ own[y].task = r /\ tab2[r].threads[j] = y
        BY <4>1, <4>2
      <4>4. own2[y].task = r
        BY <1>8, <4>3, Zenon
      <4>5. tab2[r].threads[k] = y => j = k
        <5>1. CASE k = i
          BY <3>1, <4>3, <5>1
        <5>2. CASE k # i
          <6>1. tab2[r].threads[k] = tab[r].threads[k]
            BY <2>1, <3>1, <5>2, Zenon
          <6>2. QED
            BY <4>2, <6>1
        <5>3. QED
          BY <5>1, <5>2
      <4> HIDE DEF y
      <4>6. QED
        BY <4>3, <4>4, <4>5
    <3>4. QED
      BY <3>2, <3>3
  <2>6. QED
    BY <2>4, <2>5
<1>14. PidsSound(tab2, last)
  BY <1>6 DEF Tables, PidsSound
<1>15. QED
  BY <1>5, <1>6, <1>8, <1>12, <1>13, <1>14 DEF Tables, SameLife, Agree

\* A new process, in a free slot, with a new pid and a new thread.
CanCreate(tab, own, act, last, s, t) ==
    /\ tab \in Table /\ own \in Owners /\ act \in SUBSET Thread /\ last \in Pids
    /\ Tables(tab, own, act, last) /\ kernel_thread \in act /\ last < MaxPid
    /\ s \in Slot /\ ~tab[s].active /\ t \in Thread \ act
Creates(tab2, own2, pid, tab, own, act, s, t) ==
    /\ tab2 \in Table /\ own2 \in Owners
    /\ Tables(tab2, own2, act \cup {t}, pid)
    /\ tab2[s].active /\ \A r \in Slot : r # s => tab2[r] = tab[r]
    /\ Agree(own2, own, act) /\ \A v \in act : own[v].task # s
    /\ pid \in Pids

\* Entering the new process and its thread keeps the tables sound, and changes no other
\* process and no owner of an active thread.
LEMMA TablesCreate ==
    ASSUME NEW tab, NEW own, NEW act, NEW last, NEW s, NEW t,
           CanCreate(tab, own, act, last, s, t),
           NEW tab2, tab2 = Created(tab, s, last + 1, t),
           NEW own2, own2 = OwnedBy(own, t, s, last + 1)
    PROVE  Creates(tab2, own2, last + 1, tab, own, act, s, t)
<1> /\ tab \in Table /\ own \in Owners /\ act \in SUBSET Thread /\ last \in Pids
    /\ Tables(tab, own, act, last) /\ kernel_thread \in act /\ last < MaxPid
    /\ s \in Slot /\ ~tab[s].active /\ t \in Thread \ act
  BY DEF CanCreate
<1> DEFINE e == NewProcess(last + 1, t)
<1>1. last \in Nat /\ last + 1 \in Pids /\ kernel_slot # s /\ t # kernel_thread /\ t # THREAD_INVALID
  BY SizeAssumption, Constants DEF Pids, Tables, Owned
<1>2. /\ e \in Process /\ e.active = TRUE /\ e.pid = last + 1
      /\ e.threads[1] = t
      /\ \A i \in 1..MAX_THREADS_PER_PROCESS : i # 1 => e.threads[i] = THREAD_INVALID
  <2> DEFINE ts == [NoThreads EXCEPT ![1] = t]
  <2>1. 1 \in 1..MAX_THREADS_PER_PROCESS /\ 0 \in 0..MAX_SIGNALS_PENDING - 1
    BY SizeAssumption
  <2>2. /\ ts \in [1..MAX_THREADS_PER_PROCESS -> Entry] /\ ts[1] = t
        /\ \A i \in 1..MAX_THREADS_PER_PROCESS : i # 1 => ts[i] = THREAD_INVALID
    BY <2>1 DEF NoThreads, Entry
  <2>3. e = [active |-> TRUE, pid |-> last + 1, threads |-> ts, signals |-> 0]
    BY DEF NewProcess
  <2> HIDE DEF ts, e
  <2>4. e \in Process /\ e.threads = ts /\ e.active = TRUE /\ e.pid = last + 1
    BY <1>1, <2>1, <2>2, <2>3 DEF Process
  <2>5. QED
    BY <2>2, <2>4
<1> HIDE DEF e
<1>3. tab2 \in Table /\ tab2[s] = e /\ \A r \in Slot : r # s => tab2[r] = tab[r]
  BY <1>2 DEF Table, e, Created
<1>4. /\ own2 \in Owners /\ own2[t].task = s /\ own2[t].pid = last + 1
      /\ \A v \in Thread : v # t => own2[v] = own[v]
  BY <1>1 DEF Owners, OwnedBy
<1>5. \A v \in act : own[v].task # s /\ own[v].task \in Slot /\ v # t /\ v \in Thread
                     /\ own2[v] = own[v]
  BY <1>4, OwnerFacts
<1>6. Owned(tab2, own2, act \cup {t})
  <2>1. ASSUME NEW v \in act \cup {t}
        PROVE  /\ tab2[own2[v].task].active /\ Lists(tab2, own2[v].task, v)
               /\ own2[v].pid = tab2[own2[v].task].pid
               /\ own2[v].task = kernel_slot <=> v = kernel_thread
    <3>1. CASE v = t
      <4>1. Lists(tab2, s, t)
        BY <1>2, <1>3, SizeAssumption DEF Lists
      <4>2. QED
        BY <1>1, <1>2, <1>3, <1>4, <3>1, <4>1
    <3>2. CASE v # t
      <4>1. v \in act /\ own2[v] = own[v] /\ tab2[own[v].task] = tab[own[v].task]
        BY <1>3, <1>5, <3>2
      <4>2. /\ tab[own[v].task].active /\ own[v].pid = tab[own[v].task].pid
            /\ own[v].task = kernel_slot <=> v = kernel_thread
        BY <4>1, OwnerFacts
      <4>3. Lists(tab2, own[v].task, v)
        BY <4>1, OwnerFacts DEF Lists
      <4>4. QED
        BY <4>1, <4>2, <4>3
    <3>3. QED
      BY <3>1, <3>2
  <2>2. tab2[kernel_slot].active
    BY <1>1, <1>3, Constants DEF Tables, Owned
  <2>3. \A r \in Slot \ {kernel_slot} : ~Lists(tab2, r, kernel_thread)
    <3>1. ~Lists(tab2, s, kernel_thread)
      BY <1>1, <1>2, <1>3, Constants DEF Lists
    <3>2. \A r \in Slot \ {kernel_slot} : r # s => ~Lists(tab2, r, kernel_thread)
      BY <1>3 DEF Lists, Tables, Owned
    <3>3. QED
      BY <3>1, <3>2
  <2>4. QED
    BY <2>1, <2>2, <2>3 DEF Owned
<1>7. ListsOwn(tab2, own2, act \cup {t})
  <2>1. SUFFICES ASSUME NEW r \in Slot, tab2[r].active,
                        NEW v \in act \cup {t}, own2[v].task = r
                 PROVE  OnlyOwn(tab2, own2, act \cup {t}, r)
    BY DEF ListsOwn
  <2>2. CASE r = s
    BY <1>2, <1>3, <1>4, <2>2 DEF OnlyOwn
  <2>3. CASE r # s
    <3>1. v \in act /\ own[v].task = r /\ tab2[r] = tab[r]
      BY <1>3, <1>4, <1>5, <2>1, <2>3
    <3>2. OnlyOwn(tab, own, act, r)
      BY <3>1, OwnerFacts
    <3>3. QED
      BY <1>5, <3>1, <3>2 DEF OnlyOwn
  <2>4. QED
    BY <2>2, <2>3
<1>8. PidsSound(tab2, last + 1)
  <2>1. \A r \in Slot : tab[r].active => tab[r].pid <= last /\ tab[r].pid \in Nat
    BY DEF Tables, PidsSound, Table, Process, Pids
  <2>2. QED
    BY <1>1, <1>2, <1>3, <2>1 DEF Tables, PidsSound
<1>9. QED
  BY <1>1, <1>2, <1>3, <1>4, <1>5, <1>6, <1>7, <1>8 DEF Tables, Agree, Creates

--------------------------------------------------------------------------------
(* The scheduler after each kind of step.                                      *)

\* Dispatching, once the threads, the semaphores and the contexts are sound.
LEMMA AfterDispatch ==
    ASSUME active' \in SUBSET Thread,
           NEW q, NEW cur, NEW ctx \in [Thread -> Slot \cup {NoSem}],
           Dispatched(q, cur, ctx),
           Scheduling(active', owner', Processi', Status', queue', ctx, q, cur)
    PROVE  Scheduled'
<1>1. /\ ReadySound(active', q, cur) /\ InOwn(active', owner', ctx)
      /\ WaitersSound(active', owner', Processi', Status', queue', ctx, q, cur)
  BY DEF Scheduling
<1>2. PICK r \in Thread : r = Thread_In_Esecuzione'
  BY DEF Dispatched
<1>3. PICK Q : Q = CodaPronti'
  OBVIOUS
<1>4. PICK c : c = inP'
  OBVIOUS
<1>5. /\ Sched!Distinct(Q) /\ ~Sched!InSeq(r, Q)
      /\ \A t \in Thread : (Sched!InSeq(t, Q) \/ t = r) <=> (Sched!InSeq(t, q) \/ t = cur)
      /\ c \in [Thread -> Slot \cup {NoSem}]
      /\ \A t \in Thread : c[t] = IF t = r THEN NoSem ELSE ctx[t]
      /\ receiving' = ctx[r]
  BY <1>2, <1>3, <1>4 DEF Dispatched
<1>6. r \in active'
  BY <1>1, <1>5 DEF ReadySound
<1>7. ReadySound(active', Q, r)
  BY <1>1, <1>5, Constants DEF ReadySound
<1>8. InOwn(active', owner', c)
  BY <1>1, <1>5, Constants DEF InOwn
<1>9. WaitersSound(active', owner', Processi', Status', queue', c, Q, r)
  <2>1. \A t \in Thread, s \in Slot :
           Waits(t, s, active', owner', ctx, q, cur) => Waits(t, s, active', owner', c, Q, r)
    BY <1>5 DEF Waits
  <2>2. QED
    BY <1>1, <2>1 DEF WaitersSound
<1>10. c[r] = NoSem
  BY <1>5
<1>11. receiving' # NoSem => receiving' = owner'[r].task
  BY <1>1, <1>5, <1>6 DEF InOwn
<1>12. Scheduling(active', owner', Processi', Status', queue', inP', CodaPronti',
                  Thread_In_Esecuzione')
  BY <1>2, <1>3, <1>4, <1>7, <1>8, <1>9 DEF Scheduling
<1>13. QED
  BY <1>2, <1>4, <1>10, <1>11, <1>12 DEF Scheduled, Me

\* Values of semaphores for which nobody waits change, and pending signals.
LEMMA SchedCounts ==
    ASSUME NEW act, NEW own, NEW tab, NEW tab2, NEW st, NEW st2, NEW qs, NEW ctx, NEW ready, NEW cur,
           Scheduling(act, own, tab, st, qs, ctx, ready, cur),
           \A s \in Slot : tab2[s].active = tab[s].active,
           \A s \in Slot : qs[s] = <<>> \/ st2[s] = st[s]
    PROVE  Scheduling(act, own, tab2, st2, qs, ctx, ready, cur)
BY DEF Scheduling, WaitersSound

\* Threads X end, threads Y leave the ready queue, and the running one gives up the
\* processor or not.
LEMMA SchedEnds ==
    ASSUME NEW act \in SUBSET Thread, NEW act2, NEW own, NEW tab, NEW tab2, NEW st, NEW qs,
           NEW ctx, NEW ready \in Seq(Thread), NEW ready2, NEW cur, NEW cur2, NEW X, NEW Y,
           Scheduling(act, own, tab, st, qs, ctx, ready, cur),
           act2 = act \ X, kernel_thread \notin X, kernel_thread \notin Y, X \subseteq Y,
           (cur2 = cur /\ cur \notin X) \/ (cur2 = THREAD_INVALID /\ cur # kernel_thread),
           Sched!Distinct(ready2),
           \A t : Sched!InSeq(t, ready2) <=> (Sched!InSeq(t, ready) /\ t \notin Y),
           \A s \in Slot : tab2[s].active =>
              tab[s].active /\ \A t \in X : ~Sched!InSeq(t, qs[s])
    PROVE  Scheduling(act2, own, tab2, st, qs, ctx, ready2, cur2)
<1>1. /\ ReadySound(act, ready, cur) /\ InOwn(act, own, ctx)
      /\ WaitersSound(act, own, tab, st, qs, ctx, ready, cur)
  BY DEF Scheduling
<1>2. ~Sched!InSeq(THREAD_INVALID, ready)
  BY Constants DEF Sched!InSeq
<1>3. ReadySound(act2, ready2, cur2)
  BY <1>1, <1>2, Constants DEF ReadySound
<1>4. InOwn(act2, own, ctx)
  BY <1>1 DEF InOwn
<1>5. WaitersSound(act2, own, tab2, st, qs, ctx, ready2, cur2)
  <2>1. \A t \in Thread, s \in Slot :
           Waits(t, s, act, own, ctx, ready, cur) /\ t \notin X
              => Waits(t, s, act2, own, ctx, ready2, cur2)
    BY Constants DEF Waits
  <2>2. QED
    BY <1>1, <2>1 DEF WaitersSound
<1>6. QED
  BY <1>3, <1>4, <1>5 DEF Scheduling

\* The running thread waits for the messages of its process.
LEMMA SchedSuspends ==
    ASSUME NEW act \in SUBSET Thread, NEW own, NEW tab, NEW st, NEW qs \in [Slot -> Seq(Thread)],
           NEW ctx \in [Thread -> Slot \cup {NoSem}], NEW ready \in Seq(Thread), NEW cur \in Thread,
           Scheduling(act, own, tab, st, qs, ctx, ready, cur),
           cur # kernel_thread, NEW d \in Slot, own[cur].task = d, st[d] = 0,
           ctx[cur] = NoSem,
           NEW qs2, qs2 = [qs EXCEPT ![d] = Append(qs[d], cur)],
           NEW ctx2, ctx2 = [ctx EXCEPT ![cur] = d]
    PROVE  Scheduling(act, own, tab, st, qs2, ctx2, ready, THREAD_INVALID)
<1>1. /\ ReadySound(act, ready, cur) /\ InOwn(act, own, ctx)
      /\ WaitersSound(act, own, tab, st, qs, ctx, ready, cur)
  BY DEF Scheduling
<1>2. ~Sched!InSeq(THREAD_INVALID, ready)
  BY Constants DEF Sched!InSeq
<1>3. ReadySound(act, ready, THREAD_INVALID)
  BY <1>1, <1>2, Constants DEF ReadySound
<1>4. /\ ctx2[cur] = d /\ \A t \in Thread : t # cur => ctx2[t] = ctx[t]
      /\ \A s \in Slot : s # d => qs2[s] = qs[s]
      /\ qs2[d] = Append(qs[d], cur) /\ qs[d] \in Seq(Thread)
  OBVIOUS
<1>5. InOwn(act, own, ctx2)
  BY <1>1, <1>4, Constants DEF InOwn
<1>6. \A t : Sched!InSeq(t, qs2[d]) <=> (Sched!InSeq(t, qs[d]) \/ t = cur)
  BY <1>4, InAppend
<1>7. tab[d].active => Sched!Distinct(qs2[d])
  <2>1. tab[d].active => Sched!Distinct(qs[d]) /\ ~Sched!InSeq(cur, qs[d])
    BY <1>1 DEF WaitersSound, Waits
  <2>2. QED
    BY <1>4, <2>1, InAppend
<1>8. WaitersSound(act, own, tab, st, qs2, ctx2, ready, THREAD_INVALID)
  <2>1. \A t \in Thread, s \in Slot :
           Waits(t, s, act, own, ctx, ready, cur)
              => Waits(t, s, act, own, ctx2, ready, THREAD_INVALID)
    BY <1>4, Constants DEF Waits
  <2>2. Waits(cur, d, act, own, ctx2, ready, THREAD_INVALID)
    BY <1>1, <1>4, Constants DEF Waits, ReadySound
  <2>3. ASSUME NEW s \in Slot, tab[s].active
        PROVE  /\ Sched!Distinct(qs2[s]) /\ (qs2[s] # <<>> => st[s] = 0)
               /\ \A t \in Thread : Sched!InSeq(t, qs2[s]) =>
                     Waits(t, s, act, own, ctx2, ready, THREAD_INVALID)
    <3>1. CASE s = d
      BY <1>1, <1>6, <1>7, <2>1, <2>2, <2>3, <3>1 DEF WaitersSound
    <3>2. CASE s # d
      BY <1>1, <1>4, <2>1, <2>3, <3>2 DEF WaitersSound
    <3>3. QED
      BY <3>1, <3>2
  <2>4. QED
    BY <2>3 DEF WaitersSound
<1>9. QED
  BY <1>3, <1>5, <1>8 DEF Scheduling

\* A thread that does not run, is not ready and waits for no live process.
Nowhere(t, tab, qs, ready, cur) ==
    /\ t # cur /\ ~Sched!InSeq(t, ready)
    /\ \A s \in Slot : tab[s].active => ~Sched!InSeq(t, qs[s])

\* A thread that is nowhere becomes ready.
LEMMA SchedAdds ==
    ASSUME NEW act, NEW own, NEW tab, NEW st, NEW qs, NEW ctx, NEW ready \in Seq(Thread), NEW cur,
           Scheduling(act, own, tab, st, qs, ctx, ready, cur),
           NEW t \in Thread, t \in act, Nowhere(t, tab, qs, ready, cur)
    PROVE  /\ Append(ready, t) \in Seq(Thread)
           /\ Scheduling(act, own, tab, st, qs, ctx, Append(ready, t), cur)
<1>1. /\ ReadySound(act, ready, cur) /\ InOwn(act, own, ctx)
      /\ WaitersSound(act, own, tab, st, qs, ctx, ready, cur)
  BY DEF Scheduling
<1>2. PICK r : r = Append(ready, t)
  OBVIOUS
<1>3. /\ r \in Seq(Thread) /\ Sched!Distinct(r)
      /\ \A v : Sched!InSeq(v, r) <=> (Sched!InSeq(v, ready) \/ v = t)
  BY <1>1, <1>2, InAppend DEF ReadySound, Nowhere
<1>4. ReadySound(act, r, cur)
  BY <1>1, <1>3 DEF ReadySound, Nowhere
<1>5. WaitersSound(act, own, tab, st, qs, ctx, r, cur)
  <2>1. \A v \in Thread, s \in Slot :
           Waits(v, s, act, own, ctx, ready, cur) /\ v # t => Waits(v, s, act, own, ctx, r, cur)
    BY <1>3 DEF Waits
  <2>2. QED
    BY <1>1, <2>1 DEF WaitersSound, Nowhere
<1>6. QED
  BY <1>1, <1>2, <1>3, <1>4, <1>5 DEF Scheduling

\* The first waiter of a semaphore becomes ready.
LEMMA SchedWakes ==
    ASSUME NEW act, NEW own, NEW tab, NEW st, NEW qs \in [Slot -> Seq(Thread)],
           NEW ctx, NEW ready \in Seq(Thread), NEW cur,
           Scheduling(act, own, tab, st, qs, ctx, ready, cur),
           NEW d \in Slot, tab[d].active, qs[d] # <<>>,
           NEW qs2, qs2 = [qs EXCEPT ![d] = Tail(qs[d])]
    PROVE  /\ Append(ready, Head(qs[d])) \in Seq(Thread) /\ qs2 \in [Slot -> Seq(Thread)]
           /\ Scheduling(act, own, tab, st, qs2, ctx, Append(ready, Head(qs[d])), cur)
<1>1. /\ ReadySound(act, ready, cur) /\ InOwn(act, own, ctx)
      /\ WaitersSound(act, own, tab, st, qs, ctx, ready, cur)
  BY DEF Scheduling
<1>2. PICK t : t = Head(qs[d])
  OBVIOUS
<1>3. PICK w : w = Tail(qs[d])
  OBVIOUS
<1>4. /\ t \in Thread /\ w \in Seq(Thread) /\ Sched!InSeq(t, qs[d]) /\ Sched!Distinct(w)
      /\ \A v : Sched!InSeq(v, w) <=> (Sched!InSeq(v, qs[d]) /\ v # t)
  <2>1. qs[d] \in Seq(Thread) /\ Sched!Distinct(qs[d])
    BY <1>1 DEF WaitersSound
  <2>2. QED
    BY <1>2, <1>3, <2>1, InTail
<1>5. Waits(t, d, act, own, ctx, ready, cur)
  BY <1>1, <1>4 DEF WaitersSound
<1>6. /\ qs2 \in [Slot -> Seq(Thread)] /\ qs2[d] = w
      /\ \A s \in Slot : s # d => qs2[s] = qs[s]
  BY <1>3, <1>4
<1>7. \A s \in Slot : tab[s].active => ~Sched!InSeq(t, qs2[s])
  <2>1. \A s \in Slot : tab[s].active /\ Sched!InSeq(t, qs[s]) => s = d
    BY <1>1, <1>4, <1>5 DEF WaitersSound, Waits
  <2>2. QED
    BY <1>4, <1>6, <2>1
<1>8. WaitersSound(act, own, tab, st, qs2, ctx, ready, cur)
  <2>1. ASSUME NEW s \in Slot, tab[s].active
        PROVE  /\ Sched!Distinct(qs2[s]) /\ (qs2[s] # <<>> => st[s] = 0)
               /\ \A v \in Thread : Sched!InSeq(v, qs2[s]) => Waits(v, s, act, own, ctx, ready, cur)
    <3>1. CASE s = d
      BY <1>1, <1>4, <1>6, <2>1, <3>1 DEF WaitersSound
    <3>2. CASE s # d
      BY <1>1, <1>6, <2>1, <3>2 DEF WaitersSound
    <3>3. QED
      BY <3>1, <3>2
  <2>2. QED
    BY <2>1 DEF WaitersSound
<1>9. Scheduling(act, own, tab, st, qs2, ctx, ready, cur)
  BY <1>1, <1>8 DEF Scheduling
<1>10. t \in act /\ Nowhere(t, tab, qs2, ready, cur)
  BY <1>5, <1>7 DEF Waits, Nowhere
<1>11. /\ Append(ready, t) \in Seq(Thread)
       /\ Scheduling(act, own, tab, st, qs2, ctx, Append(ready, t), cur)
  BY <1>4, <1>9, <1>10, SchedAdds
<1>12. QED
  BY <1>2, <1>6, <1>11

\* What else changes when a thread is created: its context, and the semaphore of its
\* process if that is new.
Fresh(ctx, t) == [ctx EXCEPT ![t] = NoSem]
Grows(tab2, st2, qs2, tab, st, qs) ==
    \A s \in Slot :
       \/ st2[s] = st[s] /\ qs2[s] = qs[s] /\ tab2[s].active = tab[s].active
       \/ qs2[s] = <<>>

\* A new thread, which is not ready yet, perhaps of a new process.
LEMMA SchedGrows ==
    ASSUME NEW act \in SUBSET Thread, NEW own, NEW own2, NEW tab, NEW tab2, NEW st, NEW st2,
           NEW qs, NEW qs2,
           NEW ctx \in [Thread -> Slot \cup {NoSem}], NEW ready, NEW cur,
           Scheduling(act, own, tab, st, qs, ctx, ready, cur),
           NEW t \in Thread \ act, NEW act2, act2 = act \cup {t}, NEW ctx2, ctx2 = Fresh(ctx, t),
           Agree(own2, own, act), Grows(tab2, st2, qs2, tab, st, qs)
    PROVE  /\ ctx2 \in [Thread -> Slot \cup {NoSem}]
           /\ Scheduling(act2, own2, tab2, st2, qs2, ctx2, ready, cur)
           /\ Nowhere(t, tab2, qs2, ready, cur)
<1>1. /\ ReadySound(act, ready, cur) /\ InOwn(act, own, ctx)
      /\ WaitersSound(act, own, tab, st, qs, ctx, ready, cur)
  BY DEF Scheduling
<1>2. PICK c : c = ctx2
  OBVIOUS
<1>3. /\ c \in [Thread -> Slot \cup {NoSem}] /\ c[t] = NoSem
      /\ \A v \in Thread : v # t => c[v] = ctx[v]
  BY <1>2 DEF Fresh
<1>4. ReadySound(act \cup {t}, ready, cur)
  BY <1>1 DEF ReadySound
<1>5. InOwn(act \cup {t}, own2, c)
  BY <1>1, <1>3, Constants DEF InOwn, ReadySound, Agree
<1>6. \A s : ~Sched!InSeq(s, <<>>)
  BY DEF Sched!InSeq
<1>7. WaitersSound(act \cup {t}, own2, tab2, st2, qs2, c, ready, cur)
  <2>1. \A v \in Thread, s \in Slot :
           Waits(v, s, act, own, ctx, ready, cur) => Waits(v, s, act \cup {t}, own2, c, ready, cur)
    BY <1>3 DEF Waits, Agree
  <2>2. Sched!Distinct(<<>>)
    BY DEF Sched!Distinct
  <2>3. QED
    BY <1>1, <1>6, <2>1, <2>2 DEF WaitersSound, Grows
<1>8. t # cur /\ ~Sched!InSeq(t, ready)
  BY <1>1 DEF ReadySound
<1>9. \A s \in Slot : tab2[s].active => ~Sched!InSeq(t, qs2[s])
  BY <1>1, <1>6 DEF WaitersSound, Waits, Grows
<1>10. QED
  BY <1>2, <1>3, <1>4, <1>5, <1>7, <1>8, <1>9 DEF Scheduling, Nowhere

--------------------------------------------------------------------------------
(* What every step starts from.                                                *)

\* The running thread and its process.
LEMMA RunningFacts ==
    ASSUME Base
    PROVE  /\ Thread_In_Esecuzione \in Thread /\ Thread_In_Esecuzione \in active
           /\ kernel_thread \in active
           /\ Me \in Slot /\ Processi[Me].active
           /\ Lists(Processi, Me, Thread_In_Esecuzione)
           /\ Me = kernel_slot <=> Thread_In_Esecuzione = kernel_thread
           /\ OnlyOwn(Processi, owner, active, Me)
           /\ inP[Thread_In_Esecuzione] = NoSem
           /\ ~Sched!InSeq(Thread_In_Esecuzione, CodaPronti)
           /\ Sched!Distinct(CodaPronti)
           /\ \A s \in Slot : Processi[s].active =>
                 ~Sched!InSeq(Thread_In_Esecuzione, queue[s])
<1>1. /\ Thread_In_Esecuzione \in Thread /\ active \in SUBSET Thread /\ Processi \in Table
      /\ owner \in Owners
  BY DEF Base, Types, SchedTypes, TableTypes
<1>2. /\ ReadySound(active, CodaPronti, Thread_In_Esecuzione)
      /\ WaitersSound(active, owner, Processi, Status, queue, inP, CodaPronti, Thread_In_Esecuzione)
      /\ inP[Thread_In_Esecuzione] = NoSem
  BY DEF Base, Scheduled, Scheduling
<1>3. Thread_In_Esecuzione \in active /\ kernel_thread \in active
  BY <1>1, <1>2 DEF ReadySound
<1>4. Tables(Processi, owner, active, Last_Pid_Used)
  BY DEF Base, Tabled
<1>5. /\ Me \in Slot /\ Processi[Me].active
      /\ Lists(Processi, Me, Thread_In_Esecuzione)
      /\ Me = kernel_slot <=> Thread_In_Esecuzione = kernel_thread
      /\ OnlyOwn(Processi, owner, active, Me)
  BY <1>1, <1>3, <1>4, OwnerFacts DEF Me
<1>6. ~Sched!InSeq(Thread_In_Esecuzione, CodaPronti) /\ Sched!Distinct(CodaPronti)
  BY <1>2 DEF ReadySound
<1>7. \A s \in Slot : Processi[s].active => ~Sched!InSeq(Thread_In_Esecuzione, queue[s])
  BY <1>1, <1>2 DEF WaitersSound, Waits
<1>8. QED
  BY <1>1, <1>2, <1>3, <1>5, <1>6, <1>7

\* A system call.
LEMMA SyscallFacts ==
    ASSUME Base, Syscall
    PROVE  /\ ~panicked /\ ~exhausted /\ receiving = NoSem
           /\ Thread_In_Esecuzione # kernel_thread /\ Me # kernel_slot
           /\ Sched!InSeq(kernel_thread, CodaPronti) /\ CodaPronti # <<>>
<1>1. ~panicked /\ ~exhausted /\ receiving = NoSem /\ Thread_In_Esecuzione # kernel_thread
  BY DEF Syscall, Running, Sched!SystemCall
<1>2. Me # kernel_slot
  BY <1>1, RunningFacts
<1>3. Sched!InSeq(kernel_thread, CodaPronti)
  BY <1>1 DEF Base, Scheduled, Scheduling, ReadySound
<1>4. CodaPronti # <<>>
  BY <1>3 DEF Sched!InSeq
<1>5. QED
  BY <1>1, <1>2, <1>3, <1>4

\* A step that keeps the mail, and whose mail it is.
LEMMA MailKept ==
    ASSUME NoMailForTheDead, msgqueue' = msgqueue,
           \A s \in Slot : /\ Processi'[s].active => Processi[s].active
                           /\ Processi'[s].pid = Processi[s].pid
    PROVE  NoMailForTheDead'
BY DEF NoMailForTheDead

\* A step that keeps the pages where they are.
LEMMA PagesKept ==
    ASSUME Paged, msgqueue' = msgqueue, mapped' = mapped, freepages' = freepages,
           \A s \in Slot : Processi'[s].active = Processi[s].active
    PROVE  Paged'
<1>1. QueuedOnce(Processi', msgqueue')
  BY DEF Paged, PagesPlaced, QueuedOnce
<1>2. PICK place : IsPlace(place, Processi, msgqueue, mapped, freepages)
  BY DEF Paged, PagesPlaced
<1>3. IsPlace(place, Processi', msgqueue', mapped', freepages')
  BY <1>2 DEF IsPlace
<1>4. QED
  BY <1>1, <1>3 DEF Paged, PagesPlaced

\* A step that keeps the messages, and who is to get one.
LEMMA CountKept ==
    ASSUME MessagesCounted,
           \A s \in Slot : Processi'[s].active =>
              /\ Processi[s].active
              /\ Len(msgqueue'[s]) = Len(msgqueue[s])
              /\ Status'[s] = Status[s] /\ Served(s)' = Served(s)
    PROVE  MessagesCounted'
BY DEF MessagesCounted

\* Who has been promised a message, in terms of the contexts alone.
Awaiting(act, qs, ctx, s) == {t \in act : ctx[t] = s /\ ~Sched!InSeq(t, qs[s])}

\* Whoever resumes its recmsg had been promised a message.
LEMMA ServedDispatch ==
    ASSUME active' \in SUBSET Thread,
           NEW q, NEW cur, NEW ctx \in [Thread -> Slot \cup {NoSem}],
           Dispatched(q, cur, ctx),
           Scheduling(active', owner', Processi', Status', queue', ctx, q, cur),
           NEW s \in Slot, Processi'[s].active
    PROVE  Served(s)' = Awaiting(active', queue', ctx, s)
<1>1. PICK r \in Thread : r = Thread_In_Esecuzione'
  BY DEF Dispatched
<1>2. /\ Sched!InSeq(r, q) \/ r = cur
      /\ \A t \in Thread : inP'[t] = IF t = r THEN NoSem ELSE ctx[t]
      /\ receiving' = ctx[r]
  BY <1>1 DEF Dispatched
<1>3. r \in active'
  BY <1>2 DEF Scheduling, ReadySound
<1>4. ~Sched!InSeq(r, queue'[s])
  BY <1>2 DEF Scheduling, WaitersSound, Waits
<1>5. Served(s)' = {t \in active' : inP'[t] = s /\ ~Sched!InSeq(t, queue'[s])}
                      \cup {t \in {r} : receiving' = s}
  BY <1>1 DEF Served, Sched!SuspendedOn
<1>6. QED
  BY <1>2, <1>3, <1>4, <1>5, Constants DEF Awaiting

\* Outside recmsg_returns, the running thread has not been promised anything.
LEMMA ServedIs ==
    ASSUME receiving = NoSem, NEW s \in Slot
    PROVE  Served(s) = Awaiting(active, queue, inP, s)
BY Constants DEF Served, Awaiting, Sched!SuspendedOn

--------------------------------------------------------------------------------
(* One lemma per action.                                                       *)

\* The tables after a step that does not touch them.
LEMMA TabledKept ==
    ASSUME Tabled, UNCHANGED <<Processi, owner, active, Last_Pid_Used>>
    PROVE  Tabled'
BY DEF Tabled

\* The timer: another thread runs, and may go on with its recmsg.
LEMMA schedulerStep ==
    ASSUME PInv, scheduler
    PROVE  PInv'
<1>1. Base /\ Types /\ SchedTypes /\ TableTypes
      /\ Scheduling(active, owner, Processi, Status, queue, inP, CodaPronti, Thread_In_Esecuzione)
  BY DEF PInv, Base, Types, Scheduled
<1>2. /\ Switch(CodaPronti, Thread_In_Esecuzione, inP) /\ receiving = NoSem
      /\ active' = active /\ Status' = Status /\ queue' = queue /\ panicked' = panicked
      /\ Processi' = Processi /\ Last_Pid_Used' = Last_Pid_Used /\ owner' = owner
      /\ msgqueue' = msgqueue /\ mapped' = mapped /\ freepages' = freepages
      /\ exhausted' = exhausted
  BY DEF scheduler, Running
<1>3. Dispatched(CodaPronti, Thread_In_Esecuzione, inP)
  <2>1. /\ CodaPronti \in Seq(Thread) /\ Sched!Distinct(CodaPronti)
        /\ Thread_In_Esecuzione \in Thread /\ Thread_In_Esecuzione \in Entry
        /\ ~Sched!InSeq(Thread_In_Esecuzione, CodaPronti)
        /\ inP \in [Thread -> Slot \cup {NoSem}] /\ credit \in [Slot -> Int]
    BY <1>1, RunningFacts DEF SchedTypes, Entry
  <2>2. QED
    BY <1>2, <2>1, Dispatch
<1>4. active' \in SUBSET Thread /\ inP \in [Thread -> Slot \cup {NoSem}]
  BY <1>1, <1>2 DEF SchedTypes
<1>5. Scheduling(active', owner', Processi', Status', queue', inP, CodaPronti, Thread_In_Esecuzione)
  BY <1>1, <1>2
<1>6. Types'
  <2>1. SchedTypes'
    BY <1>1, <1>2, <1>3 DEF SchedTypes, Dispatched
  <2>2. TableTypes' /\ MailTypes' /\ PageTypes' /\ exhausted' \in BOOLEAN
    BY <1>1, <1>2 DEF Types, TableTypes, MailTypes, PageTypes
  <2>3. receiving' \in Slot \cup {NoSem}
    BY <1>1, <1>3 DEF Dispatched, SchedTypes
  <2>4. QED
    BY <2>1, <2>2, <2>3 DEF Types
<1>7. Scheduled'
  BY <1>3, <1>4, <1>5, AfterDispatch
<1>8. Tabled'
  BY <1>1, <1>2, TabledKept DEF Base
<1>9. MessagesCounted'
  <2>1. ASSUME NEW s \in Slot, Processi'[s].active
        PROVE  Served(s)' = Served(s)
    <3>1. Served(s)' = Awaiting(active', queue', inP, s)
      BY <1>3, <1>4, <1>5, <2>1, ServedDispatch
    <3>2. QED
      BY <1>2, <3>1, ServedIs
  <2>2. MessagesCounted
    BY DEF PInv
  <2>3. QED
    BY <1>2, <2>1, <2>2, CountKept
<1>10. Paged' /\ NoMailForTheDead'
  <2>1. Paged /\ NoMailForTheDead
    BY DEF PInv
  <2>2. QED
    BY <1>2, <2>1, PagesKept, MailKept
<1>11. QED
  BY <1>6, <1>7, <1>8, <1>9, <1>10 DEF PInv, Base

\* recmsg that finds a message counted: it has been promised to the caller.
LEMMA recmsgTakes ==
    ASSUME PInv, Syscall, Sched!Take(Me, Status[Me] - 1), receiving' = Me,
           UNCHANGED <<Processi, Last_Pid_Used, owner, msgqueue, mapped, freepages, exhausted>>
    PROVE  PInv'
<1>1. Base /\ Types /\ SchedTypes /\ TableTypes
      /\ Scheduling(active, owner, Processi, Status, queue, inP, CodaPronti, Thread_In_Esecuzione)
  BY DEF PInv, Base, Types, Scheduled
<1>2. /\ Status[Me] > 0 /\ Status' = [Status EXCEPT ![Me] = Status[Me] - 1]
      /\ credit' = [credit EXCEPT ![Me] = credit[Me] - 1]
      /\ active' = active /\ CodaPronti' = CodaPronti /\ queue' = queue /\ inP' = inP
      /\ Thread_In_Esecuzione' = Thread_In_Esecuzione /\ panicked' = panicked
  BY DEF Sched!Take
<1>3. /\ Me \in Slot /\ Processi[Me].active /\ Thread_In_Esecuzione \in active
      /\ inP[Thread_In_Esecuzione] = NoSem /\ receiving = NoSem
      /\ Thread_In_Esecuzione \in Thread
  BY <1>1, RunningFacts, SyscallFacts
<1>4. Types'
  <2>1. Status' \in [Slot -> Nat] /\ credit' \in [Slot -> Int]
    BY <1>1, <1>2, <1>3 DEF SchedTypes
  <2>2. SchedTypes'
    BY <1>1, <1>2, <2>1 DEF SchedTypes
  <2>3. QED
    BY <1>1, <1>3, <2>2 DEF Types, TableTypes, MailTypes, PageTypes
<1>5. queue[Me] = <<>>
  BY <1>1, <1>2, <1>3 DEF Scheduling, WaitersSound
<1>6. Scheduled'
  <2>1. \A s \in Slot : queue[s] = <<>> \/ Status'[s] = Status[s]
    BY <1>1, <1>2, <1>5 DEF SchedTypes
  <2>2. Scheduling(active, owner, Processi, Status', queue, inP, CodaPronti, Thread_In_Esecuzione)
    BY <1>1, <2>1, SchedCounts
  <2>3. QED
    BY <1>2, <1>3, <2>2 DEF Scheduled, Me
<1>7. Tabled'
  BY <1>1, <1>2, TabledKept DEF Base
<1>8. MessagesCounted'
  <2>1. ASSUME NEW s \in Slot, Processi'[s].active
        PROVE  Len(msgqueue'[s]) = Status'[s] + Cardinality(Served(s)')
    <3>1. Served(s) = {t \in active : inP[t] = s /\ ~Sched!SuspendedOn(t, s)}
      BY <1>3, Constants DEF Served
    <3>2. Served(s)' = Served(s) \cup {t \in {Thread_In_Esecuzione} : Me = s}
      BY <1>2, <1>3, <3>1 DEF Served, Sched!SuspendedOn
    <3>3. /\ Len(msgqueue[s]) = Status[s] + Cardinality(Served(s))
          /\ Status[s] \in Nat
      BY <1>1, <2>1 DEF PInv, MessagesCounted, SchedTypes
    <3>4. Served(s) \subseteq Thread
      BY <1>1, <3>1 DEF SchedTypes
    <3>5. IsFiniteSet(Served(s)) /\ Cardinality(Served(s)) \in Nat
      BY <3>4, Constants, FS_Subset, FS_CardinalityType
    <3>6. CASE s = Me
      <4>1. Thread_In_Esecuzione \notin Served(s) /\ Served(s)' = Served(s) \cup {Thread_In_Esecuzione}
        BY <1>3, <3>1, <3>2, <3>6, Constants
      <4>2. Cardinality(Served(s)') = Cardinality(Served(s)) + 1
        BY <3>5, <4>1, FS_AddElement
      <4>3. Status'[s] = Status[s] - 1
        BY <1>1, <1>2, <3>6, <1>3 DEF SchedTypes
      <4>4. QED
        BY <3>3, <3>5, <4>2, <4>3
    <3>7. CASE s # Me
      <4>1. Served(s)' = Served(s) /\ Status'[s] = Status[s]
        BY <1>1, <1>2, <3>2, <3>7 DEF SchedTypes
      <4>2. QED
        BY <3>3, <4>1
    <3>8. QED
      BY <3>6, <3>7
  <2>2. QED
    BY <2>1 DEF MessagesCounted
<1>9. Paged' /\ NoMailForTheDead'
  <2>1. Paged /\ NoMailForTheDead
    BY DEF PInv
  <2>2. QED
    BY <2>1, PagesKept, MailKept
<1>10. QED
  BY <1>4, <1>6, <1>7, <1>8, <1>9 DEF PInv, Base

\* recmsg that waits: another thread runs.
LEMMA recmsgWaits ==
    ASSUME PInv, Syscall, Status[Me] = 0,
           queue' = [queue EXCEPT ![Me] = Append(@, Thread_In_Esecuzione)],
           Switch(CodaPronti, THREAD_INVALID, [inP EXCEPT ![Thread_In_Esecuzione] = Me]),
           UNCHANGED <<active, Status, panicked>>,
           UNCHANGED <<Processi, Last_Pid_Used, owner, msgqueue, mapped, freepages, exhausted>>
    PROVE  PInv'
<1>1. Base /\ Types /\ SchedTypes /\ TableTypes
      /\ Scheduling(active, owner, Processi, Status, queue, inP, CodaPronti, Thread_In_Esecuzione)
  BY DEF PInv, Base, Types, Scheduled
<1>2. PICK ctx : ctx = [inP EXCEPT ![Thread_In_Esecuzione] = Me]
  OBVIOUS
<1>3. /\ Me \in Slot /\ Processi[Me].active /\ Thread_In_Esecuzione \in active
      /\ inP[Thread_In_Esecuzione] = NoSem /\ receiving = NoSem
      /\ Thread_In_Esecuzione \in Thread /\ Thread_In_Esecuzione # kernel_thread
      /\ CodaPronti # <<>> /\ Sched!Distinct(CodaPronti)
  BY <1>1, RunningFacts, SyscallFacts
<1>4. /\ CodaPronti \in Seq(Thread) /\ inP \in [Thread -> Slot \cup {NoSem}]
      /\ credit \in [Slot -> Int] /\ queue \in [Slot -> Seq(Thread)]
      /\ active \in SUBSET Thread
  BY <1>1 DEF SchedTypes
<1>5. /\ ctx \in [Thread -> Slot \cup {NoSem}] /\ ctx[Thread_In_Esecuzione] = Me
      /\ \A t \in Thread : t # Thread_In_Esecuzione => ctx[t] = inP[t]
  BY <1>2, <1>3, <1>4
<1>6. Dispatched(CodaPronti, THREAD_INVALID, ctx)
  <2>1. THREAD_INVALID \in Entry /\ ~Sched!InSeq(THREAD_INVALID, CodaPronti)
    BY <1>4, Constants DEF Entry, Sched!InSeq
  <2>2. QED
    BY <1>2, <1>3, <1>4, <1>5, <2>1, Dispatch
<1>7. queue' = [queue EXCEPT ![Me] = Append(queue[Me], Thread_In_Esecuzione)]
  OBVIOUS
<1>8. Scheduling(active, owner, Processi, Status, queue', ctx, CodaPronti, THREAD_INVALID)
  BY <1>1, <1>2, <1>3, <1>4, <1>7, SchedSuspends DEF Me
<1>9. Scheduling(active', owner', Processi', Status', queue', ctx, CodaPronti, THREAD_INVALID)
  BY <1>8
<1>10. active' \in SUBSET Thread
  BY <1>4
<1>11. Types'
  <2>1. queue' \in [Slot -> Seq(Thread)]
    BY <1>3, <1>4, <1>7
  <2>2. SchedTypes'
    BY <1>1, <1>6, <2>1 DEF SchedTypes, Dispatched
  <2>3. receiving' \in Slot \cup {NoSem}
    BY <1>5, <1>6 DEF Dispatched
  <2>4. QED
    BY <1>1, <2>2, <2>3 DEF Types, TableTypes, MailTypes, PageTypes
<1>12. Scheduled'
  BY <1>5, <1>6, <1>9, <1>10, AfterDispatch
<1>13. Tabled'
  BY <1>1, TabledKept DEF Base
<1>14. MessagesCounted'
  <2>1. ASSUME NEW s \in Slot, Processi'[s].active
        PROVE  Served(s)' = Served(s)
    <3>1. Served(s)' = Awaiting(active', queue', ctx, s)
      BY <1>5, <1>6, <1>9, <1>10, <2>1, ServedDispatch
    <3>2. Awaiting(active, queue', ctx, s) = Awaiting(active, queue, inP, s)
      <4>1. \A t : Sched!InSeq(t, queue'[s]) <=>
                     (Sched!InSeq(t, queue[s]) \/ (s = Me /\ t = Thread_In_Esecuzione))
        BY <1>3, <1>4, <1>7, InAppend
      <4>2. ASSUME NEW t \in active
            PROVE  ctx[t] = s /\ ~Sched!InSeq(t, queue'[s])
                      <=> inP[t] = s /\ ~Sched!InSeq(t, queue[s])
        <5>1. CASE t = Thread_In_Esecuzione
          BY <1>3, <1>5, <4>1, <5>1, Constants
        <5>2. CASE t # Thread_In_Esecuzione
          <6>1. ctx[t] = inP[t]
            BY <1>4, <1>5, <5>2
          <6>2. QED
            BY <4>1, <5>2, <6>1
        <5>3. QED
          BY <5>1, <5>2
      <4>3. QED
        BY <4>2 DEF Awaiting
    <3>3. QED
      BY <1>3, <3>1, <3>2, ServedIs
  <2>2. MessagesCounted
    BY DEF PInv
  <2>3. QED
    BY <2>1, <2>2, CountKept
<1>15. Paged' /\ NoMailForTheDead'
  <2>1. Paged /\ NoMailForTheDead
    BY DEF PInv
  <2>2. QED
    BY <2>1, PagesKept, MailKept
<1>16. QED
  BY <1>11, <1>12, <1>13, <1>14, <1>15 DEF PInv, Base

--------------------------------------------------------------------------------
(* The pages after each kind of step.                                          *)

Queues == [Slot -> Seq(Message)]

\* The places are different.
LEMMA PlacesDiffer ==
    \A r, s : /\ Free # InMap(s) /\ Free # InQueue(s) /\ InMap(r) # InQueue(s)
              /\ InMap(r) = InMap(s) => r = s
              /\ InQueue(r) = InQueue(s) => r = s
  BY DEF Free, InMap, InQueue

\* A message more at the end of a queue.
LEMMA PagesAppend ==
    ASSUME NEW q \in Seq(Message), NEW m \in Message
    PROVE  /\ Append(q, m) \in Seq(Message) /\ Len(Append(q, m)) = Len(q) + 1
           /\ PagesOf(Append(q, m)) = PagesOf(q) \cup {m.page}
           /\ \A i \in DOMAIN Append(q, m) :
                 Append(q, m)[i] = m \/ (i \in DOMAIN q /\ Append(q, m)[i] = q[i])
           /\ DistinctPages(q) /\ m.page \notin PagesOf(q) => DistinctPages(Append(q, m))
<1>1. PICK r : r = Append(q, m)
  OBVIOUS
<1>2. /\ r \in Seq(Message) /\ Len(r) = Len(q) + 1 /\ Len(q) \in Nat
      /\ DOMAIN q = 1..Len(q) /\ DOMAIN r = 1..Len(q) + 1
      /\ r[Len(q) + 1] = m /\ \A i \in 1..Len(q) : r[i] = q[i]
  BY <1>1
<1>3. /\ \A i \in 1..Len(q) + 1 : i \in 1..Len(q) \/ i = Len(q) + 1
      /\ \A i \in 1..Len(q) : i \in 1..Len(q) + 1
      /\ Len(q) + 1 \in 1..Len(q) + 1
  BY <1>2
<1>4. \A i \in DOMAIN r : (i = Len(q) + 1 /\ r[i] = m) \/ (i \in DOMAIN q /\ r[i] = q[i])
  BY <1>2, <1>3
<1>5. \A i \in DOMAIN q : i \in DOMAIN r /\ r[i] = q[i]
  BY <1>2, <1>3
<1>6. Len(q) + 1 \in DOMAIN r /\ r[Len(q) + 1] = m
  BY <1>2, <1>3
<1>7. PagesOf(r) = PagesOf(q) \cup {m.page}
  <2>1. ASSUME NEW p \in PagesOf(r) PROVE p \in PagesOf(q) \cup {m.page}
    BY <1>4 DEF PagesOf
  <2>2. ASSUME NEW p \in PagesOf(q) \cup {m.page} PROVE p \in PagesOf(r)
    BY <1>5, <1>6 DEF PagesOf
  <2>3. QED
    BY <2>1, <2>2
<1>8. DistinctPages(q) /\ m.page \notin PagesOf(q) => DistinctPages(r)
  BY <1>4 DEF DistinctPages, PagesOf
<1>9. QED
  BY <1>1, <1>2, <1>4, <1>7, <1>8

\* The first message of a queue is taken.
LEMMA PagesTail ==
    ASSUME NEW q \in Seq(Message), q # <<>>, DistinctPages(q)
    PROVE  /\ Tail(q) \in Seq(Message) /\ Len(Tail(q)) = Len(q) - 1 /\ Len(q) \in Nat
           /\ Head(q) \in Message /\ Head(q).page \in PagesOf(q)
           /\ PagesOf(Tail(q)) = PagesOf(q) \ {Head(q).page}
           /\ \A i \in DOMAIN Tail(q) : i + 1 \in DOMAIN q /\ Tail(q)[i] = q[i + 1]
           /\ DistinctPages(Tail(q))
<1>1. PICK r : r = Tail(q)
  OBVIOUS
<1>2. /\ r \in Seq(Message) /\ Len(r) = Len(q) - 1 /\ Len(q) \in Nat /\ Len(q) >= 1
      /\ DOMAIN q = 1..Len(q) /\ DOMAIN r = 1..Len(q) - 1
      /\ Head(q) = q[1] /\ Head(q) \in Message /\ \A i \in 1..Len(q) - 1 : r[i] = q[i + 1]
  BY <1>1
<1>3. /\ \A i \in 1..Len(q) - 1 : i + 1 \in 1..Len(q) /\ i + 1 # 1
      /\ \A i \in 1..Len(q) : i = 1 \/ (i - 1 \in 1..Len(q) - 1 /\ (i - 1) + 1 = i)
      /\ 1 \in 1..Len(q)
  BY <1>2
<1>4. \A i \in DOMAIN r : i + 1 \in DOMAIN q /\ i + 1 # 1 /\ r[i] = q[i + 1]
  BY <1>2, <1>3
<1>5. \A i \in DOMAIN q : i = 1 \/ (i - 1 \in DOMAIN r /\ r[i - 1] = q[i])
  BY <1>2, <1>3
<1>6. 1 \in DOMAIN q /\ Head(q) = q[1]
  BY <1>2, <1>3
<1>7. PagesOf(r) = PagesOf(q) \ {Head(q).page}
  <2>1. ASSUME NEW p \in PagesOf(r) PROVE p \in PagesOf(q) /\ p # Head(q).page
    <3>1. PICK i \in DOMAIN r : p = r[i].page
      BY DEF PagesOf
    <3>2. i + 1 \in DOMAIN q /\ i + 1 # 1 /\ p = q[i + 1].page
      BY <1>4, <3>1
    <3>3. QED
      BY <1>6, <3>2 DEF PagesOf, DistinctPages
  <2>2. ASSUME NEW p \in PagesOf(q), p # Head(q).page PROVE p \in PagesOf(r)
    <3>1. PICK i \in DOMAIN q : p = q[i].page
      BY DEF PagesOf
    <3>2. i - 1 \in DOMAIN r /\ p = r[i - 1].page
      BY <1>5, <1>6, <2>2, <3>1
    <3>3. QED
      BY <3>2 DEF PagesOf
  <2>3. QED
    BY <2>1, <2>2
<1>8. DistinctPages(r)
  <2>1. SUFFICES ASSUME NEW i \in DOMAIN r, NEW j \in DOMAIN r, r[i].page = r[j].page
                 PROVE  i = j
    BY DEF DistinctPages
  <2>2. i + 1 = j + 1
    BY <1>4, <2>1 DEF DistinctPages
  <2>3. QED
    BY <1>2, <2>2
<1>9. Head(q).page \in PagesOf(q)
  BY <1>6 DEF PagesOf
<1>10. QED
  BY <1>1, <1>2, <1>4, <1>7, <1>8, <1>9

\* One page moves; the queues of live processes hold what they held, but for it.
LEMMA PageMoves ==
    ASSUME NEW tab, NEW mq, NEW mq2, NEW map, NEW map2, NEW free, NEW free2,
           PagesPlaced(tab, mq, map, free), QueuedOnce(tab, mq2),
           NEW p \in Page, NEW L,
           L = Free \/ \E s \in Slot : L \in {InMap(s), InQueue(s)},
           \A q \in Page : q # p =>
              /\ q \in free2 <=> q \in free
              /\ \A s \in Slot : q \in map2[s] <=> q \in map[s]
              /\ \A s \in Slot : tab[s].active =>
                    (q \in PagesOf(mq2[s]) <=> q \in PagesOf(mq[s])),
           p \in free2 <=> L = Free,
           \A s \in Slot : p \in map2[s] <=> L = InMap(s),
           \A s \in Slot : tab[s].active /\ p \in PagesOf(mq2[s]) <=> L = InQueue(s)
    PROVE  PagesPlaced(tab, mq2, map2, free2)
<1>1. PICK place : IsPlace(place, tab, mq, map, free)
  BY DEF PagesPlaced
<1>2. PICK place2 : place2 = [q \in Page |-> IF q = p THEN L ELSE place[q]]
  OBVIOUS
<1>3. ASSUME NEW q \in Page
      PROVE  /\ place2[q] = Free \/ \E s \in Slot : place2[q] \in {InMap(s), InQueue(s)}
             /\ q \in free2 <=> place2[q] = Free
             /\ \A s \in Slot : q \in map2[s] <=> place2[q] = InMap(s)
             /\ \A s \in Slot : tab[s].active /\ q \in PagesOf(mq2[s]) <=> place2[q] = InQueue(s)
  <2>1. CASE q = p
    <3>1. place2[q] = L
      BY <1>2, <2>1
    <3>2. QED
      BY <2>1, <3>1
  <2>2. CASE q # p
    <3>1. place2[q] = place[q]
      BY <1>2, <2>2
    <3>2. QED
      BY <1>1, <2>2, <3>1 DEF IsPlace
  <2>3. QED
    BY <2>1, <2>2
<1>4. QED
  BY <1>3 DEF PagesPlaced, IsPlace

\* Where a page is when one of the tables has it.
LEMMA PlaceOf ==
    ASSUME NEW tab, NEW mq, NEW map, NEW free, PagesPlaced(tab, mq, map, free), NEW p \in Page
    PROVE  /\ p \in free => /\ \A s \in Slot : p \notin map[s]
                            /\ \A s \in Slot : ~(tab[s].active /\ p \in PagesOf(mq[s]))
           /\ \A m \in Slot : p \in map[m] =>
                 /\ p \notin free
                 /\ \A s \in Slot : s # m => p \notin map[s]
                 /\ \A s \in Slot : ~(tab[s].active /\ p \in PagesOf(mq[s]))
           /\ \A d \in Slot : tab[d].active /\ p \in PagesOf(mq[d]) =>
                 /\ p \notin free
                 /\ \A s \in Slot : p \notin map[s]
                 /\ \A s \in Slot : s # d => ~(tab[s].active /\ p \in PagesOf(mq[s]))
<1>1. PICK place : IsPlace(place, tab, mq, map, free)
  BY DEF PagesPlaced
<1>2. QED
  BY <1>1, PlacesDiffer DEF IsPlace

--------------------------------------------------------------------------------
(* The actions of messages.c.                                                  *)

\* A step of the messages leaves threads, semaphores and tables alone.
LEMMA SchedKept ==
    ASSUME Base, UNCHANGED <<schedvars, Processi, Last_Pid_Used, owner>>,
           receiving' = receiving \/ receiving' = NoSem
    PROVE  SchedTypes' /\ TableTypes' /\ Scheduled' /\ Tabled'
<1>1. SchedTypes' /\ TableTypes'
  BY DEF Base, Types, SchedTypes, TableTypes, schedvars
<1>2. Scheduled'
  BY DEF Base, Scheduled, Me, schedvars
<1>3. Tabled'
  BY DEF Base, Tabled, schedvars
<1>4. QED
  BY <1>1, <1>2, <1>3

\* The kernel stops for want of something.
LEMMA ExhaustedStep ==
    ASSUME PInv, Exhausted
    PROVE  PInv'
<1>1. UNCHANGED <<schedvars, Processi, Last_Pid_Used, owner, msgqueue, mapped, freepages, receiving>>
      /\ exhausted' = TRUE
  BY Zenon DEF Exhausted
<1>2. SchedTypes' /\ TableTypes' /\ Scheduled' /\ Tabled'
  BY <1>1, SchedKept DEF PInv
<1>3. Types'
  BY <1>1, <1>2 DEF PInv, Base, Types, MailTypes, PageTypes
<1>4. MessagesCounted'
  BY <1>1 DEF PInv, MessagesCounted, Served, Sched!SuspendedOn, schedvars
<1>5. Paged' /\ NoMailForTheDead'
  BY <1>1, PagesKept, MailKept DEF PInv
<1>6. QED
  BY <1>2, <1>3, <1>4, <1>5 DEF PInv, Base

\* A buffer is allocated to the caller or freed.
LEMMA BufferStep ==
    ASSUME PInv, Syscall, NEW p \in Page,
           \/ p \in freepages /\ freepages' = freepages \ {p}
                /\ mapped' = [mapped EXCEPT ![Me] = mapped[Me] \cup {p}]
           \/ p \in mapped[Me] /\ freepages' = freepages \cup {p}
                /\ mapped' = [mapped EXCEPT ![Me] = mapped[Me] \ {p}],
           UNCHANGED <<schedvars, Processi, Last_Pid_Used, owner, msgqueue, receiving, exhausted>>
    PROVE  PInv'
<1>1. Base /\ Types /\ PageTypes /\ Me \in Slot
  BY RunningFacts DEF PInv, Base, Types
<1>2. SchedTypes' /\ TableTypes' /\ Scheduled' /\ Tabled'
  BY <1>1, SchedKept
<1>3. /\ mapped' \in [Slot -> SUBSET Page] /\ freepages' \in SUBSET Page
      /\ \A s \in Slot : s # Me => mapped'[s] = mapped[s]
  BY <1>1 DEF PageTypes
<1>4. Types'
  BY <1>1, <1>2, <1>3 DEF Types, MailTypes, PageTypes
<1>5. MessagesCounted'
  BY DEF PInv, MessagesCounted, Served, Sched!SuspendedOn, schedvars
<1>6. NoMailForTheDead'
  BY MailKept DEF PInv
<1>7. Paged'
  <2>1. /\ PagesPlaced(Processi, msgqueue, mapped, freepages)
        /\ QueuedOnce(Processi, msgqueue)
    BY DEF PInv, Paged, PagesPlaced
  <2>2. CASE p \in freepages /\ freepages' = freepages \ {p}
             /\ mapped' = [mapped EXCEPT ![Me] = mapped[Me] \cup {p}]
    <3>1. /\ \A s \in Slot : p \notin mapped[s]
          /\ \A s \in Slot : ~(Processi[s].active /\ p \in PagesOf(msgqueue[s]))
      BY <2>1, <2>2, PlaceOf
    <3>2. mapped'[Me] = mapped[Me] \cup {p}
      BY <1>1, <2>2 DEF PageTypes
    <3>3. PICK L : L = InMap(Me)
      OBVIOUS
    <3>4. \A q \in Page : q # p =>
              /\ q \in freepages' <=> q \in freepages
              /\ \A s \in Slot : q \in mapped'[s] <=> q \in mapped[s]
      BY <1>3, <2>2, <3>2
    <3>5. \A s \in Slot : p \in mapped'[s] <=> L = InMap(s)
      BY <1>1, <1>3, <3>1, <3>2, <3>3, PlacesDiffer
    <3>6. /\ p \in freepages' <=> L = Free
          /\ \A s \in Slot : Processi[s].active /\ p \in PagesOf(msgqueue[s]) <=> L = InQueue(s)
      BY <2>2, <3>1, <3>3, PlacesDiffer
    <3>7. PagesPlaced(Processi, msgqueue, mapped', freepages')
      BY <1>1, <2>1, <3>3, <3>4, <3>5, <3>6, PageMoves
    <3>8. QED
      BY <3>7 DEF Paged
  <2>3. CASE p \in mapped[Me] /\ freepages' = freepages \cup {p}
             /\ mapped' = [mapped EXCEPT ![Me] = mapped[Me] \ {p}]
    <3>1. /\ \A s \in Slot : s # Me => p \notin mapped[s]
          /\ \A s \in Slot : ~(Processi[s].active /\ p \in PagesOf(msgqueue[s]))
      BY <1>1, <2>1, <2>3, PlaceOf
    <3>2. mapped'[Me] = mapped[Me] \ {p}
      BY <1>1, <2>3 DEF PageTypes
    <3>3. PICK L : L = Free
      OBVIOUS
    <3>4. \A q \in Page : q # p =>
              /\ q \in freepages' <=> q \in freepages
              /\ \A s \in Slot : q \in mapped'[s] <=> q \in mapped[s]
      BY <1>3, <2>3, <3>2
    <3>5. \A s \in Slot : p \in mapped'[s] <=> L = InMap(s)
      BY <1>1, <1>3, <3>1, <3>2, <3>3, PlacesDiffer
    <3>6. /\ p \in freepages' <=> L = Free
          /\ \A s \in Slot : Processi[s].active /\ p \in PagesOf(msgqueue[s]) <=> L = InQueue(s)
      BY <2>3, <3>1, <3>3, PlacesDiffer
    <3>7. PagesPlaced(Processi, msgqueue, mapped', freepages')
      BY <2>1, <3>3, <3>4, <3>5, <3>6, PageMoves
    <3>8. QED
      BY <3>7 DEF Paged
  <2>4. QED
    BY <2>2, <2>3
<1>8. QED
  BY <1>2, <1>4, <1>5, <1>6, <1>7 DEF PInv, Base

\* getbmsg: a free page becomes the caller's, or the kernel has none left.
LEMMA getbmsgStep ==
    ASSUME PInv, getbmsg
    PROVE  PInv'
<1>1. CASE Exhausted
  BY <1>1, ExhaustedStep
<1>2. CASE ~Exhausted
  <2>1. PICK p \in freepages :
           /\ freepages' = freepages \ {p}
           /\ mapped' = [mapped EXCEPT ![Me] = mapped[Me] \cup {p}]
    BY <1>2 DEF getbmsg
  <2>2. Syscall /\ UNCHANGED <<schedvars, Processi, Last_Pid_Used, owner, msgqueue, receiving, exhausted>>
    BY <1>2 DEF getbmsg
  <2>3. p \in Page
    BY DEF PInv, Base, Types, PageTypes
  <2>4. QED
    BY <2>1, <2>2, <2>3, BufferStep
<1>3. QED
  BY <1>1, <1>2

\* freemsg: a page of the caller's becomes free.
LEMMA freemsgStep ==
    ASSUME PInv, freemsg
    PROVE  PInv'
<1>1. PICK p \in mapped[Me] :
           /\ freepages' = freepages \cup {p}
           /\ mapped' = [mapped EXCEPT ![Me] = mapped[Me] \ {p}]
  BY DEF freemsg
<1>2. Syscall /\ UNCHANGED <<schedvars, Processi, Last_Pid_Used, owner, msgqueue, receiving, exhausted>>
  BY DEF freemsg
<1>3. Me \in Slot /\ PageTypes
  BY RunningFacts DEF PInv, Base, Types
<1>4. p \in Page
  BY <1>3 DEF PageTypes
<1>5. QED
  BY <1>1, <1>2, <1>4, BufferStep

\* A V of the messages of a live process promises the new message to one more thread, or
\* counts it.
LEMMA ReleasePromises ==
    ASSUME Base, Syscall, NEW d \in Slot, Processi[d].active,
           Sched!Release(d, Status[d] + 1), ~panicked',
           UNCHANGED <<Processi, owner, receiving>>
    PROVE  /\ SchedTypes' /\ Scheduled' /\ active' = active
           /\ \A s \in Slot : s # d => Status'[s] = Status[s] /\ Served(s)' = Served(s)
           /\ Status'[d] + Cardinality(Served(d)') = Status[d] + Cardinality(Served(d)) + 1
           /\ Status[d] + Cardinality(Served(d)) \in Nat
<1>1. /\ Types /\ SchedTypes
      /\ Scheduling(active, owner, Processi, Status, queue, inP, CodaPronti, Thread_In_Esecuzione)
  BY DEF Base, Types, Scheduled
<1>2. /\ Counts(d) \/ Wakes(d)
      /\ active' = active /\ Thread_In_Esecuzione' = Thread_In_Esecuzione /\ inP' = inP
      /\ credit' \in [Slot -> Int] /\ panicked' = panicked
  BY <1>1, Released
<1>3. /\ receiving = NoSem /\ receiving' = NoSem
  BY SyscallFacts
<1>4. /\ active \in SUBSET Thread /\ CodaPronti \in Seq(Thread)
      /\ Status \in [Slot -> Nat] /\ queue \in [Slot -> Seq(Thread)]
      /\ inP \in [Thread -> Slot \cup {NoSem}]
  BY <1>1 DEF SchedTypes
<1>5. ASSUME NEW s \in Slot
      PROVE  /\ Served(s) = Awaiting(active, queue, inP, s)
             /\ Served(s)' = Awaiting(active, queue', inP, s)
             /\ IsFiniteSet(Served(s)) /\ Cardinality(Served(s)) \in Nat
  <2>1. Served(s) = Awaiting(active, queue, inP, s)
    BY <1>3, ServedIs
  <2>2. Served(s)' = Awaiting(active, queue', inP, s)
    BY <1>2, <1>3, Constants DEF Served, Awaiting, Sched!SuspendedOn
  <2>3. Served(s) \subseteq Thread
    BY <1>4, <2>1 DEF Awaiting
  <2>4. QED
    BY <2>1, <2>2, <2>3, Constants, FS_Subset, FS_CardinalityType
<1>6. CASE Counts(d)
  <2>1. /\ queue[d] = <<>> /\ Status' = [Status EXCEPT ![d] = Status[d] + 1]
        /\ CodaPronti' = CodaPronti /\ queue' = queue
    BY <1>6 DEF Counts
  <2>2. /\ Status' \in [Slot -> Nat] /\ Status'[d] = Status[d] + 1 /\ Status[d] \in Nat
        /\ \A s \in Slot : s # d => Status'[s] = Status[s]
    BY <1>4, <2>1
  <2>3. SchedTypes'
    BY <1>1, <1>2, <2>1, <2>2 DEF SchedTypes
  <2>4. Scheduling(active, owner, Processi, Status', queue, inP, CodaPronti, Thread_In_Esecuzione)
    <3>1. \A s \in Slot : queue[s] = <<>> \/ Status'[s] = Status[s]
      BY <2>1, <2>2
    <3>2. QED
      BY <1>1, <3>1, SchedCounts
  <2>5. Scheduled'
    BY <1>2, <1>3, <2>1, <2>4, RunningFacts DEF Scheduled, Me
  <2>6. \A s \in Slot : Served(s)' = Served(s)
    BY <1>5, <2>1
  <2>7. QED
    BY <1>2, <1>5, <2>2, <2>3, <2>5, <2>6
<1>7. CASE Wakes(d)
  <2>1. /\ queue[d] # <<>> /\ Status' = Status
        /\ CodaPronti' = Append(CodaPronti, Head(queue[d]))
        /\ queue' = [queue EXCEPT ![d] = Tail(queue[d])]
    BY <1>7 DEF Wakes
  <2>2. /\ CodaPronti' \in Seq(Thread) /\ queue' \in [Slot -> Seq(Thread)]
        /\ Scheduling(active, owner, Processi, Status, queue', inP, CodaPronti', Thread_In_Esecuzione)
    <3>1. /\ Append(CodaPronti, Head(queue[d])) \in Seq(Thread) /\ queue' \in [Slot -> Seq(Thread)]
          /\ Scheduling(active, owner, Processi, Status, queue', inP,
                        Append(CodaPronti, Head(queue[d])), Thread_In_Esecuzione)
      BY <1>1, <1>4, <2>1, SchedWakes, ZenonT(40)
    <3>2. QED
      BY <2>1, <3>1
  <2>3. SchedTypes'
    BY <1>1, <1>2, <2>1, <2>2 DEF SchedTypes
  <2>4. Scheduled'
    BY <1>2, <1>3, <2>1, <2>2, RunningFacts DEF Scheduled, Me
  <2>5. PICK h : h = Head(queue[d])
    OBVIOUS
  <2>6. /\ h \in Thread /\ Sched!InSeq(h, queue[d])
        /\ \A t : Sched!InSeq(t, Tail(queue[d])) <=> (Sched!InSeq(t, queue[d]) /\ t # h)
        /\ \A t \in Thread : Sched!InSeq(t, queue[d]) =>
              Waits(t, d, active, owner, inP, CodaPronti, Thread_In_Esecuzione)
    <3>1. /\ queue[d] \in Seq(Thread) /\ Sched!Distinct(queue[d])
          /\ \A t \in Thread : Sched!InSeq(t, queue[d]) =>
                Waits(t, d, active, owner, inP, CodaPronti, Thread_In_Esecuzione)
      BY <1>1, <1>4 DEF Scheduling, WaitersSound
    <3>2. QED
      BY <2>1, <2>5, <3>1, InTail
  <2>7. /\ h \in active /\ inP[h] = d
    BY <2>6 DEF Waits
  <2>8. queue'[d] = Tail(queue[d]) /\ \A s \in Slot : s # d => queue'[s] = queue[s]
    BY <1>4, <2>1
  <2>9. \A s \in Slot : s # d => Served(s)' = Served(s)
    BY <1>5, <2>8 DEF Awaiting
  <2>10. Served(d)' = Served(d) \cup {h} /\ h \notin Served(d)
    BY <1>5, <2>6, <2>7, <2>8 DEF Awaiting
  <2>11. Cardinality(Served(d)') = Cardinality(Served(d)) + 1
    BY <1>5, <2>10, FS_AddElement
  <2>12. Status[d] \in Nat
    BY <1>4
  <2>13. Status'[d] + Cardinality(Served(d)') = Status[d] + Cardinality(Served(d)) + 1
         /\ Status[d] + Cardinality(Served(d)) \in Nat
    <3>1. Status'[d] = Status[d] /\ Cardinality(Served(d)) \in Nat
      BY <1>5, <2>1
    <3>2. QED
      BY <2>11, <2>12, <3>1
  <2>14. \A s \in Slot : s # d => Status'[s] = Status[s] /\ Served(s)' = Served(s)
    BY <2>1, <2>9
  <2>15. QED
    BY <1>2, <2>3, <2>4, <2>13, <2>14, Zenon
<1>8. QED
  BY <1>2, <1>6, <1>7

\* A buffer of the caller joins the queue of the receiver.
LEMMA sendmsgStep ==
    ASSUME PInv, NEW d \in Slot \ {kernel_slot}, NEW p \in Page, sendmsg(d, p), ~panicked'
    PROVE  PInv'
<1>1. CASE Exhausted
  BY <1>1, ExhaustedStep
<1>2. CASE ~Exhausted
  <2>1. /\ Syscall /\ p \in mapped[Me] /\ Processi[d].active
        /\ Len(msgqueue[d]) # MAX_MESSAGES - 1
        /\ mapped' = [mapped EXCEPT ![Me] = mapped[Me] \ {p}]
        /\ msgqueue' = [msgqueue EXCEPT ![d] =
              Append(msgqueue[d], [page |-> p, to |-> Processi[d].pid])]
        /\ Sched!Release(d, Status[d] + 1)
        /\ UNCHANGED <<Processi, Last_Pid_Used, owner, freepages, receiving, exhausted>>
    BY <1>2 DEF sendmsg
  <2>2. /\ Base /\ Types /\ TableTypes /\ MailTypes /\ PageTypes /\ Me \in Slot /\ d \in Slot
    BY RunningFacts DEF PInv, Base, Types
  <2>3. /\ SchedTypes' /\ Scheduled' /\ active' = active
        /\ \A s \in Slot : s # d => Status'[s] = Status[s] /\ Served(s)' = Served(s)
        /\ Status'[d] + Cardinality(Served(d)') = Status[d] + Cardinality(Served(d)) + 1
        /\ Status[d] + Cardinality(Served(d)) \in Nat
    BY <2>1, <2>2, ReleasePromises
  <2>4. PICK m : m = [page |-> p, to |-> Processi[d].pid]
    OBVIOUS
  <2>5. m \in Message /\ m.page = p /\ m.to = Processi[d].pid
    BY <2>2, <2>4 DEF Message, TableTypes, Table, Process
  <2>6. PICK q \in Seq(Message) : q = msgqueue[d]
    BY <2>2 DEF MailTypes
  <2>7. PICK r : r = Append(q, m)
    OBVIOUS
  <2>8. /\ PagesPlaced(Processi, msgqueue, mapped, freepages)
        /\ QueuedOnce(Processi, msgqueue) /\ DistinctPages(q)
    BY <2>1, <2>6 DEF PInv, Paged, PagesPlaced, QueuedOnce
  <2>9. /\ p \notin freepages /\ \A s \in Slot : s # Me => p \notin mapped[s]
        /\ \A s \in Slot : ~(Processi[s].active /\ p \in PagesOf(msgqueue[s]))
    BY <2>1, <2>2, <2>8, PlaceOf
  <2>10. p \notin PagesOf(q)
    BY <2>1, <2>6, <2>9
  <2>11. /\ r \in Seq(Message) /\ Len(r) = Len(q) + 1 /\ Len(q) \in Nat
         /\ PagesOf(r) = PagesOf(q) \cup {p}
         /\ \A i \in DOMAIN r : r[i] = m \/ (i \in DOMAIN q /\ r[i] = q[i])
         /\ DistinctPages(r)
    BY <2>5, <2>7, <2>8, <2>10, PagesAppend
  <2>12. msgqueue' = [msgqueue EXCEPT ![d] = r]
    BY <2>1, <2>4, <2>6, <2>7
  <2>13. /\ msgqueue' \in [Slot -> Seq(Message)] /\ msgqueue'[d] = r
         /\ \A s \in Slot : s # d => msgqueue'[s] = msgqueue[s]
    BY <2>2, <2>11, <2>12 DEF MailTypes
  <2>14. /\ mapped' \in [Slot -> SUBSET Page] /\ mapped'[Me] = mapped[Me] \ {p}
         /\ \A s \in Slot : s # Me => mapped'[s] = mapped[s]
    BY <2>1, <2>2 DEF PageTypes
  <2>15. Types'
    <3>1. Len(r) < MAX_MESSAGES
      <4>1. Len(q) < MAX_MESSAGES /\ Len(q) # MAX_MESSAGES - 1
        BY <2>1, <2>2, <2>6 DEF MailTypes
      <4>2. QED
        BY <2>11, <4>1, SizeAssumption
    <3>2. MailTypes'
      BY <2>2, <2>13, <3>1 DEF MailTypes
    <3>3. QED
      BY <2>1, <2>2, <2>3, <2>14, <3>2 DEF Types, TableTypes, PageTypes
  <2>16. Tabled'
    BY <2>1, <2>2, <2>3, TabledKept DEF Base
  <2>17. MessagesCounted'
    <3>1. ASSUME NEW s \in Slot, Processi'[s].active
          PROVE  Len(msgqueue'[s]) = Status'[s] + Cardinality(Served(s)')
      <4>1. Len(msgqueue[s]) = Status[s] + Cardinality(Served(s))
        BY <2>1, <3>1 DEF PInv, MessagesCounted
      <4>2. CASE s = d
        BY <2>3, <2>6, <2>11, <2>13, <4>1, <4>2
      <4>3. CASE s # d
        BY <2>3, <2>13, <4>1, <4>3
      <4>4. QED
        BY <4>2, <4>3
    <3>2. QED
      BY <3>1 DEF MessagesCounted
  <2>18. NoMailForTheDead'
    <3>1. ASSUME NEW s \in Slot, Processi'[s].active, NEW i \in DOMAIN msgqueue'[s]
          PROVE  msgqueue'[s][i].to = Processi'[s].pid
      <4>1. Processi'[s] = Processi[s] /\ Processi[s].active
        BY <2>1, <3>1
      <4>2. \A j \in DOMAIN msgqueue[s] : msgqueue[s][j].to = Processi[s].pid
        BY <4>1 DEF PInv, NoMailForTheDead
      <4>3. CASE s = d
        BY <2>5, <2>6, <2>11, <2>13, <3>1, <4>1, <4>2, <4>3
      <4>4. CASE s # d
        BY <2>13, <3>1, <4>1, <4>2, <4>4
      <4>5. QED
        BY <4>3, <4>4
    <3>2. QED
      BY <3>1 DEF NoMailForTheDead
  <2>19. Paged'
    <3>1. PICK L : L = InQueue(d)
      OBVIOUS
    <3>2. QueuedOnce(Processi, msgqueue')
      BY <2>8, <2>11, <2>13 DEF QueuedOnce
    <3>3. \A x \in Page : x # p =>
              /\ x \in freepages' <=> x \in freepages
              /\ \A s \in Slot : x \in mapped'[s] <=> x \in mapped[s]
              /\ \A s \in Slot : Processi[s].active =>
                    (x \in PagesOf(msgqueue'[s]) <=> x \in PagesOf(msgqueue[s]))
      BY <2>1, <2>6, <2>11, <2>13, <2>14
    <3>4. /\ p \in freepages' <=> L = Free
          /\ \A s \in Slot : p \in mapped'[s] <=> L = InMap(s)
      BY <2>1, <2>9, <2>14, <3>1, PlacesDiffer
    <3>5. \A s \in Slot : Processi[s].active /\ p \in PagesOf(msgqueue'[s]) <=> L = InQueue(s)
      BY <2>1, <2>2, <2>9, <2>11, <2>13, <3>1, PlacesDiffer
    <3>6. L = Free \/ \E s \in Slot : L \in {InMap(s), InQueue(s)}
      BY <2>2, <3>1
    <3>7. PagesPlaced(Processi, msgqueue', mapped', freepages')
      BY <2>8, <3>2, <3>3, <3>4, <3>5, <3>6, PageMoves
    <3>8. QED
      BY <2>1, <3>7 DEF Paged
  <2>20. QED
    BY <2>3, <2>15, <2>16, <2>17, <2>18, <2>19 DEF PInv, Base
<1>3. QED
  BY <1>1, <1>2

\* The rest of recmsg finds the message that was promised.
LEMMA recmsg_returnsStep ==
    ASSUME PInv, recmsg_returns
    PROVE  PInv' /\ ~panicked'
<1>1. /\ Base /\ Types /\ SchedTypes /\ TableTypes /\ MailTypes /\ PageTypes /\ Me \in Slot
      /\ Processi[Me].active
  BY RunningFacts DEF PInv, Base, Types
<1>2. ~panicked /\ receiving # NoSem /\ receiving = Me /\ receiving' = NoSem
  BY DEF recmsg_returns, PInv, Base, Scheduled
<1>3. /\ Len(msgqueue[Me]) = Status[Me] + Cardinality(Served(Me))
      /\ Status[Me] \in Nat
  BY <1>1 DEF PInv, MessagesCounted, SchedTypes
<1>4. \A s \in Slot : Served(s) = Awaiting(active, queue, inP, s)
                         \cup {t \in {Thread_In_Esecuzione} : Me = s}
  BY <1>2 DEF Served, Awaiting, Sched!SuspendedOn
<1>5. Thread_In_Esecuzione \notin Awaiting(active, queue, inP, Me)
  BY <1>1, RunningFacts, Constants DEF Awaiting
<1>6. Served(Me) = Awaiting(active, queue, inP, Me) \cup {Thread_In_Esecuzione}
  BY <1>1, <1>4
<1>7. IsFiniteSet(Awaiting(active, queue, inP, Me))
      /\ Cardinality(Awaiting(active, queue, inP, Me)) \in Nat
  <2>1. Awaiting(active, queue, inP, Me) \subseteq Thread
    BY <1>1 DEF Awaiting, SchedTypes
  <2>2. QED
    BY <2>1, Constants, FS_Subset, FS_CardinalityType
<1>8. Cardinality(Served(Me)) = Cardinality(Awaiting(active, queue, inP, Me)) + 1
  BY <1>5, <1>6, <1>7, FS_AddElement
<1>9. PICK q \in Seq(Message) : q = msgqueue[Me]
  BY <1>1 DEF MailTypes
<1>10. q # <<>>
  <2>1. Len(q) # 0
    BY <1>3, <1>7, <1>8, <1>9
  <2>2. QED
    BY <2>1
<1>11. /\ msgqueue' = [msgqueue EXCEPT ![Me] = Tail(q)]
       /\ mapped' = [mapped EXCEPT ![Me] = mapped[Me] \cup {Head(q).page}]
       /\ panicked' = panicked
  BY <1>2, <1>9, <1>10 DEF recmsg_returns
<1>12. UNCHANGED <<active, CodaPronti, Thread_In_Esecuzione, Status, queue, inP, credit,
                   Processi, Last_Pid_Used, owner, freepages, exhausted>>
  BY DEF recmsg_returns
<1>13. UNCHANGED schedvars
  BY <1>11, <1>12 DEF schedvars
<1>14. SchedTypes' /\ TableTypes' /\ Scheduled' /\ Tabled'
  BY <1>1, <1>2, <1>12, <1>13, SchedKept
<1>15. PICK p : p = Head(q).page
  OBVIOUS
<1>16. PICK r : r = Tail(q)
  OBVIOUS
<1>17. /\ PagesPlaced(Processi, msgqueue, mapped, freepages)
       /\ QueuedOnce(Processi, msgqueue) /\ DistinctPages(q)
  BY <1>1, <1>9 DEF PInv, Paged, PagesPlaced, QueuedOnce
<1>18. /\ r \in Seq(Message) /\ Len(r) = Len(q) - 1 /\ Len(q) \in Nat
       /\ Head(q) \in Message /\ p \in PagesOf(q)
       /\ PagesOf(r) = PagesOf(q) \ {p}
       /\ \A i \in DOMAIN r : i + 1 \in DOMAIN q /\ r[i] = q[i + 1]
       /\ DistinctPages(r)
  BY <1>10, <1>15, <1>16, <1>17, PagesTail
<1>19. p \in Page
  BY <1>15, <1>18 DEF Message
<1>20. /\ msgqueue' \in [Slot -> Seq(Message)] /\ msgqueue'[Me] = r
       /\ \A s \in Slot : s # Me => msgqueue'[s] = msgqueue[s]
  BY <1>1, <1>11, <1>16, <1>18 DEF MailTypes
<1>21. /\ mapped' \in [Slot -> SUBSET Page] /\ mapped'[Me] = mapped[Me] \cup {p}
       /\ \A s \in Slot : s # Me => mapped'[s] = mapped[s]
  BY <1>1, <1>11, <1>15, <1>19 DEF PageTypes
<1>22. Types'
  <2>1. Len(r) < MAX_MESSAGES
    BY <1>1, <1>9, <1>18, SizeAssumption DEF MailTypes
  <2>2. MailTypes'
    BY <1>1, <1>20, <2>1 DEF MailTypes
  <2>3. QED
    BY <1>1, <1>2, <1>12, <1>14, <1>21, <2>2 DEF Types, PageTypes
<1>23. MessagesCounted'
  <2>1. ASSUME NEW s \in Slot, Processi'[s].active
        PROVE  Len(msgqueue'[s]) = Status'[s] + Cardinality(Served(s)')
    <3>1. Served(s)' = Awaiting(active, queue, inP, s)
      BY <1>2, <1>12, Constants DEF Served, Awaiting, Sched!SuspendedOn
    <3>2. Status'[s] = Status[s]
      BY <1>12
    <3>3. CASE s = Me
      BY <1>3, <1>7, <1>8, <1>9, <1>18, <1>20, <3>1, <3>2, <3>3
    <3>4. CASE s # Me
      <4>1. Len(msgqueue[s]) = Status[s] + Cardinality(Served(s))
        BY <1>12, <2>1 DEF PInv, MessagesCounted
      <4>2. Served(s) = Awaiting(active, queue, inP, s)
        BY <1>4, <3>4
      <4>3. QED
        BY <1>20, <3>1, <3>2, <3>4, <4>1, <4>2
    <3>5. QED
      BY <3>3, <3>4
  <2>2. QED
    BY <2>1 DEF MessagesCounted
<1>24. NoMailForTheDead'
  <2>1. ASSUME NEW s \in Slot, Processi'[s].active, NEW i \in DOMAIN msgqueue'[s]
        PROVE  msgqueue'[s][i].to = Processi'[s].pid
    <3>1. Processi'[s] = Processi[s] /\ Processi[s].active
      BY <1>12, <2>1
    <3>2. \A j \in DOMAIN msgqueue[s] : msgqueue[s][j].to = Processi[s].pid
      BY <3>1 DEF PInv, NoMailForTheDead
    <3>3. CASE s = Me
      BY <1>9, <1>18, <1>20, <2>1, <3>1, <3>2, <3>3
    <3>4. CASE s # Me
      BY <1>20, <2>1, <3>1, <3>2, <3>4
    <3>5. QED
      BY <3>3, <3>4
  <2>2. QED
    BY <2>1 DEF NoMailForTheDead
<1>25. Paged'
  <2>1. PICK L : L = InMap(Me)
    OBVIOUS
  <2>2. /\ p \notin freepages /\ \A s \in Slot : p \notin mapped[s]
        /\ \A s \in Slot : s # Me => ~(Processi[s].active /\ p \in PagesOf(msgqueue[s]))
    BY <1>1, <1>9, <1>17, <1>18, <1>19, PlaceOf
  <2>3. QueuedOnce(Processi, msgqueue')
    BY <1>17, <1>18, <1>20 DEF QueuedOnce
  <2>4. \A x \in Page : x # p =>
            /\ x \in freepages' <=> x \in freepages
            /\ \A s \in Slot : x \in mapped'[s] <=> x \in mapped[s]
            /\ \A s \in Slot : Processi[s].active =>
                  (x \in PagesOf(msgqueue'[s]) <=> x \in PagesOf(msgqueue[s]))
    BY <1>9, <1>12, <1>18, <1>20, <1>21
  <2>5. /\ p \in freepages' <=> L = Free
        /\ \A s \in Slot : p \in mapped'[s] <=> L = InMap(s)
    BY <1>12, <2>2, <1>21, <2>1, PlacesDiffer
  <2>6. \A s \in Slot : Processi[s].active /\ p \in PagesOf(msgqueue'[s]) <=> L = InQueue(s)
    BY <1>18, <1>20, <2>1, <2>2, PlacesDiffer
  <2>7. PagesPlaced(Processi, msgqueue', mapped', freepages')
    BY <1>1, <1>17, <1>19, <2>1, <2>3, <2>4, <2>5, <2>6, PageMoves
  <2>8. QED
    BY <1>12, <2>7 DEF Paged
<1>26. ~panicked'
  BY <1>2, <1>11
<1>27. QED
  BY <1>14, <1>22, <1>23, <1>24, <1>25, <1>26 DEF PInv, Base

--------------------------------------------------------------------------------
(* The actions that create threads and processes.                              *)

\* The first free slot is a free slot.
LEMMA MinIn ==
    ASSUME NEW S \in SUBSET Nat, S # {}
    PROVE  Min(S) \in S
<1>1. \E x \in S : \A y \in S : x <= y
  BY LeastExists
<1>2. QED
  BY <1>1, Zenon DEF Min

\* A new thread has been promised nothing.
LEMMA AwaitingGrows ==
    ASSUME NEW act \in SUBSET Thread, NEW qs, NEW ctx \in [Thread -> Slot \cup {NoSem}],
           NEW t \in Thread \ act, NEW ctx2, ctx2 = Fresh(ctx, t), NEW s \in Slot
    PROVE  Awaiting(act \cup {t}, qs, ctx2, s) = Awaiting(act, qs, ctx, s)
<1>1. ctx2[t] = NoSem /\ \A v \in act : v # t /\ ctx2[v] = ctx[v]
  BY DEF Fresh
<1>2. QED
  BY <1>1, Constants DEF Awaiting

\* A thread joins the process of the caller and becomes ready.
LEMMA Sys_Create_ThreadStep ==
    ASSUME PInv, Sys_Create_Thread, FreeEntries(Me) # {} \/ FreeThreads = {}, ~panicked'
    PROVE  PInv'
<1>1. CASE FreeThreads = {}
  BY <1>1, ExhaustedStep DEF Sys_Create_Thread
<1>2. CASE FreeThreads # {}
  <2>1. PICK t : t = Min(FreeThreads)
    OBVIOUS
  <2>2. PICK i : i = Min(FreeEntries(Me))
    OBVIOUS
  <2>3. /\ Syscall
        /\ active' = active \cup {t}
        /\ owner' = OwnedBy(owner, t, Me, Processi[Me].pid)
        /\ inP' = Fresh(inP, t)
        /\ Processi' = Joined(Processi, Me, i, t)
        /\ Sched!Add_Thread_To_CodaPronti(t)
        /\ UNCHANGED <<Thread_In_Esecuzione, Status, queue, credit, Last_Pid_Used, msgqueue,
                       mapped, freepages, receiving, exhausted>>
    BY <1>2, <2>1, <2>2 DEF Sys_Create_Thread, Create_Thread, OwnedBy, Fresh, Joined
  <2>4. t \in Thread \ active
    <3>1. FreeThreads \in SUBSET Nat
      BY Constants DEF FreeThreads
    <3>2. QED
      BY <1>2, <2>1, <3>1, MinIn DEF FreeThreads
  <2>5. i \in 1..MAX_THREADS_PER_PROCESS /\ Processi[Me].threads[i] = THREAD_INVALID
    <3>1. FreeEntries(Me) \in SUBSET Nat
      BY SizeAssumption DEF FreeEntries
    <3>2. QED
      BY <1>2, <2>2, <3>1, MinIn DEF FreeEntries
  <2>6. /\ Base /\ Types /\ SchedTypes /\ TableTypes
        /\ Scheduling(active, owner, Processi, Status, queue, inP, CodaPronti, Thread_In_Esecuzione)
    BY DEF PInv, Base, Types, Scheduled
  <2>7. /\ Me \in Slot /\ Thread_In_Esecuzione \in active /\ kernel_thread \in active
        /\ Thread_In_Esecuzione # kernel_thread /\ receiving = NoSem
        /\ inP[Thread_In_Esecuzione] = NoSem
    BY <2>3, <2>6, RunningFacts, SyscallFacts
  <2>8. /\ active \in SUBSET Thread /\ CodaPronti \in Seq(Thread)
        /\ inP \in [Thread -> Slot \cup {NoSem}] /\ Processi \in Table /\ owner \in Owners
    BY <2>6 DEF SchedTypes, TableTypes
  <2>9. /\ Processi' \in Table /\ owner' \in Owners
        /\ Tables(Processi', owner', active \cup {t}, Last_Pid_Used)
        /\ SameLife(Processi', Processi) /\ Agree(owner', owner, active)
    <3>1. Tables(Processi, owner, active, Last_Pid_Used)
      BY <2>6 DEF Base, Tabled
    <3>2. Me = owner[Thread_In_Esecuzione].task
      BY DEF Me
    <3>3. QED
      BY <2>3, <2>4, <2>5, <2>7, <2>8, <3>1, <3>2, TablesJoin, ZenonT(40)
  <2>10. CodaPronti' = Append(CodaPronti, t) /\ panicked' = panicked
    BY <2>3, Added
  <2>11. /\ inP' \in [Thread -> Slot \cup {NoSem}]
         /\ Scheduling(active', owner', Processi', Status, queue, inP', CodaPronti,
                       Thread_In_Esecuzione)
         /\ Nowhere(t, Processi', queue, CodaPronti, Thread_In_Esecuzione)
    <3>1. Grows(Processi', Status, queue, Processi, Status, queue)
      BY <2>9 DEF Grows, SameLife
    <3>2. QED
      BY <2>3, <2>4, <2>6, <2>8, <2>9, <3>1, SchedGrows
  <2>12. /\ Append(CodaPronti, t) \in Seq(Thread)
         /\ Scheduling(active', owner', Processi', Status, queue, inP', Append(CodaPronti, t),
                       Thread_In_Esecuzione)
    BY <2>3, <2>4, <2>8, <2>11, SchedAdds
  <2>13. Types'
    <3>1. SchedTypes'
      BY <2>3, <2>4, <2>6, <2>10, <2>11, <2>12 DEF SchedTypes
    <3>2. QED
      BY <2>3, <2>6, <2>9, <3>1 DEF Types, TableTypes, MailTypes, PageTypes
  <2>14. Scheduled'
    <3>1. inP'[Thread_In_Esecuzione] = NoSem
      BY <2>3, <2>4, <2>7, <2>8 DEF Fresh
    <3>2. QED
      BY <2>3, <2>7, <2>10, <2>12, <3>1 DEF Scheduled
  <2>15. Tabled'
    BY <2>3, <2>9 DEF Tabled
  <2>16. MessagesCounted'
    <3>1. ASSUME NEW s \in Slot, Processi'[s].active
          PROVE  Processi[s].active /\ Served(s)' = Served(s)
      <4>1. Served(s)' = Awaiting(active', queue, inP', s)
        BY <2>3, <2>7, Constants DEF Served, Awaiting, Sched!SuspendedOn
      <4>2. Served(s)' = Awaiting(active, queue, inP, s)
        BY <2>3, <2>4, <2>8, <4>1, AwaitingGrows
      <4>3. QED
        BY <2>7, <2>9, <3>1, <4>2, ServedIs DEF SameLife
    <3>2. MessagesCounted
      BY DEF PInv
    <3>3. QED
      BY <2>3, <3>1, <3>2, CountKept
  <2>17. Paged' /\ NoMailForTheDead'
    <3>1. Paged /\ NoMailForTheDead
      BY DEF PInv
    <3>2. QED
      BY <2>3, <2>9, <3>1, PagesKept, MailKept DEF SameLife
  <2>18. QED
    BY <2>13, <2>14, <2>15, <2>16, <2>17 DEF PInv, Base
<1>3. QED
  BY <1>1, <1>2

\* A new process, with a new thread that waits for SIGNAL_CONT.
LEMMA Create_Process_From_ELFStep ==
    ASSUME PInv, Create_Process_From_ELF
    PROVE  PInv'
<1>1. CASE FreeSlots = {} \/ FreeThreads = {}
  BY <1>1, ExhaustedStep DEF Create_Process_From_ELF
<1>2. CASE ~(FreeSlots = {} \/ FreeThreads = {})
  <2>1. PICK t : t = Min(FreeThreads)
    OBVIOUS
  <2>2. PICK s : s = Min(FreeSlots)
    OBVIOUS
  <2>3. /\ Syscall /\ Last_Pid_Used < MaxPid
        /\ active' = active \cup {t}
        /\ owner' = OwnedBy(owner, t, s, Last_Pid_Used + 1)
        /\ inP' = Fresh(inP, t)
        /\ Processi' = Created(Processi, s, Last_Pid_Used + 1, t)
        /\ Last_Pid_Used' = Last_Pid_Used + 1
        /\ Status' = [Status EXCEPT ![s] = 0]
        /\ queue' = [queue EXCEPT ![s] = <<>>]
        /\ credit' = [credit EXCEPT ![s] = 0]
        /\ msgqueue' = [msgqueue EXCEPT ![s] = <<>>]
        /\ UNCHANGED <<CodaPronti, Thread_In_Esecuzione, panicked, mapped, freepages,
                       receiving, exhausted>>
    BY <1>2, <2>1, <2>2 DEF Create_Process_From_ELF, Create_Thread, OwnedBy, Fresh, Created
  <2>4. t \in Thread \ active
    <3>1. FreeThreads \in SUBSET Nat
      BY Constants DEF FreeThreads
    <3>2. QED
      BY <1>2, <2>1, <3>1, MinIn DEF FreeThreads
  <2>5. s \in Slot /\ ~Processi[s].active
    <3>1. FreeSlots \in SUBSET Nat
      BY Constants DEF FreeSlots
    <3>2. QED
      BY <1>2, <2>2, <3>1, MinIn DEF FreeSlots
  <2>6. /\ Base /\ Types /\ SchedTypes /\ TableTypes /\ MailTypes
        /\ Scheduling(active, owner, Processi, Status, queue, inP, CodaPronti, Thread_In_Esecuzione)
    BY DEF PInv, Base, Types, Scheduled
  <2>7. /\ Thread_In_Esecuzione \in active /\ kernel_thread \in active
        /\ receiving = NoSem /\ inP[Thread_In_Esecuzione] = NoSem
    BY <2>3, <2>6, RunningFacts, SyscallFacts
  <2>8. /\ active \in SUBSET Thread
        /\ Status \in [Slot -> Nat] /\ queue \in [Slot -> Seq(Thread)] /\ credit \in [Slot -> Int]
        /\ inP \in [Thread -> Slot \cup {NoSem}] /\ Processi \in Table /\ owner \in Owners
        /\ msgqueue \in [Slot -> Seq(Message)] /\ Last_Pid_Used \in Pids
    BY <2>6 DEF SchedTypes, TableTypes, MailTypes
  <2>9. /\ Processi' \in Table /\ owner' \in Owners
        /\ Tables(Processi', owner', active \cup {t}, Last_Pid_Used + 1)
        /\ Processi'[s].active /\ \A r \in Slot : r # s => Processi'[r] = Processi[r]
        /\ Agree(owner', owner, active) /\ \A v \in active : owner[v].task # s
        /\ Last_Pid_Used + 1 \in Pids
    <3>1. Tables(Processi, owner, active, Last_Pid_Used)
      BY <2>6 DEF Base, Tabled
    <3>2. CanCreate(Processi, owner, active, Last_Pid_Used, s, t)
      BY <2>3, <2>4, <2>5, <2>7, <2>8, <3>1 DEF CanCreate
    <3>3. Creates(Processi', owner', Last_Pid_Used + 1, Processi, owner, active, s, t)
      BY <2>3, <3>2, TablesCreate
    <3>4. QED
      BY <3>3 DEF Creates
  <2>10. /\ Status' \in [Slot -> Nat] /\ queue' \in [Slot -> Seq(Thread)]
         /\ credit' \in [Slot -> Int]
         /\ Status'[s] = 0 /\ queue'[s] = <<>>
         /\ \A r \in Slot : r # s => Status'[r] = Status[r] /\ queue'[r] = queue[r]
    <3>1. <<>> \in Seq(Thread)
      OBVIOUS
    <3>2. QED
      BY <2>3, <2>5, <2>8, <3>1
  <2>11. /\ msgqueue' \in [Slot -> Seq(Message)] /\ msgqueue'[s] = <<>>
         /\ \A r \in Slot : r # s => msgqueue'[r] = msgqueue[r]
    <3>1. <<>> \in Seq(Message)
      OBVIOUS
    <3>2. QED
      BY <2>3, <2>5, <2>8, <3>1
  <2>12. /\ inP' \in [Thread -> Slot \cup {NoSem}]
         /\ Scheduling(active', owner', Processi', Status', queue', inP', CodaPronti,
                       Thread_In_Esecuzione)
    <3>1. Grows(Processi', Status', queue', Processi, Status, queue)
      BY <2>9, <2>10 DEF Grows
    <3>2. QED
      BY <2>3, <2>4, <2>6, <2>8, <2>9, <3>1, SchedGrows
  <2>13. Types'
    <3>1. SchedTypes'
      BY <2>3, <2>4, <2>6, <2>10, <2>12 DEF SchedTypes
    <3>2. \A r \in Slot : Len(msgqueue'[r]) < MAX_MESSAGES
      <4>1. Len(<<>>) < MAX_MESSAGES
        BY SizeAssumption
      <4>2. QED
        BY <2>6, <2>11, <4>1 DEF MailTypes
    <3>3. TableTypes' /\ MailTypes'
      BY <2>3, <2>9, <2>11, <3>2 DEF TableTypes, MailTypes
    <3>4. QED
      BY <2>3, <2>6, <3>1, <3>3 DEF Types, PageTypes
  <2>14. Scheduled'
    <3>1. inP'[Thread_In_Esecuzione] = NoSem
      BY <2>3, <2>4, <2>7, <2>8 DEF Fresh
    <3>2. QED
      BY <2>3, <2>7, <2>12, <3>1 DEF Scheduled
  <2>15. Tabled'
    BY <2>3, <2>9 DEF Tabled
  <2>16. MessagesCounted'
    <3>1. ASSUME NEW r \in Slot, Processi'[r].active
          PROVE  Len(msgqueue'[r]) = Status'[r] + Cardinality(Served(r)')
      <4>1. Served(r)' = Awaiting(active', queue', inP', r)
        BY <2>3, <2>7, Constants DEF Served, Awaiting, Sched!SuspendedOn
      <4>2. Served(r)' = Awaiting(active, queue', inP, r)
        <5>1. active' = active \cup {t} /\ inP' = Fresh(inP, t)
          BY <2>3
        <5>2. Awaiting(active \cup {t}, queue', inP', r) = Awaiting(active, queue', inP, r)
          <6>1. \A v \in active : v # t /\ inP'[v] = inP[v]
            BY <2>4, <2>8, <5>1 DEF Fresh
          <6>2. inP'[t] = NoSem /\ r # NoSem
            BY <2>4, <2>8, <5>1, Constants DEF Fresh
          <6>3. QED
            BY <6>1, <6>2 DEF Awaiting
        <5>3. QED
          BY <4>1, <5>1, <5>2
      <4>3. CASE r = s
        <5>1. InOwn(active, owner, inP)
          BY <2>6 DEF Scheduling
        <5>2. Awaiting(active, queue', inP, r) = {}
          BY <2>5, <2>9, <4>3, <5>1, Constants DEF Awaiting, InOwn
        <5>3. Cardinality({}) = 0
          BY FS_EmptySet
        <5>4. Len(<<>>) = 0
          OBVIOUS
        <5>5. QED
          BY <2>10, <2>11, <4>2, <4>3, <5>2, <5>3, <5>4
      <4>4. CASE r # s
        <5>1. Len(msgqueue[r]) = Status[r] + Cardinality(Served(r))
          BY <2>9, <3>1, <4>4 DEF PInv, MessagesCounted
        <5>2. Served(r)' = Served(r)
          BY <2>7, <2>10, <4>2, <4>4, ServedIs DEF Awaiting
        <5>3. QED
          BY <2>10, <2>11, <4>4, <5>1, <5>2
      <4>5. QED
        BY <4>3, <4>4
    <3>2. QED
      BY <3>1 DEF MessagesCounted
  <2>17. Paged'
    <3>1. QueuedOnce(Processi', msgqueue')
      <4>1. DistinctPages(<<>>)
        BY DEF DistinctPages
      <4>2. QED
        BY <2>9, <2>11, <4>1 DEF PInv, Paged, PagesPlaced, QueuedOnce
    <3>2. PICK place : IsPlace(place, Processi, msgqueue, mapped, freepages)
      BY DEF PInv, Paged, PagesPlaced
    <3>3. PagesOf(<<>>) = {}
      BY DEF PagesOf
    <3>4. IsPlace(place, Processi', msgqueue', mapped', freepages')
      <4>1. \A p \in Page : \A r \in Slot :
               Processi'[r].active /\ p \in PagesOf(msgqueue'[r])
                 <=> Processi[r].active /\ p \in PagesOf(msgqueue[r])
        BY <2>5, <2>9, <2>11, <3>3
      <4>2. QED
        BY <2>3, <3>2, <4>1 DEF IsPlace
    <3>5. QED
      BY <3>1, <3>4 DEF Paged, PagesPlaced
  <2>18. NoMailForTheDead'
    <3>1. ASSUME NEW r \in Slot, Processi'[r].active, NEW i \in DOMAIN msgqueue'[r]
          PROVE  msgqueue'[r][i].to = Processi'[r].pid
      <4>1. CASE r = s
        BY <2>11, <3>1, <4>1
      <4>2. CASE r # s
        BY <2>9, <2>11, <3>1, <4>2 DEF PInv, NoMailForTheDead
      <4>3. QED
        BY <4>1, <4>2
    <3>2. QED
      BY <3>1 DEF NoMailForTheDead
  <2>19. QED
    BY <2>13, <2>14, <2>15, <2>16, <2>17, <2>18 DEF PInv, Base
<1>3. QED
  BY <1>1, <1>2

\* recmsg, as far as P(Messages).
LEMMA recmsgStep ==
    ASSUME PInv, recmsg
    PROVE  PInv'
BY recmsgTakes, recmsgWaits DEF recmsg

--------------------------------------------------------------------------------
(* Threads and processes end.                                                  *)

\* The threads X end, the running one among them, and another thread runs.
LEMMA EndsStep ==
    ASSUME Base, Syscall, NEW X, Thread_In_Esecuzione \in X, kernel_thread \notin X,
           active' = active \ X, X \subseteq Thread,
           NEW ready \in Seq(Thread), Sched!Distinct(ready),
           \A t : Sched!InSeq(t, ready) <=> (Sched!InSeq(t, CodaPronti) /\ t \notin X),
           Switch(ready, THREAD_INVALID, inP), Processi' \in Table,
           \A s \in Slot : Processi'[s].active =>
              Processi[s].active /\ \A t \in X : inP[t] # s,
           UNCHANGED <<Status, queue, panicked, owner>>
    PROVE  /\ SchedTypes' /\ Scheduled' /\ receiving' \in Slot \cup {NoSem}
           /\ \A s \in Slot : Processi'[s].active => Served(s)' = Served(s)
<1>1. /\ SchedTypes
      /\ Scheduling(active, owner, Processi, Status, queue, inP, CodaPronti, Thread_In_Esecuzione)
  BY DEF Base, Types, Scheduled
<1>2. /\ Thread_In_Esecuzione # kernel_thread /\ receiving = NoSem
      /\ Sched!InSeq(kernel_thread, CodaPronti)
  BY SyscallFacts
<1>3. /\ CodaPronti \in Seq(Thread) /\ inP \in [Thread -> Slot \cup {NoSem}]
      /\ credit \in [Slot -> Int] /\ active \in SUBSET Thread /\ active' \in SUBSET Thread
  BY <1>1 DEF SchedTypes
<1>4. Dispatched(ready, THREAD_INVALID, inP)
  <2>1. THREAD_INVALID \in Entry /\ ~Sched!InSeq(THREAD_INVALID, ready)
    BY Constants DEF Entry, Sched!InSeq
  <2>2. ready # <<>>
    <3>1. Sched!InSeq(kernel_thread, ready)
      BY <1>2
    <3>2. QED
      BY <3>1 DEF Sched!InSeq
  <2>3. QED
    BY <1>3, <2>1, <2>2, Dispatch
<1>5. \A s \in Slot : Processi'[s].active =>
         Processi[s].active /\ \A t \in X : ~Sched!InSeq(t, queue[s])
  <2>1. WaitersSound(active, owner, Processi, Status, queue, inP, CodaPronti,
                     Thread_In_Esecuzione)
    BY <1>1 DEF Scheduling
  <2>2. \A s \in Slot : Processi[s].active =>
           \A t \in Thread : Sched!InSeq(t, queue[s]) => inP[t] = s
    BY <2>1 DEF WaitersSound, Waits
  <2>3. QED
    BY <2>2
<1>6. Scheduling(active \ X, owner, Processi', Status, queue, inP, ready, THREAD_INVALID)
  <2>1. PICK tab : tab = Processi'
    OBVIOUS
  <2>2. PICK act2 : act2 = active \ X
    OBVIOUS
  <2>3. Scheduling(act2, owner, tab, Status, queue, inP, ready, THREAD_INVALID)
    BY <1>1, <1>2, <1>3, <1>5, <2>1, <2>2, SchedEnds
  <2>4. QED
    BY <2>1, <2>2, <2>3
<1>7. Scheduling(active', owner', Processi', Status', queue', inP, ready, THREAD_INVALID)
  BY <1>6
<1>8. SchedTypes'
  BY <1>1, <1>3, <1>4 DEF SchedTypes, Dispatched
<1>9. Scheduled'
  BY <1>3, <1>4, <1>7, AfterDispatch
<1>10. receiving' \in Slot \cup {NoSem}
  BY <1>3, <1>4 DEF Dispatched
<1>11. ASSUME NEW s \in Slot, Processi'[s].active
       PROVE  Served(s)' = Served(s)
  <2>1. Served(s)' = Awaiting(active', queue', inP, s)
    BY <1>3, <1>4, <1>7, <1>11, ServedDispatch
  <2>2. Served(s) = Awaiting(active, queue, inP, s)
    BY <1>2, ServedIs
  <2>3. \A t \in X : inP[t] # s
    BY <1>11
  <2>4. QED
    BY <2>1, <2>2, <2>3 DEF Awaiting
<1>12. QED
  BY <1>8, <1>9, <1>10, <1>11

\* The running thread ends, and its entry in the table of its process with it; so
\* Exit_Thread does not panic.
LEMMA Exit_ThreadStep ==
    ASSUME PInv, Exit_Thread
    PROVE  PInv' /\ ~panicked'
<1>1. Base /\ Types /\ SchedTypes /\ TableTypes /\ Tabled /\ Syscall
  BY DEF PInv, Base, Types, Exit_Thread
<1>2. PICK T : T = Thread_In_Esecuzione
  OBVIOUS
<1>3. PICK tab : tab = Unlist(Processi, Me, T)
  OBVIOUS
<1>4. /\ T \in Thread /\ T \in active /\ T # kernel_thread /\ kernel_thread \in active
      /\ Me \in Slot /\ Processi[Me].active /\ Me # kernel_slot
      /\ OnlyOwn(Processi, owner, active, Me) /\ inP[T] = NoSem
      /\ ~panicked /\ Sched!Distinct(CodaPronti) /\ owner[T].task = Me
      /\ Lists(Processi, Me, T)
  BY <1>1, <1>2, RunningFacts, SyscallFacts DEF Me
<1>5. /\ active \in SUBSET Thread /\ CodaPronti \in Seq(Thread)
      /\ Processi \in Table /\ owner \in Owners
  BY <1>1 DEF SchedTypes, TableTypes
<1>6. tab \in Table /\ Clears(tab, Processi, T) /\ \A r \in Slot : r # Me => tab[r] = Processi[r]
  BY <1>3, <1>4, <1>5, UnlistClears
<1>7. /\ tab # Processi
      /\ \E i \in 1..MAX_THREADS_PER_PROCESS :
            Processi[Me].threads[i] = T /\ tab[Me].threads[i] = THREAD_INVALID
  BY <1>3, <1>4, <1>5, UnlistClears DEF Lists
<1>8. /\ Processi' = tab /\ active' = active \ {T}
      /\ Switch(Without(CodaPronti, T), THREAD_INVALID, inP)
      /\ UNCHANGED <<panicked, Status, queue, Last_Pid_Used, owner, msgqueue, mapped, freepages,
                     exhausted>>
  BY <1>2, <1>3, <1>7 DEF Exit_Thread
<1>9. \A s \in Slot : /\ tab[s].active = Processi[s].active /\ tab[s].pid = Processi[s].pid
                      /\ \A i \in 1..MAX_THREADS_PER_PROCESS :
                            \/ tab[s].threads[i] = Processi[s].threads[i]
                            \/ Processi[s].threads[i] = T /\ tab[s].threads[i] = THREAD_INVALID
  BY <1>6 DEF Clears, ClearsIn
<1>10. Tables(tab, owner, active \ {T}, Last_Pid_Used)
  <2>1. Tables(Processi, owner, active, Last_Pid_Used)
    BY <1>1 DEF Tabled
  <2>2. PICK act2 : act2 = active \ {T}
    OBVIOUS
  <2>3. \A s \in Slot : /\ tab[s].pid = Processi[s].pid
                        /\ tab[s].active => Processi[s].active
                        /\ \A i \in 1..MAX_THREADS_PER_PROCESS :
                              \/ tab[s].threads[i] = Processi[s].threads[i]
                              \/ tab[s].threads[i] = THREAD_INVALID
    BY <1>9
  <2>4. ASSUME NEW t \in act2
        PROVE  tab[owner[t].task].active /\ Lists(tab, owner[t].task, t)
    <3>1. t \in active /\ t # T
      BY <2>2
    <3>2. owner[t].task \in Slot /\ Processi[owner[t].task].active
          /\ Lists(Processi, owner[t].task, t)
      BY <1>5, <2>1, <3>1, OwnerFacts
    <3>3. QED
      BY <1>9, <3>1, <3>2 DEF Lists
  <2>5. ASSUME NEW s \in Slot, NEW u \in act2, owner[u].task = s,
               NEW i \in 1..MAX_THREADS_PER_PROCESS
        PROVE  tab[s].threads[i] \in act2 \cup {THREAD_INVALID}
    <3>1. OnlyOwn(Processi, owner, active, s)
      BY <1>5, <2>1, <2>2, <2>5, OwnerFacts
    <3>2. CASE s = Me
      BY <1>4, <1>7, <1>9, <2>2, <3>2 DEF OnlyOwn
    <3>3. CASE s # Me
      BY <1>4, <1>9, <2>2, <3>1, <3>3 DEF OnlyOwn
    <3>4. QED
      BY <3>2, <3>3
  <2>6. act2 \in SUBSET active /\ tab[kernel_slot].active
    BY <1>9, <2>1, <2>2, Constants DEF Tables, Owned
  <2>7. Tables(tab, owner, act2, Last_Pid_Used)
    BY <1>5, <1>6, <2>1, <2>3, <2>4, <2>5, <2>6, TablesShrink
  <2>8. QED
    BY <2>2, <2>7
<1>11. /\ SchedTypes' /\ Scheduled' /\ receiving' \in Slot \cup {NoSem}
       /\ \A s \in Slot : Processi'[s].active => Served(s)' = Served(s)
  <2>1. PICK X : X = {T}
    OBVIOUS
  <2>2. PICK ready : ready = Without(CodaPronti, T)
    OBVIOUS
  <2>3. /\ ready \in Seq(Thread) /\ Sched!Distinct(ready)
        /\ \A t : Sched!InSeq(t, ready) <=> (Sched!InSeq(t, CodaPronti) /\ t \notin X)
    BY <1>4, <1>5, <2>1, <2>2, InWithout
  <2>4. /\ Thread_In_Esecuzione \in X /\ kernel_thread \notin X /\ X \subseteq Thread
        /\ active' = active \ X /\ Switch(ready, THREAD_INVALID, inP)
    BY <1>2, <1>4, <1>8, <2>1, <2>2
  <2>5. \A s \in Slot : Processi'[s].active =>
           Processi[s].active /\ \A t \in X : inP[t] # s
    BY <1>4, <1>8, <1>9, <2>1, Constants
  <2>6. Processi' \in Table /\ UNCHANGED <<Status, queue, panicked, owner>>
    BY <1>6, <1>8
  <2>7. QED
    BY <1>1, <2>3, <2>4, <2>5, <2>6, EndsStep
<1>12. Types'
  BY <1>1, <1>6, <1>8, <1>11 DEF Types, TableTypes, MailTypes, PageTypes
<1>13. Tabled'
  BY <1>8, <1>10 DEF Tabled
<1>14. MessagesCounted' /\ Paged' /\ NoMailForTheDead'
  <2>1. MessagesCounted /\ Paged /\ NoMailForTheDead
    BY DEF PInv
  <2>2. MessagesCounted'
    BY <1>8, <1>9, <1>11, <2>1, CountKept
  <2>3. Paged' /\ NoMailForTheDead'
    BY <1>8, <1>9, <2>1, PagesKept, MailKept
  <2>4. QED
    BY <2>2, <2>3
<1>15. QED
  BY <1>4, <1>8, <1>11, <1>12, <1>13, <1>14 DEF PInv, Base

--------------------------------------------------------------------------------
(* Signals.                                                                    *)

\* A signal ends threads that are outside recmsg, changes who is ready and what the
\* tables say, and leaves the rest alone.
LEMMA SignalStep ==
    ASSUME PInv, Syscall,
           UNCHANGED <<Thread_In_Esecuzione, Status, queue, inP, credit, Last_Pid_Used, owner,
                       msgqueue, mapped, freepages, receiving, panicked>>,
           NEW X, active' = active \ X, \A t \in X : inP[t] = NoSem,
           CodaPronti' \in Seq(Thread), exhausted' \in BOOLEAN, Processi' \in Table,
           SameLife(Processi', Processi),
           Scheduling(active', owner, Processi', Status, queue, inP, CodaPronti',
                      Thread_In_Esecuzione),
           Tables(Processi', owner, active', Last_Pid_Used)
    PROVE  PInv'
<1>1. Base /\ Types /\ SchedTypes /\ Scheduled /\ receiving = NoSem
  BY SyscallFacts DEF PInv, Base, Types
<1>2. Types'
  BY <1>1 DEF Types, SchedTypes, TableTypes, MailTypes, PageTypes
<1>3. Scheduled' /\ Tabled'
  BY <1>1 DEF Scheduled, Tabled
<1>4. MessagesCounted'
  <2>1. ASSUME NEW s \in Slot, Processi'[s].active
        PROVE  Processi[s].active /\ Served(s)' = Served(s)
    <3>1. Served(s)' = Awaiting(active', queue, inP, s)
      BY <1>1, Constants DEF Served, Awaiting, Sched!SuspendedOn
    <3>2. Served(s) = Awaiting(active, queue, inP, s)
      BY <1>1, ServedIs
    <3>3. Awaiting(active', queue, inP, s) = Awaiting(active, queue, inP, s)
      BY Constants DEF Awaiting
    <3>4. QED
      BY <2>1, <3>1, <3>2, <3>3 DEF SameLife
  <2>2. MessagesCounted
    BY DEF PInv
  <2>3. QED
    BY <2>1, <2>2, CountKept
<1>5. Paged' /\ NoMailForTheDead'
  <2>1. Paged /\ NoMailForTheDead
    BY DEF PInv
  <2>2. QED
    BY <2>1, PagesKept, MailKept DEF SameLife
<1>6. QED
  BY <1>2, <1>3, <1>4, <1>5 DEF PInv, Base

\* What every signal finds: the thread it is for is not the idle thread.
LEMMA SignalFacts ==
    ASSUME PInv, NEW s \in Slot, NEW sig, Signal(s, sig)
    PROVE  /\ Base /\ Types /\ SchedTypes /\ TableTypes /\ Syscall /\ s # kernel_slot
           /\ Scheduling(active, owner, Processi, Status, queue, inP, CodaPronti,
                         Thread_In_Esecuzione)
           /\ Tables(Processi, owner, active, Last_Pid_Used)
           /\ active \in SUBSET Thread /\ CodaPronti \in Seq(Thread)
           /\ Processi \in Table /\ owner \in Owners
           /\ Sched!Distinct(CodaPronti)
           /\ 1 \in 1..MAX_THREADS_PER_PROCESS
           /\ First_Thread(s) \in Thread /\ First_Thread(s) # kernel_thread
           /\ SameLife(Processi, Processi) /\ exhausted \in BOOLEAN
           /\ UNCHANGED <<Thread_In_Esecuzione, Status, queue, inP, credit, Last_Pid_Used, owner,
                          msgqueue, mapped, freepages, receiving>>
<1>1. /\ Base /\ Types /\ SchedTypes /\ TableTypes /\ Tabled
      /\ Scheduling(active, owner, Processi, Status, queue, inP, CodaPronti,
                    Thread_In_Esecuzione)
  BY DEF PInv, Base, Types, Scheduled
<1>2. 1 \in 1..MAX_THREADS_PER_PROCESS
  BY SizeAssumption
<1>3. First_Thread(s) \in Thread
  BY <1>1, <1>2 DEF Signal, First_Thread, TableTypes, Table, Process, Entry
<1>4. First_Thread(s) # kernel_thread
  BY <1>1, <1>2 DEF Signal, First_Thread, Tabled, Tables, Owned, Lists
<1>5. QED
  BY <1>1, <1>2, <1>3, <1>4
     DEF Signal, Tabled, SchedTypes, TableTypes, Types, SameLife, Scheduling, ReadySound

\* SIGNAL_CONT of a thread that is parked.
LEMMA SIGNAL_CONTStep ==
    ASSUME PInv, Disciplined, NEW s \in Slot, SIGNAL_CONT(s), ~panicked'
    PROVE  PInv'
<1>1. PICK t : t = First_Thread(s)
  OBVIOUS
<1>2. /\ Signal(s, "CONT") /\ UNCHANGED <<active, Processi, exhausted>>
      /\ Parked(t) /\ Sched!Add_Thread_To_CodaPronti(t)
  BY <1>1 DEF SIGNAL_CONT, MayContinue
<1>3. CodaPronti' = Append(CodaPronti, t) /\ panicked' = panicked
  BY <1>2, Added
<1>4. t \in Thread /\ t \in active /\ Nowhere(t, Processi, queue, CodaPronti, Thread_In_Esecuzione)
  BY <1>1, <1>2, SignalFacts DEF Parked, Nowhere, Sched!Ready, Sched!SuspendedOn
<1>5. /\ Append(CodaPronti, t) \in Seq(Thread)
      /\ Scheduling(active, owner, Processi, Status, queue, inP, Append(CodaPronti, t),
                    Thread_In_Esecuzione)
  BY <1>2, <1>4, SignalFacts, SchedAdds
<1>6. PICK X : X = {}
  OBVIOUS
<1>7. active' = active \ X /\ \A v \in X : inP[v] = NoSem
  BY <1>2, <1>6
<1>8. /\ Syscall
      /\ UNCHANGED <<Thread_In_Esecuzione, Status, queue, inP, credit, Last_Pid_Used, owner,
                     msgqueue, mapped, freepages, receiving, panicked>>
      /\ CodaPronti' \in Seq(Thread) /\ exhausted' \in BOOLEAN /\ Processi' \in Table
      /\ SameLife(Processi', Processi)
      /\ Scheduling(active', owner, Processi', Status, queue, inP, CodaPronti',
                    Thread_In_Esecuzione)
      /\ Tables(Processi', owner, active', Last_Pid_Used)
  BY <1>2, <1>3, <1>5, SignalFacts
<1>9. QED
  BY <1>7, <1>8, SignalStep

\* SIGNAL_STOP, whoever it is for: the idle thread is not, and the others need not be
\* ready.
LEMMA SIGNAL_STOPStep ==
    ASSUME PInv, NEW s \in Slot, SIGNAL_STOP(s)
    PROVE  PInv' /\ panicked' = panicked
<1>1. PICK t : t = First_Thread(s)
  OBVIOUS
<1>2. PICK ready : ready = Without(CodaPronti, t)
  OBVIOUS
<1>3. /\ Signal(s, "STOP") /\ CodaPronti' = ready
      /\ UNCHANGED <<active, panicked, Processi, exhausted>>
  BY <1>1, <1>2 DEF SIGNAL_STOP
<1>4. /\ ready \in Seq(Thread) /\ Sched!Distinct(ready)
      /\ \A v : Sched!InSeq(v, ready) <=> (Sched!InSeq(v, CodaPronti) /\ v \notin {t})
  BY <1>2, <1>3, SignalFacts, InWithout
<1>5. Scheduling(active, owner, Processi, Status, queue, inP, ready, Thread_In_Esecuzione)
  <2>1. PICK X : X = {}
    OBVIOUS
  <2>2. PICK Y : Y = {t}
    OBVIOUS
  <2>3. /\ active = active \ X /\ kernel_thread \notin X /\ kernel_thread \notin Y
        /\ X \subseteq Y /\ Thread_In_Esecuzione \notin X
        /\ \A v : Sched!InSeq(v, ready) <=> (Sched!InSeq(v, CodaPronti) /\ v \notin Y)
        /\ \A r \in Slot : Processi[r].active =>
              Processi[r].active /\ \A v \in X : ~Sched!InSeq(v, queue[r])
    BY <1>1, <1>3, <1>4, <2>1, <2>2, SignalFacts
  <2>4. QED
    BY <1>3, <1>4, <2>3, SignalFacts, SchedEnds
<1>6. PICK X : X = {}
  OBVIOUS
<1>7. active' = active \ X /\ \A v \in X : inP[v] = NoSem
  BY <1>3, <1>6
<1>8. /\ Syscall
      /\ UNCHANGED <<Thread_In_Esecuzione, Status, queue, inP, credit, Last_Pid_Used, owner,
                     msgqueue, mapped, freepages, receiving, panicked>>
      /\ CodaPronti' \in Seq(Thread) /\ exhausted' \in BOOLEAN /\ Processi' \in Table
      /\ SameLife(Processi', Processi)
      /\ Scheduling(active', owner, Processi', Status, queue, inP, CodaPronti',
                    Thread_In_Esecuzione)
      /\ Tables(Processi', owner, active', Last_Pid_Used)
  BY <1>3, <1>4, <1>5, SignalFacts
<1>9. QED
  BY <1>3, <1>7, <1>8, SignalStep

\* A signal that is only queued.
LEMMA Signal_QueuedStep ==
    ASSUME PInv, NEW s \in Slot, Signal_Queued(s)
    PROVE  PInv' /\ panicked' = panicked
<1>1. Signal(s, "TERM") /\ UNCHANGED <<active, CodaPronti, panicked>>
  BY DEF Signal_Queued
<1>2. exhausted' \in BOOLEAN
  BY <1>1, SignalFacts DEF Signal_Queued
<1>3. /\ Processi' \in Table
      /\ \A r \in Slot : /\ Processi'[r].active = Processi[r].active
                         /\ Processi'[r].pid = Processi[r].pid
                         /\ Processi'[r].threads = Processi[r].threads
  <2>1. CASE Processi[s].signals = MAX_SIGNALS_PENDING - 1
    BY <1>1, <2>1, SignalFacts DEF Signal_Queued
  <2>2. CASE Processi[s].signals # MAX_SIGNALS_PENDING - 1
    <3>1. PICK n : n = Processi[s].signals + 1
      OBVIOUS
    <3>2. PICK e : e = [Processi[s] EXCEPT !.signals = n]
      OBVIOUS
    <3>3. Processi' = [Processi EXCEPT ![s] = e]
      BY <2>2, <3>1, <3>2 DEF Signal_Queued
    <3>4. Processi[s] \in Process
      BY <1>1, SignalFacts DEF Table
    <3>5. n \in 0..MAX_SIGNALS_PENDING - 1
      BY <2>2, <3>1, <3>4, SizeAssumption DEF Process
    <3>6. /\ e \in Process /\ e.active = Processi[s].active /\ e.pid = Processi[s].pid
          /\ e.threads = Processi[s].threads
      BY <3>2, <3>4, <3>5 DEF Process
    <3>7. QED
      BY <1>1, <3>3, <3>6, SignalFacts DEF Table
  <2>3. QED
    BY <2>1, <2>2
<1>4. Tables(Processi', owner, active, Last_Pid_Used)
  <2>1. PICK tab2 : tab2 = Processi'
    OBVIOUS
  <2>2. Tables(tab2, owner, active, Last_Pid_Used)
    BY <1>1, <1>3, <2>1, SignalFacts, TablesSame
  <2>3. QED
    BY <2>1, <2>2
<1>5. Scheduling(active, owner, Processi', Status, queue, inP, CodaPronti, Thread_In_Esecuzione)
  BY <1>1, <1>3, SignalFacts, SchedCounts
<1>6. PICK X : X = {}
  OBVIOUS
<1>7. active' = active \ X /\ \A v \in X : inP[v] = NoSem
  BY <1>1, <1>6
<1>8. /\ Syscall
      /\ UNCHANGED <<Thread_In_Esecuzione, Status, queue, inP, credit, Last_Pid_Used, owner,
                     msgqueue, mapped, freepages, receiving, panicked>>
      /\ CodaPronti' \in Seq(Thread)
      /\ SameLife(Processi', Processi)
      /\ Scheduling(active', owner, Processi', Status, queue, inP, CodaPronti',
                    Thread_In_Esecuzione)
      /\ Tables(Processi', owner, active', Last_Pid_Used)
  BY <1>1, <1>3, <1>4, <1>5, SignalFacts DEF SameLife
<1>9. QED
  BY <1>1, <1>2, <1>3, <1>7, <1>8, SignalStep

\* SIGNAL_DESTROY of a process that has one parked thread outside recmsg, which is not
\* told by its pid from the slot of the caller.
LEMMA SIGNAL_DESTROYStep ==
    ASSUME PInv, Disciplined, NEW s \in Slot, SIGNAL_DESTROY(s), ~panicked',
           owner[First_Thread(s)].pid # Me
    PROVE  PInv'
<1>1. PICK t : t = First_Thread(s)
  OBVIOUS
<1>2. PICK T : T = Thread_In_Esecuzione
  OBVIOUS
<1>3. PICK tab : tab = Processi'
  OBVIOUS
<1>4. PICK r : r = owner[t].pid
  OBVIOUS
<1>5. PICK act2 : act2 = active \ {t}
  OBVIOUS
<1>6. PICK ready : ready = Without(CodaPronti, t)
  OBVIOUS
<1>7. /\ Signal(s, "DESTROY") /\ exhausted' = exhausted /\ r # Me
      /\ t # T /\ t \in active /\ owner[t].task = s /\ inP[t] = NoSem
      /\ \A i \in 2..MAX_THREADS_PER_PROCESS : Processi[s].threads[i] = THREAD_INVALID
  BY <1>1, <1>2, <1>4 DEF SIGNAL_DESTROY, MayDestroy, Parked
<1>8. /\ active' = act2 /\ CodaPronti' = ready /\ panicked' = panicked
      /\ tab = Unlist(Processi, r, T)
  BY <1>1, <1>2, <1>3, <1>4, <1>5, <1>6, <1>7 DEF SIGNAL_DESTROY, Destroy_Unlists
<1>9. /\ t \in Thread /\ t # kernel_thread /\ T \in active /\ T \in Thread
      /\ Me \in Slot /\ owner[T].task = Me /\ kernel_thread \in active
      /\ act2 \in SUBSET active
  BY <1>1, <1>2, <1>5, <1>7, SignalFacts, RunningFacts DEF Me
<1>10. Tables(Processi, owner, active, Last_Pid_Used)
  BY <1>7, SignalFacts
<1>11. /\ active \in SUBSET Thread /\ Processi \in Table /\ owner \in Owners
       /\ CodaPronti \in Seq(Thread) /\ Sched!Distinct(CodaPronti)
  BY <1>7, SignalFacts
<1>12. r \in Slot
  BY <1>4, <1>7, <1>10, <1>11, OwnerFacts
<1>13. /\ tab \in Table /\ Clears(tab, Processi, T)
       /\ \A v \in Slot : v # r => tab[v] = Processi[v]
  BY <1>8, <1>11, <1>12, UnlistClears
<1>14. \A v \in Slot : /\ tab[v].active = Processi[v].active /\ tab[v].pid = Processi[v].pid
                       /\ \A i \in 1..MAX_THREADS_PER_PROCESS :
                             \/ tab[v].threads[i] = Processi[v].threads[i]
                             \/ Processi[v].threads[i] = T /\ tab[v].threads[i] = THREAD_INVALID
  BY <1>13 DEF Clears, ClearsIn
<1>15. Tables(tab, owner, act2, Last_Pid_Used)
  <2>1. \A v \in Slot : /\ tab[v].pid = Processi[v].pid
                        /\ tab[v].active => Processi[v].active
                        /\ \A i \in 1..MAX_THREADS_PER_PROCESS :
                              \/ tab[v].threads[i] = Processi[v].threads[i]
                              \/ tab[v].threads[i] = THREAD_INVALID
    BY <1>14
  <2>2. ASSUME NEW u \in act2
        PROVE  tab[owner[u].task].active /\ Lists(tab, owner[u].task, u)
    <3>1. u \in active
      BY <1>5
    <3>2. owner[u].task \in Slot /\ Processi[owner[u].task].active
          /\ Lists(Processi, owner[u].task, u)
      BY <1>10, <1>11, <3>1, OwnerFacts
    <3>3. CASE u = T
      BY <1>7, <1>9, <1>13, <3>2, <3>3 DEF Lists
    <3>4. CASE u # T
      BY <1>14, <3>2, <3>4 DEF Lists
    <3>5. QED
      BY <3>3, <3>4
  <2>3. ASSUME NEW v \in Slot, NEW u \in act2, owner[u].task = v,
               NEW i \in 1..MAX_THREADS_PER_PROCESS
        PROVE  tab[v].threads[i] \in act2 \cup {THREAD_INVALID}
    <3>1. OnlyOwn(Processi, owner, active, v) /\ Lists(Processi, v, u)
      BY <1>9, <1>10, <1>11, <2>3, OwnerFacts
    <3>2. v # s
      <4>1. ASSUME v = s PROVE FALSE
        <5>1. u = Processi[s].threads[1]
          <6>1. u \in Thread /\ u # THREAD_INVALID
            BY <1>9, <1>11, Constants
          <6>2. PICK j \in 1..MAX_THREADS_PER_PROCESS : Processi[s].threads[j] = u
            BY <3>1, <4>1 DEF Lists
          <6>3. j = 1 \/ j \in 2..MAX_THREADS_PER_PROCESS
            BY SizeAssumption
          <6>4. QED
            BY <1>7, <6>1, <6>2, <6>3
        <5>2. QED
          BY <1>1, <1>5, <5>1 DEF First_Thread
      <4>2. QED
        BY <4>1
    <3>3. Processi[v].threads[i] \in act2 \cup {THREAD_INVALID}
      BY <1>5, <1>7, <3>1, <3>2 DEF OnlyOwn
    <3>4. QED
      BY <1>14, <3>3
  <2>4. tab[kernel_slot].active
    BY <1>10, <1>14, Constants DEF Tables, Owned
  <2>5. QED
    BY <1>9, <1>10, <1>11, <1>13, <2>1, <2>2, <2>3, <2>4, TablesShrink
<1>16. Scheduling(act2, owner, tab, Status, queue, inP, ready, Thread_In_Esecuzione)
  <2>1. PICK X : X = {t}
    OBVIOUS
  <2>2. Sched!Distinct(ready)
        /\ \A v : Sched!InSeq(v, ready) <=> (Sched!InSeq(v, CodaPronti) /\ v \notin X)
    BY <1>6, <1>11, <2>1, InWithout
  <2>3. Scheduling(active, owner, Processi, Status, queue, inP, CodaPronti, Thread_In_Esecuzione)
    BY <1>7, SignalFacts
  <2>4. \A v \in Slot : tab[v].active =>
           Processi[v].active /\ \A w \in X : ~Sched!InSeq(w, queue[v])
    <3>1. \A v \in Slot : Processi[v].active => ~Sched!InSeq(t, queue[v])
      BY <1>7, <1>9, <2>3, Constants DEF Scheduling, WaitersSound, Waits
    <3>2. QED
      BY <1>14, <2>1, <3>1
  <2>5. act2 = active \ X /\ kernel_thread \notin X /\ Thread_In_Esecuzione \notin X
    BY <1>2, <1>5, <1>7, <1>9, <2>1
  <2>6. QED
    BY <1>11, <2>2, <2>3, <2>4, <2>5, SchedEnds
<1>17. PICK X : X = {t}
  OBVIOUS
<1>18. active' = active \ X /\ \A v \in X : inP[v] = NoSem
  BY <1>5, <1>7, <1>8, <1>17
<1>19. ready \in Seq(Thread)
  BY <1>6, <1>11, InWithout
<1>20. /\ Syscall
       /\ UNCHANGED <<Thread_In_Esecuzione, Status, queue, inP, credit, Last_Pid_Used, owner,
                      msgqueue, mapped, freepages, receiving, panicked>>
       /\ CodaPronti' \in Seq(Thread) /\ exhausted' \in BOOLEAN /\ Processi' \in Table
       /\ SameLife(Processi', Processi)
       /\ Scheduling(active', owner, Processi', Status, queue, inP, CodaPronti',
                     Thread_In_Esecuzione)
       /\ Tables(Processi', owner, active', Last_Pid_Used)
  BY <1>3, <1>7, <1>8, <1>13, <1>14, <1>15, <1>16, <1>19, SignalFacts DEF SameLife
<1>21. QED
  BY <1>18, <1>20, SignalStep

--------------------------------------------------------------------------------
(* Exit_Process.                                                               *)

\* The state of its loop, what it does with an entry that holds u, and when it has
\* destroyed the threads D.
Turn == [table : Table, ready : {q \in Seq(Thread) : Sched!Distinct(q)}]
Destroys(s, u) ==
    IF u \in {THREAD_INVALID, Thread_In_Esecuzione} THEN s
    ELSE [table |-> Destroy_Unlists(s.table, u), ready |-> Without(s.ready, u)]
Destroyed(s, D) ==
    /\ s \in Turn /\ Clears(s.table, Processi, Thread_In_Esecuzione)
    /\ \A v : Sched!InSeq(v, s.ready) <=> (Sched!InSeq(v, CodaPronti) /\ v \notin D)

\* A turn of the loop keeps the types, and only clears entries of the running thread.
LEMMA DestroysTyped ==
    ASSUME Types, NEW u \in Entry, NEW s \in Turn
    PROVE  /\ Destroys(s, u) \in Turn
           /\ \A D : Destroyed(s, D) =>
                Destroyed(Destroys(s, u), D \cup ({u} \ {THREAD_INVALID, Thread_In_Esecuzione}))
<1> DEFINE T == Thread_In_Esecuzione
           e == [table |-> Unlist(s.table, owner[u].pid, T), ready |-> Without(s.ready, u)]
<1>1. s.table \in Table /\ s.ready \in Seq(Thread) /\ Sched!Distinct(s.ready)
  BY DEF Turn
<1>2. CASE u \in {THREAD_INVALID, T}
  <2>1. Destroys(s, u) = s
    BY <1>2 DEF Destroys
  <2>2. \A D : D \cup ({u} \ {THREAD_INVALID, T}) = D
    BY <1>2
  <2>3. QED
    BY <2>1, <2>2
<1>3. CASE u \notin {THREAD_INVALID, T}
  <2>1. u \in Thread /\ owner[u].pid \in Slot
    BY <1>3, SizeAssumption DEF Entry, Types, TableTypes, Owners, Pids, Slot
  <2>2. Destroys(s, u) = e
    BY <1>3 DEF Destroys, Destroy_Unlists
  <2>3. e.table \in Table /\ Clears(e.table, s.table, T)
    BY <1>1, <2>1, UnlistClears
  <2>4. /\ e.ready \in Seq(Thread) /\ Sched!Distinct(e.ready)
        /\ \A v : Sched!InSeq(v, e.ready) <=> (Sched!InSeq(v, s.ready) /\ v # u)
    BY <1>1, InWithout
  <2>5. e \in Turn
    BY <2>3, <2>4 DEF Turn
  <2>6. ASSUME NEW D, Destroyed(s, D)
        PROVE  Destroyed(e, D \cup ({u} \ {THREAD_INVALID, T}))
    <3>1. Clears(e.table, Processi, T)
      <4> HIDE DEF e, T
      <4>1. Clears(s.table, Processi, T)
        BY <2>6 DEF Destroyed, T
      <4>2. QED
        BY <2>3, <4>1 DEF Clears, ClearsIn
    <3>2. \A v : Sched!InSeq(v, e.ready)
                   <=> (Sched!InSeq(v, CodaPronti) /\ v \notin D /\ v # u)
      <4> HIDE DEF e
      <4>1. QED
        BY <2>4, <2>6 DEF Destroyed
    <3>3. \A v : v \in D \cup ({u} \ {THREAD_INVALID, T}) <=> (v \in D \/ v = u)
      BY <1>3
    <3> HIDE DEF e
    <3>4. QED
      BY <2>5, <3>1, <3>2, <3>3 DEF Destroyed
  <2> HIDE DEF e
  <2>7. QED
    BY <2>2, <2>5, <2>6
<1>4. QED
  BY <1>2, <1>3

\* The loop has a run, so DestroyOthers is the end of one.
LEMMA DestroyRun ==
    ASSUME Base
    PROVE  \E g : /\ g[0] = [table |-> Processi, ready |-> CodaPronti]
                  /\ \A k \in 1..MAX_THREADS_PER_PROCESS :
                        g[k] = Destroys(g[k - 1], Processi[Me].threads[k])
                  /\ DestroyOthers = g[MAX_THREADS_PER_PROCESS]
<1> DEFINE mine == Processi[Me].threads
           n == MAX_THREADS_PER_PROCESS
           t0 == [table |-> Processi, ready |-> CodaPronti]
           Run(g) == g = [k \in 0..n |->
               IF k = 0 THEN t0
               ELSE IF mine[k] \in {THREAD_INVALID, Thread_In_Esecuzione} THEN g[k - 1]
               ELSE [table |-> Destroy_Unlists(g[k - 1].table, mine[k]),
                     ready |-> Without(g[k - 1].ready, mine[k])]]
           F == [k \in 1..n |-> [t \in Turn |-> Destroys(t, mine[k])]]
<1>1. t0 \in Turn
  BY RunningFacts DEF Base, Types, TableTypes, SchedTypes, Turn
<1>2. n \in Nat /\ \A k \in 1..n : mine[k] \in Entry
  BY SizeAssumption, RunningFacts DEF Base, Types, TableTypes, Table, Process
<1>3. F \in [1..n -> [Turn -> Turn]]
  BY <1>2, DestroysTyped DEF Base
<1>4. \E g \in [0..n -> Turn] : g[0] = t0 /\ \A k \in 1..n : g[k] = F[k][g[k - 1]]
  <2>1. t0 \in Turn /\ n \in Nat /\ F \in [1..n -> [Turn -> Turn]]
    BY <1>1, <1>2, <1>3
  <2> HIDE DEF F, t0, n
  <2>2. QED
    BY <2>1, LoopExists, SMTT(20)
<1>5. \E g : Run(g)
  <2>1. PICK g \in [0..n -> Turn] : g[0] = t0 /\ \A k \in 1..n : g[k] = F[k][g[k - 1]]
    BY <1>4
  <2> HIDE DEF t0
  <2>2. ASSUME NEW k \in 0..n
        PROVE  g[k] = IF k = 0 THEN t0
                      ELSE IF mine[k] \in {THREAD_INVALID, Thread_In_Esecuzione} THEN g[k - 1]
                      ELSE [table |-> Destroy_Unlists(g[k - 1].table, mine[k]),
                            ready |-> Without(g[k - 1].ready, mine[k])]
    <3>1. CASE k = 0
      BY <2>1, <3>1
    <3>2. CASE k # 0
      <4>1. k \in 1..n /\ k - 1 \in 0..n
        BY <1>2, <3>2
      <4>2. g[k] = F[k][g[k - 1]] /\ g[k - 1] \in Turn
        BY <2>1, <4>1
      <4>3. F[k][g[k - 1]] = Destroys(g[k - 1], mine[k])
        BY <4>1, <4>2
      <4> HIDE DEF F
      <4>4. QED
        BY <3>2, <4>2, <4>3 DEF Destroys
    <3>3. QED
      BY <3>1, <3>2
  <2>3. Run(g)
    BY <2>1, <2>2
  <2>4. QED
    BY <2>3
<1> DEFINE turn == CHOOSE g : Run(g)
<1>6. Run(turn)
  BY <1>5, Zenon
<1>7. DestroyOthers = turn[n]
  BY Zenon DEF DestroyOthers
<1> HIDE DEF turn, t0
<1>8. turn[0] = t0 /\ \A k \in 1..n : turn[k] = Destroys(turn[k - 1], mine[k])
  BY <1>2, <1>6 DEF Destroys
<1>9. QED
  BY <1>7, <1>8 DEF t0

\* What the loop of Exit_Process leaves: the threads listed in the process are out of
\* CodaPronti, but for the running one, and the process tables have lost entries of the
\* running thread only.
LEMMA DestroyOthersIs ==
    ASSUME Base
    PROVE  Destroyed(DestroyOthers,
              {u \in Thread : Lists(Processi, Me, u)} \ {Thread_In_Esecuzione})
<1> DEFINE mine == Processi[Me].threads
           n == MAX_THREADS_PER_PROCESS
           D(k) == {u \in Thread : \E j \in 1..k : mine[j] = u} \ {Thread_In_Esecuzione}
<1>1. Types /\ n \in Nat /\ \A k \in 1..n : mine[k] \in Entry
  BY SizeAssumption, RunningFacts DEF Base, Types, TableTypes, Table, Process
<1>2. PICK g : /\ g[0] = [table |-> Processi, ready |-> CodaPronti]
               /\ \A k \in 1..n : g[k] = Destroys(g[k - 1], mine[k])
               /\ DestroyOthers = g[n]
  BY DestroyRun
<1> DEFINE S == {k \in Nat : k <= n => Destroyed(g[k], D(k))}
<1>3. 0 \in S
  <2>1. D(0) = {}
    OBVIOUS
  <2>2. g[0] \in Turn /\ g[0].table = Processi /\ g[0].ready = CodaPronti
    BY <1>2, RunningFacts DEF Base, Types, TableTypes, SchedTypes, Turn
  <2>3. Clears(Processi, Processi, Thread_In_Esecuzione)
    BY DEF Clears, ClearsIn
  <2>4. Destroyed(g[0], {})
    BY <2>2, <2>3 DEF Destroyed
  <2>5. QED
    BY <2>1, <2>4
<1>4. ASSUME NEW k \in S
      PROVE  k + 1 \in S
  <2>1. SUFFICES ASSUME k + 1 <= n
                 PROVE  Destroyed(g[k + 1], D(k + 1))
    OBVIOUS
  <2>2. k \in Nat /\ k + 1 \in 1..n /\ (k + 1) - 1 = k /\ Destroyed(g[k], D(k))
    BY <1>1, <2>1
  <2>3. g[k + 1] = Destroys(g[k], mine[k + 1]) /\ mine[k + 1] \in Entry
    BY <1>1, <1>2, <2>2
  <2>4. D(k + 1) = D(k) \cup ({mine[k + 1]} \ {THREAD_INVALID, Thread_In_Esecuzione})
    <3>1. \A j : j \in 1..(k + 1) <=> (j \in 1..k \/ j = k + 1)
      BY <2>2
    <3>2. mine[k + 1] \in Thread \/ mine[k + 1] = THREAD_INVALID
      BY <2>3 DEF Entry
    <3>3. QED
      BY <3>1, <3>2, Constants
  <2>5. g[k] \in Turn
    BY <2>2 DEF Destroyed
  <2> HIDE DEF D, mine
  <2>6. QED
    BY <1>1, <2>2, <2>3, <2>4, <2>5, DestroysTyped
<1>5. n \in S
  <2> HIDE DEF D
  <2>1. S \in SUBSET Nat
    OBVIOUS
  <2> HIDE DEF S
  <2>2. QED
    BY <1>1, <1>3, <1>4, <2>1, Inductive
<1>6. D(n) = {u \in Thread : Lists(Processi, Me, u)} \ {Thread_In_Esecuzione}
  BY DEF Lists
<1>7. QED
  BY <1>1, <1>2, <1>5, <1>6

\* The process in slot d ends: its pages, mapped or queued, are free, and the others are
\* where they were.
LEMMA PagesFreed ==
    ASSUME NEW tab, NEW tab2, NEW mq, NEW map, NEW map2, NEW free, NEW free2,
           PagesPlaced(tab, mq, map, free), NEW d \in Slot, tab[d].active, ~tab2[d].active,
           \A s \in Slot : s # d => (tab2[s].active <=> tab[s].active) /\ map2[s] = map[s],
           map2[d] = {}, free2 = free \cup map[d] \cup PagesOf(mq[d])
    PROVE  PagesPlaced(tab2, mq, map2, free2)
<1>1. PICK place : IsPlace(place, tab, mq, map, free)
  BY DEF PagesPlaced
<1> DEFINE new == [p \in Page |-> IF place[p] \in {InMap(d), InQueue(d)} THEN Free ELSE place[p]]
<1>2. ASSUME NEW p \in Page
      PROVE  /\ new[p] = Free \/ \E s \in Slot : new[p] \in {InMap(s), InQueue(s)}
             /\ p \in free2 <=> new[p] = Free
             /\ \A s \in Slot : p \in map2[s] <=> new[p] = InMap(s)
             /\ \A s \in Slot : tab2[s].active /\ p \in PagesOf(mq[s]) <=> new[p] = InQueue(s)
  <2>1. /\ place[p] = Free \/ \E s \in Slot : place[p] \in {InMap(s), InQueue(s)}
        /\ p \in free <=> place[p] = Free
        /\ \A s \in Slot : p \in map[s] <=> place[p] = InMap(s)
        /\ \A s \in Slot : (tab[s].active /\ p \in PagesOf(mq[s])) <=> place[p] = InQueue(s)
    BY <1>1 DEF IsPlace
  <2>2. CASE place[p] \in {InMap(d), InQueue(d)}
    <3>1. new[p] = Free /\ p \in free2
      BY <2>1, <2>2
    <3>2. \A s \in Slot : s # d => p \notin map[s] /\ ~(tab[s].active /\ p \in PagesOf(mq[s]))
      BY <2>1, <2>2, PlacesDiffer
    <3> HIDE DEF new
    <3>3. \A s \in Slot : p \notin map2[s] /\ ~(tab2[s].active /\ p \in PagesOf(mq[s]))
      BY <3>2
    <3>4. QED
      BY <3>1, <3>3, PlacesDiffer
  <2>3. CASE place[p] \notin {InMap(d), InQueue(d)}
    <3>1. new[p] = place[p]
      BY <2>3
    <3>2. p \notin map[d] /\ p \notin PagesOf(mq[d])
      BY <2>1, <2>3
    <3> HIDE DEF new
    <3>3. p \in free2 <=> p \in free
      BY <3>2
    <3>4. \A s \in Slot : p \in map2[s] <=> p \in map[s]
      BY <3>2
    <3>5. \A s \in Slot : (tab2[s].active /\ p \in PagesOf(mq[s]))
                             <=> (tab[s].active /\ p \in PagesOf(mq[s]))
      BY <3>2
    <3>6. QED
      BY <2>1, <3>1, <3>3, <3>4, <3>5
  <2>4. QED
    BY <2>2, <2>3
<1>3. IsPlace(new, tab2, mq, map2, free2)
  <2> HIDE DEF new
  <2>1. QED
    BY <1>2 DEF IsPlace
<1>4. QueuedOnce(tab2, mq)
  BY DEF PagesPlaced, QueuedOnce
<1>5. QED
  BY <1>3, <1>4 DEF PagesPlaced

\* The tables once the process in slot m, with the running thread T, has ended.
Exited(swept, m, T) ==
    [swept EXCEPT ![m].active = FALSE,
                  ![m].threads = [i \in DOMAIN NoThreads |->
                     IF swept[m].threads[i] = T THEN T ELSE THREAD_INVALID]]

\* What Exit_Process leaves of the tables: the caller's process is dead, the others have
\* lost entries of the running thread only.
LEMMA ExitTable ==
    ASSUME Base, NEW swept \in Table, Clears(swept, Processi, Thread_In_Esecuzione),
           NEW tab, tab = Exited(swept, Me, Thread_In_Esecuzione)
    PROVE  /\ tab \in Table /\ ~tab[Me].active
           /\ \A s \in Slot : s # Me =>
                 /\ tab[s].active = Processi[s].active
                 /\ \A i \in 1..MAX_THREADS_PER_PROCESS :
                       \/ tab[s].threads[i] = Processi[s].threads[i]
                       \/ Processi[s].threads[i] = Thread_In_Esecuzione
           /\ \A s \in Slot :
                 /\ tab[s].pid = Processi[s].pid
                 /\ \A i \in 1..MAX_THREADS_PER_PROCESS :
                       \/ tab[s].threads[i] = Processi[s].threads[i]
                       \/ tab[s].threads[i] = THREAD_INVALID
<1>1. Me \in Slot /\ Thread_In_Esecuzione \in Thread
  BY RunningFacts
<1>2. PICK T : T = Thread_In_Esecuzione
  OBVIOUS
<1>3. PICK m : m = Me
  OBVIOUS
<1>4. PICK ts : ts = [i \in 1..MAX_THREADS_PER_PROCESS |->
                         IF swept[m].threads[i] = T THEN T ELSE THREAD_INVALID]
  OBVIOUS
<1>5. PICK e : e = [swept[m] EXCEPT !.active = FALSE, !.threads = ts]
  OBVIOUS
<1>6. swept[m] \in Process
  BY <1>1, <1>3 DEF Table
<1>7. tab = [swept EXCEPT ![m] = e]
  <2>1. DOMAIN NoThreads = 1..MAX_THREADS_PER_PROCESS
    BY DEF NoThreads
  <2>2. tab = [swept EXCEPT ![m].active = FALSE, ![m].threads = ts]
    BY <1>2, <1>3, <1>4, <2>1 DEF Exited
  <2>3. QED
    BY <1>1, <1>3, <1>5, <2>2 DEF Table
<1>8. /\ ts \in [1..MAX_THREADS_PER_PROCESS -> Entry]
      /\ \A i \in 1..MAX_THREADS_PER_PROCESS :
            ts[i] = swept[m].threads[i] \/ ts[i] = THREAD_INVALID
  BY <1>1, <1>2, <1>4 DEF Entry
<1>9. e \in Process /\ e.active = FALSE /\ e.threads = ts /\ e.pid = swept[m].pid
  BY <1>5, <1>6, <1>8 DEF Process
<1>10. tab \in Table /\ tab[m] = e /\ \A s \in Slot : s # m => tab[s] = swept[s]
  BY <1>1, <1>3, <1>7, <1>9 DEF Table
<1>11. \A s \in Slot : /\ swept[s].active = Processi[s].active /\ swept[s].pid = Processi[s].pid
                       /\ \A i \in 1..MAX_THREADS_PER_PROCESS :
                             \/ swept[s].threads[i] = Processi[s].threads[i]
                             \/ /\ Processi[s].threads[i] = Thread_In_Esecuzione
                                /\ swept[s].threads[i] = THREAD_INVALID
  BY DEF Clears, ClearsIn
<1>12. ASSUME NEW s \in Slot, s # m
       PROVE  /\ tab[s].active = Processi[s].active /\ tab[s].pid = Processi[s].pid
              /\ \A i \in 1..MAX_THREADS_PER_PROCESS :
                    \/ tab[s].threads[i] = Processi[s].threads[i]
                    \/ /\ Processi[s].threads[i] = Thread_In_Esecuzione
                       /\ tab[s].threads[i] = THREAD_INVALID
  <2>1. tab[s] = swept[s]
    BY <1>10, <1>12
  <2>2. QED
    BY <1>11, <2>1
<1>13. /\ tab[m].pid = Processi[m].pid
       /\ \A i \in 1..MAX_THREADS_PER_PROCESS :
             \/ tab[m].threads[i] = Processi[m].threads[i]
             \/ tab[m].threads[i] = THREAD_INVALID
  BY <1>1, <1>3, <1>8, <1>9, <1>10, <1>11
<1>14. QED
  BY <1>3, <1>9, <1>10, <1>12, <1>13

\* The process of the caller ends, with its threads and its pages.
LEMMA Exit_ProcessStep ==
    ASSUME PInv, Exit_Process
    PROVE  PInv' /\ panicked' = panicked
<1>1. Base /\ Types /\ SchedTypes /\ TableTypes /\ MailTypes /\ PageTypes /\ Syscall
  BY DEF PInv, Base, Types, Exit_Process
<1>2. PICK T : T = Thread_In_Esecuzione
  OBVIOUS
<1>3. PICK X : X = {u \in Thread : Lists(Processi, Me, u)} \cup {T}
  OBVIOUS
<1>4. PICK tab : tab = Processi'
  OBVIOUS
<1>5. PICK act2 : act2 = active \ X
  OBVIOUS
<1>6. PICK ready : ready = Without(DestroyOthers.ready, T)
  OBVIOUS
<1>7. /\ T \in Thread /\ T \in active /\ T # kernel_thread /\ kernel_thread \in active
      /\ Me \in Slot /\ Processi[Me].active /\ Me # kernel_slot
      /\ OnlyOwn(Processi, owner, active, Me) /\ inP[T] = NoSem
      /\ owner[T].task = Me /\ Lists(Processi, Me, T)
  BY <1>1, <1>2, RunningFacts, SyscallFacts DEF Me
<1>8. /\ Tables(Processi, owner, active, Last_Pid_Used)
      /\ active \in SUBSET Thread /\ Processi \in Table /\ owner \in Owners
  BY <1>1 DEF Base, Tabled, SchedTypes, TableTypes
<1>9. Destroyed(DestroyOthers, {u \in Thread : Lists(Processi, Me, u)} \ {T})
  BY <1>1, <1>2, DestroyOthersIs
<1>10. active' = act2
  <2>1. active' = active \ ((ToSet(Processi[Me].threads) \ {THREAD_INVALID}) \cup {T})
    BY <1>2 DEF Exit_Process
  <2>2. DOMAIN Processi[Me].threads = 1..MAX_THREADS_PER_PROCESS
    BY <1>7, <1>8 DEF Table, Process
  <2>3. \A u \in Thread : u \in ToSet(Processi[Me].threads) <=> Lists(Processi, Me, u)
    BY <2>2 DEF ToSet, Lists
  <2>4. QED
    BY <1>3, <1>5, <1>8, <2>1, <2>3, Constants
<1>11. /\ Switch(ready, THREAD_INVALID, inP)
       /\ UNCHANGED <<Status, queue, panicked, Last_Pid_Used, owner, msgqueue, exhausted>>
       /\ freepages' = freepages \cup mapped[Me] \cup PagesOf(msgqueue[Me])
       /\ mapped' = [mapped EXCEPT ![Me] = {}]
  BY <1>2, <1>6 DEF Exit_Process, PagesOf
<1>12. /\ tab \in Table /\ ~tab[Me].active
       /\ \A s \in Slot : s # Me =>
             /\ tab[s].active = Processi[s].active
             /\ \A i \in 1..MAX_THREADS_PER_PROCESS :
                   \/ tab[s].threads[i] = Processi[s].threads[i]
                   \/ Processi[s].threads[i] = T
       /\ \A s \in Slot :
             /\ tab[s].pid = Processi[s].pid
             /\ \A i \in 1..MAX_THREADS_PER_PROCESS :
                   \/ tab[s].threads[i] = Processi[s].threads[i]
                   \/ tab[s].threads[i] = THREAD_INVALID
  <2>1. PICK swept : swept = DestroyOthers.table
    OBVIOUS
  <2>2. swept \in Table /\ Clears(swept, Processi, Thread_In_Esecuzione)
    BY <1>9, <2>1 DEF Destroyed, Turn
  <2>3. tab = Exited(swept, Me, Thread_In_Esecuzione)
    BY <1>4, <2>1 DEF Exit_Process, Exited
  <2>4. QED
    BY <1>1, <1>2, <2>2, <2>3, ExitTable
<1>13. /\ ready \in Seq(Thread) /\ Sched!Distinct(ready)
       /\ \A t : Sched!InSeq(t, ready) <=> (Sched!InSeq(t, CodaPronti) /\ t \notin X)
  <2>1. PICK q : q = DestroyOthers.ready
    OBVIOUS
  <2>2. /\ q \in Seq(Thread) /\ Sched!Distinct(q)
        /\ \A t : Sched!InSeq(t, q) <=>
              (Sched!InSeq(t, CodaPronti)
                 /\ t \notin {u \in Thread : Lists(Processi, Me, u)} \ {T})
    BY <1>9, <2>1 DEF Destroyed, Turn
  <2>3. /\ ready \in Seq(Thread) /\ Sched!Distinct(ready)
        /\ \A t : Sched!InSeq(t, ready) <=> (Sched!InSeq(t, q) /\ t # T)
    BY <1>6, <2>1, <2>2, InWithout
  <2>4. QED
    BY <1>3, <2>2, <2>3
<1>14. \A u \in X : u \in active /\ owner[u].task = Me
  BY <1>3, <1>7, Constants DEF OnlyOwn, Lists
<1>15. kernel_thread \notin X /\ X \subseteq Thread
  BY <1>7, <1>8, <1>14, OwnerFacts
<1>16. \A s \in Slot : tab[s].active => s # Me /\ Processi[s].active
  BY <1>12
<1>17. /\ SchedTypes' /\ Scheduled' /\ receiving' \in Slot \cup {NoSem}
       /\ \A s \in Slot : Processi'[s].active => Served(s)' = Served(s)
  <2>1. InOwn(active, owner, inP)
    BY <1>1 DEF Base, Scheduled, Scheduling
  <2>2. \A s \in Slot : Processi'[s].active =>
           Processi[s].active /\ \A t \in X : inP[t] # s
    BY <1>4, <1>14, <1>16, <2>1, Constants DEF InOwn
  <2>3. /\ Thread_In_Esecuzione \in X /\ active' = active \ X
        /\ Sched!Distinct(CodaPronti) /\ Processi' \in Table
        /\ UNCHANGED <<Status, queue, panicked, owner>>
    BY <1>1, <1>2, <1>3, <1>4, <1>5, <1>10, <1>11, <1>12, RunningFacts
  <2>4. QED
    BY <1>1, <1>11, <1>13, <1>15, <2>2, <2>3, EndsStep
<1>18. Tables(tab, owner, act2, Last_Pid_Used)
  <2>1. ASSUME NEW t \in act2
        PROVE  /\ t \in active /\ t # T /\ owner[t].task # Me /\ owner[t].task \in Slot
               /\ Processi[owner[t].task].active
               /\ Lists(Processi, owner[t].task, t)
               /\ OnlyOwn(Processi, owner, active, owner[t].task)
    <3>1. t \in active /\ t \notin X
      BY <1>5
    <3>2. QED
      BY <1>3, <1>8, <3>1, OwnerFacts
  <2>2. ASSUME NEW t \in act2
        PROVE  tab[owner[t].task].active /\ Lists(tab, owner[t].task, t)
    BY <1>12, <2>1 DEF Lists
  <2>3. ASSUME NEW s \in Slot, NEW u \in act2, owner[u].task = s,
               NEW i \in 1..MAX_THREADS_PER_PROCESS
        PROVE  tab[s].threads[i] \in act2 \cup {THREAD_INVALID}
    <3>1. s # Me /\ OnlyOwn(Processi, owner, active, s)
      BY <2>1, <2>3
    <3>2. Processi[s].threads[i] \in act2 \cup {THREAD_INVALID}
      BY <1>5, <1>14, <3>1 DEF OnlyOwn
    <3>3. QED
      BY <1>12, <3>2
  <2>4. \A s \in Slot : /\ tab[s].pid = Processi[s].pid
                        /\ tab[s].active => Processi[s].active
                        /\ \A i \in 1..MAX_THREADS_PER_PROCESS :
                              \/ tab[s].threads[i] = Processi[s].threads[i]
                              \/ tab[s].threads[i] = THREAD_INVALID
    BY <1>12, <1>16
  <2>5. act2 \in SUBSET active /\ tab[kernel_slot].active
    BY <1>5, <1>7, <1>8, <1>12, Constants DEF Tables, Owned
  <2>6. QED
    BY <1>8, <1>12, <2>2, <2>3, <2>4, <2>5, TablesShrink
<1>19. Paged' /\ PageTypes'
  <2>1. Paged /\ mapped \in [Slot -> SUBSET Page]
    BY <1>1 DEF PInv, PageTypes
  <2>2. /\ mapped' \in [Slot -> SUBSET Page] /\ mapped'[Me] = {}
        /\ \A s \in Slot : s # Me => mapped'[s] = mapped[s]
    BY <1>7, <1>11, <2>1
  <2>3. freepages' \in SUBSET Page
    <3>1. PagesOf(msgqueue[Me]) \subseteq Page
      <4>1. msgqueue[Me] \in Seq(Message)
        BY <1>1, <1>7 DEF MailTypes
      <4>2. \A i \in DOMAIN msgqueue[Me] : msgqueue[Me][i] \in Message
        BY <4>1
      <4>3. QED
        BY <4>2 DEF PagesOf, Message
    <3>2. mapped[Me] \subseteq Page
      BY <1>7, <2>1
    <3>3. QED
      BY <1>1, <1>11, <3>1, <3>2 DEF PageTypes
  <2>4. PagesPlaced(tab, msgqueue, mapped', freepages')
    <3>1. PICK map2 : map2 = mapped'
      OBVIOUS
    <3>2. PICK free2 : free2 = freepages'
      OBVIOUS
    <3>3. \A s \in Slot : s # Me => (tab[s].active <=> Processi[s].active) /\ map2[s] = mapped[s]
      BY <1>12, <2>2, <3>1
    <3>4. map2[Me] = {} /\ free2 = freepages \cup mapped[Me] \cup PagesOf(msgqueue[Me])
      BY <1>11, <2>2, <3>1, <3>2
    <3>5. PagesPlaced(Processi, msgqueue, mapped, freepages)
      BY <2>1 DEF Paged
    <3>6. PagesPlaced(tab, msgqueue, map2, free2)
      BY <1>7, <1>12, <3>3, <3>4, <3>5, PagesFreed
    <3>7. QED
      BY <3>1, <3>2, <3>6
  <2>5. QED
    BY <1>4, <1>11, <2>2, <2>3, <2>4 DEF Paged, PageTypes
<1>20. MessagesCounted' /\ NoMailForTheDead'
  <2>1. MessagesCounted /\ NoMailForTheDead
    BY DEF PInv
  <2>2. QED
    BY <1>4, <1>11, <1>12, <1>16, <1>17, <2>1, CountKept, MailKept
<1>21. Types' /\ Tabled'
  BY <1>1, <1>4, <1>10, <1>11, <1>12, <1>17, <1>18, <1>19
     DEF Types, TableTypes, MailTypes, Tabled
<1>22. QED
  BY <1>11, <1>17, <1>19, <1>20, <1>21 DEF PInv, Base

--------------------------------------------------------------------------------
(* Every behaviour.                                                            *)

\* The invariant holds when main() is about to enter the idle loop.
LEMMA InitPInv ==
    ASSUME Init
    PROVE  PInv /\ ~panicked
<1>1. /\ active = {kernel_thread, init_thread} /\ CodaPronti = <<init_thread>>
      /\ Thread_In_Esecuzione = kernel_thread
      /\ Status = [s \in Slot |-> 0] /\ queue = [s \in Slot |-> <<>>]
      /\ inP = [t \in Thread |-> NoSem] /\ credit = [s \in Slot |-> 0] /\ panicked = FALSE
  BY Constants DEF Init, Sched!Init
<1>2. PICK k : k = Reserved_Pids + 1
  OBVIOUS
<1>3. PICK l : l = Reserved_Pids + 2
  OBVIOUS
<1>4. k \in Pids /\ l \in Pids /\ k # l /\ k <= l /\ 0 \in Pids
  BY <1>2, <1>3, SizeAssumption DEF Pids
<1>5. /\ Last_Pid_Used = l
      /\ owner = [t \in Thread |-> IF t = init_thread THEN [task |-> 1, pid |-> l]
                                   ELSE [task |-> kernel_slot, pid |-> k]]
      /\ msgqueue = [s \in Slot |-> <<>>] /\ mapped = [s \in Slot |-> {}]
      /\ freepages = Page /\ receiving = NoSem /\ exhausted = FALSE
  BY <1>2, <1>3 DEF Init
<1>6. 1 \in 1..MAX_THREADS_PER_PROCESS /\ 0 \in 0..MAX_SIGNALS_PENDING - 1
  BY SizeAssumption
<1>7. ASSUME NEW p \in Pids, NEW t \in Thread, NEW e, e = NewProcess(p, t)
      PROVE  /\ e \in Process /\ e.active /\ e.pid = p /\ e.threads[1] = t
             /\ \A i \in 1..MAX_THREADS_PER_PROCESS : i # 1 => e.threads[i] = THREAD_INVALID
  <2> DEFINE ts == [NoThreads EXCEPT ![1] = t]
  <2>1. /\ ts \in [1..MAX_THREADS_PER_PROCESS -> Entry] /\ ts[1] = t
        /\ \A i \in 1..MAX_THREADS_PER_PROCESS : i # 1 => ts[i] = THREAD_INVALID
    BY <1>6 DEF NoThreads, Entry
  <2>2. e = [active |-> TRUE, pid |-> p, threads |-> ts, signals |-> 0]
    BY <1>7 DEF NewProcess
  <2> HIDE DEF ts
  <2>3. QED
    BY <1>6, <2>1, <2>2 DEF Process
<1>8. FreeProcess \in Process /\ FreeProcess.active = FALSE
      /\ \A i \in 1..MAX_THREADS_PER_PROCESS : FreeProcess.threads[i] = THREAD_INVALID
  <2>1. NoThreads \in [1..MAX_THREADS_PER_PROCESS -> Entry]
        /\ \A i \in 1..MAX_THREADS_PER_PROCESS : NoThreads[i] = THREAD_INVALID
    BY DEF NoThreads, Entry
  <2>2. FreeProcess = [active |-> FALSE, pid |-> 0, threads |-> NoThreads, signals |-> 0]
    BY DEF FreeProcess
  <2>3. QED
    BY <1>4, <1>6, <2>1, <2>2 DEF Process
<1>9. PICK K : K = NewProcess(k, kernel_thread)
  OBVIOUS
<1>10. PICK I : I = NewProcess(l, init_thread)
  OBVIOUS
<1>11. /\ K \in Process /\ K.active /\ K.pid = k /\ K.threads[1] = kernel_thread
       /\ \A i \in 1..MAX_THREADS_PER_PROCESS : i # 1 => K.threads[i] = THREAD_INVALID
  <2>1. k \in Pids /\ kernel_thread \in Thread
    BY <1>4, Constants
  <2>2. QED
    BY <1>7, <1>9, <2>1
<1>12. /\ I \in Process /\ I.active /\ I.pid = l /\ I.threads[1] = init_thread
       /\ \A i \in 1..MAX_THREADS_PER_PROCESS : i # 1 => I.threads[i] = THREAD_INVALID
  <2>1. l \in Pids /\ init_thread \in Thread
    BY <1>4, Constants
  <2>2. QED
    BY <1>7, <1>10, <2>1
<1>13. kernel_slot # 1
  BY DEF kernel_slot
<1>14. /\ Processi \in Table /\ Processi[kernel_slot] = K /\ Processi[1] = I
       /\ \A s \in Slot : s # kernel_slot /\ s # 1 => Processi[s] = FreeProcess
  <2>1. Processi = [s \in Slot |-> CASE s = kernel_slot -> K [] s = 1 -> I [] OTHER -> FreeProcess]
    BY <1>2, <1>3, <1>9, <1>10 DEF Init
  <2>2. QED
    BY <1>8, <1>11, <1>12, <1>13, <2>1, Constants DEF Table
<1>15. /\ owner \in Owners
       /\ owner[init_thread] = [task |-> 1, pid |-> l]
       /\ \A t \in Thread : t # init_thread => owner[t] = [task |-> kernel_slot, pid |-> k]
  BY <1>4, <1>5, Constants DEF Owners
<1>16. Types
  <2>1. SchedTypes
    <3>1. <<>> \in Seq(Thread) /\ <<init_thread>> \in Seq(Thread)
      BY Constants
    <3>2. QED
      BY <1>1, <3>1, Constants, SMTT(20) DEF SchedTypes
  <2>2. MailTypes
    <3>1. <<>> \in Seq(Message) /\ Len(<<>>) < MAX_MESSAGES
      BY SizeAssumption
    <3>2. QED
      BY <1>5, <3>1 DEF MailTypes
  <2>3. QED
    BY <1>4, <1>5, <1>14, <1>15, <2>1, <2>2 DEF Types, TableTypes, PageTypes
<1>17. \A t, s : s \in Slot => ~Sched!InSeq(t, queue[s])
  BY <1>1 DEF Sched!InSeq
<1>18. Scheduled
  <2>1. ReadySound(active, CodaPronti, Thread_In_Esecuzione)
    <3>1. Len(<<init_thread>>) = 1 /\ <<init_thread>>[1] = init_thread
      OBVIOUS
    <3>2. Sched!Distinct(CodaPronti)
          /\ \A t : Sched!InSeq(t, CodaPronti) <=> t = init_thread
      BY <1>1, <3>1 DEF Sched!Distinct, Sched!InSeq
    <3>3. QED
      BY <1>1, <3>2, Constants DEF ReadySound
  <2>2. InOwn(active, owner, inP)
    BY <1>1, Constants DEF InOwn
  <2>3. WaitersSound(active, owner, Processi, Status, queue, inP, CodaPronti,
                     Thread_In_Esecuzione)
    BY <1>1, <1>17 DEF WaitersSound, Sched!Distinct
  <2>4. QED
    BY <1>1, <1>5, <2>1, <2>2, <2>3, Constants DEF Scheduled, Scheduling
<1>19. Tabled
  <2>1. Lists(Processi, kernel_slot, kernel_thread) /\ Lists(Processi, 1, init_thread)
    BY <1>6, <1>11, <1>12, <1>14 DEF Lists
  <2>2. Owned(Processi, owner, active)
    <3>1. ASSUME NEW t \in active
          PROVE  /\ Processi[owner[t].task].active /\ Lists(Processi, owner[t].task, t)
                 /\ owner[t].pid = Processi[owner[t].task].pid
                 /\ owner[t].task = kernel_slot <=> t = kernel_thread
      BY <1>1, <1>11, <1>12, <1>13, <1>14, <1>15, <2>1, Constants
    <3>2. \A s \in Slot \ {kernel_slot} : ~Lists(Processi, s, kernel_thread)
      BY <1>8, <1>12, <1>14, Constants DEF Lists
    <3>3. QED
      BY <1>11, <1>14, <3>1, <3>2 DEF Owned
  <2>3. ListsOwn(Processi, owner, active)
    <3>1. OnlyOwn(Processi, owner, active, kernel_slot)
      BY <1>1, <1>11, <1>14, <1>15, Constants DEF OnlyOwn
    <3>2. OnlyOwn(Processi, owner, active, 1)
      BY <1>1, <1>12, <1>14, <1>15, Constants DEF OnlyOwn
    <3>3. QED
      BY <1>8, <1>14, <3>1, <3>2 DEF ListsOwn
  <2>4. PidsSound(Processi, Last_Pid_Used)
    <3>1. \A s \in Slot : Processi[s].active => s = kernel_slot \/ s = 1
      BY <1>8, <1>14
    <3>2. l <= l
      BY <1>4, SizeAssumption DEF Pids
    <3>3. QED
      BY <1>4, <1>5, <1>11, <1>12, <1>14, <3>1, <3>2 DEF PidsSound
  <2>5. QED
    BY <2>2, <2>3, <2>4 DEF Tabled, Tables
<1>20. Paged
  <2>1. QueuedOnce(Processi, msgqueue)
    BY <1>5 DEF QueuedOnce, DistinctPages
  <2>2. PICK place : place = [p \in Page |-> Free]
    OBVIOUS
  <2>3. \A s \in Slot : PagesOf(msgqueue[s]) = {} /\ mapped[s] = {}
    BY <1>5 DEF PagesOf
  <2>4. IsPlace(place, Processi, msgqueue, mapped, freepages)
    BY <1>5, <2>2, <2>3, PlacesDiffer DEF IsPlace
  <2>5. QED
    BY <2>1, <2>4 DEF Paged, PagesPlaced
<1>21. MessagesCounted /\ NoMailForTheDead
  <2>1. \A s \in Slot : Served(s) = {}
    BY <1>1, <1>5, Constants DEF Served
  <2>2. Cardinality({}) = 0
    BY FS_EmptySet
  <2>3. \A s \in Slot : Len(msgqueue[s]) = 0 /\ Status[s] = 0 /\ DOMAIN msgqueue[s] = {}
    BY <1>1, <1>5
  <2>4. MessagesCounted
    <3>1. ASSUME NEW s \in Slot
          PROVE  Len(msgqueue[s]) = Status[s] + Cardinality(Served(s))
      <4>1. Cardinality(Served(s)) = 0
        BY <2>1, <2>2
      <4>2. Len(msgqueue[s]) = 0 /\ Status[s] = 0
        BY <2>3
      <4>3. QED
        BY <4>1, <4>2
    <3>2. QED
      BY <3>1 DEF MessagesCounted
  <2>5. QED
    BY <2>3, <2>4 DEF NoMailForTheDead
<1>22. QED
  BY <1>1, <1>16, <1>18, <1>19, <1>20, <1>21 DEF PInv, Base

\* Once the kernel has panicked nothing happens.
LEMMA PanicStops ==
    ASSUME panicked, Next
    PROVE  FALSE
BY DEF Next, scheduler, getbmsg, freemsg, sendmsg, recmsg, recmsg_returns, Sys_Create_Thread,
       Create_Process_From_ELF, Exit_Thread, Exit_Process, SIGNAL_CONT, SIGNAL_STOP,
       SIGNAL_DESTROY, Signal_Queued, Signal, Syscall, Sched!SystemCall

\* The operations that run threads and end them cannot panic.
LEMMA QuietSteps ==
    ASSUME PInv, ~panicked,
           \/ scheduler \/ getbmsg \/ freemsg \/ recmsg \/ recmsg_returns
           \/ Create_Process_From_ELF \/ Exit_Thread \/ Exit_Process
    PROVE  PInv' /\ ~panicked'
<1>1. CASE scheduler
  BY <1>1, schedulerStep DEF scheduler
<1>2. CASE getbmsg
  BY <1>2, getbmsgStep DEF getbmsg, Exhausted, schedvars
<1>3. CASE freemsg
  BY <1>3, freemsgStep DEF freemsg, schedvars
<1>4. CASE recmsg
  BY <1>4, recmsgStep DEF recmsg, Sched!Take
<1>5. CASE recmsg_returns
  BY <1>5, recmsg_returnsStep
<1>6. CASE Create_Process_From_ELF
  BY <1>6, Create_Process_From_ELFStep DEF Create_Process_From_ELF, Exhausted, schedvars
<1>7. CASE Exit_Thread
  BY <1>7, Exit_ThreadStep
<1>8. CASE Exit_Process
  BY <1>8, Exit_ProcessStep
<1>9. QED
  BY <1>1, <1>2, <1>3, <1>4, <1>5, <1>6, <1>7, <1>8

\* Every step of programs that respect WellUsed, up to a panic.
LEMMA NextPInv ==
    ASSUME PInv, Disciplined, WellUsed, Next, ~panicked, ~panicked'
    PROVE  PInv'
<1>1. CASE \/ scheduler \/ getbmsg \/ freemsg \/ recmsg \/ recmsg_returns
           \/ Create_Process_From_ELF \/ Exit_Thread \/ Exit_Process
  BY <1>1, QuietSteps
<1>2. ASSUME NEW d \in Slot \ {kernel_slot}, NEW p \in Page, sendmsg(d, p)
      PROVE  PInv'
  BY <1>2, sendmsgStep
<1>3. CASE Sys_Create_Thread
  BY <1>3, Sys_Create_ThreadStep DEF WellUsed
<1>4. ASSUME NEW s \in Slot,
             SIGNAL_CONT(s) \/ SIGNAL_STOP(s) \/ SIGNAL_DESTROY(s) \/ Signal_Queued(s)
      PROVE  PInv'
  <2>1. CASE SIGNAL_CONT(s)
    BY <2>1, SIGNAL_CONTStep
  <2>2. CASE SIGNAL_STOP(s)
    BY <2>2, SIGNAL_STOPStep
  <2>3. CASE SIGNAL_DESTROY(s)
    BY <2>3, SIGNAL_DESTROYStep DEF WellUsed
  <2>4. CASE Signal_Queued(s)
    BY <2>4, Signal_QueuedStep
  <2>5. QED
    BY <1>4, <2>1, <2>2, <2>3, <2>4
<1>5. QED
  BY <1>1, <1>2, <1>3, <1>4 DEF Next

\* A step that changes nothing.
LEMMA StutterPInv ==
    ASSUME PInv, UNCHANGED vars
    PROVE  PInv'
<1>1. /\ SchedTypes' /\ TableTypes' /\ Scheduled' /\ Tabled'
  BY SchedKept DEF PInv, vars
<1>2. Types' /\ MessagesCounted' /\ Paged' /\ NoMailForTheDead'
  BY <1>1 DEF PInv, Base, Types, vars, schedvars, MailTypes, PageTypes, Paged,
                    NoMailForTheDead, MessagesCounted, Served, Sched!SuspendedOn
<1>3. QED
  BY <1>1, <1>2 DEF PInv, Base

--------------------------------------------------------------------------------
(* What the invariant says.                                                    *)

\* Every component has its type.
LEMMA TypesImply ==
    ASSUME PInv
    PROVE  ProcTypeOK
<1>1. SchedTypes /\ TableTypes /\ MailTypes /\ PageTypes /\ receiving \in Slot \cup {NoSem}
  BY DEF PInv, Base, Types
<1>2. Sched!TypeOK
  BY <1>1, Constants DEF SchedTypes, Sched!TypeOK
<1>3. Processi \in Table /\ owner \in Owners
  BY <1>1 DEF TableTypes
<1>4. \A s \in Slot : /\ Len(msgqueue[s]) < MAX_MESSAGES
                      /\ \A i \in DOMAIN msgqueue[s] : msgqueue[s][i] \in [page : Page, to : Pids]
  <2>1. ASSUME NEW s \in Slot
        PROVE  \A i \in DOMAIN msgqueue[s] : msgqueue[s][i] \in Message
    <3>1. msgqueue[s] \in Seq(Message)
      BY <1>1 DEF MailTypes
    <3>2. QED
      BY <3>1
  <2>2. QED
    BY <1>1, <2>1 DEF MailTypes, Message
<1>5. QED
  BY <1>1, <1>2, <1>3, <1>4 DEF ProcTypeOK, Table, Process, Entry, Owners, PageTypes

\* The tables agree, and the queues hold who they should.
LEMMA SoundImplies ==
    ASSUME PInv
    PROVE  TablesAgree /\ QueuesSound /\ RunningIsListed
<1>1. DOMAIN NoThreads = 1..MAX_THREADS_PER_PROCESS
  BY DEF NoThreads
<1>2. /\ Owned(Processi, owner, active) /\ PidsSound(Processi, Last_Pid_Used)
      /\ ReadySound(active, CodaPronti, Thread_In_Esecuzione)
      /\ WaitersSound(active, owner, Processi, Status, queue, inP, CodaPronti,
                      Thread_In_Esecuzione)
      /\ Base
  BY DEF PInv, Base, Tabled, Tables, Scheduled, Scheduling
<1>3. TablesAgree
  BY <1>1, <1>2, RunningFacts DEF TablesAgree, Owned, Lists, Listed, PidsSound
<1>4. QueuesSound
  BY <1>2 DEF QueuesSound, ReadySound, WaitersSound, Waits, Sched!Ready, Sched!SuspendedOn
<1>5. RunningIsListed
  BY <1>1, <1>2, RunningFacts DEF RunningIsListed, Listed, Lists
<1>6. QED
  BY <1>3, <1>4, <1>5

\* A process with waiters has no message to count; one that was resumed inside recmsg
\* has one to take.
LEMMA CountImplies ==
    ASSUME PInv
    PROVE  NoSleepOnMail /\ RecvFindsMessage
<1>1. /\ Base /\ MessagesCounted /\ SchedTypes
      /\ WaitersSound(active, owner, Processi, Status, queue, inP, CodaPronti,
                      Thread_In_Esecuzione)
      /\ Me \in Slot /\ Processi[Me].active
      /\ active \in SUBSET Thread /\ Thread_In_Esecuzione \in Thread
  BY RunningFacts DEF PInv, Base, Types, SchedTypes, Scheduled, Scheduling
<1>2. \A s \in Slot : Cardinality(Served(s)) \in Nat /\ IsFiniteSet(Served(s))
  <2>1. \A s \in Slot : Served(s) \subseteq Thread
    BY <1>1 DEF Served
  <2>2. QED
    BY <2>1, Constants, FS_Subset, FS_CardinalityType
<1>3. NoSleepOnMail
  <2>1. ASSUME NEW s \in Slot, Processi[s].active, queue[s] # <<>>
        PROVE  Len(msgqueue[s]) = Cardinality(Served(s))
    <3>1. Status[s] = 0
      BY <1>1, <2>1 DEF WaitersSound
    <3>2. Len(msgqueue[s]) = Status[s] + Cardinality(Served(s))
      BY <1>1, <2>1 DEF MessagesCounted
    <3>3. QED
      BY <1>2, <3>1, <3>2
  <2>2. QED
    BY <2>1 DEF NoSleepOnMail
<1>4. RecvFindsMessage
  <2>1. SUFFICES ASSUME receiving # NoSem
                 PROVE  msgqueue[receiving] # <<>>
    BY DEF RecvFindsMessage
  <2>2. receiving = Me
    BY <2>1 DEF PInv, Base, Scheduled
  <2>3. Served(Me) # {}
    BY <2>2 DEF Served
  <2>4. Cardinality(Served(Me)) # 0
    BY <1>1, <1>2, <2>3, FS_EmptySet
  <2>5. Len(msgqueue[Me]) = Status[Me] + Cardinality(Served(Me)) /\ Status[Me] \in Nat
    BY <1>1 DEF MessagesCounted, SchedTypes
  <2>6. Len(msgqueue[Me]) # 0
    BY <1>1, <1>2, <2>4, <2>5
  <2>7. Len(<<>>) = 0
    OBVIOUS
  <2>8. QED
    BY <2>2, <2>6, <2>7
<1>5. QED
  BY <1>3, <1>4

\* The place of a page counts as one owner.
LEMMA PlacesImply ==
    ASSUME PInv
    PROVE  OnePageOneOwner
<1>1. Paged /\ msgqueue \in [Slot -> Seq(Message)]
      /\ \A s \in Slot : Len(msgqueue[s]) < MAX_MESSAGES
  BY DEF PInv, Base, Types, MailTypes
<1>2. PICK place : IsPlace(place, Processi, msgqueue, mapped, freepages)
  BY <1>1 DEF Paged, PagesPlaced
<1>3. SUFFICES ASSUME NEW p \in Page
      PROVE  Cardinality({s \in Slot : p \in mapped[s]})
               + Cardinality({at \in Slot \X (1..MAX_MESSAGES) :
                    /\ Processi[at[1]].active
                    /\ at[2] \in DOMAIN msgqueue[at[1]] /\ msgqueue[at[1]][at[2]].page = p})
               + (IF p \in freepages THEN 1 ELSE 0) = 1
  BY DEF OnePageOneOwner
<1> DEFINE M == {s \in Slot : p \in mapped[s]}
           Q == {at \in Slot \X (1..MAX_MESSAGES) :
                    /\ Processi[at[1]].active
                    /\ at[2] \in DOMAIN msgqueue[at[1]] /\ msgqueue[at[1]][at[2]].page = p}
           f == IF p \in freepages THEN 1 ELSE 0
<1>4. /\ place[p] = Free \/ \E s \in Slot : place[p] \in {InMap(s), InQueue(s)}
      /\ p \in freepages <=> place[p] = Free
      /\ \A s \in Slot : p \in mapped[s] <=> place[p] = InMap(s)
      /\ \A s \in Slot : (Processi[s].active /\ p \in PagesOf(msgqueue[s]))
                            <=> place[p] = InQueue(s)
  BY <1>2 DEF IsPlace
<1>5. \A at \in Q : at[1] \in Slot /\ place[p] = InQueue(at[1])
  BY <1>4 DEF PagesOf
<1>6. Cardinality({}) = 0 /\ \A x : Cardinality({x}) = 1
  BY FS_EmptySet, FS_Singleton
<1>7. CASE place[p] = Free
  <2>1. M = {} /\ Q = {} /\ f = 1
    BY <1>4, <1>5, <1>7, PlacesDiffer
  <2> HIDE DEF M, Q, f
  <2>2. Cardinality(M) + Cardinality(Q) + f = 1
    BY <1>6, <2>1
  <2>3. QED
    BY <2>2 DEF M, Q, f
<1>8. ASSUME NEW d \in Slot, place[p] = InMap(d)
      PROVE  Cardinality(M) + Cardinality(Q) + f = 1
  <2>1. M = {d} /\ Q = {} /\ f = 0
    BY <1>4, <1>5, <1>8, PlacesDiffer
  <2> HIDE DEF M, Q, f
  <2>2. Cardinality(M) = 1 /\ Cardinality(Q) = 0
    BY <1>6, <2>1, Zenon
  <2>3. QED
    BY <2>1, <2>2
<1>9. ASSUME NEW d \in Slot, place[p] = InQueue(d)
      PROVE  Cardinality(M) + Cardinality(Q) + f = 1
  <2>1. M = {} /\ f = 0
    BY <1>4, <1>9, PlacesDiffer
  <2>2. PICK i \in DOMAIN msgqueue[d] : msgqueue[d][i].page = p
    BY <1>4, <1>9 DEF PagesOf
  <2>3. Processi[d].active /\ DistinctPages(msgqueue[d])
    BY <1>1, <1>4, <1>9 DEF Paged, PagesPlaced, QueuedOnce
  <2>4. i \in 1..MAX_MESSAGES
    <3>1. i \in 1..Len(msgqueue[d]) /\ Len(msgqueue[d]) < MAX_MESSAGES
          /\ Len(msgqueue[d]) \in Nat
      BY <1>1, <2>2
    <3>2. QED
      BY <3>1, SizeAssumption
  <2>5. Q = {<<d, i>>}
    <3>1. <<d, i>> \in Q
      BY <2>2, <2>3, <2>4
    <3>2. ASSUME NEW at \in Q
          PROVE  at = <<d, i>>
      <4>1. at[1] = d
        BY <1>5, <1>9, PlacesDiffer
      <4>2. at[2] \in DOMAIN msgqueue[d] /\ msgqueue[d][at[2]].page = p
        BY <4>1
      <4>3. at[2] = i
        BY <2>2, <2>3, <4>2 DEF DistinctPages
      <4>4. at = <<at[1], at[2]>>
        OBVIOUS
      <4>5. QED
        BY <4>1, <4>3, <4>4
    <3>3. QED
      BY <3>1, <3>2
  <2> HIDE DEF M, Q, f
  <2>6. Cardinality(M) = 0 /\ Cardinality(Q) = 1
    BY <1>6, <2>1, <2>5, Zenon
  <2>7. QED
    BY <2>1, <2>6
<1>10. QED
  BY <1>4, <1>7, <1>8, <1>9

--------------------------------------------------------------------------------
(* The theorems.                                                               *)

\* The ready queue has a cell for every thread but one.
RoomForAll == MAX_THREADS <= MAX_REFERENCES

\* There are n numbers from 1 to n.
LEMMA UpToIs ==
    ASSUME NEW n \in Nat
    PROVE  IsFiniteSet(1..n) /\ Cardinality(1..n) = n
<1>1. 1 \in Int /\ n \in Int /\ (IF 1 > n THEN 0 ELSE n - 1 + 1) = n
  OBVIOUS
<1>2. IsFiniteSet(1..n) /\ Cardinality(1..n) = IF 1 > n THEN 0 ELSE n - 1 + 1
  BY <1>1, FS_Interval
<1>3. QED
  BY <1>1, <1>2

\* Making a thread ready that is neither running nor ready does not panic.
LEMMA AddIsQuiet ==
    ASSUME Base, RoomForAll, ~panicked, NEW x \in Thread, x \in active',
           x # Thread_In_Esecuzione, ~Sched!InSeq(x, CodaPronti),
           Sched!Add_Thread_To_CodaPronti(x)
    PROVE  ~panicked'
<1> DEFINE n == Len(CodaPronti)
           T1 == Thread \ {Thread_In_Esecuzione}
           T2 == T1 \ {x}
<1>1. /\ n \in Nat /\ CodaPronti \in [1..n -> Thread]
      /\ Thread_In_Esecuzione \in Thread /\ Sched!Distinct(CodaPronti)
      /\ ~Sched!InSeq(Thread_In_Esecuzione, CodaPronti)
  BY RunningFacts DEF Base, Types, SchedTypes
<1>2. CodaPronti \in [1..n -> T2]
  <2>1. ASSUME NEW i \in 1..n PROVE CodaPronti[i] \in T2
    BY <1>1, <2>1 DEF Sched!InSeq
  <2>2. QED
    BY <1>1, <2>1
<1>3. CodaPronti \in Injection(1..n, T2)
  BY <1>1, <1>2 DEF Injection, IsInjective, Sched!Distinct
<1>4. IsFiniteSet(T1) /\ Cardinality(T1) = MAX_THREADS - 1
  BY <1>1, Constants, FS_RemoveElement
<1>5. IsFiniteSet(T2) /\ Cardinality(T2) = Cardinality(T1) - 1
  BY <1>4, FS_RemoveElement
<1>6. Cardinality(1..n) = n
  BY <1>1, UpToIs, Zenon
<1>7. Cardinality(1..n) <= Cardinality(T2)
  BY <1>3, <1>5, FS_Injection
<1>8. n < MAX_REFERENCES - 1
  BY <1>1, <1>4, <1>5, <1>6, <1>7, SizeAssumption DEF RoomForAll
<1>9. Len(CodaPronti) # MAX_REFERENCES - 1
  BY <1>1, <1>8, SizeAssumption
<1>10. panicked' = panicked
  BY <1>9, Zenon DEF Sched!Add_Thread_To_CodaPronti
<1>11. QED
  BY <1>10

\* With room for all the threads, no step of programs that respect WellUsed panics.
LEMMA NextNeverPanics ==
    ASSUME PInv, Disciplined, WellUsed, Next, RoomForAll, ~panicked
    PROVE  ~panicked'
<1>1. /\ Base /\ Thread_In_Esecuzione \in Thread /\ Thread_In_Esecuzione \in active
      /\ ~Sched!InSeq(Thread_In_Esecuzione, CodaPronti) /\ active \in SUBSET Thread
      /\ ReadySound(active, CodaPronti, Thread_In_Esecuzione)
      /\ WaitersSound(active, owner, Processi, Status, queue, inP, CodaPronti,
                      Thread_In_Esecuzione)
      /\ queue \in [Slot -> Seq(Thread)]
  BY RunningFacts DEF PInv, Base, Types, SchedTypes, Scheduled, Scheduling
<1>2. CASE \/ scheduler \/ getbmsg \/ freemsg \/ recmsg \/ recmsg_returns
           \/ Create_Process_From_ELF \/ Exit_Thread \/ Exit_Process
  BY <1>2, QuietSteps
<1>3. ASSUME NEW d \in Slot \ {kernel_slot}, NEW p \in Page, sendmsg(d, p)
      PROVE  ~panicked'
  <2>1. CASE Len(msgqueue[d]) = MAX_MESSAGES - 1
    BY <1>3, <2>1 DEF sendmsg, Exhausted, schedvars
  <2>2. CASE Len(msgqueue[d]) # MAX_MESSAGES - 1
    <3>1. Sched!Release(d, Status[d] + 1) /\ Processi[d].active
      BY <1>3, <2>2 DEF sendmsg
    <3>2. CASE queue[d] = <<>>
      BY <3>1, <3>2 DEF Sched!Release
    <3>3. CASE queue[d] # <<>>
      <4>1. PICK x : x = Head(queue[d])
        OBVIOUS
      <4>2. Sched!Add_Thread_To_CodaPronti(x) /\ active' = active
        BY <3>1, <3>3, <4>1 DEF Sched!Release
      <4>3. x \in Thread /\ Sched!InSeq(x, queue[d])
        BY <1>1, <3>1, <3>3, <4>1, InTail DEF WaitersSound
      <4>4. x \in active /\ x # Thread_In_Esecuzione /\ ~Sched!InSeq(x, CodaPronti)
        BY <1>1, <3>1, <4>3 DEF WaitersSound, Waits
      <4>5. QED
        BY <1>1, <4>2, <4>3, <4>4, AddIsQuiet
    <3>4. QED
      BY <3>2, <3>3
  <2>3. QED
    BY <2>1, <2>2
<1>4. CASE Sys_Create_Thread
  <2>1. CASE FreeThreads = {}
    BY <1>4, <2>1 DEF Sys_Create_Thread, Exhausted, schedvars
  <2>2. CASE FreeThreads # {}
    <3>1. PICK t : t = Min(FreeThreads)
      OBVIOUS
    <3>2. t \in Thread \ active
      <4>1. FreeThreads \in SUBSET Nat
        BY Constants DEF FreeThreads
      <4>2. QED
        BY <2>2, <3>1, <4>1, MinIn DEF FreeThreads
    <3>3. active' = active \cup {t} /\ Sched!Add_Thread_To_CodaPronti(t)
      <4>1. FreeEntries(Me) # {}
        BY <1>4, <2>2 DEF WellUsed
      <4>2. QED
        BY <1>4, <2>2, <3>1, <4>1 DEF Sys_Create_Thread, Create_Thread
    <3>4. t # Thread_In_Esecuzione /\ ~Sched!InSeq(t, CodaPronti)
      BY <1>1, <3>2 DEF ReadySound
    <3>5. QED
      BY <1>1, <3>2, <3>3, <3>4, AddIsQuiet
  <2>3. QED
    BY <2>1, <2>2
<1>5. ASSUME NEW s \in Slot, SIGNAL_CONT(s)
      PROVE  ~panicked'
  <2>1. PICK t : t = First_Thread(s)
    OBVIOUS
  <2>2. /\ Signal(s, "CONT") /\ active' = active /\ Parked(t)
        /\ Sched!Add_Thread_To_CodaPronti(t)
    BY <1>5, <2>1 DEF SIGNAL_CONT, MayContinue
  <2>3. t \in active /\ t # Thread_In_Esecuzione /\ ~Sched!InSeq(t, CodaPronti)
    BY <2>2 DEF Parked, Sched!Ready
  <2>4. QED
    BY <1>1, <2>2, <2>3, AddIsQuiet
<1>6. ASSUME NEW s \in Slot, SIGNAL_STOP(s) \/ SIGNAL_DESTROY(s) \/ Signal_Queued(s)
      PROVE  ~panicked'
  BY <1>6 DEF SIGNAL_STOP, SIGNAL_DESTROY, Signal_Queued, MayDestroy, Parked
<1>7. QED
  BY <1>2, <1>3, <1>4, <1>5, <1>6 DEF Next

\* Processes that respect WellUsed, under the discipline of init.c and shell.c, keep the
\* invariant for as long as the kernel has not panicked, whatever the sizes of the tables,
\* those of the shipped configuration included (150 threads and a CodaPronti of 50 cells,
\* which may fill up).
THEOREM SoundUntilPanic ==
    ASSUME Disciplined
    PROVE  Spec /\ [][WellUsed]_vars => [](panicked \/ PInv)
<1> DEFINE Inv == panicked \/ PInv
<1>1. Init => Inv
  BY InitPInv
<1>2. Inv /\ [Next]_vars /\ [WellUsed]_vars => Inv'
  <2> SUFFICES ASSUME Inv, [Next]_vars, [WellUsed]_vars PROVE Inv'
    OBVIOUS
  <2>1. CASE UNCHANGED vars
    <3>1. panicked' = panicked
      BY <2>1 DEF vars, schedvars
    <3>2. QED
      BY <2>1, <3>1, StutterPInv
  <2>2. CASE ~(UNCHANGED vars)
    <3>1. Next /\ WellUsed
      BY <2>2
    <3>2. PInv /\ ~panicked
      BY <3>1, PanicStops
    <3>3. QED
      BY <3>1, <3>2, NextPInv
  <2>3. QED
    BY <2>1, <2>2
<1> HIDE DEF Inv
<1>3. Spec /\ [][WellUsed]_vars => []Inv
  BY <1>1, <1>2, PTL DEF Spec
<1>4. QED
  BY <1>3 DEF Inv

\* With a cell for every thread, the kernel does not panic and keeps the invariant.
LEMMA AlwaysSound ==
    ASSUME Disciplined, RoomForAll
    PROVE  Spec /\ [][WellUsed]_vars => [](PInv /\ NoBrokenAssumption)
<1> DEFINE Inv == PInv /\ NoBrokenAssumption
<1>1. Init => Inv
  BY InitPInv DEF NoBrokenAssumption
<1>2. Inv /\ [Next]_vars /\ [WellUsed]_vars => Inv'
  <2> SUFFICES ASSUME Inv, [Next]_vars, [WellUsed]_vars PROVE Inv'
    OBVIOUS
  <2>1. CASE UNCHANGED vars
    <3>1. panicked' = panicked
      BY <2>1 DEF vars, schedvars
    <3>2. QED
      BY <2>1, <3>1, StutterPInv DEF NoBrokenAssumption
  <2>2. CASE ~(UNCHANGED vars)
    <3>1. Next /\ WellUsed
      BY <2>2
    <3>2. PInv /\ ~panicked
      BY DEF NoBrokenAssumption
    <3>3. ~panicked'
      BY <3>1, <3>2, NextNeverPanics
    <3>4. QED
      BY <3>1, <3>2, <3>3, NextPInv DEF NoBrokenAssumption
  <2>3. QED
    BY <2>1, <2>2
<1> HIDE DEF Inv
<1>3. Spec /\ [][WellUsed]_vars => []Inv
  BY <1>1, <1>2, PTL DEF Spec
<1>4. QED
  BY <1>3 DEF Inv

\* Until the kernel panics: the types; one owner for every page; the messages counted by
\* Messages, none of them waiting while its receiver sleeps, all of them in the queue they
\* were sent to; tables that agree and queues that hold who they should; and the two
\* assertions of recmsg and Exit_Thread.
THEOREM PropertiesUntilPanic ==
    ASSUME Disciplined
    PROVE  Spec /\ [][WellUsed]_vars =>
             [](panicked \/ /\ ProcTypeOK /\ OnePageOneOwner
                            /\ MessagesCounted /\ NoSleepOnMail /\ NoMailForTheDead
                            /\ TablesAgree /\ QueuesSound
                            /\ RecvFindsMessage /\ RunningIsListed)
<1> DEFINE Props == /\ ProcTypeOK /\ OnePageOneOwner
                    /\ MessagesCounted /\ NoSleepOnMail /\ NoMailForTheDead
                    /\ TablesAgree /\ QueuesSound
                    /\ RecvFindsMessage /\ RunningIsListed
<1>1. PInv => Props
  BY TypesImply, PlacesImply, CountImplies, SoundImplies DEF PInv
<1>2. Spec /\ [][WellUsed]_vars => [](panicked \/ PInv)
  BY SoundUntilPanic
<1> HIDE DEF Props
<1>3. Spec /\ [][WellUsed]_vars => [](panicked \/ Props)
  BY <1>1, <1>2, PTL
<1>4. QED
  BY <1>3 DEF Props

\* With room for every thread in CodaPronti no panic stops the kernel: P(Messages) never
\* returns to an empty queue, no dead thread is made ready and no thread is missing from the
\* table of its process.
THEOREM KernelNeverPanics ==
    ASSUME Disciplined, RoomForAll
    PROVE  Spec /\ [][WellUsed]_vars => []NoBrokenAssumption
BY AlwaysSound, PTL

\* The process table, the message queues and the pages have their types.
THEOREM ProcessTypes ==
    ASSUME Disciplined, RoomForAll
    PROVE  Spec /\ [][WellUsed]_vars => []ProcTypeOK
BY AlwaysSound, TypesImply, PTL

\* A message page is free, or mapped in one process, or queued once: sendmsg, recmsg,
\* freemsg and Exit_Process move it and never copy or lose it.
THEOREM PagesHaveOneOwner ==
    ASSUME Disciplined, RoomForAll
    PROVE  Spec /\ [][WellUsed]_vars => []OnePageOneOwner
BY AlwaysSound, PlacesImply, PTL

\* The semaphore of a process counts the messages that are not promised yet.
THEOREM MailIsCounted ==
    ASSUME Disciplined, RoomForAll
    PROVE  Spec /\ [][WellUsed]_vars => []MessagesCounted
<1>1. PInv => MessagesCounted
  BY DEF PInv
<1>2. QED
  BY <1>1, AlwaysSound, PTL

\* No process sleeps in recmsg on a message that is for nobody else, and a recmsg that was
\* resumed finds one.
THEOREM MailIsTaken ==
    ASSUME Disciplined, RoomForAll
    PROVE  Spec /\ [][WellUsed]_vars => [](NoSleepOnMail /\ RecvFindsMessage)
BY AlwaysSound, CountImplies, PTL

\* No process gets the mail of the dead one whose slot it has.
THEOREM MailIsForTheLiving ==
    ASSUME Disciplined, RoomForAll
    PROVE  Spec /\ [][WellUsed]_vars => []NoMailForTheDead
<1>1. PInv => NoMailForTheDead
  BY DEF PInv
<1>2. QED
  BY <1>1, AlwaysSound, PTL

\* The thread and the process tables agree, CodaPronti and the queues of the semaphores hold
\* each thread once and no dead one, and the running thread is in the table of its process.
THEOREM TablesAndQueuesSound ==
    ASSUME Disciplined, RoomForAll
    PROVE  Spec /\ [][WellUsed]_vars => [](TablesAgree /\ QueuesSound /\ RunningIsListed)
BY AlwaysSound, SoundImplies, PTL

================================================================================
