------------------------------ MODULE EventsProofs ------------------------------
(***************************************************************************)
(* The events of OSSO for any numbers of threads, processes, events and    *)
(* cells.  With careful clients no mutex of events.c stays taken, and      *)
(* whoever waits for an event can be woken; whatever clients call, no cell *)
(* of the pool is lost while events are cleared head of the list first.    *)
(***************************************************************************)
EXTENDS Events, FiniteSetTheorems, WellFoundedInduction, TLAPS

--------------------------------------------------------------------------------
(* Induction, with sets where the library has an operator P(_). *)

\* The order of the natural numbers, as the relation the library's theorems are about.
LEMMA LessThanRel == \A x, y \in Nat : <<x, y>> \in OpToRel(<, Nat) <=> x < y
  BY DEF OpToRel

\* A nonempty set of natural numbers has a least element.
LEMMA LeastExists ==
    ASSUME NEW T \in SUBSET Nat, T # {}
    PROVE  \E x \in T : \A y \in T : x <= y
<1>1. \E x \in T : \A y \in T : ~(<<y, x>> \in OpToRel(<, Nat))
  BY NatLessThanWellFounded, WFMin
<1>2. \A x, y \in T : <<y, x>> \in OpToRel(<, Nat) <=> y < x
  BY LessThanRel, Zenon
<1>3. \E x \in T : \A y \in T : ~(y < x)
  BY <1>1, <1>2, Zenon
<1>4. QED
  BY <1>3

\* Induction: a set of natural numbers that holds 0 and the successor of every member
\* holds them all.
LEMMA Inductive ==
    ASSUME NEW S \in SUBSET Nat, 0 \in S, \A n \in S : n + 1 \in S
    PROVE  S = Nat
<1>1. SUFFICES ASSUME Nat \ S # {} PROVE FALSE
  OBVIOUS
<1>2. PICK x \in Nat \ S : \A y \in Nat \ S : x <= y
  BY <1>1, LeastExists
<1>3. x # 0 /\ x - 1 \in Nat /\ x - 1 \in S
  BY <1>2
<1>4. QED
  BY <1>2, <1>3


--------------------------------------------------------------------------------
(* The invariant: types.                                                       *)

Sems == [Key -> [Status : Nat, queue : Seq(Thread)]]

Ats == {[do |-> d] : d \in {"user", "public", "private", "return"}}
       \cup {[do |-> "P", on |-> k, then |-> d] : k \in Key, d \in {"public", "private", "return"}}

CellTypes ==
    /\ next \in [Cell \cup {NULL} -> Cell \cup {NULL}]
    /\ name \in [Cell -> Private \cup {None}]
    /\ events_freelist \in Cell \cup {NULL}
    /\ Events_List \in [Process -> Cell \cup {NULL}]

OwnerTypes == owner \in [Public -> Process \cup {None}]

Types ==
    /\ sem \in Sems
    /\ kernel \in Thread \cup {None}
    /\ call \in [Thread -> Call \cup {None}]
    /\ at \in [Thread -> Ats]
    /\ asleep \in SUBSET Thread
    /\ OwnerTypes
    /\ CellTypes

(* The invariant: how far a call has got and which mutex it holds.             *)

\* The process whose private events a call is about.
Target(t, c) == IF c.op = "signal" THEN c.to ELSE task[t]

PrivateCall(c) == c.ev \in Private /\ c.op # "clearevent"

\* The event a call is about, NULL if it is a private one that does not exist.
Event(t, c) == IF c.ev \in Public THEN c.ev ELSE Search(task[t], c.ev)

\* The call c of t is about to do a.
Stage(t, c, a) ==
    \/ /\ a = [do |-> "P", on |-> Events_Sem, then |-> "public"]
       /\ c.op # "getevent" /\ (c.op = "signal" => c.ev \in Public)
    \/ a = [do |-> "public"] /\ (c.op = "signal" => c.ev \in Public)
    \/ a = [do |-> "P", on |-> Target(t, c), then |-> "private"] /\ PrivateCall(c)
    \/ a = [do |-> "private"] /\ PrivateCall(c)
    \/ /\ a = [do |-> "P", on |-> Event(t, c), then |-> "return"]
       /\ c.op = "wait" /\ Event(t, c) \in Public \cup Cell
       /\ c.ev \in Public => owner[c.ev] = task[t]
    \/ a = [do |-> "return"] /\ c.op = "wait"

\* Only the thread in the kernel is in the middle of a call; the others in a call
\* wait for an event, or have been woken.
Stages ==
    /\ kernel # None => call[kernel] # None /\ kernel \notin asleep
                        /\ Stage(kernel, call[kernel], at[kernel])
    /\ \A t \in Thread : call[t] # None /\ t # kernel =>
                            call[t].op = "wait" /\ at[t] = [do |-> "return"]

\* The calls that careful clients do not make.
Careless(t, c) == Clears(c) \/ Leaves_Locked(t, c)

\* What made the call a careful one is still so.
StillCareful ==
    kernel # None /\ at[kernel] # [do |-> "return"] =>
       ~Careless(kernel, call[kernel]) /\ Bounded(call[kernel])

\* The mutex that is taken, if any.
Held == IF kernel = None THEN None
        ELSE IF at[kernel].do = "public" /\ call[kernel].op # "getevent" THEN Events_Sem
        ELSE IF at[kernel].do = "private" THEN Target(kernel, call[kernel])
        ELSE None

\* The mutexes are free, but for x.
MutexesAre(s, x) ==
    \A m \in Mutex : s[m].queue = <<>> /\ s[m].Status = IF m = x THEN 0 ELSE 1

Locks == MutexesAre(sem, Held)

\* No event is signalled beyond the bound.
Counts == \A k \in Key \ Mutex : sem[k].Status <= MaxStatus

(* The invariant: the cells.                                                   *)

\* The links nx from hd on are those of the cells of w.
IsChain(nx, hd, w) ==
    /\ w \in Seq(Cell) /\ Len(w) <= MAX_EVENT_NUMBER
    /\ w = <<>> => hd = NULL
    /\ w # <<>> => hd = w[1] /\ nx[w[Len(w)]] = NULL
    /\ \A i \in 1 .. Len(w) - 1 : nx[w[i]] = w[i + 1]

\* The free list is that of None.
Lists == Process \cup {None}
First(l) == IF l = None THEN events_freelist ELSE Events_List[l]
List(l) == Walk(next, First(l))

Pool ==
    /\ \A l \in Lists : IsChain(next, First(l), List(l))
    /\ \A l, k \in Lists : \A i \in 1 .. Len(List(l)), j \in 1 .. Len(List(k)) :
          List(l)[i] = List(k)[j] => l = k /\ i = j
    /\ \A c \in Cell : \E l \in Lists : \E i \in 1 .. Len(List(l)) : List(l)[i] = c

Names ==
    \A p \in Process : \A i, j \in 1 .. Len(Mine(p)) : name[Mine(p)[i]] = name[Mine(p)[j]] => i = j

(* The invariant: who sleeps where.                                            *)

\* Who sleeps on k waits for k, which is its own, and is there once.
WaitsOn(k) ==
    \A i \in 1 .. Len(sem[k].queue) :
       LET t == sem[k].queue[i]
       IN  /\ t \in asleep /\ call[t] # None /\ Event(t, call[t]) = k
           /\ k \in Public => owner[k] = task[t]

Once(q) == \A i, j \in 1 .. Len(q) : q[i] = q[j] => i = j

Sleepers ==
    /\ \A k \in Public \cup Cell : Once(sem[k].queue) /\ WaitsOn(k)
    /\ \A t \in asleep : \E k \in Public \cup Cell : SleepsOn(t, k)

\* Without the cells and the sleepers.
Core == Types /\ Stages /\ StillCareful /\ Locks /\ Counts

EInv == Core /\ Pool /\ Names /\ Sleepers

--------------------------------------------------------------------------------
(* Semaphores.                                                                 *)

\* The mutexes, the public events and the cells are different semaphores.
LEMMA Keys ==
    /\ Mutex \subseteq Key /\ Public \subseteq Key /\ Cell \subseteq Key
    /\ Key \ Mutex = Public \cup Cell
    /\ Events_Sem \in Mutex /\ Process \subseteq Mutex /\ Events_Sem \notin Process
    /\ \A m \in Mutex : m \notin Public /\ m \notin Cell /\ m # None
    /\ \A e \in Public : e \notin Cell /\ e # NULL /\ e # None /\ e \notin Private
    /\ NULL \notin Cell /\ None \notin Cell
BY EventsAssumption, NamesAssumption DEF Key, Mutex, Cell, NULL

\* V and Bool_V either set the value or take the first out of the queue.
LEMMA UpFields ==
    ASSUME NEW s \in Sems, NEW k \in Key, NEW v \in Nat
    PROVE  /\ Up(s, k, v) \in Sems
           /\ \A j \in Key : j # k => Up(s, k, v)[j] = s[j]
           /\ s[k].queue = <<>> => Up(s, k, v)[k] = [Status |-> v, queue |-> <<>>]
           /\ s[k].queue # <<>> =>
                 Up(s, k, v)[k] = [Status |-> s[k].Status, queue |-> Tail(s[k].queue)]
<1>1. s[k] \in [Status : Nat, queue : Seq(Thread)]
  BY DEF Sems
<1>2. CASE s[k].queue = <<>>
  <2>1. Up(s, k, v) = [s EXCEPT ![k].Status = v]
    BY <1>2, Zenon DEF Up
  <2>2. QED
    BY <1>1, <1>2, <2>1 DEF Sems
<1>3. CASE s[k].queue # <<>>
  <2>0. \A r \in Seq(Thread) : r # <<>> => Tail(r) \in Seq(Thread)
    OBVIOUS
  <2>1. PICK q \in Seq(Thread) : q = Tail(s[k].queue)
    BY <1>1, <1>3, <2>0
  <2>2. Up(s, k, v) = [s EXCEPT ![k].queue = q]
    BY <1>3, <2>1 DEF Up
  <2>3. QED
    BY <1>1, <1>3, <2>1, <2>2 DEF Sems
<1>4. QED
  BY <1>2, <1>3

\* Bool_V on a mutex that is taken, or on a free one, leaves them all free.
LEMMA Unlocks ==
    ASSUME NEW s \in Sems, NEW m \in Mutex, NEW x \in {m, None}, MutexesAre(s, x)
    PROVE  /\ Bool_V(s, m) \in Sems /\ MutexesAre(Bool_V(s, m), None)
           /\ \A k \in Public \cup Cell : Bool_V(s, m)[k] = s[k]
<1>1. s[m].queue = <<>>
  BY DEF MutexesAre
<1>2. /\ Bool_V(s, m) \in Sems
      /\ \A j \in Key : j # m => Bool_V(s, m)[j] = s[j]
      /\ Bool_V(s, m)[m] = [Status |-> 1, queue |-> <<>>]
  <2>1. m \in Key /\ 1 \in Nat
    BY Keys
  <2>2. Bool_V(s, m) = Up(s, m, 1)
    BY DEF Bool_V
  <2>3. \A v \in Nat : /\ Up(s, m, v) \in Sems
                       /\ \A j \in Key : j # m => Up(s, m, v)[j] = s[j]
                       /\ Up(s, m, v)[m] = [Status |-> v, queue |-> <<>>]
    BY <1>1, <2>1, UpFields
  <2>4. QED
    BY <2>1, <2>2, <2>3
<1>3. MutexesAre(Bool_V(s, m), None)
  <2>1. ASSUME NEW j \in Mutex
        PROVE  Bool_V(s, m)[j].queue = <<>> /\ Bool_V(s, m)[j].Status = IF j = None THEN 0 ELSE 1
    <3>1. CASE j = m
      BY <1>2, <3>1, Keys
    <3>2. CASE j # m
      BY <1>2, <3>2, Keys DEF MutexesAre
    <3>3. QED
      BY <3>1, <3>2
  <2>2. QED
    BY <2>1 DEF MutexesAre
<1>4. QED
  BY <1>2, <1>3, Keys

\* A V on an event leaves the mutexes and the other events alone.
LEMMA Signals ==
    ASSUME NEW s \in Sems, NEW e \in Public \cup Cell, NEW x, MutexesAre(s, x)
    PROVE  /\ V(s, e) \in Sems /\ MutexesAre(V(s, e), x)
           /\ \A k \in Public \cup Cell : k # e => V(s, e)[k] = s[k]
           /\ s[e].queue = <<>> => V(s, e)[e] = [Status |-> s[e].Status + 1, queue |-> <<>>]
           /\ s[e].queue # <<>> => V(s, e)[e] = [Status |-> s[e].Status, queue |-> Tail(s[e].queue)]
<1>1. e \in Key /\ e \notin Mutex /\ s[e].Status + 1 \in Nat
  BY Keys DEF Sems
<1>2. /\ V(s, e) \in Sems
      /\ \A j \in Key : j # e => V(s, e)[j] = s[j]
      /\ s[e].queue = <<>> => V(s, e)[e] = [Status |-> s[e].Status + 1, queue |-> <<>>]
      /\ s[e].queue # <<>> => V(s, e)[e] = [Status |-> s[e].Status, queue |-> Tail(s[e].queue)]
  BY <1>1, UpFields DEF V
<1>3. MutexesAre(V(s, e), x)
  BY <1>1, <1>2, Keys DEF MutexesAre
<1>4. QED
  BY <1>2, <1>3, Keys

\* A new event has an empty semaphore; nothing else changes.
LEMMA Resets ==
    ASSUME NEW s \in Sems, NEW e \in Public \cup Cell, NEW x, MutexesAre(s, x)
    PROVE  /\ Init_Semaphore(s, e, 0) \in Sems /\ MutexesAre(Init_Semaphore(s, e, 0), x)
           /\ \A k \in Public \cup Cell : k # e => Init_Semaphore(s, e, 0)[k] = s[k]
           /\ Init_Semaphore(s, e, 0)[e] = [Status |-> 0, queue |-> <<>>]
<1>1. e \in Key /\ e \notin Mutex
  BY Keys
<1>2. PICK r : r = [Status |-> 0, queue |-> <<>>]
  OBVIOUS
<1>3. r \in [Status : Nat, queue : Seq(Thread)]
  BY <1>2
<1>4. Init_Semaphore(s, e, 0) = [s EXCEPT ![e] = r]
  BY <1>2 DEF Init_Semaphore
<1>5. /\ Init_Semaphore(s, e, 0) \in Sems
      /\ \A k \in Key : Init_Semaphore(s, e, 0)[k] = IF k = e THEN r ELSE s[k]
  BY <1>1, <1>3, <1>4 DEF Sems
<1>6. QED
  BY <1>1, <1>2, <1>5, Keys DEF MutexesAre

\* The mutexes wake nobody.
LEMMA MutexWakesNobody ==
    ASSUME NEW x, MutexesAre(sem, x), NEW m \in Mutex, NEW K
    PROVE  Woken({m} \cup K) = Woken(K) /\ Woken({m}) = {}
BY DEF MutexesAre, Woken

--------------------------------------------------------------------------------
(* The lists of cells.                                                         *)

\* Following the links finds the cells of the list.
LEMMA WalkIs ==
    ASSUME NEW nx, NEW hd, NEW w, IsChain(nx, hd, w)
    PROVE  Walk(nx, hd) = w
<1> DEFINE N == MAX_EVENT_NUMBER + 1
           Step(g, n) == IF n = 1 THEN hd
                         ELSE IF g[n - 1] = NULL THEN NULL ELSE nx[g[n - 1]]
           Goes(g) == g = [n \in 1..MAX_EVENT_NUMBER + 1 |->
                             IF n = 1 THEN hd
                             ELSE IF g[n - 1] = NULL THEN NULL ELSE nx[g[n - 1]]]
           step == CHOOSE g : Goes(g)
           f == [n \in 1..N |-> IF n <= Len(w) THEN w[n] ELSE NULL]
<1>1. /\ w \in Seq(Cell) /\ Len(w) \in Nat /\ N \in Nat /\ Len(w) < N
      /\ w = <<>> => hd = NULL
      /\ w # <<>> => hd = w[1] /\ nx[w[Len(w)]] = NULL
      /\ \A i \in 1 .. Len(w) - 1 : nx[w[i]] = w[i + 1]
      /\ \A i \in 1 .. Len(w) : w[i] \in Cell /\ w[i] # NULL
  BY EventsAssumption DEF IsChain, Cell, NULL
<1>2. ASSUME NEW n \in 1..N PROVE f[n] = Step(f, n)
  <2>1. CASE n = 1
    BY <1>1, <2>1
  <2>2. CASE n # 1 /\ n <= Len(w)
    BY <1>1, <2>2
  <2>3. CASE n = Len(w) + 1 /\ n # 1
    BY <1>1, <2>3
  <2>4. CASE n > Len(w) + 1
    BY <1>1, <2>4
  <2>5. QED
    BY <1>1, <2>1, <2>2, <2>3, <2>4
<1>3. Goes(f)
  <2>1. f = [n \in 1..N |-> Step(f, n)]
    BY <1>2, Zenon
  <2>2. QED
    BY <2>1
<1>4. Goes(step)
  BY <1>3, Zenon
<1>5. Walk(nx, hd) = [n \in {m \in 1..MAX_EVENT_NUMBER + 1 : step[m] # NULL} |-> step[n]]
  BY Zenon DEF Walk
<1>6. \A n \in 1..N : step[n] = Step(step, n)
  BY <1>4
<1> HIDE DEF step, Goes
<1>7. \A n \in 1..N : step[n] = f[n]
  <2> DEFINE S == {m \in Nat : m + 1 <= N => step[m + 1] = f[m + 1]}
  <2>1. 0 \in S
    BY <1>1, <1>2, <1>6
  <2>2. ASSUME NEW m \in S PROVE m + 1 \in S
    <3>1. CASE (m + 1) + 1 <= N
      <4>1. m + 1 \in 1..N /\ (m + 1) + 1 \in 1..N /\ ((m + 1) + 1) - 1 = m + 1 /\ (m + 1) + 1 # 1
        BY <1>1, <3>1
      <4>2. step[m + 1] = f[m + 1]
        BY <4>1
      <4>3. Step(step, (m + 1) + 1) = Step(f, (m + 1) + 1)
        BY <4>1, <4>2
      <4>4. step[(m + 1) + 1] = f[(m + 1) + 1]
        BY <1>2, <1>6, <4>1, <4>3
      <4>5. QED
        BY <4>4
    <3>2. QED
      BY <3>1
  <2> HIDE DEF S
  <2>3. S = Nat
    BY <2>1, <2>2, Inductive DEF S
  <2>4. ASSUME NEW n \in 1..N PROVE step[n] = f[n]
    <3>1. n - 1 \in S /\ (n - 1) + 1 = n /\ n <= N
      BY <1>1, <2>3
    <3>2. QED
      BY <3>1 DEF S
  <2>5. QED
    BY <2>4
<1>8. {m \in 1..N : step[m] # NULL} = 1 .. Len(w)
  BY <1>1, <1>7
<1>9. Walk(nx, hd) = [n \in 1 .. Len(w) |-> w[n]]
  <2>1. Walk(nx, hd) = [n \in 1 .. Len(w) |-> step[n]]
    BY <1>5, <1>8
  <2>2. \A n \in 1 .. Len(w) : step[n] = w[n]
    BY <1>1, <1>7
  <2>3. QED
    BY <2>1, <2>2
<1>10. QED
  BY <1>1, <1>9

\* There are n numbers from 1 to n.
LEMMA UpToIs ==
    ASSUME NEW n \in Nat
    PROVE  IsFiniteSet(1..n) /\ Cardinality(1..n) = n
<1>1. 1 \in Int /\ n \in Int /\ (IF 1 > n THEN 0 ELSE n - 1 + 1) = n
  OBVIOUS
<1>2. IsFiniteSet(1..n) /\ Cardinality(1..n) = IF 1 > n THEN 0 ELSE n - 1 + 1
  BY <1>1, FS_Interval
<1>3. QED
  BY <1>1, <1>2

\* A list of different cells is no longer than the pool.
LEMMA ChainShort ==
    ASSUME NEW w \in Seq(Cell), \A i, j \in 1 .. Len(w) : w[i] = w[j] => i = j
    PROVE  Len(w) <= MAX_EVENT_NUMBER
<1>1. Len(w) \in Nat /\ w \in [1 .. Len(w) -> Cell]
  OBVIOUS
<1>2. w \in Injection(1 .. Len(w), Cell)
  BY <1>1 DEF Injection, IsInjective
<1>3. IsFiniteSet(Cell) /\ Cardinality(Cell) = MAX_EVENT_NUMBER
  BY EventsAssumption, UpToIs DEF Cell
<1>4. Cardinality(1 .. Len(w)) = Len(w)
  BY <1>1, UpToIs, Zenon
<1>5. QED
  BY <1>2, <1>3, <1>4, FS_Injection

\* A list without its first cell, whatever the link of that one becomes.
LEMMA ChainTail ==
    ASSUME NEW nx, NEW hd, NEW w, IsChain(nx, hd, w), w # <<>>,
           NEW ny, \A i \in 2 .. Len(w) : ny[w[i]] = nx[w[i]]
    PROVE  hd = w[1] /\ IsChain(ny, nx[hd], Tail(w))
<1>1. /\ w \in Seq(Cell) /\ Len(w) \in Nat \ {0} /\ Len(w) <= MAX_EVENT_NUMBER
      /\ hd = w[1] /\ nx[w[Len(w)]] = NULL
      /\ \A i \in 1 .. Len(w) - 1 : nx[w[i]] = w[i + 1]
  BY DEF IsChain
<1>2. Tail(w) \in Seq(Cell) /\ Len(Tail(w)) = Len(w) - 1 /\ \A i \in 1 .. Len(w) - 1 : Tail(w)[i] = w[i + 1]
  BY <1>1
<1>3. Len(Tail(w)) <= MAX_EVENT_NUMBER
  BY <1>1, <1>2, EventsAssumption
<1>4. CASE Len(w) = 1
  <2>1. Len(Tail(w)) = 0 /\ Tail(w) = <<>>
    <3>1. \A r \in Seq(Cell) : Len(r) = 0 => r = <<>>
      OBVIOUS
    <3>2. Len(Tail(w)) = 0
      BY <1>1, <1>2, <1>4
    <3>3. QED
      BY <1>2, <3>1, <3>2
  <2>2. nx[hd] = NULL
    BY <1>1, <1>4
  <2>3. \A i \in 1 .. Len(Tail(w)) - 1 : ny[Tail(w)[i]] = Tail(w)[i + 1]
    BY <2>1
  <2>4. QED
    BY <1>1, <1>2, <1>3, <2>1, <2>2, <2>3 DEF IsChain
<1>5. CASE Len(w) > 1
  <2>1. Tail(w) # <<>> /\ nx[hd] = Tail(w)[1]
    <3>1. \A r \in Seq(Cell) : r = <<>> => Len(r) = 0
      OBVIOUS
    <3>2. Len(Tail(w)) # 0 /\ 1 \in 1 .. Len(w) - 1 /\ 1 + 1 = 2
      BY <1>1, <1>2, <1>5
    <3>3. Tail(w) # <<>>
      BY <1>2, <3>1, <3>2
    <3>4. Tail(w)[1] = w[2] /\ nx[w[1]] = w[2]
      BY <1>1, <1>2, <3>2
    <3>5. QED
      BY <1>1, <3>3, <3>4
  <2>2. ny[Tail(w)[Len(Tail(w))]] = NULL
    <3>1. Tail(w)[Len(Tail(w))] = w[Len(w)] /\ Len(w) \in 2 .. Len(w)
      BY <1>1, <1>2, <1>5
    <3>2. QED
      BY <1>1, <3>1
  <2>3. ASSUME NEW i \in 1 .. Len(Tail(w)) - 1 PROVE ny[Tail(w)[i]] = Tail(w)[i + 1]
    <3>1. /\ i \in 1 .. Len(w) - 1 /\ i + 1 \in 1 .. Len(w) - 1 /\ i + 1 \in 2 .. Len(w)
      BY <1>1, <1>2
    <3>2. Tail(w)[i] = w[i + 1] /\ Tail(w)[i + 1] = w[(i + 1) + 1] /\ nx[w[i + 1]] = w[(i + 1) + 1]
      BY <1>1, <1>2, <3>1
    <3>3. QED
      BY <3>1, <3>2
  <2>4. QED
    BY <1>1, <1>2, <1>3, <2>1, <2>2, <2>3 DEF IsChain
<1>6. Len(w) = 1 \/ Len(w) > 1
  <2>1. \A n \in Nat \ {0} : n = 1 \/ n > 1
    OBVIOUS
  <2>2. QED
    BY <1>1, <2>1, Zenon
<1>7. QED
  BY <1>1, <1>4, <1>5, <1>6

\* A cell put in front of a list it is not in.
LEMMA ChainPush ==
    ASSUME NEW nx, NEW hd, NEW w, IsChain(nx, hd, w), NEW c \in Cell,
           NEW ny, ny[c] = hd, \A i \in 1 .. Len(w) : ny[w[i]] = nx[w[i]],
           NEW v, v = <<c>> \o w, Len(v) <= MAX_EVENT_NUMBER
    PROVE  IsChain(ny, c, v)
<1>1. /\ w \in Seq(Cell) /\ Len(w) \in Nat
      /\ w = <<>> => hd = NULL
      /\ w # <<>> => hd = w[1] /\ nx[w[Len(w)]] = NULL
      /\ \A i \in 1 .. Len(w) - 1 : nx[w[i]] = w[i + 1]
  BY DEF IsChain
<1>2. /\ v \in Seq(Cell) /\ Len(v) = Len(w) + 1 /\ v[1] = c /\ v # <<>>
      /\ \A i \in 1 .. Len(w) : v[i + 1] = w[i]
  BY <1>1
<1>3. ny[v[Len(v)]] = NULL
  <2>1. CASE w = <<>>
    BY <1>1, <1>2, <2>1
  <2>2. CASE w # <<>>
    <3>1. Len(w) \in 1 .. Len(w) /\ v[Len(v)] = w[Len(w)]
      BY <1>1, <1>2, <2>2
    <3>2. QED
      BY <1>1, <2>2, <3>1
  <2>3. QED
    BY <2>1, <2>2
<1>4. ASSUME NEW i \in 1 .. Len(v) - 1 PROVE ny[v[i]] = v[i + 1]
  <2>1. CASE i = 1
    <3>1. w # <<>> /\ 1 \in 1 .. Len(w) /\ v[i + 1] = w[1] /\ v[i] = c
      BY <1>1, <1>2, <2>1
    <3>2. QED
      BY <1>1, <3>1
  <2>2. CASE i # 1
    <3>1. PICK j \in 1 .. Len(w) - 1 : i = j + 1
      <4>1. i - 1 \in 1 .. Len(w) - 1 /\ i = (i - 1) + 1
        BY <1>1, <1>2, <2>2
      <4>2. QED
        BY <4>1
    <3>2. j \in 1 .. Len(w) /\ j + 1 \in 1 .. Len(w)
      BY <1>1
    <3>3. v[i] = w[j] /\ v[i + 1] = w[j + 1]
      BY <1>2, <3>1, <3>2
    <3>4. QED
      BY <1>1, <3>1, <3>2, <3>3
  <2>3. QED
    BY <2>1, <2>2
<1>5. QED
  BY <1>2, <1>3, <1>4 DEF IsChain

\* The first cell of w called e, if any, in terms of the names nm.
Look(nm, w, e) ==
    LET found == {i \in DOMAIN w : nm[w[i]] = e}
    IN  IF found = {} THEN NULL ELSE w[CHOOSE i \in found : \A j \in found : i <= j]

\* r is a cell of w called e, or NULL if there is none.
Finds(nm, w, e, r) ==
    /\ r \in Cell \cup {NULL}
    /\ r = NULL => \A i \in 1 .. Len(w) : nm[w[i]] # e
    /\ r # NULL => \E i \in 1 .. Len(w) : w[i] = r /\ nm[w[i]] = e

\* What Look finds is a cell of the list with that name, the only one if names differ.
LEMMA LookIs ==
    ASSUME NEW nm, NEW w \in Seq(Cell), NEW e
    PROVE  /\ Finds(nm, w, e, Look(nm, w, e))
           /\ (\A i, j \in 1 .. Len(w) : nm[w[i]] = nm[w[j]] => i = j) =>
                 \A i \in 1 .. Len(w) : nm[w[i]] = e => Look(nm, w, e) = w[i]
<1> DEFINE found == {i \in DOMAIN w : nm[w[i]] = e}
           least == CHOOSE i \in found : \A j \in found : i <= j
<1>1. DOMAIN w = 1 .. Len(w) /\ Len(w) \in Nat /\ found \in SUBSET Nat /\ NULL \notin Cell
  BY Keys
<1>2. \A i \in 1 .. Len(w) : w[i] \in Cell
  OBVIOUS
<1>3. CASE found = {}
  <2>1. Look(nm, w, e) = NULL
    BY <1>3 DEF Look
  <2>2. \A i \in 1 .. Len(w) : nm[w[i]] # e
    BY <1>1, <1>3
  <2>3. Finds(nm, w, e, Look(nm, w, e))
    BY <2>1, <2>2 DEF Finds
  <2>4. QED
    BY <2>2, <2>3
<1>4. CASE found # {}
  <2>1. \E i \in found : \A j \in found : i <= j
    BY <1>1, <1>4, LeastExists
  <2>2. least \in found
    BY <2>1
  <2>3. Look(nm, w, e) = w[least]
    BY <1>4 DEF Look
  <2>4. least \in 1 .. Len(w) /\ nm[w[least]] = e
    BY <1>1, <2>2
  <2> HIDE DEF least
  <2>5. Finds(nm, w, e, Look(nm, w, e))
    BY <1>1, <1>2, <2>3, <2>4 DEF Finds
  <2>6. QED
    BY <1>1, <1>2, <2>3, <2>4, <2>5
<1>5. QED
  BY <1>3, <1>4

\* Search looks through the list of the process, before a step and after it.
LEMMA SearchLooks ==
    \A p, e : /\ Search(p, e) = Look(name, Mine(p), e)
              /\ Search(p, e)' = Look(name', Mine(p)', e)
BY Zenon DEF Search, Look

\* The list of a process is the one the invariant speaks of.
LEMMA MineIsList ==
    \A p \in Process : Mine(p) = List(p) /\ Mine(p)' = List(p)' /\ p \in Lists /\ First(p) = Events_List[p]
                       /\ First(p)' = Events_List'[p]
<1>1. None \notin Process
  BY EventsAssumption
<1>2. QED
  BY <1>1 DEF Mine, List, First, Lists

\* The lists are sequences of cells.
LEMMA ListsTyped ==
    ASSUME Pool
    PROVE  \A l \in Lists : /\ List(l) \in Seq(Cell) /\ Len(List(l)) \in Nat
                            /\ \A i \in 1 .. Len(List(l)) : List(l)[i] \in Cell
<1>1. ASSUME NEW l \in Lists
      PROVE  List(l) \in Seq(Cell) /\ Len(List(l)) \in Nat /\ \A i \in 1 .. Len(List(l)) : List(l)[i] \in Cell
  <2>1. List(l) \in Seq(Cell)
    BY DEF Pool, IsChain
  <2>2. QED
    BY <2>1
<1>2. QED
  BY <1>1

\* An event a process has is in its list.
LEMMA SearchIs ==
    ASSUME Pool, NEW p \in Process, NEW e
    PROVE  Finds(name, List(p), e, Search(p, e))
<1>1. Search(p, e) = Look(name, List(p), e) /\ List(p) \in Seq(Cell)
  BY SearchLooks, MineIsList, ListsTyped
<1>2. Finds(name, List(p), e, Look(name, List(p), e))
  BY <1>1, LookIs
<1>3. QED
  BY <1>1, <1>2

--------------------------------------------------------------------------------
(* What a step leaves alone.                                                   *)

SameCells == UNCHANGED <<next, name, events_freelist, Events_List>>

\* The cells stay as they are, and so does what is said of them.
LEMMA SameCellsMeans ==
    ASSUME SameCells
    PROVE  /\ \A p, e : Search(p, e)' = Search(p, e)
           /\ \A t, c : Event(t, c)' = Event(t, c)
           /\ Pool => Pool'
           /\ Names => Names'
<1>1. \A p : Mine(p)' = Mine(p)
  BY DEF SameCells, Mine
<1>2. \A p, e : Search(p, e)' = Search(p, e)
  BY <1>1, SearchLooks DEF SameCells
<1>3. \A l : First(l)' = First(l) /\ List(l)' = List(l)
  BY DEF SameCells, First, List
<1>4. next' = next /\ name' = name
  BY DEF SameCells
<1>5. Pool => Pool'
  BY <1>3, <1>4 DEF Pool
<1>6. Names => Names'
  BY <1>1, <1>4 DEF Names
<1>7. \A t, c : Event(t, c)' = Event(t, c)
  BY <1>2 DEF Event
<1>8. QED
  BY <1>2, <1>5, <1>6, <1>7

\* The queues of the events.
LEMMA QueuesTyped ==
    ASSUME Types
    PROVE  \A k \in Public \cup Cell :
              /\ sem[k].queue \in Seq(Thread) /\ Len(sem[k].queue) \in Nat
              /\ \A i \in 1 .. Len(sem[k].queue) : sem[k].queue[i] \in Thread
<1>1. ASSUME NEW k \in Public \cup Cell PROVE sem[k].queue \in Seq(Thread)
  BY Keys DEF Types, Sems
<1>2. QED
  BY <1>1

\* Whatever t waits for, a step leaves its call and what it is about alone.
Waiting(t) ==
    /\ call'[t] = call[t] /\ (Event(t, call[t]))' = Event(t, call[t])
    /\ \A e \in Public : Event(t, call[t]) = e /\ owner[e] = task[t] => owner'[e] = task[t]

\* The queues stay as they are.
LEMMA SleepersKept ==
    ASSUME Types, Sleepers, asleep' = asleep, \A t \in asleep : Waiting(t),
           \A k \in Public \cup Cell : sem'[k].queue = sem[k].queue
    PROVE  Sleepers'
<1>1. ASSUME NEW k \in Public \cup Cell PROVE Once(sem'[k].queue) /\ WaitsOn(k)'
  <2>1. Once(sem[k].queue) /\ WaitsOn(k) /\ sem'[k].queue = sem[k].queue
    BY DEF Sleepers
  <2>2. ASSUME NEW i \in 1 .. Len(sem'[k].queue), NEW t, t = sem'[k].queue[i]
        PROVE  t \in asleep' /\ call'[t] # None /\ Event(t, call[t])' = k /\ (k \in Public => owner'[k] = task[t])
    <3>1. t \in asleep /\ call[t] # None /\ Event(t, call[t]) = k /\ (k \in Public => owner[k] = task[t])
      BY <2>1, <2>2 DEF WaitsOn
    <3>2. QED
      BY <3>1 DEF Waiting
  <2>3. QED
    BY <2>1, <2>2 DEF WaitsOn
<1>2. ASSUME NEW t \in asleep PROVE \E k \in Public \cup Cell : SleepsOn(t, k)'
  BY DEF Sleepers, SleepsOn
<1>3. QED
  BY <1>1, <1>2 DEF Sleepers

\* The first of the queue of k, if there is one, is taken out and woken.
LEMMA SleepersPop ==
    ASSUME Types, Sleepers, NEW k \in Public \cup Cell,
           NEW q, q = sem[k].queue,
           sem'[k].queue = IF q = <<>> THEN q ELSE Tail(q),
           asleep' = asleep \ (IF q = <<>> THEN {} ELSE {Head(q)}),
           \A t \in asleep' : Waiting(t),
           \A j \in Public \cup Cell : j # k => sem'[j].queue = sem[j].queue
    PROVE  Sleepers'
<1>1. CASE q = <<>>
  <2>1. asleep' = asleep /\ \A j \in Public \cup Cell : sem'[j].queue = sem[j].queue
    BY <1>1
  <2>2. QED
    BY <2>1, SleepersKept
<1>2. CASE q # <<>>
  <2>1. PICK h : h = Head(q)
    OBVIOUS
  <2>2. q \in Seq(Thread) /\ Once(q) /\ WaitsOn(k)
    BY QueuesTyped DEF Sleepers
  <2>3. PICK r \in Seq(Thread) : r = Tail(q)
    <3>1. \A x \in Seq(Thread) : x # <<>> => Tail(x) \in Seq(Thread)
      OBVIOUS
    <3>2. QED
      BY <1>2, <2>2, <3>1
  <2>4. /\ Len(q) \in Nat \ {0} /\ Len(r) = Len(q) - 1 /\ h = q[1]
        /\ \A i \in 1 .. Len(r) : r[i] = q[i + 1]
    <3>1. \A x \in Seq(Thread) : x # <<>> =>
             /\ Len(x) \in Nat \ {0} /\ Len(Tail(x)) = Len(x) - 1 /\ Head(x) = x[1]
             /\ \A i \in 1 .. Len(x) - 1 : Tail(x)[i] = x[i + 1]
      OBVIOUS
    <3>2. QED
      BY <1>2, <2>1, <2>2, <2>3, <3>1
  <2>5. sem'[k].queue = r /\ asleep' = asleep \ {h}
    BY <1>2, <2>1, <2>3
  <2>6. \A i \in 1 .. Len(r) : i + 1 \in 1 .. Len(q) /\ r[i] # h
    BY <2>2, <2>4 DEF Once
  <2>7. ASSUME NEW t, t \in asleep, t # h, call[t] # None, NEW j \in Public \cup Cell, Event(t, call[t]) = j,
               j \in Public => owner[j] = task[t]
        PROVE  t \in asleep' /\ call'[t] # None /\ Event(t, call[t])' = j /\ (j \in Public => owner'[j] = task[t])
    <3>1. t \in asleep' /\ Waiting(t)
      BY <2>5, <2>7
    <3>2. QED
      BY <2>7, <3>1 DEF Waiting
  <2>8. Once(sem'[k].queue) /\ WaitsOn(k)'
    <3>1. ASSUME NEW i \in 1 .. Len(r), NEW j \in 1 .. Len(r), r[i] = r[j] PROVE i = j
      <4>1. q[i + 1] = q[j + 1] /\ i + 1 \in 1 .. Len(q) /\ j + 1 \in 1 .. Len(q)
        BY <2>4, <2>6, <3>1
      <4>2. i + 1 = j + 1
        BY <2>2, <4>1 DEF Once
      <4>3. QED
        BY <2>4, <4>2
    <3>2. ASSUME NEW i \in 1 .. Len(r), NEW t, t = r[i]
          PROVE  t \in asleep' /\ call'[t] # None /\ Event(t, call[t])' = k /\ (k \in Public => owner'[k] = task[t])
      <4>1. t = q[i + 1] /\ i + 1 \in 1 .. Len(q) /\ t # h
        BY <2>4, <2>6, <3>2
      <4>2. t \in asleep /\ call[t] # None /\ Event(t, call[t]) = k /\ (k \in Public => owner[k] = task[t])
        BY <2>2, <4>1 DEF WaitsOn
      <4>3. QED
        BY <2>7, <4>1, <4>2
    <3>3. Once(r) /\ Once(sem'[k].queue)
      BY <2>5, <3>1 DEF Once
    <3>4. QED
      BY <2>5, <3>2, <3>3 DEF WaitsOn
  <2>9. ASSUME NEW j \in Public \cup Cell, j # k PROVE Once(sem'[j].queue) /\ WaitsOn(j)'
    <3>1. sem'[j].queue = sem[j].queue /\ Once(sem[j].queue) /\ WaitsOn(j)
      BY <2>9 DEF Sleepers
    <3>2. Event(h, call[h]) = k
      <4>1. 1 \in 1 .. Len(q)
        BY <2>4
      <4>2. QED
        BY <2>2, <2>4, <4>1 DEF WaitsOn
    <3>3. ASSUME NEW i \in 1 .. Len(sem'[j].queue), NEW t, t = sem'[j].queue[i]
          PROVE  t \in asleep' /\ call'[t] # None /\ Event(t, call[t])' = j /\ (j \in Public => owner'[j] = task[t])
      <4>1. t \in asleep /\ call[t] # None /\ Event(t, call[t]) = j /\ (j \in Public => owner[j] = task[t])
        BY <3>1, <3>3 DEF WaitsOn
      <4>2. t # h
        BY <2>9, <3>2, <4>1
      <4>3. QED
        BY <2>7, <4>1, <4>2
    <3>4. QED
      BY <3>1, <3>3 DEF WaitsOn
  <2>10. ASSUME NEW t \in asleep' PROVE \E j \in Public \cup Cell : SleepsOn(t, j)'
    <3>1. t \in asleep /\ t # h
      BY <2>5
    <3>2. PICK j \in Public \cup Cell : SleepsOn(t, j)
      BY <3>1 DEF Sleepers
    <3>3. CASE j # k
      <4>1. SleepsOn(t, j)'
        BY <3>2, <3>3 DEF SleepsOn
      <4>2. QED
        BY <4>1
    <3>4. CASE j = k
      <4>1. PICK i \in 1 .. Len(q) : q[i] = t
        BY <3>2, <3>4 DEF SleepsOn
      <4>2. i # 1 /\ i - 1 \in 1 .. Len(r) /\ (i - 1) + 1 = i
        BY <2>4, <3>1, <4>1
      <4>3. r[i - 1] = t
        BY <2>4, <4>1, <4>2
      <4>4. SleepsOn(t, k)'
        BY <2>5, <4>2, <4>3 DEF SleepsOn
      <4>5. QED
        BY <4>4
    <3>5. QED
      BY <3>3, <3>4
  <2>11. QED
    BY <2>8, <2>9, <2>10 DEF Sleepers
<1>3. QED
  BY <1>1, <1>2

\* Thread t goes to sleep on k.
LEMMA SleepersPush ==
    ASSUME Types, Sleepers, NEW k \in Public \cup Cell, NEW t \in Thread \ asleep,
           sem'[k].queue = Append(sem[k].queue, t), asleep' = asleep \cup {t},
           call[t] # None, Event(t, call[t]) = k, k \in Public => owner[k] = task[t],
           \A s \in asleep' : Waiting(s),
           \A j \in Public \cup Cell : j # k => sem'[j].queue = sem[j].queue
    PROVE  Sleepers'
<1>1. PICK q \in Seq(Thread) : q = sem[k].queue
  BY QueuesTyped
<1>2. PICK r : r = Append(q, t)
  OBVIOUS
<1>3. /\ Len(q) \in Nat /\ Len(r) = Len(q) + 1 /\ r[Len(q) + 1] = t
      /\ \A i \in 1 .. Len(q) : r[i] = q[i]
  BY <1>1, <1>2
<1>4. sem'[k].queue = r /\ Once(q) /\ WaitsOn(k)
  BY <1>1, <1>2 DEF Sleepers
<1>5. \A i \in 1 .. Len(q) : q[i] \in asleep /\ q[i] # t
  BY <1>1, <1>4 DEF WaitsOn
<1>6. ASSUME NEW s, s \in asleep \/ s = t, call[s] # None, NEW j \in Public \cup Cell, Event(s, call[s]) = j,
             j \in Public => owner[j] = task[s]
      PROVE  s \in asleep' /\ call'[s] # None /\ Event(s, call[s])' = j /\ (j \in Public => owner'[j] = task[s])
  <2>1. s \in asleep' /\ Waiting(s)
    BY <1>6
  <2>2. QED
    BY <1>6, <2>1 DEF Waiting
<1>7. ASSUME NEW i \in 1 .. Len(r) PROVE i \in 1 .. Len(q) \/ i = Len(q) + 1
  BY <1>3
<1>8. Once(r)
  BY <1>3, <1>4, <1>5, <1>7 DEF Once
<1>9. WaitsOn(k)'
  <2>1. ASSUME NEW i \in 1 .. Len(r), NEW s, s = r[i]
        PROVE  s \in asleep' /\ call'[s] # None /\ Event(s, call[s])' = k /\ (k \in Public => owner'[k] = task[s])
    <3>1. CASE i \in 1 .. Len(q)
      <4>1. s \in asleep /\ call[s] # None /\ Event(s, call[s]) = k /\ (k \in Public => owner[k] = task[s])
        BY <1>1, <1>3, <1>4, <2>1, <3>1 DEF WaitsOn
      <4>2. QED
        BY <1>6, <4>1
    <3>2. CASE i = Len(q) + 1
      <4>1. s = t
        BY <1>3, <2>1, <3>2
      <4>2. QED
        BY <1>6, <4>1
    <3>3. QED
      BY <1>7, <3>1, <3>2
  <2>2. QED
    BY <1>4, <2>1 DEF WaitsOn
<1>10. ASSUME NEW j \in Public \cup Cell, j # k PROVE Once(sem'[j].queue) /\ WaitsOn(j)'
  <2>1. sem'[j].queue = sem[j].queue /\ Once(sem[j].queue) /\ WaitsOn(j)
    BY <1>10 DEF Sleepers
  <2>2. ASSUME NEW i \in 1 .. Len(sem'[j].queue), NEW s, s = sem'[j].queue[i]
        PROVE  s \in asleep' /\ call'[s] # None /\ Event(s, call[s])' = j /\ (j \in Public => owner'[j] = task[s])
    <3>1. s \in asleep /\ call[s] # None /\ Event(s, call[s]) = j /\ (j \in Public => owner[j] = task[s])
      BY <2>1, <2>2 DEF WaitsOn
    <3>2. QED
      BY <1>6, <3>1
  <2>3. QED
    BY <2>1, <2>2 DEF WaitsOn
<1>11. ASSUME NEW s \in asleep' PROVE \E j \in Public \cup Cell : SleepsOn(s, j)'
  <2>1. CASE s = t
    <3>1. SleepsOn(t, k)'
      <4>1. Len(q) + 1 \in 1 .. Len(r)
        BY <1>3
      <4>2. QED
        BY <1>3, <1>4, <4>1 DEF SleepsOn
    <3>2. QED
      BY <2>1, <3>1
  <2>2. CASE s # t
    <3>1. PICK j \in Public \cup Cell : SleepsOn(s, j)
      BY <2>2 DEF Sleepers
    <3>2. CASE j # k
      <4>1. SleepsOn(s, j)'
        BY <3>1, <3>2 DEF SleepsOn
      <4>2. QED
        BY <4>1
    <3>3. CASE j = k
      <4>1. PICK i \in 1 .. Len(q) : q[i] = s
        BY <1>1, <3>1, <3>3 DEF SleepsOn
      <4>2. i \in 1 .. Len(r) /\ r[i] = s
        BY <1>3, <4>1
      <4>3. SleepsOn(s, k)'
        BY <1>4, <4>2 DEF SleepsOn
      <4>4. QED
        BY <4>3
    <3>4. QED
      BY <3>2, <3>3
  <2>3. QED
    BY <2>1, <2>2
<1>12. QED
  BY <1>4, <1>8, <1>9, <1>10, <1>11 DEF Sleepers

--------------------------------------------------------------------------------
(* The steps of a call.                                                        *)

\* None is not a call, nor a call None.
LEMMA Calls ==
    /\ \A c \in Call : c # None /\ c.ev \in Public \cup Private /\ c.to \in Process \cup {None}
                       /\ c.op \in {"getevent", "clearevent", "wait", "setevent", "signal"}
                       /\ (c.to # None => c.op = "signal" /\ c.ev \in Private)
                       /\ (c.op = "signal" => (c.to = None <=> c.ev \in Public))
    /\ \A t \in Thread : task[t] \in Process /\ t # None
    /\ None \notin Process
<1>1. None \notin Process /\ None \notin Thread /\ \A t \in Thread : task[t] \in Process
  BY EventsAssumption
<1>2. \A e \in Public : e \notin Private
  BY Keys
<1>3. ASSUME NEW c \in Call
      PROVE  /\ c # None /\ c.ev \in Public \cup Private /\ c.to \in Process \cup {None}
             /\ c.op \in {"getevent", "clearevent", "wait", "setevent", "signal"}
             /\ (c.to # None => c.op = "signal" /\ c.ev \in Private)
             /\ (c.op = "signal" => (c.to = None <=> c.ev \in Public))
  <2>1. c # None
    BY CallAssumption
  <2>2. \/ c \in [op : {"getevent", "clearevent", "wait"}, ev : Public \cup Private, to : {None}]
        \/ c \in [op : {"setevent"}, ev : Public \cup Private, to : {None}]
        \/ c \in [op : {"signal"}, ev : Private, to : Process]
        \/ c \in [op : {"signal"}, ev : Public, to : {None}]
    BY DEF Call
  <2>3. QED
    BY <1>1, <1>2, <2>1, <2>2
<1>4. QED
  BY <1>1, <1>3

\* A step that leaves the events and the cells alone makes no call less careful.
LEMMA CarefulKept ==
    ASSUME Pool, SameCells, \A k \in Public \cup Cell : sem'[k] = sem[k]
    PROVE  \A t \in Thread, c \in Call : Careless(t, c)' = Careless(t, c) /\ Bounded(c)' = Bounded(c)
<1>1. \A p, e : Search(p, e)' = Search(p, e)
  BY SameCellsMeans
<1>2. ASSUME NEW t \in Thread, NEW c \in Call
      PROVE  Careless(t, c)' = Careless(t, c) /\ Bounded(c)' = Bounded(c)
  <2>1. Careless(t, c)' = Careless(t, c)
    BY <1>1 DEF Careless, Clears, Leaves_Locked
  <2>2. PICK k : k = IF c.ev \in Public THEN c.ev ELSE IF c.to = None THEN NULL ELSE Search(c.to, c.ev)
    OBVIOUS
  <2>3. /\ Bounded(c) <=> (c.op = "signal" /\ k # NULL => sem[k].Status < MaxStatus)
        /\ Bounded(c)' <=> (c.op = "signal" /\ k # NULL => sem'[k].Status < MaxStatus)
    BY <1>1, <2>2 DEF Bounded
  <2>4. k = NULL \/ k \in Public \cup Cell
    <3>1. CASE c.ev \in Public \/ c.to = None
      BY <2>2, <3>1
    <3>2. CASE c.ev \notin Public /\ c.to # None
      <4>1. c.to \in Process
        BY <3>2, Calls
      <4>2. k = Search(c.to, c.ev) /\ Finds(name, List(c.to), c.ev, Search(c.to, c.ev))
        BY <2>2, <3>2, <4>1, SearchIs
      <4>3. QED
        BY <4>2 DEF Finds
    <3>3. QED
      BY <3>1, <3>2
  <2>5. Bounded(c)' <=> Bounded(c)
    BY <2>3, <2>4
  <2>6. Bounded(c)' = Bounded(c)
    BY <2>5 DEF Bounded
  <2>7. QED
    BY <2>1, <2>6
<1>3. QED
  BY <1>2

\* What the semaphores become, all right but for the mutex x.
GoodSems(x) == /\ sem' \in Sems /\ MutexesAre(sem', x)
               /\ \A k \in Public \cup Cell : sem'[k].Status <= MaxStatus

\* The call of t returns.
LEMMA Concludes ==
    ASSUME Core, NEW t \in Thread, kernel = t, Returns(t), GoodSems(None),
           asleep' \subseteq asleep, OwnerTypes', CellTypes'
    PROVE  Core' /\ \A s \in asleep : call'[s] = call[s]
<1>1. /\ kernel' = None /\ call' = [call EXCEPT ![t] = None] /\ at' = [at EXCEPT ![t] = [do |-> "user"]]
  BY DEF Returns
<1>2. Types /\ t \notin asleep
  BY Calls DEF Core, Stages, Types
<1>3. Types'
  <2>1. [do |-> "user"] \in Ats
    BY DEF Ats
  <2>2. at' \in [Thread -> Ats]
    BY <1>1, <1>2, <2>1 DEF Types
  <2>3. call' \in [Thread -> Call \cup {None}]
    BY <1>1, <1>2 DEF Types
  <2>4. QED
    BY <1>1, <1>2, <2>2, <2>3 DEF Types, GoodSems
<1>4. Stages'
  <2>1. ASSUME NEW s \in Thread, call'[s] # None PROVE call'[s].op = "wait" /\ at'[s] = [do |-> "return"]
    <3>1. s # t /\ call'[s] = call[s] /\ at'[s] = at[s]
      BY <1>1, <1>2, <2>1 DEF Types
    <3>2. QED
      BY <2>1, <3>1 DEF Core, Stages
  <2>2. QED
    BY <1>1, <2>1 DEF Stages
<1>5. StillCareful'
  BY <1>1 DEF StillCareful
<1>6. Locks'
  <2>1. Held' = None
    BY <1>1 DEF Held
  <2>2. QED
    BY <2>1 DEF Locks, GoodSems
<1>7. Counts'
  BY Keys DEF Counts, GoodSems
<1>8. \A s \in asleep : call'[s] = call[s]
  BY <1>1, <1>2 DEF Types
<1>9. QED
  BY <1>3, <1>4, <1>5, <1>6, <1>7, <1>8 DEF Core

\* The call of t goes on with a P.
LEMMA Continues ==
    ASSUME Core, Pool, NEW t \in Thread, kernel = t, NEW k \in Key, NEW d \in {"public", "private", "return"},
           GoesOn(t, k, d), Stage(t, call[t], [do |-> "P", on |-> k, then |-> d]), UNCHANGED <<owner, asleep>>,
           SameCells, \A j \in Public \cup Cell : sem'[j] = sem[j],
           at[t] # [do |-> "return"], GoodSems(None)
    PROVE  Core' /\ \A s \in asleep : call'[s] = call[s]
<1>1. kernel' = kernel /\ call' = call /\ at' = [at EXCEPT ![t] = [do |-> "P", on |-> k, then |-> d]]
  BY DEF GoesOn
<1>2. PICK a : a = [do |-> "P", on |-> k, then |-> d]
  OBVIOUS
<1>3. Types /\ kernel # None /\ call[t] # None /\ t \notin asleep /\ call[t] \in Call
  BY Calls DEF Core, Stages, Types
<1>4. at' = [at EXCEPT ![t] = a] /\ a \in Ats /\ a.do = "P" /\ at'[t] = a
  BY <1>1, <1>2, <1>3 DEF Ats, Types
<1>5. Types'
  <2>1. at' \in [Thread -> Ats]
    BY <1>3, <1>4 DEF Types
  <2>2. OwnerTypes' /\ CellTypes'
    BY <1>3 DEF Types, OwnerTypes, CellTypes, SameCells
  <2>3. QED
    BY <1>1, <1>3, <2>1, <2>2 DEF Types, GoodSems
<1>6. Stages'
  <2>1. ASSUME NEW s \in Thread, call'[s] # None, s # kernel'
        PROVE call'[s].op = "wait" /\ at'[s] = [do |-> "return"]
    <3>1. s # t /\ call'[s] = call[s] /\ at'[s] = at[s]
      BY <1>1, <1>3, <1>4, <2>1 DEF Types
    <3>2. QED
      BY <2>1, <3>1, <1>1 DEF Core, Stages
  <2>2. Stage(t, call[t], at[t])'
    <3>1. Stage(t, call[t], a)
      BY <1>2
    <3>2. Event(t, call[t])' = Event(t, call[t])
      <4>1. \A c : Event(t, c)' = Event(t, c)
        BY SameCellsMeans
      <4>2. QED
        BY <1>1, <4>1 DEF Event
    <3>3. QED
      BY <1>1, <1>4, <3>1, <3>2 DEF Stage, Target, PrivateCall
  <2>3. QED
    BY <1>1, <1>3, <2>1, <2>2 DEF Stages
<1>7. StillCareful'
  <2>1. ~Careless(t, call[t]) /\ Bounded(call[t])
    BY <1>3 DEF Core, StillCareful
  <2>2. PICK c \in Call : c = call[t]
    BY <1>3
  <2>3. ~Careless(t, c)' /\ Bounded(c)'
    BY <2>1, <2>2, CarefulKept
  <2>4. (~Careless(t, call[t]) /\ Bounded(call[t]))'
    BY <1>1, <2>2, <2>3 DEF Careless, Clears, Leaves_Locked, Bounded
  <2>5. QED
    BY <1>1, <2>4 DEF StillCareful
<1>8. Locks'
  <2>1. Held' = None
    BY <1>1, <1>4 DEF Held
  <2>2. QED
    BY <2>1 DEF Locks, GoodSems
<1>9. Counts'
  BY Keys DEF Counts, GoodSems
<1>10. QED
  BY <1>1, <1>5, <1>6, <1>7, <1>8, <1>9 DEF Core

\* The thread in the kernel is in a call, awake, and keeps to the careful ones.
LEMMA InKernel ==
    ASSUME Core, NEW t \in Thread, kernel = t
    PROVE  /\ Types /\ kernel # None /\ call[t] \in Call /\ t \notin asleep /\ Stage(t, call[t], at[t])
           /\ at[t] # [do |-> "return"] => ~Careless(t, call[t]) /\ Bounded(call[t])
BY Calls DEF Core, Stages, StillCareful, Types

\* The call of t releases the mutex m and returns; the events keep their queues.
LEMMA Leaves ==
    ASSUME EInv, NEW t \in Thread, kernel = t, Returns(t), SameCells, NEW m \in Mutex, Held \in {m, None},
           NEW s1 \in Sems, MutexesAre(s1, Held), sem' = Bool_V(s1, m), asleep' = asleep \ Woken({m}), OwnerTypes',
           \A k \in Public \cup Cell : s1[k].queue = sem[k].queue /\ s1[k].Status <= MaxStatus,
           \A s \in asleep, e \in Public : Event(s, call[s]) = e /\ owner[e] = task[s] => owner'[e] = task[s]
    PROVE  EInv'
<1>1. Core /\ Pool /\ Names /\ Sleepers /\ Types
  BY DEF EInv, Core
<1>2. /\ Bool_V(s1, m) \in Sems /\ MutexesAre(Bool_V(s1, m), None)
      /\ \A k \in Public \cup Cell : Bool_V(s1, m)[k] = s1[k]
  BY Unlocks
<1>3. asleep' = asleep
  <2>1. MutexesAre(sem, Held)
    BY <1>1 DEF Core, Locks
  <2>2. Woken({m}) = {}
    BY <2>1, MutexWakesNobody
  <2>3. QED
    BY <2>2
<1>4. GoodSems(None)
  BY <1>2 DEF GoodSems
<1>5. CellTypes'
  BY <1>1 DEF Types, CellTypes, SameCells
<1>6. Core' /\ \A s \in asleep : call'[s] = call[s]
  BY <1>1, <1>3, <1>4, <1>5, Concludes
<1>7. /\ Pool' /\ Names'
      /\ \A s, c : Event(s, c)' = Event(s, c)
  BY <1>1, SameCellsMeans
<1>8. Sleepers'
  <2>1. ASSUME NEW s \in asleep PROVE Waiting(s)
    <3>1. call'[s] = call[s]
      BY <1>6
    <3>2. Event(s, call[s])' = Event(s, call[s])
      BY <1>7, <3>1 DEF Event
    <3>3. QED
      BY <3>1, <3>2 DEF Waiting
  <2>2. \A k \in Public \cup Cell : sem'[k].queue = sem[k].queue
    BY <1>2
  <2>3. QED
    BY <1>1, <1>3, <2>1, <2>2, SleepersKept
<1>9. QED
  BY <1>6, <1>7, <1>8 DEF EInv

\* The call of t releases the mutex m, if any, and goes on with a P.
LEMMA Proceeds ==
    ASSUME EInv, NEW t \in Thread, kernel = t, SameCells, UNCHANGED owner, NEW m \in Mutex, Held \in {m, None},
           sem' = Bool_V(sem, m), asleep' = asleep \ Woken({m}), NEW k \in Key, NEW d \in {"public", "private", "return"},
           GoesOn(t, k, d), Stage(t, call[t], [do |-> "P", on |-> k, then |-> d]), at[t] # [do |-> "return"]
    PROVE  EInv'
<1>1. Core /\ Pool /\ Names /\ Sleepers /\ Types /\ MutexesAre(sem, Held) /\ sem \in Sems
  BY DEF EInv, Core, Locks, Types
<1>2. /\ Bool_V(sem, m) \in Sems /\ MutexesAre(Bool_V(sem, m), None)
      /\ \A j \in Public \cup Cell : Bool_V(sem, m)[j] = sem[j]
  BY <1>1, Unlocks
<1>3. asleep' = asleep
  <2>1. Woken({m}) = {}
    BY <1>1, MutexWakesNobody
  <2>2. QED
    BY <2>1
<1>4. GoodSems(None)
  BY <1>1, <1>2, Keys DEF GoodSems, Core, Counts
<1>5. Core' /\ \A s \in asleep : call'[s] = call[s]
  BY <1>1, <1>2, <1>3, <1>4, Continues
<1>6. /\ Pool' /\ Names'
      /\ \A s, c : Event(s, c)' = Event(s, c)
  BY <1>1, SameCellsMeans
<1>7. Sleepers'
  <2>1. ASSUME NEW s \in asleep PROVE Waiting(s)
    <3>1. call'[s] = call[s]
      BY <1>5
    <3>2. Event(s, call[s])' = Event(s, call[s])
      BY <1>6, <3>1 DEF Event
    <3>3. QED
      BY <3>1, <3>2 DEF Waiting
  <2>2. \A j \in Public \cup Cell : sem'[j].queue = sem[j].queue
    BY <1>2
  <2>3. QED
    BY <1>1, <1>3, <2>1, <2>2, SleepersKept
<1>8. QED
  BY <1>5, <1>6, <1>7 DEF EInv

\* With Events_Sem, at the public events.
LEMMA AtPublic ==
    ASSUME EInv, NEW t \in Thread, NEW op, In(t, op, "public")
    PROVE  /\ kernel = t /\ call[t].op = op /\ call[t] \in Call /\ at[t] = [do |-> "public"]
           /\ Held \in {Events_Sem, None} /\ Events_Sem \in Mutex /\ at[t] # [do |-> "return"]
           /\ call[t].op = "signal" => call[t].ev \in Public
           /\ ~Careless(t, call[t]) /\ Bounded(call[t])
<1>1. kernel = t /\ call[t].op = op /\ at[t].do = "public"
  BY DEF In
<1>2. Stage(t, call[t], at[t]) /\ call[t] \in Call /\ kernel # None
  BY <1>1, InKernel DEF EInv
<1>3. at[t] = [do |-> "public"] /\ (call[t].op = "signal" => call[t].ev \in Public)
  BY <1>1, <1>2 DEF Stage
<1>4. at[t] # [do |-> "return"]
  BY <1>1
<1>5. ~Careless(t, call[t]) /\ Bounded(call[t])
  BY <1>1, <1>4, InKernel DEF EInv
<1>6. Held \in {Events_Sem, None}
  BY <1>1 DEF Held
<1>7. QED
  BY <1>1, <1>2, <1>3, <1>4, <1>5, <1>6, Keys

\* The call goes on with the private events of the process.
LEMMA LooksPrivateStep ==
    ASSUME EInv, NEW t \in Thread, NEW op \in {"getevent", "setevent", "wait"}, In(t, op, "public"),
           call[t].ev \in Private, LooksPrivate(t)
    PROVE  EInv'
<1>1. /\ kernel = t /\ call[t].op = op /\ Held \in {Events_Sem, None} /\ Events_Sem \in Mutex
      /\ at[t] # [do |-> "return"]
  BY AtPublic
<1>2. PICK p \in Key : p = task[t]
  BY Calls, Keys
<1>3. /\ sem' = Bool_V(sem, Events_Sem) /\ asleep' = asleep \ Woken({Events_Sem})
      /\ GoesOn(t, p, "private") /\ SameCells /\ UNCHANGED owner
  BY <1>2 DEF LooksPrivate, SameCells
<1>4. Stage(t, call[t], [do |-> "P", on |-> p, then |-> "private"])
  BY <1>1, <1>2 DEF Stage, Target, PrivateCall
<1>5. QED
  BY <1>1, <1>3, <1>4, Proceeds

\* A refusal: the mutex is released, and the call returns.
LEMMA Refused ==
    ASSUME EInv, NEW t \in Thread, kernel = t, Returns(t), SameCells, UNCHANGED owner,
           NEW m \in Mutex, Held \in {m, None}, sem' = Bool_V(sem, m), asleep' = asleep \ Woken({m})
    PROVE  EInv'
<1>1. Types /\ Locks /\ Counts
  BY DEF EInv, Core
<1>2. sem \in Sems /\ MutexesAre(sem, Held) /\ OwnerTypes'
  BY <1>1 DEF Types, Locks, OwnerTypes
<1>3. \A k \in Public \cup Cell : sem[k].queue = sem[k].queue /\ sem[k].Status <= MaxStatus
  BY <1>1, Keys DEF Counts
<1>4. \A s \in asleep, e \in Public : Event(s, call[s]) = e /\ owner[e] = task[s] => owner'[e] = task[s]
  OBVIOUS
<1>5. QED
  BY <1>2, <1>3, <1>4, Leaves

\* A thread that waits for e is in its queue.
LEMMA SleeperIsQueued ==
    ASSUME Sleepers, NEW s \in asleep, NEW e \in Public \cup Cell, Event(s, call[s]) = e
    PROVE  sem[e].queue # <<>> /\ (e \in Public => owner[e] = task[s])
<1>1. PICK k \in Public \cup Cell : SleepsOn(s, k)
  BY DEF Sleepers
<1>2. PICK i \in 1 .. Len(sem[k].queue) : sem[k].queue[i] = s
  BY <1>1 DEF SleepsOn
<1>3. WaitsOn(k)
  BY DEF Sleepers
<1>4. Event(s, call[s]) = k /\ (k \in Public => owner[k] = task[s])
  BY <1>2, <1>3 DEF WaitsOn
<1>5. ASSUME sem[k].queue = <<>> PROVE FALSE
  BY <1>2, <1>5
<1>6. QED
  BY <1>4, <1>5

\* getevent of a public event.
LEMMA GeteventStep ==
    ASSUME EInv, NEW t \in Thread, getevent(t)
    PROVE  EInv'
<1> DEFINE e == call[t].ev
<1>1. In(t, "getevent", "public")
  BY DEF getevent
<1>2. /\ kernel = t /\ call[t].op = "getevent" /\ call[t] \in Call /\ Held \in {Events_Sem, None}
      /\ Events_Sem \in Mutex
  BY <1>1, AtPublic
<1>3. CASE e \in Private
  <2>1. LooksPrivate(t)
    BY <1>3 DEF getevent
  <2>2. QED
    BY <1>1, <1>3, <2>1, LooksPrivateStep
<1>4. CASE e \notin Private
  <2>1. e \in Public
    BY <1>2, <1>4, Calls
  <2>2. asleep' = asleep \ Woken({Events_Sem}) /\ Returns(t) /\ SameCells
    BY <1>4 DEF getevent, SameCells
  <2>3. CASE owner[e] # None
    <3>1. sem' = Bool_V(sem, Events_Sem) /\ UNCHANGED owner
      BY <1>4, <2>3 DEF getevent
    <3>2. QED
      BY <1>2, <2>2, <3>1, Refused
  <2>4. CASE owner[e] = None
    <3>1. PICK s1 : s1 = Init_Semaphore(sem, e, 0)
      OBVIOUS
    <3>2. sem' = Bool_V(s1, Events_Sem) /\ owner' = [owner EXCEPT ![e] = task[t]]
      BY <1>4, <2>4, <3>1 DEF getevent
    <3>3. Types /\ Locks /\ Counts /\ Sleepers /\ sem \in Sems /\ MutexesAre(sem, Held) /\ OwnerTypes
      BY DEF EInv, Core, Types, Locks
    <3>4. /\ s1 \in Sems /\ MutexesAre(s1, Held)
          /\ \A k \in Public \cup Cell : k # e => s1[k] = sem[k]
          /\ s1[e] = [Status |-> 0, queue |-> <<>>]
      BY <2>1, <3>1, <3>3, Resets
    <3>5. sem[e].queue = <<>>
      <4>1. ASSUME sem[e].queue # <<>> PROVE FALSE
        <5>1. PICK q \in Seq(Thread) : q = sem[e].queue
          BY <2>1, <3>3, QueuesTyped
        <5>2. 1 \in 1 .. Len(q) /\ q[1] \in Thread
          BY <4>1, <5>1
        <5>3. owner[e] = task[q[1]]
          BY <2>1, <3>3, <5>1, <5>2 DEF Sleepers, WaitsOn
        <5>4. QED
          BY <2>4, <5>2, <5>3, Calls
      <4>2. QED
        BY <4>1
    <3>6. \A k \in Public \cup Cell : s1[k].queue = sem[k].queue /\ s1[k].Status <= MaxStatus
      <4>1. ASSUME NEW k \in Public \cup Cell PROVE s1[k].queue = sem[k].queue /\ s1[k].Status <= MaxStatus
        <5>1. CASE k = e
          BY <3>4, <3>5, <5>1, EventsAssumption
        <5>2. CASE k # e
          BY <3>3, <3>4, <5>2, Keys DEF Counts
        <5>3. QED
          BY <5>1, <5>2
      <4>2. QED
        BY <4>1
    <3>7. \A s \in asleep, f \in Public : Event(s, call[s]) = f /\ owner[f] = task[s] => owner'[f] = task[s]
      <4>1. ASSUME NEW s \in asleep, NEW f \in Public, owner[f] = task[s] PROVE owner'[f] = task[s]
        <5>1. task[s] # None
          BY <3>3, Calls DEF Types
        <5>2. f # e
          BY <2>4, <4>1, <5>1
        <5>3. QED
          BY <2>1, <3>2, <3>3, <4>1, <5>2 DEF OwnerTypes
      <4>2. QED
        BY <4>1
    <3>8. OwnerTypes'
      BY <2>1, <3>2, <3>3, Calls DEF OwnerTypes
    <3>9. QED
      BY <1>2, <2>2, <3>2, <3>4, <3>6, <3>7, <3>8, Leaves
  <2>5. QED
    BY <2>3, <2>4
<1>5. QED
  BY <1>3, <1>4

\* clearevent of a public event nobody waits for.
LEMMA CleareventStep ==
    ASSUME EInv, NEW t \in Thread, clearevent(t)
    PROVE  EInv'
<1> DEFINE e == call[t].ev
<1>1. In(t, "clearevent", "public")
  BY DEF clearevent
<1>2. /\ kernel = t /\ call[t].op = "clearevent" /\ call[t] \in Call /\ Held \in {Events_Sem, None}
      /\ Events_Sem \in Mutex /\ ~Careless(t, call[t])
  BY <1>1, AtPublic
<1>3. e \in Public /\ e \notin Private /\ sem[e].queue = <<>>
  BY <1>2, Calls, Keys DEF Careless, Clears, Leaves_Locked
<1>4. /\ owner' = [owner EXCEPT ![e] = IF @ = task[t] THEN None ELSE @]
      /\ sem' = Bool_V(sem, Events_Sem) /\ asleep' = asleep \ Woken({Events_Sem}) /\ Returns(t) /\ SameCells
  BY <1>3 DEF clearevent, SameCells
<1>5. Types /\ Locks /\ Counts /\ Sleepers /\ sem \in Sems /\ MutexesAre(sem, Held) /\ OwnerTypes
  BY DEF EInv, Core, Types, Locks
<1>6. \A k \in Public \cup Cell : sem[k].queue = sem[k].queue /\ sem[k].Status <= MaxStatus
  BY <1>5, Keys DEF Counts
<1>7. \A s \in asleep, f \in Public : Event(s, call[s]) = f /\ owner[f] = task[s] => owner'[f] = task[s]
  <2>1. ASSUME NEW s \in asleep, NEW f \in Public, Event(s, call[s]) = f, owner[f] = task[s]
        PROVE  owner'[f] = task[s]
    <3>1. sem[f].queue # <<>>
      BY <1>5, <2>1, SleeperIsQueued
    <3>2. f # e
      BY <1>3, <3>1
    <3>3. QED
      BY <1>4, <1>5, <2>1, <3>2 DEF OwnerTypes
  <2>2. QED
    BY <2>1
<1>8. OwnerTypes'
  BY <1>3, <1>4, <1>5 DEF OwnerTypes
<1>9. QED
  BY <1>2, <1>4, <1>5, <1>6, <1>7, <1>8, Leaves

\* setevent of a public event is refused.
LEMMA SeteventStep ==
    ASSUME EInv, NEW t \in Thread, setevent(t)
    PROVE  EInv'
<1>1. In(t, "setevent", "public")
  BY DEF setevent
<1>2. kernel = t /\ Held \in {Events_Sem, None} /\ Events_Sem \in Mutex
  BY <1>1, AtPublic
<1>3. CASE call[t].ev \in Private
  <2>1. LooksPrivate(t)
    BY <1>3 DEF setevent
  <2>2. QED
    BY <1>1, <1>3, <2>1, LooksPrivateStep
<1>4. CASE call[t].ev \notin Private
  <2>1. /\ sem' = Bool_V(sem, Events_Sem) /\ asleep' = asleep \ Woken({Events_Sem}) /\ Returns(t)
        /\ SameCells /\ UNCHANGED owner
    BY <1>4 DEF setevent, SameCells
  <2>2. QED
    BY <1>2, <2>1, Refused
<1>5. QED
  BY <1>3, <1>4

\* wait for a public event.
LEMMA WaitStep ==
    ASSUME EInv, NEW t \in Thread, wait(t)
    PROVE  EInv'
<1> DEFINE e == call[t].ev
<1>1. In(t, "wait", "public")
  BY DEF wait
<1>2. /\ kernel = t /\ call[t].op = "wait" /\ call[t] \in Call /\ Held \in {Events_Sem, None}
      /\ Events_Sem \in Mutex /\ at[t] # [do |-> "return"]
  BY <1>1, AtPublic
<1>3. CASE e \in Private
  <2>1. LooksPrivate(t)
    BY <1>3 DEF wait
  <2>2. QED
    BY <1>1, <1>3, <2>1, LooksPrivateStep
<1>4. CASE e \notin Private
  <2>1. e \in Public
    BY <1>2, <1>4, Calls
  <2>2. sem' = Bool_V(sem, Events_Sem) /\ asleep' = asleep \ Woken({Events_Sem}) /\ SameCells /\ UNCHANGED owner
    BY <1>4 DEF wait, SameCells
  <2>3. CASE owner[e] = task[t]
    <3>1. GoesOn(t, e, "return")
      BY <1>4, <2>3 DEF wait
    <3>2. Stage(t, call[t], [do |-> "P", on |-> e, then |-> "return"])
      BY <1>2, <2>1, <2>3 DEF Stage, Event
    <3>3. e \in Key
      BY <2>1, Keys
    <3>4. QED
      BY <1>2, <2>2, <3>1, <3>2, <3>3, Proceeds
  <2>4. CASE owner[e] # task[t]
    <3>1. Returns(t)
      BY <1>4, <2>4 DEF wait
    <3>2. QED
      BY <1>2, <2>2, <3>1, Refused
  <2>5. QED
    BY <2>3, <2>4
<1>5. QED
  BY <1>3, <1>4

\* Whom a V on the event e wakes, and what it leaves of the queue.
LEMMA VWakes ==
    ASSUME NEW s \in Sems, NEW e \in Public \cup Cell, NEW x, MutexesAre(s, x), s[e].Status < MaxStatus,
           \A k \in Public \cup Cell : s[k].Status <= MaxStatus
    PROVE  /\ V(s, e) \in Sems /\ MutexesAre(V(s, e), x)
           /\ \A k \in Public \cup Cell : V(s, e)[k].Status <= MaxStatus
           /\ \A k \in Public \cup Cell : k # e => V(s, e)[k].queue = s[k].queue
           /\ V(s, e)[e].queue = IF s[e].queue = <<>> THEN s[e].queue ELSE Tail(s[e].queue)
<1>1. /\ V(s, e) \in Sems /\ MutexesAre(V(s, e), x)
      /\ \A k \in Public \cup Cell : k # e => V(s, e)[k] = s[k]
      /\ s[e].queue = <<>> => V(s, e)[e] = [Status |-> s[e].Status + 1, queue |-> <<>>]
      /\ s[e].queue # <<>> => V(s, e)[e] = [Status |-> s[e].Status, queue |-> Tail(s[e].queue)]
  BY Signals
<1>2. s[e].Status \in Nat /\ MaxStatus \in Nat
  BY Keys, EventsAssumption DEF Sems
<1>3. V(s, e)[e].queue = (IF s[e].queue = <<>> THEN s[e].queue ELSE Tail(s[e].queue))
      /\ V(s, e)[e].Status <= MaxStatus
  <2>1. CASE s[e].queue = <<>>
    <3>1. V(s, e)[e].Status = s[e].Status + 1 /\ V(s, e)[e].queue = s[e].queue
      BY <1>1, <2>1
    <3>2. \A n, b \in Nat : n < b => n + 1 <= b
      OBVIOUS
    <3>3. s[e].Status + 1 <= MaxStatus
      BY <1>2, <3>2
    <3>4. QED
      BY <2>1, <3>1, <3>3
  <2>2. CASE s[e].queue # <<>>
    <3>1. V(s, e)[e] = [Status |-> s[e].Status, queue |-> Tail(s[e].queue)]
      BY <1>1, <2>2, Zenon
    <3>2. PICK r : r = Tail(s[e].queue)
      OBVIOUS
    <3>3. PICK g : g = V(s, e)[e]
      OBVIOUS
    <3>4. g = [Status |-> s[e].Status, queue |-> r]
      BY <3>1, <3>2, <3>3, Zenon
    <3>5. g.Status = s[e].Status /\ g.queue = r
      BY <3>4
    <3>6. g.Status <= MaxStatus
      BY <3>5
    <3>7. QED
      BY <2>2, <3>2, <3>3, <3>5, <3>6, Zenon
  <2>3. QED
    BY <2>1, <2>2
<1>4. QED
  BY <1>1, <1>3

\* The first of a queue is the one who is woken.
LEMMA WokenIs ==
    ASSUME NEW e
    PROVE  Woken({e}) = IF sem[e].queue = <<>> THEN {} ELSE {Head(sem[e].queue)}
BY DEF Woken

\* The call of t signals e, releases the mutex m and returns.
LEMMA Signalled ==
    ASSUME EInv, NEW t \in Thread, kernel = t, Returns(t), SameCells, UNCHANGED owner,
           NEW m \in Mutex, Held \in {m, None}, NEW e \in Public \cup Cell, sem[e].Status < MaxStatus,
           sem' = Bool_V(V(sem, e), m), asleep' = asleep \ Woken({m} \cup {e})
    PROVE  EInv'
<1>1. Core /\ Pool /\ Names /\ Sleepers /\ Types /\ MutexesAre(sem, Held) /\ sem \in Sems
      /\ \A k \in Public \cup Cell : sem[k].Status <= MaxStatus
  BY Keys DEF EInv, Core, Locks, Types, Counts
<1>2. PICK s1 : s1 = V(sem, e)
  OBVIOUS
<1>3. /\ s1 \in Sems /\ MutexesAre(s1, Held)
      /\ \A k \in Public \cup Cell : s1[k].Status <= MaxStatus
      /\ \A k \in Public \cup Cell : k # e => s1[k].queue = sem[k].queue
      /\ s1[e].queue = IF sem[e].queue = <<>> THEN sem[e].queue ELSE Tail(sem[e].queue)
  BY <1>1, <1>2, VWakes
<1>4. /\ sem' \in Sems /\ MutexesAre(sem', None)
      /\ \A k \in Public \cup Cell : sem'[k] = s1[k]
  BY <1>2, <1>3, Unlocks
<1>5. GoodSems(None)
  BY <1>3, <1>4 DEF GoodSems
<1>6. asleep' = asleep \ (IF sem[e].queue = <<>> THEN {} ELSE {Head(sem[e].queue)})
  <2>1. Woken({m} \cup {e}) = Woken({e})
    BY <1>1, MutexWakesNobody
  <2>2. QED
    BY <2>1, WokenIs
<1>7. OwnerTypes' /\ CellTypes'
  BY <1>1 DEF Types, OwnerTypes, CellTypes, SameCells
<1>8. asleep' \subseteq asleep
  BY <1>6
<1>9. Core' /\ \A s \in asleep : call'[s] = call[s]
  BY <1>1, <1>5, <1>7, <1>8, Concludes
<1>10. /\ Pool' /\ Names'
       /\ \A s, c : Event(s, c)' = Event(s, c)
  BY <1>1, SameCellsMeans
<1>11. Sleepers'
  <2>1. ASSUME NEW s \in asleep' PROVE Waiting(s)
    <3>1. call'[s] = call[s]
      BY <1>8, <1>9
    <3>2. Event(s, call[s])' = Event(s, call[s])
      BY <1>10, <3>1 DEF Event
    <3>3. QED
      BY <3>1, <3>2 DEF Waiting
  <2>2. PICK q : q = sem[e].queue
    OBVIOUS
  <2>3. /\ sem'[e].queue = IF q = <<>> THEN q ELSE Tail(q)
        /\ asleep' = asleep \ (IF q = <<>> THEN {} ELSE {Head(q)})
        /\ \A j \in Public \cup Cell : j # e => sem'[j].queue = sem[j].queue
    BY <1>3, <1>4, <1>6, <2>2
  <2>4. QED
    BY <1>1, <2>1, <2>2, <2>3, SleepersPop
<1>12. QED
  BY <1>9, <1>10, <1>11 DEF EInv

\* signal of a public event.
LEMMA SignalStep ==
    ASSUME EInv, NEW t \in Thread, signal(t)
    PROVE  EInv'
<1> DEFINE e == call[t].ev
           mine == owner[e] = task[t]
<1>1. In(t, "signal", "public")
  BY DEF signal
<1>2. /\ kernel = t /\ call[t].op = "signal" /\ call[t] \in Call /\ Held \in {Events_Sem, None}
      /\ Events_Sem \in Mutex /\ e \in Public /\ Bounded(call[t])
  BY <1>1, AtPublic
<1>3. /\ sem' = Bool_V(IF mine THEN V(sem, e) ELSE sem, Events_Sem)
      /\ asleep' = asleep \ Woken({Events_Sem} \cup (IF mine THEN {e} ELSE {}))
      /\ Returns(t) /\ SameCells /\ UNCHANGED owner
  BY DEF signal, SameCells
<1>4. CASE mine
  <2>1. sem' = Bool_V(V(sem, e), Events_Sem) /\ asleep' = asleep \ Woken({Events_Sem} \cup {e})
    BY <1>3, <1>4
  <2>2. sem[e].Status < MaxStatus
    <3>1. e # NULL
      BY <1>2, Keys
    <3>2. QED
      BY <1>2, <3>1 DEF Bounded
  <2>3. QED
    BY <1>2, <1>3, <2>1, <2>2, Signalled
<1>5. CASE ~mine
  <2>1. sem' = Bool_V(sem, Events_Sem) /\ asleep' = asleep \ Woken({Events_Sem})
    <3>1. {Events_Sem} \cup {} = {Events_Sem}
      OBVIOUS
    <3>2. QED
      BY <1>3, <1>5, <3>1
  <2>2. QED
    BY <1>2, <1>3, <2>1, Refused
<1>6. QED
  BY <1>4, <1>5

\* With the Events_Sem of a process, at its events.
LEMMA AtPrivate ==
    ASSUME EInv, NEW t \in Thread, NEW op, In(t, op, "private")
    PROVE  /\ kernel = t /\ call[t].op = op /\ call[t] \in Call /\ at[t] = [do |-> "private"]
           /\ Held = Target(t, call[t]) /\ Target(t, call[t]) \in Process /\ Target(t, call[t]) \in Mutex
           /\ call[t].ev \in Private /\ call[t].ev \notin Public /\ at[t] # [do |-> "return"]
           /\ ~Careless(t, call[t]) /\ Bounded(call[t])
<1>1. kernel = t /\ call[t].op = op /\ at[t].do = "private"
  BY DEF In
<1>2. Stage(t, call[t], at[t]) /\ call[t] \in Call /\ kernel # None
  BY <1>1, InKernel DEF EInv
<1>3. at[t] = [do |-> "private"] /\ PrivateCall(call[t])
  BY <1>1, <1>2 DEF Stage
<1>4. call[t].ev \in Private /\ call[t].ev \notin Public
  BY <1>3, Keys DEF PrivateCall
<1>5. Target(t, call[t]) \in Process
  BY <1>2, <1>4, Calls DEF Target
<1>6. at[t] # [do |-> "return"]
  BY <1>1
<1>7. ~Careless(t, call[t]) /\ Bounded(call[t])
  BY <1>1, <1>6, InKernel DEF EInv
<1>8. Held = Target(t, call[t])
  BY <1>1, <1>2 DEF Held
<1>9. QED
  BY <1>1, <1>2, <1>3, <1>4, <1>5, <1>6, <1>7, <1>8, Keys

\* signal of a private event.
LEMMA SignalPrivateStep ==
    ASSUME EInv, NEW t \in Thread, signal_private(t)
    PROVE  EInv'
<1>1. In(t, "signal", "private")
  BY DEF signal_private
<1>2. PICK q : q = call[t].to
  OBVIOUS
<1>3. PICK c : c = Search(q, call[t].ev)
  OBVIOUS
<1>4. /\ kernel = t /\ call[t].op = "signal" /\ call[t] \in Call /\ Held = q /\ q \in Process
      /\ q \in Mutex /\ call[t].ev \notin Public /\ Bounded(call[t])
  BY <1>1, <1>2, AtPrivate DEF Target
<1>5. /\ sem' = Bool_V(IF c = NULL THEN sem ELSE V(sem, c), q)
      /\ asleep' = asleep \ Woken({q} \cup ({c} \ {NULL}))
      /\ Returns(t) /\ SameCells /\ UNCHANGED owner
  BY <1>2, <1>3 DEF signal_private, SameCells
<1>6. c \in Cell \cup {NULL}
  BY <1>3, <1>4, SearchIs DEF EInv, Finds
<1>7. CASE c = NULL
  <2>1. sem' = Bool_V(sem, q) /\ asleep' = asleep \ Woken({q})
    <3>1. {q} \cup ({c} \ {NULL}) = {q}
      BY <1>7
    <3>2. QED
      BY <1>5, <1>7, <3>1
  <2>2. QED
    BY <1>4, <1>5, <2>1, Refused
<1>8. CASE c # NULL
  <2>1. sem' = Bool_V(V(sem, c), q) /\ asleep' = asleep \ Woken({q} \cup {c})
    <3>1. {c} \ {NULL} = {c}
      BY <1>8
    <3>2. QED
      BY <1>5, <1>8, <3>1
  <2>2. sem[c].Status < MaxStatus
    BY <1>2, <1>3, <1>4, <1>8, Calls DEF Bounded
  <2>3. c \in Public \cup Cell
    BY <1>6, <1>8
  <2>4. QED
    BY <1>4, <1>5, <2>1, <2>2, <2>3, Signalled
<1>9. QED
  BY <1>7, <1>8

\* setevent of a private event is refused: a careful client has no event of that name.
LEMMA SeteventPrivateStep ==
    ASSUME EInv, NEW t \in Thread, setevent_private(t)
    PROVE  EInv'
<1>1. In(t, "setevent", "private")
  BY DEF setevent_private
<1>2. PICK p : p = task[t]
  OBVIOUS
<1>3. /\ kernel = t /\ call[t].op = "setevent" /\ call[t].ev \in Private /\ Held = p
      /\ p \in Mutex /\ ~Careless(t, call[t])
  BY <1>1, <1>2, AtPrivate DEF Target
<1>4. Search(p, call[t].ev) = NULL
  BY <1>2, <1>3 DEF Careless, Clears, Leaves_Locked
<1>5. /\ sem' = Bool_V(sem, p) /\ asleep' = asleep \ Woken({p})
      /\ Returns(t) /\ SameCells /\ UNCHANGED owner
  BY <1>2, <1>4 DEF setevent_private, SameCells
<1>6. QED
  BY <1>3, <1>5, Refused

\* wait for a private event, which a careful client has.
LEMMA WaitPrivateStep ==
    ASSUME EInv, NEW t \in Thread, wait_private(t)
    PROVE  EInv'
<1>1. In(t, "wait", "private")
  BY DEF wait_private
<1>2. PICK p : p = task[t]
  OBVIOUS
<1>3. PICK c : c = Search(p, call[t].ev)
  OBVIOUS
<1>4. /\ kernel = t /\ call[t].op = "wait" /\ call[t].ev \in Private /\ call[t].ev \notin Public /\ Held = p
      /\ p \in Mutex /\ p \in Process /\ ~Careless(t, call[t]) /\ at[t] # [do |-> "return"]
  BY <1>1, <1>2, AtPrivate DEF Target
<1>5. c # NULL /\ c \in Cell \cup {NULL}
  BY <1>2, <1>3, <1>4, SearchIs DEF Careless, Clears, Leaves_Locked, EInv, Finds
<1>6. /\ sem' = Bool_V(sem, p) /\ asleep' = asleep \ Woken({p})
      /\ GoesOn(t, c, "return") /\ SameCells /\ UNCHANGED owner
  BY <1>2, <1>3, <1>5 DEF wait_private, SameCells
<1>7. Stage(t, call[t], [do |-> "P", on |-> c, then |-> "return"])
  <2>1. Event(t, call[t]) = c
    BY <1>2, <1>3, <1>4 DEF Event
  <2>2. QED
    BY <1>4, <1>5, <2>1 DEF Stage
<1>8. c \in Key
  BY <1>5, Keys
<1>9. QED
  BY <1>4, <1>6, <1>7, <1>8, Proceeds

\* The P of wait has returned, and so does wait.
LEMMA WaitReturnsStep ==
    ASSUME EInv, NEW t \in Thread, wait_returns(t)
    PROVE  EInv'
<1>1. /\ kernel = t /\ at[t].do = "return" /\ Returns(t) /\ sem' = sem /\ asleep' = asleep
      /\ UNCHANGED owner /\ SameCells
  BY DEF wait_returns, In, SameCells
<1>2. Core /\ Pool /\ Names /\ Sleepers /\ Types /\ Counts /\ sem \in Sems
  BY DEF EInv, Core, Types
<1>3. Held = None /\ MutexesAre(sem, Held)
  BY <1>1, <1>2 DEF Held, Core, Locks
<1>4. GoodSems(None)
  BY <1>1, <1>2, <1>3, Keys DEF GoodSems, Counts
<1>5. OwnerTypes' /\ CellTypes'
  BY <1>1, <1>2 DEF Types, OwnerTypes, CellTypes, SameCells
<1>6. Core' /\ \A s \in asleep : call'[s] = call[s]
  BY <1>1, <1>2, <1>4, <1>5, Concludes
<1>7. /\ Pool' /\ Names'
      /\ \A s, c : Event(s, c)' = Event(s, c)
  BY <1>1, <1>2, SameCellsMeans
<1>8. \A s \in asleep : Waiting(s)
  BY <1>1, <1>6, <1>7 DEF Waiting, Event
<1>9. Sleepers'
  BY <1>1, <1>2, <1>8, SleepersKept
<1>10. QED
  BY <1>6, <1>7, <1>9 DEF EInv

\* A thread that has been woken goes on.
LEMMA ResumeStep ==
    ASSUME EInv, NEW t \in Thread, Resume(t)
    PROVE  EInv'
<1>1. /\ kernel = None /\ kernel' = t /\ call[t] # None /\ t \notin asleep
      /\ UNCHANGED <<sem, call, at, asleep, owner>> /\ SameCells
  BY DEF Resume, SameCells
<1>2. /\ Core /\ Pool /\ Names /\ Sleepers /\ Types /\ Counts /\ Stages /\ MutexesAre(sem, None)
      /\ OwnerTypes /\ CellTypes
  BY <1>1 DEF EInv, Core, Types, Locks, Held
<1>3. call[t].op = "wait" /\ at[t] = [do |-> "return"] /\ t # None
  BY <1>1, <1>2, Calls DEF Stages
<1>4. Types'
  BY <1>1, <1>2 DEF Types, OwnerTypes, CellTypes, SameCells
<1>5. Stages'
  <2>1. Stage(t, call[t], at[t])'
    BY <1>1, <1>3 DEF Stage
  <2>2. ASSUME NEW s \in Thread, call'[s] # None, s # kernel'
        PROVE  call'[s].op = "wait" /\ at'[s] = [do |-> "return"]
    <3>1. call[s] # None /\ s # kernel
      BY <1>1, <2>2, Calls
    <3>2. QED
      BY <1>1, <1>2, <3>1 DEF Stages
  <2>3. kernel' = t /\ call'[t] # None /\ t \notin asleep'
    BY <1>1
  <2>4. QED
    BY <2>1, <2>2, <2>3 DEF Stages
<1>6. StillCareful'
  BY <1>1, <1>3 DEF StillCareful
<1>7. Locks'
  <2>1. at'[t].do = "return"
    BY <1>1, <1>3
  <2>2. Held' = None
    BY <1>1, <2>1 DEF Held
  <2>3. QED
    BY <1>1, <1>2, <2>2 DEF Locks
<1>8. Counts'
  BY <1>1, <1>2 DEF Counts
<1>9. /\ Pool' /\ Names'
      /\ \A s, c : Event(s, c)' = Event(s, c)
  BY <1>1, <1>2, SameCellsMeans
<1>10. \A s \in asleep : Waiting(s)
  BY <1>1, <1>9 DEF Waiting, Event
<1>11. Sleepers'
  BY <1>1, <1>2, <1>10, SleepersKept
<1>12. QED
  BY <1>4, <1>5, <1>6, <1>7, <1>8, <1>9, <1>11 DEF EInv, Core

\* An interrupt signals its event.
LEMMA IRQStep ==
    ASSUME EInv, NEW e \in Public, IRQ(e)
    PROVE  EInv'
<1>1. /\ kernel = None /\ sem[e].Status < MaxStatus /\ sem' = V(sem, e) /\ asleep' = asleep \ Woken({e})
      /\ UNCHANGED <<kernel, call, at, owner>> /\ SameCells
  BY DEF IRQ, SameCells
<1>2. /\ Core /\ Pool /\ Names /\ Sleepers /\ Types /\ Stages /\ MutexesAre(sem, None) /\ sem \in Sems
      /\ \A k \in Public \cup Cell : sem[k].Status <= MaxStatus
  BY <1>1, Keys DEF EInv, Core, Types, Locks, Held, Counts
<1>3. /\ sem' \in Sems /\ MutexesAre(sem', None)
      /\ \A k \in Public \cup Cell : sem'[k].Status <= MaxStatus
      /\ \A k \in Public \cup Cell : k # e => sem'[k].queue = sem[k].queue
      /\ sem'[e].queue = IF sem[e].queue = <<>> THEN sem[e].queue ELSE Tail(sem[e].queue)
  BY <1>1, <1>2, VWakes
<1>4. asleep' = asleep \ (IF sem[e].queue = <<>> THEN {} ELSE {Head(sem[e].queue)})
  BY <1>1, WokenIs
<1>5. Types'
  <2>1. asleep' \in SUBSET Thread
    BY <1>2, <1>4 DEF Types
  <2>2. OwnerTypes' /\ CellTypes'
    BY <1>1, <1>2 DEF Types, OwnerTypes, CellTypes, SameCells
  <2>3. QED
    BY <1>1, <1>2, <1>3, <2>1, <2>2 DEF Types
<1>6. Stages' /\ StillCareful'
  BY <1>1, <1>2 DEF Stages, StillCareful
<1>7. Locks'
  BY <1>1, <1>3 DEF Locks, Held
<1>8. Counts'
  BY <1>3, Keys DEF Counts
<1>9. /\ Pool' /\ Names'
      /\ \A s, c : Event(s, c)' = Event(s, c)
  BY <1>1, <1>2, SameCellsMeans
<1>10. Sleepers'
  <2>1. \A s \in asleep' : Waiting(s)
    BY <1>1, <1>9 DEF Waiting, Event
  <2>2. PICK q : q = sem[e].queue
    OBVIOUS
  <2>3. /\ sem'[e].queue = IF q = <<>> THEN q ELSE Tail(q)
        /\ asleep' = asleep \ (IF q = <<>> THEN {} ELSE {Head(q)})
    BY <1>3, <1>4, <2>2
  <2>4. QED
    BY <1>2, <1>3, <2>1, <2>2, <2>3, SleepersPop
<1>11. QED
  BY <1>5, <1>6, <1>7, <1>8, <1>9, <1>10 DEF EInv, Core

\* A thread starts a careful call.
LEMMA EnterStep ==
    ASSUME Careful, EInv, NEW t \in Thread, Enter(t)
    PROVE  EInv'
<1>1. PICK c \in Call : /\ ~Careless(t, c) /\ Bounded(c)
                        /\ call' = [call EXCEPT ![t] = c]
                        /\ at' = [at EXCEPT ![t] = Start(c)]
  BY DEF Enter, Careful, Careless
<1>2. /\ kernel = None /\ call[t] = None /\ kernel' = t /\ UNCHANGED <<sem, asleep, owner>> /\ SameCells
  BY DEF Enter, SameCells
<1>3. /\ Core /\ Pool /\ Names /\ Sleepers /\ Types /\ Counts /\ Stages /\ MutexesAre(sem, None)
      /\ OwnerTypes /\ CellTypes /\ sem \in Sems
  BY <1>2 DEF EInv, Core, Types, Locks, Held
<1>4. t # None /\ t \notin asleep
  <2>1. ASSUME t \in asleep PROVE FALSE
    <3>1. PICK k \in Public \cup Cell : SleepsOn(t, k)
      BY <1>3, <2>1 DEF Sleepers
    <3>2. WaitsOn(k)
      BY <1>3 DEF Sleepers
    <3>3. QED
      BY <1>2, <3>1, <3>2 DEF SleepsOn, WaitsOn
  <2>2. QED
    BY <2>1, Calls
<1>5. call'[t] = c /\ at'[t] = Start(c) /\ c # None
  BY <1>1, <1>3, Calls DEF Types
<1>6. \/ c.op = "getevent" /\ Start(c) = [do |-> "public"]
      \/ c.op = "signal" /\ c.to # None /\ Start(c) = [do |-> "P", on |-> c.to, then |-> "private"]
      \/ /\ c.op # "getevent" /\ ~(c.op = "signal" /\ c.to # None)
         /\ Start(c) = [do |-> "P", on |-> Events_Sem, then |-> "public"]
  <2>1. CASE c.op = "getevent"
    BY <2>1 DEF Start
  <2>2. CASE c.op = "signal" /\ c.to # None
    BY <2>2 DEF Start
  <2>3. CASE c.op # "getevent" /\ ~(c.op = "signal" /\ c.to # None)
    BY <2>3 DEF Start
  <2>4. QED
    BY <2>1, <2>2, <2>3
<1>7. PICK a : a = Start(c)
  OBVIOUS
<1>8. a \in Ats /\ Stage(t, c, a) /\ (a.do = "P" \/ (a.do = "public" /\ c.op = "getevent"))
  <2>1. CASE c.op = "getevent" /\ a = [do |-> "public"]
    BY <2>1 DEF Ats, Stage
  <2>2. CASE c.op = "signal" /\ c.to # None /\ a = [do |-> "P", on |-> c.to, then |-> "private"]
    <3>1. c.to \in Key /\ c.ev \in Private
      BY <2>2, Calls, Keys
    <3>2. Stage(t, c, a)
      BY <2>2, <3>1 DEF Stage, Target, PrivateCall
    <3>3. a \in Ats
      BY <2>2, <3>1 DEF Ats
    <3>4. QED
      BY <2>2, <3>2, <3>3
  <2>3. CASE /\ c.op # "getevent" /\ ~(c.op = "signal" /\ c.to # None)
             /\ a = [do |-> "P", on |-> Events_Sem, then |-> "public"]
    <3>1. Events_Sem \in Key
      BY Keys
    <3>2. a \in Ats
      BY <2>3, <3>1 DEF Ats
    <3>3. Stage(t, c, a)
      BY <2>3, Calls DEF Stage
    <3>4. QED
      BY <2>3, <3>2, <3>3
  <2>4. QED
    BY <1>6, <1>7, <2>1, <2>2, <2>3
<1>9. /\ Pool' /\ Names'
      /\ \A s, d : Event(s, d)' = Event(s, d)
  BY <1>2, <1>3, SameCellsMeans
<1>10. Types'
  <2>1. at' \in [Thread -> Ats] /\ call' \in [Thread -> Call \cup {None}]
    BY <1>1, <1>3, <1>7, <1>8 DEF Types
  <2>2. OwnerTypes' /\ CellTypes'
    BY <1>2, <1>3 DEF OwnerTypes, CellTypes, SameCells
  <2>3. QED
    BY <1>2, <1>3, <2>1, <2>2 DEF Types
<1>11. Stages'
  <2>1. ASSUME NEW s \in Thread, call'[s] # None, s # kernel'
        PROVE call'[s].op = "wait" /\ at'[s] = [do |-> "return"]
    <3>1. s # t /\ call'[s] = call[s] /\ at'[s] = at[s]
      BY <1>1, <1>2, <1>3, <2>1 DEF Types
    <3>2. s # kernel
      BY <1>2, Calls
    <3>3. QED
      BY <1>3, <2>1, <3>1, <3>2 DEF Stages
  <2>2. Stage(t, call[t], at[t])'
    <3>1. Event(t, c)' = Event(t, c) /\ at'[t] = a /\ call'[t] = c
      BY <1>5, <1>7, <1>9
    <3>2. Event(t, call[t])' = Event(t, c)
      BY <3>1 DEF Event
    <3>3. QED
      BY <1>2, <1>8, <3>1, <3>2 DEF Stage, Target, PrivateCall
  <2>3. QED
    BY <1>2, <1>4, <1>5, <2>1, <2>2 DEF Stages
<1>12. StillCareful'
  <2>1. ~Careless(t, c)' /\ Bounded(c)'
    BY <1>1, <1>2, <1>3, CarefulKept
  <2>2. (~Careless(t, call[t]) /\ Bounded(call[t]))'
    BY <1>5, <2>1 DEF Careless, Clears, Leaves_Locked, Bounded
  <2>3. QED
    BY <1>2, <2>2 DEF StillCareful
<1>13. Locks'
  <2>1. at'[t] = a /\ call'[t] = c
    BY <1>5, <1>7
  <2>2. Held' = None
    BY <1>2, <1>8, <2>1 DEF Held
  <2>3. QED
    BY <1>2, <1>3, <2>2 DEF Locks
<1>14. Counts'
  BY <1>2, <1>3 DEF Counts
<1>15. Sleepers'
  <2>1. ASSUME NEW s \in asleep PROVE Waiting(s)
    <3>1. s # t /\ s \in Thread
      BY <1>3, <1>4 DEF Types
    <3>2. call'[s] = call[s]
      BY <1>1, <1>3, <3>1 DEF Types
    <3>3. Event(s, call[s])' = Event(s, call[s])
      BY <1>9, <3>2 DEF Event
    <3>4. QED
      BY <1>2, <3>2, <3>3 DEF Waiting
  <2>2. QED
    BY <1>2, <1>3, <2>1, SleepersKept
<1>16. QED
  BY <1>9, <1>10, <1>11, <1>12, <1>13, <1>14, <1>15 DEF EInv, Core

\* r is s with another value, or another queue, of k.
Counted(r, s, k, v) == r = [s EXCEPT ![k].Status = v]
Queued(r, s, k, q) == r = [s EXCEPT ![k].queue = q]

\* A P that does not wait changes the value of one semaphore.
LEMMA PCounts ==
    ASSUME NEW s \in Sems, NEW k \in Key, NEW v \in Nat, NEW r, Counted(r, s, k, v)
    PROVE  /\ r \in Sems /\ r[k].Status = v /\ r[k].queue = s[k].queue
           /\ \A j \in Key : j # k => r[j] = s[j]
<1>1. s[k] \in [Status : Nat, queue : Seq(Thread)]
  BY DEF Sems
<1>2. QED
  BY <1>1 DEF Sems, Counted

\* A P that waits changes the queue of one semaphore.
LEMMA PQueues ==
    ASSUME NEW s \in Sems, NEW k \in Key, NEW q \in Seq(Thread), NEW r, Queued(r, s, k, q)
    PROVE  /\ r \in Sems /\ r[k].Status = s[k].Status /\ r[k].queue = q
           /\ \A j \in Key : j # k => r[j] = s[j]
<1>1. s[k] \in [Status : Nat, queue : Seq(Thread)]
  BY DEF Sems
<1>2. QED
  BY <1>1 DEF Sems, Queued

\* What t is about to do when it does a P.
LEMMA AtP ==
    ASSUME EInv, NEW t \in Thread, P(t), NEW k, k = at[t].on, NEW d, d = at[t].then
    PROVE  /\ kernel = t /\ Core /\ Types /\ MutexesAre(sem, None) /\ call[t] \in Call /\ t \notin asleep
           /\ k \in Key /\ at[t] # [do |-> "return"]
           /\ at' = [at EXCEPT ![t] = [do |-> d]] /\ UNCHANGED <<call, owner>> /\ SameCells
           /\ \/ /\ k = Events_Sem /\ d = "public" /\ call[t].op # "getevent"
                 /\ (call[t].op = "signal" => call[t].ev \in Public)
              \/ k = Target(t, call[t]) /\ k \in Process /\ d = "private" /\ PrivateCall(call[t])
              \/ /\ k = Event(t, call[t]) /\ k \in Public \cup Cell /\ d = "return" /\ call[t].op = "wait"
                 /\ (call[t].ev \in Public => owner[call[t].ev] = task[t])
<1>1. kernel = t /\ at[t].do = "P" /\ UNCHANGED <<call, owner>> /\ SameCells /\ Core
      /\ at' = [at EXCEPT ![t] = [do |-> at[t].then]]
  BY DEF P, SameCells, EInv
<1>2. Types /\ kernel # None /\ call[t] \in Call /\ t \notin asleep /\ Stage(t, call[t], at[t])
  BY <1>1, InKernel
<1>3. Held = None /\ at[t] # [do |-> "return"]
  BY <1>1, <1>2 DEF Held
<1>4. MutexesAre(sem, None)
  BY <1>1, <1>3 DEF Core, Locks
<1>5. \/ /\ k = Events_Sem /\ d = "public" /\ call[t].op # "getevent"
         /\ (call[t].op = "signal" => call[t].ev \in Public)
      \/ k = Target(t, call[t]) /\ d = "private" /\ PrivateCall(call[t])
      \/ /\ k = Event(t, call[t]) /\ k \in Public \cup Cell /\ d = "return" /\ call[t].op = "wait"
         /\ (call[t].ev \in Public => owner[call[t].ev] = task[t])
  <2>1. CASE /\ at[t] = [do |-> "P", on |-> Events_Sem, then |-> "public"]
             /\ call[t].op # "getevent" /\ (call[t].op = "signal" => call[t].ev \in Public)
    BY <2>1
  <2>2. CASE at[t] = [do |-> "P", on |-> Target(t, call[t]), then |-> "private"] /\ PrivateCall(call[t])
    BY <2>2
  <2>3. CASE /\ at[t] = [do |-> "P", on |-> Event(t, call[t]), then |-> "return"]
             /\ call[t].op = "wait" /\ Event(t, call[t]) \in Public \cup Cell
             /\ (call[t].ev \in Public => owner[call[t].ev] = task[t])
    BY <2>3
  <2>4. ~(at[t] = [do |-> "public"]) /\ ~(at[t] = [do |-> "private"])
    BY <1>1
  <2>5. QED
    BY <1>2, <1>3, <2>1, <2>2, <2>3, <2>4 DEF Stage
<1>6. PrivateCall(call[t]) => Target(t, call[t]) \in Process
  <2>1. ASSUME PrivateCall(call[t]) PROVE Target(t, call[t]) \in Process
    <3>1. call[t].ev \in Private /\ call[t].ev \notin Public
      BY <2>1, Keys DEF PrivateCall
    <3>2. QED
      BY <1>2, <3>1, Calls DEF Target
  <2>2. QED
    BY <2>1
<1>7. k \in Key
  BY <1>5, <1>6, Keys
<1>8. QED
  BY <1>1, <1>2, <1>3, <1>4, <1>5, <1>6, <1>7

\* The mutex is free: t takes it.
LEMMA PMutex ==
    ASSUME EInv, NEW t \in Thread, P(t), at[t].on \in Mutex
    PROVE  EInv'
<1>1. PICK k : k = at[t].on
  OBVIOUS
<1>2. PICK d : d = at[t].then
  OBVIOUS
<1>3. /\ kernel = t /\ Core /\ Types /\ MutexesAre(sem, None) /\ call[t] \in Call /\ t \notin asleep
      /\ k \in Key /\ at[t] # [do |-> "return"]
      /\ at' = [at EXCEPT ![t] = [do |-> d]] /\ UNCHANGED <<call, owner>> /\ SameCells
      /\ \/ /\ k = Events_Sem /\ d = "public" /\ call[t].op # "getevent"
            /\ (call[t].op = "signal" => call[t].ev \in Public)
         \/ k = Target(t, call[t]) /\ k \in Process /\ d = "private" /\ PrivateCall(call[t])
         \/ /\ k = Event(t, call[t]) /\ k \in Public \cup Cell /\ d = "return" /\ call[t].op = "wait"
            /\ (call[t].ev \in Public => owner[call[t].ev] = task[t])
  BY <1>1, <1>2, AtP
<1>4. k \in Mutex /\ k \notin Public \cup Cell /\ k # None
  BY <1>1, Keys
<1>5. sem[k].Status = 1 /\ sem[k].queue = <<>> /\ sem \in Sems
  BY <1>3, <1>4 DEF MutexesAre, Types
<1>6. sem' = [sem EXCEPT ![k].Status = 0] /\ UNCHANGED <<kernel, asleep>>
  <2>1. sem[k].Status > 0
    BY <1>5
  <2>2. sem' = [sem EXCEPT ![k].Status = IF k \in Mutex THEN 0 ELSE @ - 1] /\ UNCHANGED <<kernel, asleep>>
    BY <1>1, <2>1 DEF P
  <2>3. QED
    BY <1>4, <2>2
<1>7. /\ sem' \in Sems /\ sem'[k].Status = 0 /\ sem'[k].queue = <<>>
      /\ \A j \in Key : j # k => sem'[j] = sem[j]
  <2>1. PICK v \in Nat : v = 0
    OBVIOUS
  <2>2. Counted(sem', sem, k, v)
    BY <1>6, <2>1 DEF Counted
  <2>3. /\ sem' \in Sems /\ sem'[k].Status = v /\ sem'[k].queue = sem[k].queue
        /\ \A j \in Key : j # k => sem'[j] = sem[j]
    BY <1>3, <1>5, <2>2, PCounts
  <2>4. QED
    BY <1>5, <2>1, <2>3
<1>8. MutexesAre(sem', k)
  <2>1. ASSUME NEW m \in Mutex PROVE sem'[m].queue = <<>> /\ sem'[m].Status = IF m = k THEN 0 ELSE 1
    <3>1. CASE m = k
      BY <1>7, <3>1
    <3>2. CASE m # k
      BY <1>3, <1>7, <3>2, Keys DEF MutexesAre
    <3>3. QED
      BY <3>1, <3>2
  <2>2. QED
    BY <2>1 DEF MutexesAre
<1>9. \A j \in Public \cup Cell : sem'[j] = sem[j]
  BY <1>4, <1>7, Keys
<1>10. PICK a : a = [do |-> d]
  OBVIOUS
<1>11. at' = [at EXCEPT ![t] = a] /\ at'[t] = a /\ a.do = d
  BY <1>3, <1>10 DEF Types
<1>12. \/ d = "public" /\ k = Events_Sem /\ call[t].op # "getevent" /\ (call[t].op = "signal" => call[t].ev \in Public)
       \/ d = "private" /\ k = Target(t, call[t]) /\ PrivateCall(call[t])
  BY <1>3, <1>4
<1>13. a \in Ats
  BY <1>10, <1>12 DEF Ats
<1>14. EInv => Pool /\ Names /\ Sleepers /\ Stages /\ Counts /\ OwnerTypes /\ CellTypes
  BY DEF EInv, Core, Types
<1>15. /\ Pool' /\ Names'
       /\ \A s, c : Event(s, c)' = Event(s, c)
  BY <1>3, <1>14, SameCellsMeans
<1>16. Types'
  <2>1. at' \in [Thread -> Ats]
    BY <1>3, <1>11, <1>13 DEF Types
  <2>2. OwnerTypes' /\ CellTypes'
    BY <1>3, <1>14 DEF OwnerTypes, CellTypes, SameCells
  <2>3. QED
    BY <1>3, <1>6, <1>7, <2>1, <2>2 DEF Types
<1>17. Stages'
  <2>1. ASSUME NEW s \in Thread, call'[s] # None, s # kernel'
        PROVE  call'[s].op = "wait" /\ at'[s] = [do |-> "return"]
    <3>1. s # t /\ call[s] # None /\ s # kernel /\ at'[s] = at[s]
      BY <1>3, <1>6, <1>11, <2>1 DEF Types
    <3>2. QED
      BY <1>3, <1>14, <3>1 DEF Stages
  <2>2. Stage(t, call[t], at[t])'
    BY <1>3, <1>10, <1>11, <1>12 DEF Stage, Target, PrivateCall
  <2>3. QED
    BY <1>3, <1>6, <2>1, <2>2, Calls DEF Stages
<1>18. StillCareful'
  <2>1. ~Careless(t, call[t]) /\ Bounded(call[t])
    BY <1>3, InKernel
  <2>2. PICK c \in Call : c = call[t]
    BY <1>3
  <2>3. ~Careless(t, c)' /\ Bounded(c)'
    BY <1>3, <1>9, <1>14, <2>1, <2>2, CarefulKept
  <2>4. (~Careless(t, call[t]) /\ Bounded(call[t]))'
    BY <1>3, <2>2, <2>3 DEF Careless, Clears, Leaves_Locked, Bounded
  <2>5. QED
    BY <1>3, <1>6, <2>4 DEF StillCareful
<1>19. Locks'
  <2>1. t # None /\ kernel' = t /\ at'[t].do = d /\ call' = call
    BY <1>3, <1>6, <1>11, Calls
  <2>2. CASE d = "public" /\ k = Events_Sem /\ call[t].op # "getevent"
    <3>1. Held' = k
      BY <2>1, <2>2 DEF Held
    <3>2. QED
      BY <1>8, <3>1 DEF Locks
  <2>3. CASE d = "private" /\ k = Target(t, call[t])
    <3>1. Held' = k
      BY <2>1, <2>3 DEF Held, Target
    <3>2. QED
      BY <1>8, <3>1 DEF Locks
  <2>4. QED
    BY <1>12, <2>2, <2>3
<1>20. Counts'
  BY <1>9, <1>14, Keys DEF Counts
<1>21. Sleepers'
  <2>1. \A s \in asleep : Waiting(s)
    BY <1>3, <1>15 DEF Waiting, Event
  <2>2. QED
    BY <1>3, <1>6, <1>9, <1>14, <2>1, SleepersKept
<1>22. QED
  BY <1>15, <1>16, <1>17, <1>18, <1>19, <1>20, <1>21 DEF EInv, Core

\* The P of wait: t has its event, or goes to sleep on it.
LEMMA PEvent ==
    ASSUME EInv, NEW t \in Thread, P(t), at[t].on \notin Mutex
    PROVE  EInv'
<1>1. PICK k : k = at[t].on
  OBVIOUS
<1>2. PICK d : d = at[t].then
  OBVIOUS
<1>3. /\ kernel = t /\ Core /\ Types /\ MutexesAre(sem, None) /\ call[t] \in Call /\ t \notin asleep
      /\ k \in Key /\ at[t] # [do |-> "return"]
      /\ at' = [at EXCEPT ![t] = [do |-> d]] /\ UNCHANGED <<call, owner>> /\ SameCells
      /\ \/ /\ k = Events_Sem /\ d = "public" /\ call[t].op # "getevent"
            /\ (call[t].op = "signal" => call[t].ev \in Public)
         \/ k = Target(t, call[t]) /\ k \in Process /\ d = "private" /\ PrivateCall(call[t])
         \/ /\ k = Event(t, call[t]) /\ k \in Public \cup Cell /\ d = "return" /\ call[t].op = "wait"
            /\ (call[t].ev \in Public => owner[call[t].ev] = task[t])
  BY <1>1, <1>2, AtP
<1>4. /\ k = Event(t, call[t]) /\ k \in Public \cup Cell /\ d = "return" /\ call[t].op = "wait" /\ k \notin Mutex
      /\ (call[t].ev \in Public => owner[call[t].ev] = task[t])
  BY <1>1, <1>3, Keys
<1>5. k \in Public => owner[k] = task[t]
  <2>1. ASSUME k \in Public PROVE call[t].ev \in Public /\ call[t].ev = k
    <3>1. CASE call[t].ev \in Public
      BY <1>4, <3>1 DEF Event
    <3>2. CASE call[t].ev \notin Public
      <4>1. k = Search(task[t], call[t].ev)
        BY <1>4, <3>2 DEF Event
      <4>2. k \in Cell \cup {NULL}
        BY <4>1, SearchIs, Calls DEF EInv, Finds
      <4>3. QED
        BY <2>1, <4>2, Keys
    <3>3. QED
      BY <3>1, <3>2
  <2>2. QED
    BY <1>4, <2>1
<1>6. Pool /\ Names /\ Sleepers /\ Stages /\ Counts /\ OwnerTypes /\ CellTypes /\ sem \in Sems
  BY DEF EInv, Core, Types
<1>7. PICK a : a = [do |-> "return"]
  OBVIOUS
<1>8. at' = [at EXCEPT ![t] = a] /\ at'[t] = a /\ a \in Ats
  BY <1>3, <1>4, <1>7 DEF Types, Ats
<1>9. at' \in [Thread -> Ats] /\ OwnerTypes' /\ CellTypes'
  BY <1>3, <1>6, <1>8 DEF Types, OwnerTypes, CellTypes, SameCells
<1>10. /\ Pool' /\ Names'
       /\ \A s, c : Event(s, c)' = Event(s, c)
  BY <1>3, <1>6, SameCellsMeans
<1>11. \A s : Waiting(s)
  BY <1>3, <1>10 DEF Waiting, Event
<1>12. ASSUME NEW s \in Thread, call'[s] # None, s = t \/ s # kernel
       PROVE  call'[s].op = "wait" /\ at'[s] = [do |-> "return"]
  <2>1. CASE s = t
    BY <1>3, <1>4, <1>7, <1>8, <2>1
  <2>2. CASE s # t
    <3>1. call[s] # None /\ s # kernel /\ at'[s] = at[s]
      BY <1>3, <1>8, <1>12, <2>2 DEF Types
    <3>2. QED
      BY <1>3, <1>6, <3>1 DEF Stages
  <2>3. QED
    BY <2>1, <2>2
<1>13. CASE sem[k].Status > 0
  <2>1. sem' = [sem EXCEPT ![k].Status = IF k \in Mutex THEN 0 ELSE @ - 1] /\ UNCHANGED <<kernel, asleep>>
    BY <1>1, <1>13 DEF P
  <2>2. sem[k].Status \in Nat /\ sem[k].Status <= MaxStatus
    BY <1>3, <1>4, <1>6 DEF Sems, Counts
  <2>3. PICK v \in Nat : v = sem[k].Status - 1 /\ v <= MaxStatus
    <3>1. sem[k].Status - 1 \in Nat /\ sem[k].Status - 1 <= MaxStatus
      BY <1>13, <2>2, EventsAssumption
    <3>2. QED
      BY <3>1
  <2>4. Counted(sem', sem, k, v)
    BY <1>4, <2>1, <2>3 DEF Counted
  <2>5. /\ sem' \in Sems /\ sem'[k].Status = v /\ sem'[k].queue = sem[k].queue
        /\ \A j \in Key : j # k => sem'[j] = sem[j]
    BY <1>3, <1>6, <2>4, PCounts
  <2>6. /\ MutexesAre(sem', None)
        /\ \A j \in Public \cup Cell : sem'[j].queue = sem[j].queue /\ sem'[j].Status <= MaxStatus
    BY <1>3, <1>4, <1>6, <2>3, <2>5, Keys DEF MutexesAre, Counts
  <2>7. Types'
    BY <1>3, <1>9, <2>1, <2>5 DEF Types
  <2>8. Stages'
    <3>1. Stage(t, call[t], at[t])'
      BY <1>3, <1>4, <1>7, <1>8 DEF Stage
    <3>2. QED
      BY <1>3, <1>12, <2>1, <3>1, Calls DEF Stages
  <2>9. StillCareful'
    BY <1>3, <1>7, <1>8, <2>1 DEF StillCareful
  <2>10. Locks'
    <3>1. kernel' = t /\ at'[t].do = "return"
      BY <1>3, <1>7, <1>8, <2>1
    <3>2. Held' = None
      BY <3>1 DEF Held
    <3>3. QED
      BY <2>6, <3>2 DEF Locks
  <2>11. Counts'
    BY <2>6, Keys DEF Counts
  <2>12. Sleepers'
    BY <1>3, <1>6, <1>11, <2>1, <2>6, SleepersKept
  <2>13. QED
    BY <1>10, <2>7, <2>8, <2>9, <2>10, <2>11, <2>12 DEF EInv, Core
<1>14. CASE ~(sem[k].Status > 0)
  <2>1. sem' = [sem EXCEPT ![k].queue = Append(@, t)] /\ asleep' = asleep \cup {t} /\ kernel' = None
    BY <1>1, <1>14 DEF P
  <2>2. PICK q \in Seq(Thread) : q = Append(sem[k].queue, t)
    <3>1. sem[k].queue \in Seq(Thread)
      BY <1>3, <1>4, QueuesTyped
    <3>2. \A x \in Seq(Thread) : Append(x, t) \in Seq(Thread)
      OBVIOUS
    <3>3. QED
      BY <3>1, <3>2
  <2>3. Queued(sem', sem, k, q)
    BY <2>1, <2>2 DEF Queued
  <2>4. /\ sem' \in Sems /\ sem'[k].Status = sem[k].Status /\ sem'[k].queue = q
        /\ \A j \in Key : j # k => sem'[j] = sem[j]
    BY <1>3, <1>6, <2>3, PQueues
  <2>5. /\ MutexesAre(sem', None)
        /\ \A j \in Public \cup Cell : sem'[j].Status <= MaxStatus /\ (j # k => sem'[j].queue = sem[j].queue)
    BY <1>3, <1>4, <1>6, <2>4, Keys DEF MutexesAre, Counts
  <2>6. Types'
    BY <1>3, <1>9, <2>1, <2>4 DEF Types
  <2>7. Stages'
    <3>1. \A s \in Thread : s = t \/ s # kernel
      BY <1>3
    <3>2. QED
      BY <1>12, <2>1, <3>1 DEF Stages
  <2>8. StillCareful'
    BY <2>1 DEF StillCareful
  <2>9. Locks'
    <3>1. Held' = None
      BY <2>1 DEF Held
    <3>2. QED
      BY <2>5, <3>1 DEF Locks
  <2>10. Counts'
    BY <2>5, Keys DEF Counts
  <2>11. Sleepers'
    <3>1. sem'[k].queue = Append(sem[k].queue, t) /\ t \in Thread \ asleep /\ call[t] # None
      BY <1>3, <2>2, <2>4, Calls
    <3>2. \A s \in asleep' : Waiting(s)
      BY <1>11
    <3>3. QED
      BY <1>3, <1>4, <1>5, <1>6, <2>1, <2>5, <3>1, <3>2, SleepersPush
  <2>12. QED
    BY <1>10, <2>6, <2>7, <2>8, <2>9, <2>10, <2>11 DEF EInv, Core
<1>15. QED
  BY <1>13, <1>14

--------------------------------------------------------------------------------
(* A cell goes from the free list to the list of a process, or back.           *)

\* The links of a list that are left alone.
LEMMA ChainKept ==
    ASSUME NEW nx, NEW hd, NEW w, IsChain(nx, hd, w), NEW ny, \A i \in 1 .. Len(w) : ny[w[i]] = nx[w[i]]
    PROVE  IsChain(ny, hd, w)
<1>1. /\ w \in Seq(Cell) /\ Len(w) <= MAX_EVENT_NUMBER /\ Len(w) \in Nat
      /\ w = <<>> => hd = NULL
      /\ w # <<>> => hd = w[1] /\ nx[w[Len(w)]] = NULL
      /\ \A i \in 1 .. Len(w) - 1 : nx[w[i]] = w[i + 1]
  BY DEF IsChain
<1>2. ASSUME w # <<>> PROVE ny[w[Len(w)]] = NULL
  <2>1. Len(w) \in 1 .. Len(w)
    BY <1>1, <1>2
  <2>2. QED
    BY <1>1, <1>2, <2>1
<1>3. \A i \in 1 .. Len(w) - 1 : ny[w[i]] = w[i + 1]
  BY <1>1
<1>4. QED
  BY <1>1, <1>2, <1>3 DEF IsChain

\* The lists W hold every cell, once.
Holds(W) == /\ \A l \in Lists : W[l] \in Seq(Cell)
            /\ \A l, k \in Lists : \A i \in 1 .. Len(W[l]), j \in 1 .. Len(W[k]) :
                  W[l][i] = W[k][j] => l = k /\ i = j
            /\ \A c \in Cell : \E l \in Lists : \E i \in 1 .. Len(W[l]) : W[l][i] = c

\* W2 is W with the first cell of list o at the head of list p.
Moved(W, W2, o, p) ==
    /\ \A l \in Lists : W2[l] \in Seq(Cell)
    /\ Len(W[o]) > 0
    /\ Len(W2[o]) = Len(W[o]) - 1 /\ \A i \in 1 .. Len(W2[o]) : W2[o][i] = W[o][i + 1]
    /\ Len(W2[p]) = Len(W[p]) + 1 /\ W2[p][1] = W[o][1] /\ \A i \in 1 .. Len(W[p]) : W2[p][i + 1] = W[p][i]
    /\ \A l \in Lists \ {o, p} : W2[l] = W[l]

\* Where a cell of the new lists was.
OldList(o, p, l, i) == IF l = p /\ i = 1 THEN o ELSE l
OldIndex(o, p, l, i) == IF l = o THEN i + 1 ELSE IF l = p /\ i # 1 THEN i - 1 ELSE i

\* No two cells of the new lists were in the same place.
OneToOne(o, p, W2) ==
    \A l, k \in Lists : \A i \in 1 .. Len(W2[l]), j \in 1 .. Len(W2[k]) :
       OldList(o, p, l, i) = OldList(o, p, k, j) /\ OldIndex(o, p, l, i) = OldIndex(o, p, k, j) => l = k /\ i = j

\* Every cell of the new lists has an old place, and no two have the same.
LEMMA OldPlaces ==
    ASSUME NEW W, NEW W2, NEW o \in Lists, NEW p \in Lists \ {o}, Holds(W), Moved(W, W2, o, p)
    PROVE  /\ \A l \in Lists : \A i \in 1 .. Len(W2[l]) :
                 /\ OldList(o, p, l, i) \in Lists /\ OldIndex(o, p, l, i) \in 1 .. Len(W[OldList(o, p, l, i)])
                 /\ W2[l][i] = W[OldList(o, p, l, i)][OldIndex(o, p, l, i)]
           /\ OneToOne(o, p, W2)
<1>1. p # o /\ p \in Lists /\ o \in Lists
  OBVIOUS
<1>2. \A l \in Lists : Len(W[l]) \in Nat /\ Len(W2[l]) \in Nat
  <2>1. \A w \in Seq(Cell) : Len(w) \in Nat
    OBVIOUS
  <2>2. QED
    BY <2>1 DEF Holds, Moved
<1>3. ASSUME NEW l \in Lists, NEW i \in 1 .. Len(W2[l])
      PROVE  /\ OldList(o, p, l, i) \in Lists /\ OldIndex(o, p, l, i) \in 1 .. Len(W[OldList(o, p, l, i)])
             /\ W2[l][i] = W[OldList(o, p, l, i)][OldIndex(o, p, l, i)]
  <2>1. CASE l = o
    <3>1. OldList(o, p, l, i) = o /\ OldIndex(o, p, l, i) = i + 1
      BY <1>1, <2>1 DEF OldList, OldIndex
    <3>2. i + 1 \in 1 .. Len(W[o]) /\ W2[l][i] = W[o][i + 1]
      BY <1>1, <1>2, <2>1 DEF Moved
    <3>3. QED
      BY <1>1, <3>1, <3>2
  <2>2. CASE l = p /\ i = 1
    <3>1. OldList(o, p, l, i) = o /\ OldIndex(o, p, l, i) = 1
      BY <1>1, <2>2 DEF OldList, OldIndex
    <3>2. 1 \in 1 .. Len(W[o]) /\ W2[l][i] = W[o][1]
      BY <1>1, <1>2, <2>2 DEF Moved
    <3>3. QED
      BY <1>1, <3>1, <3>2
  <2>3. CASE l = p /\ i # 1
    <3>1. OldList(o, p, l, i) = p /\ OldIndex(o, p, l, i) = i - 1
      BY <1>1, <2>3 DEF OldList, OldIndex
    <3>2. i - 1 \in 1 .. Len(W[p]) /\ (i - 1) + 1 = i
      BY <1>1, <1>2, <2>3 DEF Moved
    <3>3. W2[l][i] = W[p][i - 1]
      BY <2>3, <3>2 DEF Moved
    <3>4. QED
      BY <1>1, <3>1, <3>2, <3>3
  <2>4. CASE l # o /\ l # p
    <3>1. OldList(o, p, l, i) = l /\ OldIndex(o, p, l, i) = i /\ W2[l] = W[l]
      BY <2>4 DEF OldList, OldIndex, Moved
    <3>2. QED
      BY <3>1
  <2>5. QED
    BY <2>1, <2>2, <2>3, <2>4
<1>4. ASSUME NEW l \in Lists, NEW k \in Lists, NEW i \in 1 .. Len(W2[l]), NEW j \in 1 .. Len(W2[k]),
             OldList(o, p, l, i) = OldList(o, p, k, j), OldIndex(o, p, l, i) = OldIndex(o, p, k, j)
      PROVE  l = k /\ i = j
  <2>1. i \in Nat \ {0} /\ j \in Nat \ {0}
    BY <1>2
  <2>2. CASE l = p /\ i = 1
    BY <1>1, <1>4, <2>1, <2>2 DEF OldList, OldIndex
  <2>3. CASE k = p /\ j = 1
    BY <1>1, <1>4, <2>1, <2>3 DEF OldList, OldIndex
  <2>4. CASE ~(l = p /\ i = 1) /\ ~(k = p /\ j = 1)
    <3>1. l = k
      BY <1>4, <2>4 DEF OldList
    <3>2. QED
      BY <1>1, <1>4, <2>1, <2>4, <3>1 DEF OldIndex
  <2>5. QED
    BY <2>2, <2>3, <2>4
<1>5. OneToOne(o, p, W2)
  BY <1>4 DEF OneToOne
<1>6. QED
  BY <1>3, <1>5

\* The new lists hold every cell, once.
LEMMA StillHolds ==
    ASSUME NEW W, NEW W2, NEW o \in Lists, NEW p \in Lists \ {o}, Holds(W), Moved(W, W2, o, p)
    PROVE  Holds(W2)
<1>1. p # o /\ p \in Lists /\ o \in Lists
  OBVIOUS
<1>2. \A l \in Lists : Len(W[l]) \in Nat /\ Len(W2[l]) \in Nat
  <2>1. \A w \in Seq(Cell) : Len(w) \in Nat
    OBVIOUS
  <2>2. QED
    BY <2>1 DEF Holds, Moved
<1>3. ASSUME NEW l \in Lists, NEW k \in Lists, NEW i \in 1 .. Len(W2[l]), NEW j \in 1 .. Len(W2[k]),
             W2[l][i] = W2[k][j]
      PROVE  l = k /\ i = j
  <2>1. PICK a : a = OldList(o, p, l, i)
    OBVIOUS
  <2>2. PICK b : b = OldList(o, p, k, j)
    OBVIOUS
  <2>3. PICK x : x = OldIndex(o, p, l, i)
    OBVIOUS
  <2>4. PICK y : y = OldIndex(o, p, k, j)
    OBVIOUS
  <2>5. a \in Lists /\ b \in Lists /\ x \in 1 .. Len(W[a]) /\ y \in 1 .. Len(W[b]) /\ W[a][x] = W[b][y]
    BY <1>3, <2>1, <2>2, <2>3, <2>4, OldPlaces
  <2>6. a = b /\ x = y
    BY <2>5 DEF Holds
  <2>7. OneToOne(o, p, W2)
    BY OldPlaces
  <2>8. OldList(o, p, l, i) = OldList(o, p, k, j) /\ OldIndex(o, p, l, i) = OldIndex(o, p, k, j)
    BY <2>1, <2>2, <2>3, <2>4, <2>6, Zenon
  <2>9. QED
    BY <2>7, <2>8 DEF OneToOne
<1>4. ASSUME NEW c \in Cell PROVE \E l \in Lists : \E i \in 1 .. Len(W2[l]) : W2[l][i] = c
  <2>1. PICK l \in Lists : \E i \in 1 .. Len(W[l]) : W[l][i] = c
    BY DEF Holds
  <2>2. PICK i \in 1 .. Len(W[l]) : W[l][i] = c
    BY <2>1
  <2>3. CASE l = o /\ i = 1
    <3>1. 1 \in 1 .. Len(W2[p]) /\ W2[p][1] = c
      BY <1>1, <1>2, <2>2, <2>3 DEF Moved
    <3>2. QED
      BY <1>1, <3>1
  <2>4. CASE l = o /\ i # 1
    <3>1. i - 1 \in 1 .. Len(W2[o]) /\ (i - 1) + 1 = i
      BY <1>1, <1>2, <2>4 DEF Moved
    <3>2. W2[o][i - 1] = c
      BY <2>2, <2>4, <3>1 DEF Moved
    <3>3. QED
      BY <1>1, <3>1, <3>2
  <2>5. CASE l = p
    <3>1. i + 1 \in 1 .. Len(W2[p])
      BY <1>1, <1>2, <2>5 DEF Moved
    <3>2. W2[p][i + 1] = c
      BY <2>2, <2>5 DEF Moved
    <3>3. QED
      BY <1>1, <3>1, <3>2
  <2>6. CASE l # o /\ l # p
    <3>1. W2[l] = W[l]
      BY <2>6 DEF Moved
    <3>2. QED
      BY <2>2, <3>1
  <2>7. QED
    BY <2>3, <2>4, <2>5, <2>6
<1>5. QED
  BY <1>3, <1>4 DEF Holds, Moved

\* The lists, as a function of whose they are.
AllLists == [l \in Lists |-> List(l)]

\* The lists hold every cell.
LEMMA PoolHolds ==
    ASSUME Pool
    PROVE  Holds(AllLists)
<1>1. PICK W : W = AllLists
  OBVIOUS
<1>2. \A l \in Lists : W[l] = List(l)
  BY <1>1 DEF AllLists
<1>3. \A l \in Lists : W[l] \in Seq(Cell)
  BY <1>2, ListsTyped
<1>4. ASSUME NEW l \in Lists, NEW k \in Lists, NEW i \in 1 .. Len(W[l]), NEW j \in 1 .. Len(W[k]), W[l][i] = W[k][j]
      PROVE  l = k /\ i = j
  <2>1. W[l] = List(l) /\ W[k] = List(k)
    BY <1>2
  <2>2. QED
    BY <1>4, <2>1 DEF Pool
<1>5. ASSUME NEW c \in Cell PROVE \E l \in Lists : \E i \in 1 .. Len(W[l]) : W[l][i] = c
  <2>1. PICK l \in Lists : \E i \in 1 .. Len(List(l)) : List(l)[i] = c
    BY DEF Pool
  <2>2. W[l] = List(l)
    BY <1>2
  <2>3. \E i \in 1 .. Len(W[l]) : W[l][i] = c
    BY <2>1, <2>2
  <2>4. QED
    BY <2>3
<1>6. Holds(W)
  BY <1>3, <1>4, <1>5, Zenon DEF Holds
<1>7. QED
  BY <1>1, <1>6

\* What the lists become: the links are those of W2, which hold every cell once.
LEMMA PoolBecomes ==
    ASSUME NEW W2, Holds(W2), \A l \in Lists : IsChain(next', First(l)', W2[l])
    PROVE  Pool' /\ \A l \in Lists : List(l)' = W2[l]
<1>1. ASSUME NEW l \in Lists PROVE List(l)' = W2[l]
  <2>1. Walk(next', First(l)') = W2[l]
    BY WalkIs
  <2>2. QED
    BY <2>1 DEF List
<1>2. QED
  BY <1>1 DEF Pool, Holds

\* The first free cell c becomes one of p called e.
Takes(p, c, e) ==
    /\ c = events_freelist /\ c \in Cell
    /\ events_freelist' = next[c]
    /\ next' = [next EXCEPT ![c] = Events_List[p]]
    /\ Events_List' = [Events_List EXCEPT ![p] = c]
    /\ name' = [name EXCEPT ![c] = e]

\* The first cell c of list o becomes the first of list p.
MovesHead(o, p, c) ==
    /\ c = First(o) /\ c \in Cell
    /\ First(o)' = next[c] /\ First(p)' = c
    /\ \A l \in Lists \ {o, p} : First(l)' = First(l)
    /\ next' = [next EXCEPT ![c] = First(p)]

\* The lists when a cell is moved.
LEMMA ListsMove ==
    ASSUME CellTypes, Pool, NEW o \in Lists, NEW p \in Lists \ {o}, NEW c, MovesHead(o, p, c)
    PROVE  \E W2 : /\ Moved(AllLists, W2, o, p) /\ Holds(W2) /\ W2[p][1] = c
                   /\ Pool' /\ \A l \in Lists : List(l)' = W2[l]
<1>1. p # o /\ p \in Lists /\ o \in Lists
  OBVIOUS
<1>2. PICK W : W = AllLists
  OBVIOUS
<1>3. Holds(W) /\ \A l \in Lists : W[l] = List(l)
  BY <1>2, PoolHolds DEF AllLists
<1>4. \A l \in Lists : W[l] \in Seq(Cell) /\ Len(W[l]) \in Nat /\ IsChain(next, First(l), W[l])
  <2>1. \A w \in Seq(Cell) : Len(w) \in Nat
    OBVIOUS
  <2>2. QED
    BY <1>3, <2>1 DEF Holds, Pool
<1>5. First(o) = c /\ c \in Cell /\ c # NULL
  BY <1>1, Keys DEF MovesHead
<1>6. W[o] # <<>> /\ Len(W[o]) > 0 /\ W[o][1] = c
  <2>1. W[o] # <<>> /\ W[o][1] = c
    BY <1>1, <1>4, <1>5 DEF IsChain
  <2>2. \A w \in Seq(Cell) : w # <<>> => Len(w) > 0
    OBVIOUS
  <2>3. QED
    BY <1>1, <1>4, <2>1, <2>2
<1>7. PICK u : u = Tail(W[o])
  OBVIOUS
<1>8. PICK v : v = <<c>> \o W[p]
  OBVIOUS
<1>9. /\ u \in Seq(Cell) /\ Len(u) = Len(W[o]) - 1
      /\ \A i \in 1 .. Len(u) : u[i] = W[o][i + 1]
  <2>1. \A w \in Seq(Cell) : w # <<>> => /\ Tail(w) \in Seq(Cell) /\ Len(Tail(w)) = Len(w) - 1
                                         /\ \A i \in 1 .. Len(w) - 1 : Tail(w)[i] = w[i + 1]
    OBVIOUS
  <2>2. QED
    BY <1>1, <1>4, <1>6, <1>7, <2>1
<1>10. /\ v \in Seq(Cell) /\ Len(v) = Len(W[p]) + 1 /\ v[1] = c
       /\ \A i \in 1 .. Len(W[p]) : v[i + 1] = W[p][i]
  <2>1. \A w \in Seq(Cell) : \A d \in Cell :
           /\ (<<d>> \o w) \in Seq(Cell) /\ Len(<<d>> \o w) = Len(w) + 1 /\ (<<d>> \o w)[1] = d
           /\ \A i \in 1 .. Len(w) : (<<d>> \o w)[i + 1] = w[i]
    OBVIOUS
  <2>2. QED
    BY <1>1, <1>4, <1>5, <1>8, <2>1
<1>11. PICK W2 : W2 = [l \in Lists |-> IF l = o THEN u ELSE IF l = p THEN v ELSE W[l]]
  OBVIOUS
<1>12. W2[o] = u /\ W2[p] = v /\ \A l \in Lists \ {o, p} : W2[l] = W[l]
  BY <1>1, <1>11
<1>13. Moved(W, W2, o, p)
  BY <1>1, <1>4, <1>6, <1>9, <1>10, <1>12 DEF Moved
<1>14. Holds(W2)
  BY <1>3, <1>13, StillHolds
<1>15. ASSUME NEW l \in Lists, NEW i \in 1 .. Len(W[l]), l = o => i # 1
       PROVE  next'[W[l][i]] = next[W[l][i]]
  <2>1. 1 \in 1 .. Len(W[o]) /\ W[l][i] \in Cell
    BY <1>1, <1>4, <1>6
  <2>2. W[l][i] # c
    BY <1>1, <1>3, <1>6, <1>15, <2>1 DEF Holds
  <2>3. QED
    BY <2>1, <2>2 DEF MovesHead, CellTypes
<1>16. /\ next'[c] = First(p)
       /\ First(o)' = next[c] /\ First(p)' = c
       /\ \A l \in Lists \ {o, p} : First(l)' = First(l)
  BY <1>1, <1>5 DEF MovesHead, CellTypes
<1>17. IsChain(next', First(o)', u)
  <2>1. \A i \in 2 .. Len(W[o]) : next'[W[o][i]] = next[W[o][i]]
    BY <1>1, <1>4, <1>15
  <2>2. IsChain(next', next[c], Tail(W[o]))
    BY <1>1, <1>4, <1>5, <1>6, <2>1, ChainTail
  <2>3. QED
    BY <1>7, <1>16, <2>2
<1>18. IsChain(next', First(p)', v)
  <2>1. \A i \in 1 .. Len(W[p]) : next'[W[p][i]] = next[W[p][i]]
    BY <1>1, <1>15
  <2>2. \A i, j \in 1 .. Len(v) : v[i] = v[j] => i = j
    BY <1>1, <1>12, <1>14 DEF Holds
  <2>3. Len(v) <= MAX_EVENT_NUMBER
    BY <1>10, <2>2, ChainShort
  <2>4. IsChain(next, First(p), W[p])
    BY <1>1, <1>4, <1>5
  <2>5. IsChain(next', c, v)
    BY <1>5, <1>8, <1>16, <2>1, <2>3, <2>4, ChainPush
  <2>6. QED
    BY <1>16, <2>5
<1>19. ASSUME NEW l \in Lists \ {o, p} PROVE IsChain(next', First(l)', W[l])
  <2>1. \A i \in 1 .. Len(W[l]) : next'[W[l][i]] = next[W[l][i]]
    BY <1>15
  <2>2. IsChain(next', First(l), W[l])
    BY <1>4, <2>1, ChainKept
  <2>3. QED
    BY <1>16, <2>2
<1>20. \A l \in Lists : IsChain(next', First(l)', W2[l])
  BY <1>12, <1>17, <1>18, <1>19
<1>21. Pool' /\ \A l \in Lists : List(l)' = W2[l]
  BY <1>14, <1>20, PoolBecomes
<1>22. QED
  BY <1>2, <1>10, <1>12, <1>13, <1>14, <1>21

\* The lists when a cell is taken.
LEMMA TakesMoves ==
    ASSUME CellTypes, Pool, NEW p \in Process, NEW c, NEW e, Takes(p, c, e)
    PROVE  \E W2 : /\ Moved(AllLists, W2, None, p) /\ Holds(W2) /\ W2[p][1] = c
                   /\ Pool' /\ \A l \in Lists : List(l)' = W2[l]
<1>1. p # None /\ p \in Lists /\ None \in Lists /\ \A l \in Lists : l = None \/ l \in Process
  BY Calls DEF Lists
<1>2. First(None) = events_freelist /\ First(None)' = events_freelist'
  BY DEF First
<1>3. \A q \in Process : First(q) = Events_List[q] /\ First(q)' = Events_List'[q] /\ q # None
  BY MineIsList, Calls
<1>4. MovesHead(None, p, c)
  BY <1>1, <1>2, <1>3 DEF Takes, MovesHead, CellTypes
<1>5. QED
  BY <1>1, <1>4, ListsMove

\* A free cell belongs to no process.
LEMMA FreeIsNobodys ==
    ASSUME Pool, events_freelist \in Cell
    PROVE  \A q \in Process : \A i \in 1 .. Len(List(q)) : List(q)[i] # events_freelist
<1>1. None \in Lists /\ First(None) = events_freelist /\ \A q \in Process : q \in Lists /\ q # None
  BY Calls DEF Lists, First
<1>2. List(None) \in Seq(Cell) /\ List(None) # <<>> /\ List(None)[1] = events_freelist
  BY <1>1, Keys DEF Pool, IsChain
<1>3. 1 \in 1 .. Len(List(None))
  <2>1. \A w \in Seq(Cell) : w # <<>> => 1 \in 1 .. Len(w)
    OBVIOUS
  <2>2. QED
    BY <1>2, <2>1
<1>4. ASSUME NEW q \in Process, NEW i \in 1 .. Len(List(q)), List(q)[i] = events_freelist PROVE FALSE
  <2>1. List(q)[i] = List(None)[1]
    BY <1>2, <1>4
  <2>2. q = None
    BY <1>1, <1>3, <2>1 DEF Pool
  <2>3. QED
    BY <1>1, <2>2
<1>5. QED
  BY <1>4

\* A process that takes a cell for a name it did not have: its names differ, and what
\* could be found is found where it was.
LEMMA TakesFinds ==
    ASSUME CellTypes, Pool, Names, NEW p \in Process, NEW c, NEW e, Takes(p, c, e), Search(p, e) = NULL
    PROVE  /\ Names'
           /\ \A q \in Process : \A f : Search(q, f) # NULL => Search(q, f)' = Search(q, f)
<1>1. PICK W2 : /\ Moved(AllLists, W2, None, p) /\ Holds(W2) /\ W2[p][1] = c
                /\ Pool' /\ \A l \in Lists : List(l)' = W2[l]
  BY TakesMoves
<1>2. /\ c \in Cell /\ c = events_freelist /\ name' = [name EXCEPT ![c] = e] /\ name \in [Cell -> Private \cup {None}]
  BY DEF Takes, CellTypes
<1>3. \A q \in Process : q \in Lists /\ q # None /\ Mine(q) = List(q) /\ Mine(q)' = W2[q] /\ AllLists[q] = List(q)
  BY <1>1, MineIsList, Calls DEF AllLists
<1>4. \A q \in Process : /\ List(q) \in Seq(Cell) /\ Len(List(q)) \in Nat
                         /\ \A i \in 1 .. Len(List(q)) : List(q)[i] \in Cell /\ List(q)[i] # c
  BY <1>2, <1>3, ListsTyped, FreeIsNobodys
<1>5. \A q \in Process : \A i \in 1 .. Len(List(q)) : name'[List(q)[i]] = name[List(q)[i]]
  BY <1>2, <1>4
<1>6. name'[c] = e /\ \A i \in 1 .. Len(List(p)) : name[List(p)[i]] # e
  <2>1. Finds(name, List(p), e, NULL)
    BY SearchIs
  <2>2. QED
    BY <1>2, <2>1 DEF Finds
<1>7. \A q \in Process \ {p} : W2[q] = List(q)
  BY <1>1, <1>3 DEF Moved
<1>8. PICK v : v = W2[p]
  OBVIOUS
<1>9. PICK w : w = List(p)
  OBVIOUS
<1>10. /\ Len(v) = Len(w) + 1 /\ Len(w) \in Nat /\ v[1] = c
       /\ \A i \in 1 .. Len(w) : v[i + 1] = w[i]
  BY <1>1, <1>3, <1>4, <1>8, <1>9 DEF Moved
<1>11. \A i \in 1 .. Len(v) : i = 1 \/ (i - 1 \in 1 .. Len(w) /\ (i - 1) + 1 = i)
  BY <1>10
<1>12. \A i \in 1 .. Len(v) : \/ i = 1 /\ name'[v[i]] = e
                              \/ i # 1 /\ i - 1 \in 1 .. Len(w) /\ name'[v[i]] = name[w[i - 1]] /\ name[w[i - 1]] # e
  <2>1. ASSUME NEW i \in 1 .. Len(v), i # 1
        PROVE  i - 1 \in 1 .. Len(w) /\ name'[v[i]] = name[w[i - 1]] /\ name[w[i - 1]] # e
    <3>1. i - 1 \in 1 .. Len(w) /\ (i - 1) + 1 = i
      BY <1>11, <2>1
    <3>2. v[i] = w[i - 1]
      BY <1>10, <3>1
    <3>3. QED
      BY <1>5, <1>6, <1>9, <3>1, <3>2
  <2>2. QED
    BY <1>6, <1>10, <2>1
<1>13. ASSUME NEW i \in 1 .. Len(v), NEW j \in 1 .. Len(v), name'[v[i]] = name'[v[j]] PROVE i = j
  <2>1. \A x, y \in 1 .. Len(w) : name[w[x]] = name[w[y]] => x = y
    BY <1>3, <1>9 DEF Names
  <2>2. CASE i = 1 \/ j = 1
    BY <1>12, <1>13, <2>2
  <2>3. CASE i # 1 /\ j # 1
    <3>1. i - 1 \in 1 .. Len(w) /\ j - 1 \in 1 .. Len(w) /\ name[w[i - 1]] = name[w[j - 1]]
      BY <1>12, <1>13, <2>3
    <3>2. i - 1 = j - 1
      BY <2>1, <3>1
    <3>3. QED
      BY <3>2, <1>10
  <2>4. QED
    BY <2>2, <2>3
<1>14. Names'
  <2>1. ASSUME NEW q \in Process, NEW i \in 1 .. Len(W2[q]), NEW j \in 1 .. Len(W2[q]),
               name'[W2[q][i]] = name'[W2[q][j]]
        PROVE  i = j
    <3>1. CASE q = p
      BY <1>8, <1>13, <2>1, <3>1
    <3>2. CASE q # p
      <4>1. W2[q] = List(q) /\ Mine(q) = List(q)
        BY <1>3, <1>7, <3>2
      <4>2. name[List(q)[i]] = name[List(q)[j]]
        BY <1>5, <2>1, <4>1
      <4>3. QED
        BY <2>1, <4>1, <4>2 DEF Names
    <3>3. QED
      BY <3>1, <3>2
  <2>2. QED
    BY <1>3, <2>1 DEF Names
<1>15. ASSUME NEW q \in Process, NEW f, NEW r, r = Search(q, f), r # NULL PROVE Search(q, f)' = r
  <2>1. PICK i \in 1 .. Len(List(q)) : List(q)[i] = r /\ name[List(q)[i]] = f
    <3>1. Finds(name, List(q), f, r)
      BY <1>15, SearchIs
    <3>2. QED
      BY <1>15, <3>1 DEF Finds
  <2>2. PICK j \in 1 .. Len(W2[q]) : W2[q][j] = r
    <3>1. CASE q = p
      <4>1. i + 1 \in 1 .. Len(v) /\ v[i + 1] = r
        BY <1>9, <1>10, <2>1, <3>1
      <4>2. QED
        BY <1>8, <3>1, <4>1
    <3>2. CASE q # p
      BY <1>7, <2>1, <3>2
    <3>3. QED
      BY <3>1, <3>2
  <2>3. name'[W2[q][j]] = f
    BY <1>5, <2>1, <2>2
  <2>4. W2[q] \in Seq(Cell)
    BY <1>1, <1>3 DEF Holds
  <2>5. \A x, y \in 1 .. Len(W2[q]) : name'[W2[q][x]] = name'[W2[q][y]] => x = y
    BY <1>3, <1>14 DEF Names
  <2>6. PICK u \in Seq(Cell) : u = W2[q]
    BY <2>4
  <2>7. PICK nm : nm = name'
    OBVIOUS
  <2>8. Look(nm, u, f) = u[j]
    <3>1. /\ \A x, y \in 1 .. Len(u) : nm[u[x]] = nm[u[y]] => x = y
          /\ j \in 1 .. Len(u) /\ nm[u[j]] = f
      BY <2>3, <2>5, <2>6, <2>7
    <3>2. QED
      BY <3>1, LookIs
  <2>9. Search(q, f)' = Look(nm, u, f)
    <3>1. Search(q, f)' = Look(name', Mine(q)', f)
      BY SearchLooks
    <3>2. Mine(q)' = u
      BY <1>3, <2>6
    <3>3. QED
      BY <2>7, <3>1, <3>2
  <2>10. QED
    BY <2>2, <2>6, <2>8, <2>9
<1>16. QED
  BY <1>14, <1>15

\* getevent of a private event.
LEMMA GeteventPrivateStep ==
    ASSUME EInv, NEW t \in Thread, getevent_private(t)
    PROVE  EInv'
<1>1. In(t, "getevent", "private")
  BY DEF getevent_private
<1>2. PICK p : p = task[t]
  OBVIOUS
<1>3. PICK e : e = call[t].ev
  OBVIOUS
<1>4. /\ kernel = t /\ call[t].op = "getevent" /\ e \in Private /\ Held = p /\ p \in Mutex /\ p \in Process
  BY <1>1, <1>2, <1>3, AtPrivate DEF Target
<1>5. asleep' = asleep \ Woken({p}) /\ Returns(t) /\ UNCHANGED owner
  BY <1>2 DEF getevent_private
<1>6. /\ Core /\ Types /\ Pool /\ Names /\ Sleepers /\ Counts /\ MutexesAre(sem, Held) /\ sem \in Sems
      /\ CellTypes /\ OwnerTypes
  BY DEF EInv, Core, Types, Locks
<1>7. CASE Search(p, e) # NULL \/ events_freelist = NULL
  <2>1. sem' = Bool_V(sem, p) /\ SameCells
    BY <1>2, <1>3, <1>7 DEF getevent_private, SameCells
  <2>2. QED
    BY <1>4, <1>5, <2>1, Refused
<1>8. CASE ~(Search(p, e) # NULL \/ events_freelist = NULL)
  <2>1. PICK c : c = events_freelist
    OBVIOUS
  <2>2. PICK s1 : s1 = Init_Semaphore(sem, c, 0)
    OBVIOUS
  <2>3. Search(p, e) = NULL /\ c \in Cell /\ c \in Public \cup Cell
    BY <1>6, <1>8, <2>1 DEF CellTypes
  <2>4. Takes(p, c, e) /\ sem' = Bool_V(s1, p)
    BY <1>2, <1>3, <1>8, <2>1, <2>2, <2>3 DEF getevent_private, Takes
  <2>5. /\ s1 \in Sems /\ MutexesAre(s1, Held)
        /\ \A k \in Public \cup Cell : k # c => s1[k] = sem[k]
        /\ s1[c] = [Status |-> 0, queue |-> <<>>]
    BY <1>6, <2>2, <2>3, Resets
  <2>6. /\ sem' \in Sems /\ MutexesAre(sem', None)
        /\ \A k \in Public \cup Cell : sem'[k] = s1[k]
    BY <1>4, <2>4, <2>5, Unlocks
  <2>7. GoodSems(None)
    <3>1. ASSUME NEW k \in Public \cup Cell PROVE sem'[k].Status <= MaxStatus
      <4>1. CASE k = c
        BY <2>5, <2>6, <4>1, EventsAssumption
      <4>2. CASE k # c
        BY <1>6, <2>5, <2>6, <4>2, Keys DEF Counts
      <4>3. QED
        BY <4>1, <4>2
    <3>2. QED
      BY <2>6, <3>1 DEF GoodSems
  <2>8. asleep' = asleep
    BY <1>4, <1>5, <1>6, MutexWakesNobody
  <2>9. OwnerTypes' /\ CellTypes'
    <3>1. CellTypes'
      <4>1. next[c] \in Cell \cup {NULL} /\ Events_List[p] \in Cell \cup {NULL}
        BY <1>4, <1>6, <2>3 DEF CellTypes
      <4>2. QED
        BY <1>4, <1>6, <2>3, <2>4, <4>1 DEF CellTypes, Takes
    <3>2. QED
      BY <1>5, <1>6, <3>1 DEF OwnerTypes
  <2>10. Core' /\ \A s \in asleep : call'[s] = call[s]
    BY <1>4, <1>5, <1>6, <2>7, <2>8, <2>9, Concludes
  <2>11. Pool'
    BY <1>4, <1>6, <2>4, TakesMoves
  <2>12. Names' /\ \A q \in Process : \A f : Search(q, f) # NULL => Search(q, f)' = Search(q, f)
    BY <1>4, <1>6, <2>3, <2>4, TakesFinds
  <2>13. ASSUME NEW s \in asleep
         PROVE  /\ Waiting(s)
                /\ Event(s, call[s]) # c
    <3>1. PICK k \in Public \cup Cell : SleepsOn(s, k)
      BY <1>6 DEF Sleepers
    <3>2. PICK i \in 1 .. Len(sem[k].queue) : sem[k].queue[i] = s
      BY <3>1 DEF SleepsOn
    <3>3. WaitsOn(k)
      BY <1>6 DEF Sleepers
    <3>4. Event(s, call[s]) = k /\ call'[s] = call[s]
      BY <2>10, <3>2, <3>3 DEF WaitsOn
    <3>5. task[s] \in Process
      BY <1>6, Calls DEF Types
    <3>6. CASE call[s].ev \in Public
      <4>1. Event(s, call[s])' = Event(s, call[s]) /\ k \in Public
        BY <3>4, <3>6 DEF Event
      <4>2. QED
        BY <1>5, <2>3, <3>4, <4>1, Keys DEF Waiting
    <3>7. CASE call[s].ev \notin Public
      <4>1. k = Search(task[s], call[s].ev) /\ k # NULL
        BY <3>4, <3>7, Keys DEF Event
      <4>2. Search(task[s], call[s].ev)' = k
        <5>1. \A f : Search(task[s], f) # NULL => Search(task[s], f)' = Search(task[s], f)
          BY <2>12, <3>5
        <5>2. PICK f : f = call[s].ev
          OBVIOUS
        <5>3. Search(task[s], f)' = k
          BY <4>1, <5>1, <5>2
        <5>4. call'[s].ev = f
          BY <3>4, <5>2
        <5>5. QED
          BY <5>3, <5>4 DEF Search
      <4>3. Event(s, call[s])' = k
        BY <3>4, <3>7, <4>2 DEF Event
      <4>4. k # c
        <5>1. PICK j \in 1 .. Len(List(task[s])) : List(task[s])[j] = k
          BY <1>6, <3>5, <4>1, SearchIs DEF Finds
        <5>2. QED
          BY <1>6, <2>1, <2>3, <3>5, <5>1, FreeIsNobodys
      <4>5. QED
        BY <1>5, <3>4, <4>3, <4>4 DEF Waiting
    <3>8. QED
      BY <3>6, <3>7
  <2>14. sem[c].queue = <<>>
    <3>1. ASSUME sem[c].queue # <<>> PROVE FALSE
      <4>1. PICK q \in Seq(Thread) : q = sem[c].queue
        BY <1>6, <2>3, QueuesTyped
      <4>2. 1 \in 1 .. Len(q)
        BY <3>1, <4>1
      <4>3. q[1] \in asleep /\ Event(q[1], call[q[1]]) = c
        BY <1>6, <2>3, <4>1, <4>2 DEF Sleepers, WaitsOn
      <4>4. QED
        BY <2>13, <4>3
    <3>2. QED
      BY <3>1
  <2>15. ASSUME NEW k \in Public \cup Cell PROVE sem'[k].queue = sem[k].queue
    <3>1. CASE k = c
      BY <2>5, <2>6, <2>14, <3>1
    <3>2. CASE k # c
      BY <2>5, <2>6, <3>2
    <3>3. QED
      BY <3>1, <3>2
  <2>16. Sleepers'
    BY <1>6, <2>8, <2>13, <2>15, SleepersKept
  <2>17. QED
    BY <2>10, <2>11, <2>12, <2>16 DEF EInv
<1>9. QED
  BY <1>7, <1>8

--------------------------------------------------------------------------------
(* The invariant.                                                              *)

\* Nothing happens.
LEMMA StutterStep ==
    ASSUME EInv, UNCHANGED vars
    PROVE  EInv'
<1>1. /\ UNCHANGED <<sem, kernel, call, at, asleep, owner>> /\ SameCells
      /\ Types /\ Stages /\ StillCareful /\ Locks /\ Counts /\ Pool /\ Names /\ Sleepers
  BY DEF vars, SameCells, EInv, Core
<1>2. /\ Pool' /\ Names'
      /\ \A p, e : Search(p, e)' = Search(p, e)
      /\ \A s, c : Event(s, c)' = Event(s, c)
  BY <1>1, SameCellsMeans
<1>3. Types'
  BY <1>1 DEF Types, OwnerTypes, CellTypes, SameCells
<1>4. Stages'
  <2>1. ASSUME kernel # None PROVE Stage(kernel, call[kernel], at[kernel])'
    <3>1. Stage(kernel, call[kernel], at[kernel])
      BY <1>1, <2>1 DEF Stages
    <3>2. Event(kernel, call[kernel])' = Event(kernel, call[kernel])
      BY <1>1, <1>2 DEF Event
    <3>3. QED
      BY <1>1, <3>1, <3>2 DEF Stage, Target, PrivateCall
  <2>2. QED
    BY <1>1, <2>1 DEF Stages
<1>5. StillCareful'
  <2>1. ASSUME kernel # None, at[kernel] # [do |-> "return"]
        PROVE  (~Careless(kernel, call[kernel]) /\ Bounded(call[kernel]))'
    <3>1. ~Careless(kernel, call[kernel]) /\ Bounded(call[kernel])
      BY <1>1, <2>1 DEF StillCareful
    <3>2. PICK c \in Call : c = call[kernel]
      BY <1>1, <2>1, InKernel DEF Stages, Types
    <3>3. PICK t \in Thread : t = kernel
      BY <1>1, <2>1 DEF Types
    <3>4. ~Careless(t, c)' /\ Bounded(c)'
      BY <1>1, <3>1, <3>2, <3>3, CarefulKept
    <3>5. QED
      BY <1>1, <3>2, <3>3, <3>4 DEF Careless, Clears, Leaves_Locked, Bounded
  <2>2. QED
    BY <1>1, <2>1 DEF StillCareful
<1>6. Locks' /\ Counts'
  BY <1>1 DEF Locks, Held, Target, Counts
<1>7. Sleepers'
  <2>1. \A s : Waiting(s)
    BY <1>1, <1>2 DEF Waiting, Event
  <2>2. QED
    BY <1>1, <2>1, SleepersKept
<1>8. QED
  BY <1>2, <1>3, <1>4, <1>5, <1>6, <1>7 DEF EInv, Core

\* Every step of careful clients keeps the invariant.
LEMMA InvStep ==
    ASSUME Careful, EInv, [Next]_vars
    PROVE  EInv'
<1>1. ASSUME NEW t \in Thread, Enter(t) PROVE EInv'
  BY <1>1, EnterStep
<1>2. ASSUME NEW t \in Thread, P(t) PROVE EInv'
  BY <1>2, PMutex, PEvent
<1>3. ASSUME NEW t \in Thread, getevent(t) \/ clearevent(t) \/ setevent(t) \/ signal(t) \/ wait(t) PROVE EInv'
  BY <1>3, GeteventStep, CleareventStep, SeteventStep, SignalStep, WaitStep
<1>4. ASSUME NEW t \in Thread, getevent_private(t) \/ setevent_private(t) \/ signal_private(t) \/ wait_private(t)
      PROVE EInv'
  BY <1>4, GeteventPrivateStep, SeteventPrivateStep, SignalPrivateStep, WaitPrivateStep
<1>5. ASSUME NEW t \in Thread, wait_returns(t) PROVE EInv'
  BY <1>5, WaitReturnsStep
<1>6. ASSUME NEW t \in Thread, Resume(t) PROVE EInv'
  BY <1>6, ResumeStep
<1>7. ASSUME NEW e \in Public, IRQ(e) PROVE EInv'
  BY <1>7, IRQStep
<1>8. CASE UNCHANGED vars
  BY <1>8, StutterStep
<1>9. QED
  BY <1>1, <1>2, <1>3, <1>4, <1>5, <1>6, <1>7, <1>8 DEF Next, Proceed

\* After init_Events every cell is free.
LEMMA InvInit ==
    Init => EInv
<1> SUFFICES ASSUME Init PROVE EInv
  OBVIOUS
<1>1. \A k \in Key : sem[k].queue = <<>> /\ sem[k].Status = (IF k \in Mutex THEN 1 ELSE 0) /\ sem \in Sems
  <2>1. \A k \in Key : (IF k \in Mutex THEN 1 ELSE 0) \in Nat
    OBVIOUS
  <2>2. <<>> \in Seq(Thread)
    OBVIOUS
  <2>3. QED
    BY <2>1, <2>2 DEF Init, Sems
<1>2. Types
  <2>1. [do |-> "user"] \in Ats
    BY DEF Ats
  <2>2. sem \in Sems
    <3>1. Events_Sem \in Key
      BY Keys
    <3>2. QED
      BY <1>1, <3>1
  <2>3. CellTypes
    <3>1. 1 \in Cell /\ NULL \in Cell \cup {NULL}
      BY EventsAssumption DEF Cell
    <3>2. \A c \in Cell \ {MAX_EVENT_NUMBER} : c + 1 \in Cell
      BY EventsAssumption DEF Cell
    <3>3. QED
      BY <3>1, <3>2 DEF Init, CellTypes
  <2>4. QED
    BY <2>1, <2>2, <2>3 DEF Init, Types, OwnerTypes
<1>3. Stages /\ StillCareful
  BY DEF Init, Stages, StillCareful
<1>4. Locks
  <2>1. Held = None
    BY DEF Init, Held
  <2>2. QED
    BY <1>1, <2>1, Keys DEF Locks, MutexesAre
<1>5. Counts
  BY <1>1, EventsAssumption DEF Counts
<1>6. PICK all : all = [i \in 1 .. MAX_EVENT_NUMBER |-> i]
  OBVIOUS
<1>7. /\ all \in Seq(Cell) /\ Len(all) = MAX_EVENT_NUMBER /\ \A i \in 1 .. MAX_EVENT_NUMBER : all[i] = i
      /\ MAX_EVENT_NUMBER \in Nat \ {0}
  BY <1>6, EventsAssumption DEF Cell
<1>8. IsChain(next, First(None), all)
  <2>1. First(None) = 1 /\ all[1] = 1 /\ 1 \in 1 .. MAX_EVENT_NUMBER
    BY <1>7 DEF First, Init
  <2>2. next[all[Len(all)]] = NULL
    BY <1>7 DEF Init, Cell
  <2>3. \A i \in 1 .. Len(all) - 1 : next[all[i]] = all[i + 1]
    BY <1>7 DEF Init, Cell
  <2>4. Len(all) <= MAX_EVENT_NUMBER /\ all # <<>>
    <3>1. \A q \in Seq(Cell) : q = <<>> => Len(q) = 0
      OBVIOUS
    <3>2. QED
      BY <1>7, <3>1
  <2>5. QED
    BY <1>7, <2>1, <2>2, <2>3, <2>4 DEF IsChain
<1>9. ASSUME NEW p \in Process PROVE IsChain(next, First(p), <<>>)
  <2>1. First(p) = NULL
    BY Calls DEF First, Init
  <2>2. <<>> \in Seq(Cell) /\ Len(<<>>) = 0
    OBVIOUS
  <2>3. QED
    BY <2>1, <2>2, EventsAssumption DEF IsChain
<1>10. /\ List(None) = all /\ \A p \in Process : List(p) = <<>>
       /\ \A l \in Lists : l = None \/ l \in Process
  BY <1>8, <1>9, WalkIs DEF List, Lists
<1>11. Pool
  <2>1. \A l \in Lists : IsChain(next, First(l), List(l))
    BY <1>8, <1>9, <1>10
  <2>2. \A l \in Lists : \A i \in 1 .. Len(List(l)) : l = None /\ i \in 1 .. MAX_EVENT_NUMBER /\ List(l)[i] = i
    BY <1>7, <1>10
  <2>3. \A c \in Cell : c \in 1 .. Len(List(None)) /\ List(None)[c] = c /\ None \in Lists
    BY <1>7, <1>10 DEF Cell, Lists
  <2>4. QED
    BY <2>1, <2>2, <2>3 DEF Pool
<1>12. Names
  <2>1. \A p \in Process : Mine(p) = <<>>
    BY <1>10, MineIsList
  <2>2. QED
    BY <2>1 DEF Names
<1>13. Sleepers
  <2>1. \A k \in Public \cup Cell : sem[k].queue = <<>>
    BY <1>1, Keys
  <2>2. asleep = {}
    BY DEF Init
  <2>3. QED
    BY <2>1, <2>2 DEF Sleepers, Once, WaitsOn
<1>14. QED
  BY <1>2, <1>3, <1>4, <1>5, <1>11, <1>12, <1>13 DEF EInv, Core

\* Clients stay as they are.
LEMMA ClientsStay ==
    [Next]_vars => Careful' = Careful
BY DEF Careful, vars, Next, Enter, Resume, IRQ, Proceed

\* The invariant holds if clients are careful.
THEOREM EventsSound ==
    Spec => [](Careful => EInv)
<1>1. Init => (Careful => EInv)
  BY InvInit
<1>2. (Careful => EInv) /\ [Next]_vars => (Careful => EInv)'
  BY InvStep, ClientsStay
<1>3. QED
  BY <1>1, <1>2, PTL DEF Spec

--------------------------------------------------------------------------------
(* The cells, for clients that call what they like, but clear no private event *)
(* that is in the list of their process behind another.                        *)

\* clearevent is executed for the first event in the list, or for one that is in none.
ClearsFirst ==
    \A t \in Thread : clearevent(t) /\ call[t].ev \in Private =>
       Search(task[t], call[t].ev) \in {NULL, Events_List[task[t]]}

\* The places of a call about the private events.
PrivateAts == {[do |-> "private"]} \cup {[do |-> "P", on |-> k, then |-> "private"] : k \in Key}

\* Only a call about a private event, other than clearevent, gets there.
Calling ==
    /\ kernel \in Thread \cup {None}
    /\ call \in [Thread -> Call \cup {None}]
    /\ at \in [Thread -> Ats]
    /\ kernel # None => call[kernel] # None
    /\ \A t \in Thread : call[t] # None /\ at[t] \in PrivateAts => PrivateCall(call[t])

Cells == CellTypes /\ Pool /\ Names

\* What a call is about to do, by its name.
LEMMA AtsAre ==
    \A a \in Ats :
       /\ a \in PrivateAts <=> a.do = "private" \/ (a.do = "P" /\ a.then = "private")
       /\ a.do = "P" => a.then \in {"public", "private", "return"}
<1>1. ASSUME NEW d \in {"user", "public", "private", "return"}, NEW a, a = [do |-> d]
      PROVE  /\ a \in PrivateAts <=> a.do = "private" \/ (a.do = "P" /\ a.then = "private")
             /\ a.do = "P" => a.then \in {"public", "private", "return"}
  <2>1. a.do = d /\ d # "P"
    BY <1>1
  <2>2. ASSUME a \in PrivateAts PROVE d = "private"
    <3>1. CASE a = [do |-> "private"]
      BY <2>1, <3>1
    <3>2. ASSUME NEW k \in Key, a = [do |-> "P", on |-> k, then |-> "private"] PROVE d = "P"
      BY <2>1, <3>2
    <3>3. QED
      BY <2>1, <2>2, <3>1, <3>2 DEF PrivateAts
  <2>3. QED
    BY <1>1, <2>1, <2>2 DEF PrivateAts
<1>2. ASSUME NEW k \in Key, NEW d \in {"public", "private", "return"}, NEW a,
             a = [do |-> "P", on |-> k, then |-> d]
      PROVE  /\ a \in PrivateAts <=> a.do = "private" \/ (a.do = "P" /\ a.then = "private")
             /\ a.do = "P" => a.then \in {"public", "private", "return"}
  <2>1. a.do = "P" /\ a.then = d
    BY <1>2
  <2>2. ASSUME a \in PrivateAts PROVE d = "private"
    <3>1. CASE a = [do |-> "private"]
      BY <2>1, <3>1
    <3>2. ASSUME NEW j \in Key, a = [do |-> "P", on |-> j, then |-> "private"] PROVE d = "private"
      BY <2>1, <3>2
    <3>3. QED
      BY <2>2, <3>1, <3>2 DEF PrivateAts
  <2>3. QED
    BY <1>2, <2>1, <2>2 DEF PrivateAts
<1>3. QED
  BY <1>1, <1>2 DEF Ats

\* The thread in the kernel is in a call.
LEMMA InCall ==
    ASSUME Calling, NEW t \in Thread, kernel = t
    PROVE  call[t] \in Call /\ call[t] # None /\ at[t] \in Ats
BY Calls DEF Calling

\* The call of t returns.
LEMMA ReturnsCalling ==
    ASSUME Calling, NEW t \in Thread, Returns(t)
    PROVE  Calling'
<1>1. [do |-> "user"] \in Ats
  BY DEF Ats
<1>2. /\ call' = [call EXCEPT ![t] = None] /\ at' = [at EXCEPT ![t] = [do |-> "user"]] /\ kernel' = None
      /\ call \in [Thread -> Call \cup {None}] /\ at \in [Thread -> Ats]
  BY DEF Returns, Calling
<1>3. ASSUME NEW s \in Thread, call'[s] # None, at'[s] \in PrivateAts PROVE PrivateCall(call'[s])
  <2>1. s # t /\ call'[s] = call[s] /\ at'[s] = at[s]
    BY <1>2, <1>3
  <2>2. QED
    BY <1>3, <2>1 DEF Calling
<1>4. call' \in [Thread -> Call \cup {None}] /\ at' \in [Thread -> Ats]
  BY <1>1, <1>2
<1>5. QED
  BY <1>2, <1>3, <1>4 DEF Calling

\* The thread in the kernel gets to a; it stays there, or sleeps.
LEMMA MovesCalling ==
    ASSUME Calling, NEW t \in Thread, kernel = t, kernel' \in {t, None}, call' = call,
           NEW a \in Ats, at' = [at EXCEPT ![t] = a], a \in PrivateAts => PrivateCall(call[t])
    PROVE  Calling'
<1>1. call \in [Thread -> Call \cup {None}] /\ at \in [Thread -> Ats] /\ call[t] # None
  BY InCall DEF Calling
<1>2. ASSUME NEW s \in Thread, call'[s] # None, at'[s] \in PrivateAts PROVE PrivateCall(call'[s])
  <2>1. CASE s = t
    BY <1>1, <1>2, <2>1
  <2>2. CASE s # t
    <3>1. at'[s] = at[s]
      BY <1>1, <2>2
    <3>2. QED
      BY <1>2, <3>1 DEF Calling
  <2>3. QED
    BY <2>1, <2>2
<1>3. at' \in [Thread -> Ats]
  BY <1>1
<1>4. QED
  BY <1>1, <1>2, <1>3 DEF Calling

\* The call of t goes on with a P.
LEMMA GoesOnCalling ==
    ASSUME Calling, NEW t \in Thread, kernel = t, NEW k \in Key, NEW then \in {"public", "private", "return"},
           GoesOn(t, k, then), then = "private" => PrivateCall(call[t])
    PROVE  Calling'
<1>1. PICK a : a = [do |-> "P", on |-> k, then |-> then]
  OBVIOUS
<1>2. a \in Ats /\ a.do = "P" /\ a.then = then
  BY <1>1 DEF Ats
<1>3. at' = [at EXCEPT ![t] = a] /\ kernel' = kernel /\ call' = call
  BY <1>1 DEF GoesOn
<1>4. a \in PrivateAts => PrivateCall(call[t])
  BY <1>2, AtsAre
<1>5. QED
  BY <1>2, <1>3, <1>4, MovesCalling

\* A call about a private event gets to the private events.
LEMMA LooksPrivateCalling ==
    ASSUME Calling, NEW t \in Thread, kernel = t, call[t].op # "clearevent", call[t].ev \in Private, LooksPrivate(t)
    PROVE  Calling' /\ SameCells
<1>1. GoesOn(t, task[t], "private") /\ SameCells
  BY DEF LooksPrivate, SameCells
<1>2. task[t] \in Key /\ PrivateCall(call[t])
  BY Calls, Keys DEF PrivateCall
<1>3. Calling'
  BY <1>1, <1>2, GoesOnCalling
<1>4. QED
  BY <1>1, <1>3

\* The steps about the public events, but for clearevent, leave the cells alone.
LEMMA PublicSteps ==
    ASSUME Calling, NEW t \in Thread, getevent(t) \/ setevent(t) \/ signal(t) \/ wait(t)
    PROVE  Calling' /\ SameCells
<1>1. \A e \in Public : e \in Key
  BY Keys
<1>2. CASE getevent(t)
  <2>1. kernel = t /\ call[t].op = "getevent" /\ ((LooksPrivate(t) /\ call[t].ev \in Private) \/ (Returns(t) /\ SameCells))
    BY <1>2, Zenon DEF getevent, In, SameCells
  <2>2. QED
    BY <2>1, LooksPrivateCalling, ReturnsCalling
<1>3. CASE setevent(t)
  <2>1. kernel = t /\ call[t].op = "setevent" /\ ((LooksPrivate(t) /\ call[t].ev \in Private) \/ (Returns(t) /\ SameCells))
    BY <1>3, Zenon DEF setevent, In, SameCells
  <2>2. QED
    BY <2>1, LooksPrivateCalling, ReturnsCalling
<1>4. CASE signal(t)
  <2>1. Returns(t) /\ SameCells
    BY <1>4 DEF signal, SameCells
  <2>2. QED
    BY <2>1, ReturnsCalling
<1>5. CASE wait(t)
  <2>1. PICK e : e = call[t].ev
    OBVIOUS
  <2>2. /\ kernel = t /\ call[t].op = "wait"
        /\ \/ LooksPrivate(t) /\ e \in Private
           \/ e \notin Private /\ (GoesOn(t, e, "return") \/ Returns(t)) /\ SameCells
    BY <1>5, <2>1, Zenon DEF wait, In, SameCells
  <2>3. e \in Public \cup Private
    BY <2>1, <2>2, InCall, Calls
  <2>4. CASE LooksPrivate(t) /\ e \in Private
    BY <2>1, <2>2, <2>4, LooksPrivateCalling
  <2>5. CASE GoesOn(t, e, "return") /\ e \notin Private /\ SameCells
    BY <1>1, <2>2, <2>3, <2>5, GoesOnCalling
  <2>6. CASE Returns(t) /\ SameCells
    BY <2>6, ReturnsCalling
  <2>7. QED
    BY <2>2, <2>4, <2>5, <2>6
<1>6. QED
  BY <1>2, <1>3, <1>4, <1>5

\* So do the steps about the private events, but for getevent.
LEMMA PrivateSteps ==
    ASSUME Calling, Cells, NEW t \in Thread,
           setevent_private(t) \/ signal_private(t) \/ wait_private(t) \/ wait_returns(t)
    PROVE  Calling' /\ SameCells
<1>1. CASE setevent_private(t) \/ signal_private(t) \/ wait_returns(t)
  <2>1. Returns(t) /\ SameCells
    BY <1>1, Zenon DEF setevent_private, signal_private, wait_returns, SameCells
  <2>2. QED
    BY <2>1, ReturnsCalling
<1>2. CASE wait_private(t)
  <2>1. PICK p : p = task[t]
    OBVIOUS
  <2>2. PICK c : c = Search(p, call[t].ev)
    OBVIOUS
  <2>3. kernel = t /\ SameCells /\ (Returns(t) \/ (c # NULL /\ GoesOn(t, c, "return")))
    BY <1>2, <2>1, <2>2, Zenon DEF wait_private, In, SameCells
  <2>4. c \in Cell \cup {NULL}
    <3>1. p \in Process
      BY <2>1, Calls
    <3>2. Finds(name, List(p), call[t].ev, c)
      BY <2>2, <3>1, SearchIs DEF Cells
    <3>3. QED
      BY <3>2 DEF Finds
  <2>5. CASE Returns(t)
    BY <2>3, <2>5, ReturnsCalling
  <2>6. CASE c # NULL /\ GoesOn(t, c, "return")
    <3>1. c \in Key
      BY <2>4, <2>6, Keys
    <3>2. QED
      BY <2>3, <2>6, <3>1, GoesOnCalling
  <2>7. QED
    BY <2>3, <2>5, <2>6
<1>3. QED
  BY <1>1, <1>2

\* Entering, sleeping, waking and interrupts leave the cells alone.
LEMMA OtherSteps ==
    ASSUME Calling, (\E t \in Thread : Enter(t) \/ P(t) \/ Resume(t)) \/ (\E e \in Public : IRQ(e))
    PROVE  Calling' /\ SameCells
<1>1. ASSUME NEW t \in Thread, Enter(t) PROVE Calling' /\ SameCells
  <2>1. PICK c \in Call : call' = [call EXCEPT ![t] = c] /\ at' = [at EXCEPT ![t] = Start(c)]
    BY <1>1 DEF Enter
  <2>2. PICK a : a = Start(c)
    OBVIOUS
  <2>3. a \in Ats /\ (a \in PrivateAts => PrivateCall(c))
    <3>1. CASE c.op = "getevent"
      <4>1. a = [do |-> "public"]
        BY <2>2, <3>1 DEF Start
      <4>2. a \in Ats /\ a.do = "public"
        BY <4>1 DEF Ats
      <4>3. QED
        BY <4>2, AtsAre
    <3>2. CASE c.op = "signal" /\ c.to # None
      <4>1. a = [do |-> "P", on |-> c.to, then |-> "private"] /\ c.to \in Key /\ PrivateCall(c)
        BY <2>2, <3>2, Calls, Keys DEF Start, PrivateCall
      <4>2. QED
        BY <4>1 DEF Ats
    <3>3. CASE c.op # "getevent" /\ ~(c.op = "signal" /\ c.to # None)
      <4>1. a = [do |-> "P", on |-> Events_Sem, then |-> "public"] /\ Events_Sem \in Key
        BY <2>2, <3>3, Keys DEF Start
      <4>2. a \in Ats /\ a.do = "P" /\ a.then = "public"
        BY <4>1 DEF Ats
      <4>3. QED
        BY <4>2, AtsAre
    <3>4. QED
      BY <3>1, <3>2, <3>3
  <2>4. call \in [Thread -> Call \cup {None}] /\ at \in [Thread -> Ats] /\ kernel' = t /\ SameCells
    BY <1>1 DEF Calling, Enter, SameCells
  <2>5. /\ call' \in [Thread -> Call \cup {None}] /\ at' \in [Thread -> Ats]
        /\ call'[t] = c /\ at'[t] = a
        /\ \A s \in Thread \ {t} : call'[s] = call[s] /\ at'[s] = at[s]
    BY <2>1, <2>2, <2>3, <2>4
  <2>6. c # None
    BY Calls
  <2>7. \A s \in Thread : call'[s] # None /\ at'[s] \in PrivateAts => PrivateCall(call'[s])
    <3>1. ASSUME NEW s \in Thread, call'[s] # None, at'[s] \in PrivateAts PROVE PrivateCall(call'[s])
      <4>1. CASE s = t
        BY <2>3, <2>5, <3>1, <4>1
      <4>2. CASE s # t
        BY <2>5, <3>1, <4>2 DEF Calling
      <4>3. QED
        BY <4>1, <4>2
    <3>2. QED
      BY <3>1
  <2>8. QED
    BY <2>4, <2>5, <2>6, <2>7 DEF Calling
<1>2. ASSUME NEW t \in Thread, P(t) PROVE Calling' /\ SameCells
  <2>1. PICK d : d = at[t].then
    OBVIOUS
  <2>2. PICK a : a = [do |-> d]
    OBVIOUS
  <2>3. /\ kernel = t /\ at[t].do = "P" /\ kernel' \in {t, None} /\ call' = call
        /\ at' = [at EXCEPT ![t] = a] /\ SameCells
    BY <1>2, <2>1, <2>2 DEF P, SameCells
  <2>4. d \in {"public", "private", "return"} /\ (d = "private" => PrivateCall(call[t]))
    <3>1. at[t] \in Ats /\ call[t] # None
      BY <2>3, InCall
    <3>2. QED
      BY <2>1, <2>3, <3>1, AtsAre DEF Calling
  <2>5. a \in Ats /\ a.do = d /\ d # "P"
    BY <2>2, <2>4 DEF Ats
  <2>6. a \in PrivateAts => d = "private"
    BY <2>5, AtsAre
  <2>7. QED
    BY <2>3, <2>4, <2>5, <2>6, MovesCalling
<1>3. ASSUME NEW t \in Thread, Resume(t) PROVE Calling' /\ SameCells
  <2>1. kernel' = t /\ call[t] # None /\ UNCHANGED <<call, at>> /\ SameCells
    BY <1>3 DEF Resume, SameCells
  <2>2. QED
    BY <2>1 DEF Calling, PrivateCall
<1>4. ASSUME NEW e \in Public, IRQ(e) PROVE Calling' /\ SameCells
  <2>1. UNCHANGED <<kernel, call, at>> /\ SameCells
    BY <1>4 DEF IRQ, SameCells
  <2>2. QED
    BY <2>1 DEF Calling, PrivateCall
<1>5. QED
  BY <1>1, <1>2, <1>3, <1>4

\* The types of the cells are kept by what leaves them alone.
LEMMA CellsKept ==
    ASSUME Cells, SameCells
    PROVE  Cells'
<1>1. CellTypes'
  BY DEF Cells, CellTypes, SameCells
<1>2. QED
  BY <1>1, SameCellsMeans DEF Cells

\* A process that takes a cell.
LEMMA TakesKeeps ==
    ASSUME Calling, Cells, NEW t \in Thread, getevent_private(t)
    PROVE  Calling' /\ Cells'
<1>1. PICK p : p = task[t]
  OBVIOUS
<1>2. PICK e : e = call[t].ev
  OBVIOUS
<1>3. kernel = t /\ at[t].do = "private" /\ Returns(t)
  BY DEF getevent_private, In
<1>4. e \in Private /\ p \in Process
  <2>1. call[t] \in Call /\ call[t] # None /\ at[t] \in Ats
    BY <1>3, InCall
  <2>2. PrivateCall(call[t])
    BY <1>3, <2>1, AtsAre DEF Calling
  <2>3. QED
    BY <1>1, <1>2, <2>2, Calls DEF PrivateCall
<1>5. Calling'
  BY <1>3, ReturnsCalling
<1>6. CASE Search(p, e) # NULL \/ events_freelist = NULL
  <2>1. SameCells
    BY <1>1, <1>2, <1>6 DEF getevent_private, SameCells
  <2>2. QED
    BY <1>5, <2>1, CellsKept
<1>7. CASE ~(Search(p, e) # NULL \/ events_freelist = NULL)
  <2>1. PICK c : c = events_freelist
    OBVIOUS
  <2>2. Search(p, e) = NULL /\ c \in Cell
    BY <1>7, <2>1 DEF Cells, CellTypes
  <2>3. Takes(p, c, e)
    BY <1>1, <1>2, <1>7, <2>1, <2>2 DEF getevent_private, Takes
  <2>4. Pool' /\ Names'
    BY <1>4, <2>2, <2>3, TakesMoves, TakesFinds DEF Cells
  <2>5. CellTypes'
    <3>1. next[c] \in Cell \cup {NULL} /\ Events_List[p] \in Cell \cup {NULL}
      BY <1>4, <2>2 DEF Cells, CellTypes
    <3>2. QED
      BY <1>4, <2>2, <2>3, <3>1 DEF Cells, CellTypes, Takes
  <2>6. QED
    BY <1>5, <2>4, <2>5 DEF Cells
<1>8. QED
  BY <1>6, <1>7

\* A process that gives the first of its cells back.
LEMMA FreesKeeps ==
    ASSUME Cells, NEW p \in Process, NEW e, Search(p, e) \in {NULL, Events_List[p]},
           free_event_in_list(p, e), name' = name
    PROVE  Cells'
<1>1. PICK c : c = Search(p, e)
  OBVIOUS
<1>2. CASE c = NULL
  <2>1. SameCells
    BY <1>1, <1>2 DEF free_event_in_list, SameCells
  <2>2. QED
    BY <2>1, CellsKept
<1>3. CASE c # NULL
  <2>1. /\ None \in Lists /\ p \in Lists \ {None} /\ First(None) = events_freelist
        /\ First(None)' = events_freelist' /\ First(p) = Events_List[p] /\ First(p)' = Events_List'[p]
        /\ \A q \in Process : First(q) = Events_List[q] /\ First(q)' = Events_List'[q]
        /\ \A l \in Lists : l = None \/ l \in Process
    BY MineIsList, Calls DEF Lists, First
  <2>2. /\ c = Events_List[p] /\ c \in Cell
    BY <1>1, <1>3 DEF Cells, CellTypes
  <2>3. /\ Events_List' = [Events_List EXCEPT ![p] = next[c]]
        /\ next' = [next EXCEPT ![c] = events_freelist]
        /\ events_freelist' = c
    BY <1>1, <1>3, <2>2 DEF free_event_in_list
  <2>4. CellTypes'
    BY <2>2, <2>3 DEF Cells, CellTypes
  <2>5. MovesHead(p, None, c)
    <3>1. Events_List'[p] = next[c] /\ \A q \in Process \ {p} : Events_List'[q] = Events_List[q]
      BY <2>2, <2>3 DEF Cells, CellTypes
    <3>2. QED
      BY <2>1, <2>2, <2>3, <3>1 DEF MovesHead
  <2>6. PICK W2 : /\ Moved(AllLists, W2, p, None) /\ Pool' /\ \A l \in Lists : List(l)' = W2[l]
    BY <2>1, <2>5, ListsMove DEF Cells
  <2>7. \A q \in Process : q \in Lists /\ q # None /\ Mine(q) = List(q) /\ Mine(q)' = W2[q] /\ AllLists[q] = List(q)
    BY <2>6, MineIsList, Calls DEF AllLists
  <2>8. \A q \in Process : Len(List(q)) \in Nat
    BY <2>7, ListsTyped DEF Cells
  <2>9. /\ Len(W2[p]) = Len(List(p)) - 1 /\ \A i \in 1 .. Len(W2[p]) : W2[p][i] = List(p)[i + 1]
        /\ \A q \in Process \ {p} : W2[q] = List(q)
    BY <2>6, <2>7 DEF Moved
  <2>10. ASSUME NEW q \in Process, NEW i \in 1 .. Len(W2[q]), NEW j \in 1 .. Len(W2[q]),
                name'[W2[q][i]] = name'[W2[q][j]]
         PROVE  i = j
    <3>1. CASE q = p
      <4>1. i + 1 \in 1 .. Len(List(p)) /\ j + 1 \in 1 .. Len(List(p))
        BY <2>8, <2>9, <3>1
      <4>2. name[List(p)[i + 1]] = name[List(p)[j + 1]]
        BY <2>9, <2>10, <3>1
      <4>3. i + 1 = j + 1
        BY <2>7, <4>1, <4>2 DEF Cells, Names
      <4>4. QED
        BY <4>3, <4>1
    <3>2. CASE q # p
      <4>1. W2[q] = List(q) /\ Mine(q) = List(q)
        BY <2>7, <2>9, <3>2
      <4>2. QED
        BY <2>10, <4>1 DEF Cells, Names
    <3>3. QED
      BY <3>1, <3>2
  <2>11. Names'
    BY <2>7, <2>10 DEF Names
  <2>12. QED
    BY <2>4, <2>6, <2>11 DEF Cells
<1>4. QED
  BY <1>2, <1>3

\* Nothing happens to the cells.
LEMMA CellsStutter ==
    ASSUME Calling, Cells, UNCHANGED vars
    PROVE  Calling' /\ Cells'
<1>1. UNCHANGED <<kernel, call, at>> /\ SameCells
  BY DEF vars, SameCells
<1>2. Calling'
  BY <1>1 DEF Calling, PrivateCall
<1>3. QED
  BY <1>1, <1>2, CellsKept

\* Every step keeps the cells, clearevent of the first event included.
LEMMA CellsStep ==
    ASSUME Calling, Cells, Next, ClearsFirst
    PROVE  Calling' /\ Cells'
<1>1. ASSUME NEW t \in Thread, clearevent(t) PROVE Calling' /\ Cells'
  <2>1. PICK e : e = call[t].ev
    OBVIOUS
  <2>2. Returns(t) /\ name' = name
    BY <1>1 DEF clearevent
  <2>3. Calling'
    BY <2>2, ReturnsCalling
  <2>4. CASE e \in Private
    <3>1. free_event_in_list(task[t], e) /\ Search(task[t], e) \in {NULL, Events_List[task[t]]}
      BY <1>1, <2>1, <2>4, Zenon DEF clearevent, ClearsFirst
    <3>2. task[t] \in Process
      BY Calls
    <3>3. QED
      BY <2>2, <2>3, <3>1, <3>2, FreesKeeps
  <2>5. CASE e \notin Private
    <3>1. SameCells
      BY <1>1, <2>1, <2>2, <2>5 DEF clearevent, SameCells
    <3>2. QED
      BY <2>3, <3>1, CellsKept
  <2>6. QED
    BY <2>4, <2>5
<1>2. QED
  BY <1>1, PublicSteps, PrivateSteps, TakesKeeps, OtherSteps, CellsKept DEF Next, Proceed

--------------------------------------------------------------------------------
(* What the invariant says of the events.                                      *)

\* Outside the kernel no mutex is held.
LEMMA FreeMutexes ==
    EInv => MutexesFree
<1> SUFFICES ASSUME EInv, kernel = None, NEW m \in Mutex
             PROVE  sem[m] = [Status |-> 1, queue |-> <<>>]
  BY DEF MutexesFree
<1>1. sem \in Sems /\ MutexesAre(sem, None)
  BY DEF EInv, Core, Types, Locks, Held
<1>2. sem[m] \in [Status : Nat, queue : Seq(Thread)] /\ sem[m].queue = <<>> /\ sem[m].Status = 1
  BY <1>1, Keys DEF Sems, MutexesAre
<1>3. QED
  BY <1>2

\* The values have their types, and stay within the bound.
LEMMA EventsTyped ==
    EInv => EventsTypeOK
<1> SUFFICES ASSUME EInv PROVE EventsTypeOK
  OBVIOUS
<1>1. Types /\ Locks /\ Counts /\ sem \in Sems
  BY DEF EInv, Core, Types
<1>2. ASSUME NEW k \in Key \ Mutex PROVE sem[k].Status \in 0..MaxStatus
  <2>1. sem[k].Status \in Nat /\ sem[k].Status <= MaxStatus
    BY <1>1 DEF Sems, Counts
  <2>2. QED
    BY <2>1, EventsAssumption
<1>3. \A m \in Mutex : sem[m].Status \in {0, 1}
  BY <1>1 DEF Locks, MutexesAre
<1>4. QED
  BY <1>1, <1>2, <1>3 DEF Types, OwnerTypes, CellTypes, EventsTypeOK

\* How often a cell is in a sequence of different cells.
LEMMA TimesIs ==
    ASSUME NEW q \in Seq(Cell), NEW c
    PROVE  /\ (\A i \in 1 .. Len(q) : q[i] # c) => Times(c, q) = 0
           /\ \A i \in 1 .. Len(q) : q[i] = c /\ (\A j \in 1 .. Len(q) : q[j] = c => j = i) => Times(c, q) = 1
<1>1. ASSUME \A i \in 1 .. Len(q) : q[i] # c PROVE Times(c, q) = 0
  <2>1. {i \in 1 .. Len(q) : q[i] = c} = {}
    BY <1>1
  <2>2. QED
    BY <2>1, FS_EmptySet DEF Times
<1>2. ASSUME NEW i \in 1 .. Len(q), q[i] = c, \A j \in 1 .. Len(q) : q[j] = c => j = i PROVE Times(c, q) = 1
  <2>1. {j \in 1 .. Len(q) : q[j] = c} = {i}
    BY <1>2
  <2>2. QED
    BY <2>1, FS_Singleton DEF Times
<1>3. QED
  BY <1>1, <1>2

\* Every cell is in one list, once, and the names of a process differ.
LEMMA Accounted ==
    Cells => CellsAccounted
<1> SUFFICES ASSUME Cells PROVE CellsAccounted
  OBVIOUS
<1>1. Pool /\ Names
  BY DEF Cells
<1>2. ASSUME NEW k \in Lists
      PROVE  (IF k = None THEN Walk(next, events_freelist) ELSE Mine(k)) = List(k)
  BY DEF List, First, Mine, Lists
<1>3. ASSUME NEW c \in Cell
      PROVE  \E l \in Process \cup {None} : \A k \in Process \cup {None} :
                Times(c, IF k = None THEN Walk(next, events_freelist) ELSE Mine(k)) = (IF k = l THEN 1 ELSE 0)
  <2>1. PICK l \in Lists : \E i \in 1 .. Len(List(l)) : List(l)[i] = c
    BY <1>1 DEF Pool
  <2>2. PICK i \in 1 .. Len(List(l)) : List(l)[i] = c
    BY <2>1
  <2>3. ASSUME NEW k \in Lists
        PROVE  Times(c, IF k = None THEN Walk(next, events_freelist) ELSE Mine(k)) = (IF k = l THEN 1 ELSE 0)
    <3>1. PICK q \in Seq(Cell) : q = List(k)
      BY <1>1, ListsTyped
    <3>2. \A j \in 1 .. Len(q) : q[j] = c => k = l /\ j = i
      BY <1>1, <2>2, <3>1 DEF Pool
    <3>3. CASE k = l
      <4>1. i \in 1 .. Len(q) /\ q[i] = c
        BY <2>2, <3>1, <3>3
      <4>2. Times(c, q) = 1
        BY <3>2, <4>1, TimesIs
      <4>3. QED
        BY <1>2, <3>1, <3>3, <4>2
    <3>4. CASE k # l
      <4>1. \A j \in 1 .. Len(q) : q[j] # c
        BY <3>2, <3>4
      <4>2. Times(c, q) = 0
        BY <4>1, TimesIs
      <4>3. QED
        BY <1>2, <3>1, <3>4, <4>2
    <3>5. QED
      BY <3>3, <3>4
  <2>4. QED
    BY <2>3 DEF Lists
<1>4. QED
  BY <1>1, <1>3 DEF CellsAccounted, Names

\* Who sleeps waits for an event it has.
LEMMA Reachable ==
    EInv => WaitersReachable
<1> SUFFICES ASSUME EInv, NEW t \in asleep
             PROVE  /\ \E k \in Key : SleepsOn(t, k)
                    /\ \A e \in Public : SleepsOn(t, e) => owner[e] = task[t] /\ call[t].ev = e
                    /\ \A c \in Cell : SleepsOn(t, c) => Search(task[t], call[t].ev) = c
  BY DEF WaitersReachable
<1>1. Sleepers /\ Types /\ Pool
  BY DEF EInv, Core
<1>2. task[t] \in Process
  BY <1>1, Calls DEF Types
<1>3. \E k \in Key : SleepsOn(t, k)
  BY <1>1, Keys DEF Sleepers
<1>4. ASSUME NEW k \in Public \cup Cell, SleepsOn(t, k)
      PROVE  Event(t, call[t]) = k /\ (k \in Public => owner[k] = task[t])
  <2>1. PICK i \in 1 .. Len(sem[k].queue) : sem[k].queue[i] = t
    BY <1>4 DEF SleepsOn
  <2>2. WaitsOn(k)
    BY <1>1 DEF Sleepers
  <2>3. QED
    BY <2>1, <2>2 DEF WaitsOn
<1>5. Search(task[t], call[t].ev) \in Cell \cup {NULL}
  BY <1>1, <1>2, SearchIs DEF Finds
<1>6. ASSUME NEW e \in Public, SleepsOn(t, e) PROVE owner[e] = task[t] /\ call[t].ev = e
  <2>1. Event(t, call[t]) = e /\ owner[e] = task[t]
    BY <1>4, <1>6
  <2>2. QED
    BY <1>5, <2>1, Keys DEF Event
<1>7. ASSUME NEW c \in Cell, SleepsOn(t, c) PROVE Search(task[t], call[t].ev) = c
  <2>1. Event(t, call[t]) = c
    BY <1>4, <1>7
  <2>2. QED
    BY <2>1, Keys DEF Event
<1>8. QED
  BY <1>3, <1>6, <1>7

\* No call of a careful client ends, or goes to sleep on an event, with a mutex of
\* events.c taken (events.c, "Semaphore for concurrent use of public events").
THEOREM MutexesStayFree ==
    Spec => []MutexesFree
<1>1. (Careful => EInv) => MutexesFree
  BY FreeMutexes DEF MutexesFree
<1>2. QED
  BY <1>1, EventsSound, PTL

\* The variables of the events keep their types, and the semaphores their bound.
THEOREM EventsTypesKept ==
    Spec => []EventsTypeOK
<1>1. (Careful => EInv) => EventsTypeOK
  BY EventsTyped DEF EventsTypeOK
<1>2. QED
  BY <1>1, EventsSound, PTL

\* No cell of the pool is lost or in two lists, and no process has two events with the
\* same name, through add_event_to_list and free_event_in_list, whatever else is called:
\* as long as clearevent finds the event it is to remove at the head of the list, where
\* free_event_in_list unlinks it, or does not find it.
THEOREM CellsStayAccounted ==
    Spec /\ [][ClearsFirst]_vars => []CellsAccounted
<1>1. Init => Calling /\ Cells
  <2>1. Init => EInv
    BY InvInit
  <2>2. EInv /\ Init => Calling /\ Cells
    <3>1. EInv /\ Init => Cells
      BY DEF EInv, Core, Types, Cells
    <3>2. EInv /\ Init => Calling
      BY DEF EInv, Core, Types, Init, Calling
    <3>3. QED
      BY <3>1, <3>2
  <2>3. QED
    BY <2>1, <2>2
<1>2. (Calling /\ Cells) /\ [Next]_vars /\ [ClearsFirst]_vars => (Calling /\ Cells)'
  BY CellsStep, CellsStutter
<1>3. Calling /\ Cells => CellsAccounted
  BY Accounted
<1>4. QED
  BY <1>1, <1>2, <1>3, PTL DEF Spec

\* Whoever sleeps in wait is in the queue of the event it asked for, which its process
\* has, so that a signal or an interrupt finds it.
THEOREM WaitersStayReachable ==
    Spec => []WaitersReachable
<1>1. (Careful => EInv) => WaitersReachable
  BY Reachable DEF WaitersReachable
<1>2. QED
  BY <1>1, EventsSound, PTL

================================================================================
