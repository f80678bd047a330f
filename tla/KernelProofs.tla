------------------------------ MODULE KernelProofs ------------------------------
(***************************************************************************)
(* Theorems about Kernel: the ring of coda_pronti.c and the linked lists   *)
(* of semaphore.c are the FIFO queues of ThreadSched, for any size of the  *)
(* thread table and of the ring.                                           *)
(***************************************************************************)
EXTENDS Kernel, FiniteSetTheorems, WellFoundedInduction, TLAPS

--------------------------------------------------------------------------------
(* Induction, with sets where the library has an operator P(_). *)

\* The order of the natural numbers, as the relation the library's theorems are about.
LEMMA LessThanRel == \A x, y \in Nat : <<x, y>> \in OpToRel(<, Nat) <=> x < y
  BY DEF OpToRel

\* A nonempty set of natural numbers has a least element.
LEMMA LeastExists ==
    ASSUME NEW T \in SUBSET Nat, T # {}
    PROVE  \E x \in T : \A y \in T : x <= y
<1>1. \E x \in T : \A y \in T : ~(<<y, x>> \in OpToRel(<, Nat))
  BY NatLessThanWellFounded, WFMin
<1>2. \A x, y \in T : <<y, x>> \in OpToRel(<, Nat) <=> y < x
  BY LessThanRel, Zenon
<1>3. \E x \in T : \A y \in T : ~(y < x)
  BY <1>1, <1>2, Zenon
<1>4. QED
  BY <1>3

\* Induction: a set of natural numbers that holds 0 and the successor of every member
\* holds them all.
LEMMA Inductive ==
    ASSUME NEW S \in SUBSET Nat, 0 \in S, \A n \in S : n + 1 \in S
    PROVE  S = Nat
<1>1. SUFFICES ASSUME Nat \ S # {} PROVE FALSE
  OBVIOUS
<1>2. PICK x \in Nat \ S : \A y \in Nat \ S : x <= y
  BY <1>1, LeastExists
<1>3. x # 0 /\ x - 1 \in Nat /\ x - 1 \in S
  BY <1>2
<1>4. QED
  BY <1>2, <1>3

--------------------------------------------------------------------------------
(* Rings: % close to its divisor. *)

\* % for an argument inside the range of the divisor, one turn above it and one below.
LEMMA ModInside ==
    ASSUME NEW n \in Nat \ {0}, NEW x \in Int, 0 <= x, x < n
    PROVE  x % n = x
  OBVIOUS

\* One turn above the range, n is subtracted.
LEMMA ModAbove ==
    ASSUME NEW n \in Nat \ {0}, NEW x \in Int, n <= x, x < n + n
    PROVE  x % n = x - n
  OBVIOUS

\* One turn below the range, n is added.
LEMMA ModBelow ==
    ASSUME NEW n \in Nat \ {0}, NEW x \in Int, -n <= x, x < 0
    PROVE  x % n = x + n
  OBVIOUS

\* The indices of a ring of n cells whose contents go from h to t, t excluded: how many
\* there are, where they lie, and what a cell more at the end or one less at the start
\* makes of them.
Span(h, t, n) == IF h <= t THEN t - h ELSE t - h + n

\* The difference of the two indices, taken modulo the size, is the number of cells in use.
LEMMA RingSpan ==
    ASSUME NEW n \in Nat \ {0}, NEW h \in 0 .. n - 1, NEW t \in 0 .. n - 1
    PROVE  (t - h) % n = Span(h, t, n) /\ Span(h, t, n) \in 0 .. n - 1
<1> DEFINE x == t - h
<1>1. x \in Int /\ -n <= x /\ x < n /\ (h <= t <=> 0 <= x)
  OBVIOUS
<1> HIDE DEF x
<1>2. x % n = IF 0 <= x THEN x ELSE x + n
  <2>1. CASE 0 <= x
    BY <1>1, <2>1, ModInside
  <2>2. CASE x < 0
    BY <1>1, <2>2, ModBelow
  <2>3. QED
    BY <1>1, <2>1, <2>2
<1>3. (IF 0 <= x THEN x ELSE x + n) = Span(h, t, n)
  BY <1>1 DEF Span, x
<1>4. Span(h, t, n) \in 0 .. n - 1
  BY DEF Span
<1>5. QED
  BY <1>2, <1>3, <1>4 DEF x

\* The next index is one more, or 0 after the last.
LEMMA RingNext ==
    ASSUME NEW n \in Nat \ {0}, NEW t \in 0 .. n - 1
    PROVE  (t + 1) % n = (IF t + 1 = n THEN 0 ELSE t + 1) /\ (t + 1) % n \in 0 .. n - 1
<1> DEFINE x == t + 1
           m == x % n
<1>1. x \in Int /\ 0 <= x /\ x <= n
  OBVIOUS
<1> HIDE DEF x
<1>2. (x # n => m = x) /\ (x = n => m = 0)
  BY <1>1, ModInside, ModAbove
<1> HIDE DEF m
<1>3. m = (IF x = n THEN 0 ELSE x) /\ m \in 0 .. n - 1
  BY <1>1, <1>2
<1>4. QED
  BY <1>3 DEF m, x

\* The cell j places after the head.
LEMMA RingCell ==
    ASSUME NEW n \in Nat \ {0}, NEW h \in 0 .. n - 1, NEW j \in 0 .. n - 1
    PROVE  (h + j) % n = (IF h + j < n THEN h + j ELSE h + j - n)
           /\ (h + j) % n \in 0 .. n - 1
<1> DEFINE x == h + j
           m == x % n
<1>1. x \in Int /\ 0 <= x /\ x < n + n
  OBVIOUS
<1> HIDE DEF x
<1>2. (x < n => m = x) /\ (n <= x => m = x - n)
  BY <1>1, ModInside, ModAbove
<1> HIDE DEF m
<1>3. m = (IF x < n THEN x ELSE x - n) /\ m \in 0 .. n - 1
  BY <1>1, <1>2
<1>4. QED
  BY <1>3 DEF m, x

\* A cell more at the end: when the ring is full, and what happens when it is not.
LEMMA RingPut ==
    ASSUME NEW n \in Nat \ {0}, NEW h \in 0 .. n - 1, NEW t \in 0 .. n - 1
    PROVE  /\ h = (t + 1) % n => Span(h, t, n) = n - 1
           /\ h # (t + 1) % n => /\ Span(h, t, n) \in 0 .. n - 2
                                 /\ Span(h, (t + 1) % n, n) = Span(h, t, n) + 1
           /\ (h + Span(h, t, n)) % n = t
           /\ \A j \in 0 .. Span(h, t, n) - 1 : (h + j) % n # t
<1> DEFINE s == (t + 1) % n
<1>1. s = (IF t + 1 = n THEN 0 ELSE t + 1) /\ s \in 0 .. n - 1
  BY RingNext
<1>2. Span(h, t, n) \in 0 .. n - 1
  BY RingSpan
<1> HIDE DEF s
<1>3. /\ h = s => Span(h, t, n) = n - 1
      /\ h # s => Span(h, t, n) \in 0 .. n - 2 /\ Span(h, s, n) = Span(h, t, n) + 1
  BY <1>1 DEF Span
<1>4. (h + Span(h, t, n)) % n = t
  <2> DEFINE j == Span(h, t, n)
  <2>1. (h + j) % n = (IF h + j < n THEN h + j ELSE h + j - n)
    BY <1>2, RingCell
  <2>2. QED
    BY <2>1 DEF Span
<1>5. ASSUME NEW j \in 0 .. Span(h, t, n) - 1 PROVE (h + j) % n # t
  <2>1. j \in 0 .. n - 1
    BY <1>2
  <2>2. (h + j) % n = (IF h + j < n THEN h + j ELSE h + j - n)
    BY <2>1, RingCell
  <2>3. QED
    BY <2>2 DEF Span
<1>6. QED
  BY <1>3, <1>4, <1>5 DEF s

\* A cell less at the start: when the ring is empty, and where the others are then.
LEMMA RingGet ==
    ASSUME NEW n \in Nat \ {0}, NEW h \in 0 .. n - 1, NEW t \in 0 .. n - 1
    PROVE  /\ h = t <=> Span(h, t, n) = 0
           /\ h # t => Span((h + 1) % n, t, n) = Span(h, t, n) - 1
           /\ \A j \in 0 .. n - 2 : (((h + 1) % n) + j) % n = (h + (j + 1)) % n
<1> DEFINE g == (h + 1) % n
<1>1. g = (IF h + 1 = n THEN 0 ELSE h + 1) /\ g \in 0 .. n - 1
  BY RingNext
<1> HIDE DEF g
<1>2. /\ h = t <=> Span(h, t, n) = 0
      /\ h # t => Span(g, t, n) = Span(h, t, n) - 1
  BY <1>1 DEF Span
<1>3. ASSUME NEW j \in 0 .. n - 2 PROVE (g + j) % n = (h + (j + 1)) % n
  <2>1. j \in 0 .. n - 1 /\ j + 1 \in 0 .. n - 1
    OBVIOUS
  <2>2. (h + (j + 1)) % n = (IF h + (j + 1) < n THEN h + (j + 1) ELSE h + (j + 1) - n)
    BY <2>1, RingCell
  <2>3. (g + j) % n = (IF g + j < n THEN g + j ELSE g + j - n)
    BY <1>1, <2>1, RingCell
  <2>4. QED
    BY <1>1, <2>2, <2>3
<1>4. QED
  BY <1>2, <1>3 DEF g

\* The cell j places after h is j places after h.
LEMMA RingPlace ==
    ASSUME NEW n \in Nat \ {0}, NEW h \in 0 .. n - 1, NEW j \in 0 .. n - 1
    PROVE  Span(h, (h + j) % n, n) = j
<1> DEFINE m == (h + j) % n
<1>1. m = (IF h + j < n THEN h + j ELSE h + j - n) /\ m \in 0 .. n - 1
  BY RingCell
<1> HIDE DEF m
<1>2. Span(h, m, n) = j
  BY <1>1 DEF Span
<1>3. QED
  BY <1>2 DEF m

\* What a ring of n cells f holds from h to t, t excluded, as a sequence.
IsRing(f, h, t, n, T) ==
    n \in Nat \ {0} /\ f \in [0 .. n - 1 -> T] /\ h \in 0 .. n - 1 /\ t \in 0 .. n - 1

RingSeq(f, h, t, n) == [k \in 1 .. (t - h) % n |-> f[(h + k - 1) % n]]

\* The sequence q is the L cells of f from h on.
IsRun(q, f, h, n, L, T) ==
    /\ q \in Seq(T) /\ Len(q) = L
    /\ \A k \in 1 .. L : q[k] = f[(h + (k - 1)) % n]

\* It is a sequence shorter than the ring.
LEMMA RingSeqTyped ==
    ASSUME NEW T, NEW n, NEW f, NEW h, NEW t, IsRing(f, h, t, n, T)
    PROVE  /\ IsRun(RingSeq(f, h, t, n), f, h, n, Span(h, t, n), T)
           /\ Span(h, t, n) \in 0 .. n - 1
<1> n \in Nat \ {0} /\ f \in [0 .. n - 1 -> T] /\ h \in 0 .. n - 1 /\ t \in 0 .. n - 1
  BY DEF IsRing
<1> DEFINE L == Span(h, t, n)
           q == RingSeq(f, h, t, n)
<1>1. (t - h) % n = L /\ L \in 0 .. n - 1
  BY RingSpan
<1>2. q = [k \in 1 .. L |-> f[(h + k - 1) % n]]
  BY <1>1 DEF RingSeq
<1> HIDE DEF L, q
<1>3. ASSUME NEW k \in 1 .. L
      PROVE  h + k - 1 = h + (k - 1) /\ (h + (k - 1)) % n \in 0 .. n - 1
  <2>1. k - 1 \in 0 .. n - 1 /\ h + k - 1 = h + (k - 1)
    BY <1>1
  <2>2. QED
    BY <2>1, RingCell
<1>4. \A k \in 1 .. L : q[k] = f[(h + (k - 1)) % n]
  BY <1>2, <1>3
<1>5. q \in [1 .. L -> T]
  BY <1>2, <1>3, <1>4
<1>6. q \in Seq(T) /\ Len(q) = L
  BY <1>1, <1>5
<1>7. QED
  BY <1>1, <1>4, <1>6 DEF L, q, IsRun

\* A ring whose next cell is its first is full: it holds all but one of its cells.
LEMMA RingSeqFull ==
    ASSUME NEW T, NEW n, NEW f, NEW h, NEW t, IsRing(f, h, t, n, T)
    PROVE  h = (t + 1) % n <=> Len(RingSeq(f, h, t, n)) = n - 1
<1> n \in Nat \ {0} /\ f \in [0 .. n - 1 -> T] /\ h \in 0 .. n - 1 /\ t \in 0 .. n - 1
  BY DEF IsRing
<1> DEFINE s == (t + 1) % n
           q == RingSeq(f, h, t, n)
<1>1. Len(q) = Span(h, t, n)
  BY RingSeqTyped DEF IsRun
<1>2. s = (IF t + 1 = n THEN 0 ELSE t + 1)
  BY RingNext
<1> HIDE DEF s, q
<1>3. h = s <=> Span(h, t, n) = n - 1
  BY <1>2 DEF Span
<1>4. QED
  BY <1>1, <1>3 DEF s, q

\* What is put in a ring that is not full goes to the end of the sequence, across the
\* wrap around.
LEMMA RingSeqPut ==
    ASSUME NEW T, NEW n, NEW f, NEW h, NEW t, IsRing(f, h, t, n, T),
           NEW x \in T, NEW g, g = [f EXCEPT ![t] = x], NEW s, s = (t + 1) % n, h # s
    PROVE  RingSeq(g, h, s, n) = Append(RingSeq(f, h, t, n), x)
<1> n \in Nat \ {0} /\ f \in [0 .. n - 1 -> T] /\ h \in 0 .. n - 1 /\ t \in 0 .. n - 1
  BY DEF IsRing
<1> DEFINE L == Span(h, t, n)
           q == RingSeq(f, h, t, n)
           r == RingSeq(g, h, s, n)
<1>1. g \in [0 .. n - 1 -> T] /\ g[t] = x /\ \A i \in 0 .. n - 1 : i # t => g[i] = f[i]
  OBVIOUS
<1>2. s \in 0 .. n - 1
  BY RingNext
<1>3. L \in 0 .. n - 2 /\ Span(h, s, n) = L + 1 /\ (h + L) % n = t
      /\ \A j \in 0 .. L - 1 : (h + j) % n # t
  BY RingPut
<1>4. q \in Seq(T) /\ Len(q) = L /\ \A k \in 1 .. L : q[k] = f[(h + (k - 1)) % n]
  <2>1. IsRun(q, f, h, n, L, T)
    BY RingSeqTyped
  <2> HIDE DEF q, L
  <2>2. QED
    BY <2>1 DEF IsRun
<1> HIDE DEF L
<1>5. r \in Seq(T) /\ Len(r) = L + 1 /\ \A k \in 1 .. L + 1 : r[k] = g[(h + (k - 1)) % n]
  <2>1. /\ r \in Seq(T) /\ Len(r) = Span(h, s, n)
        /\ \A k \in 1 .. Span(h, s, n) : r[k] = g[(h + (k - 1)) % n]
    <3>1. IsRing(g, h, s, n, T)
      BY <1>1, <1>2 DEF IsRing
    <3>2. IsRun(r, g, h, n, Span(h, s, n), T)
      BY <3>1, RingSeqTyped
    <3> HIDE DEF r
    <3>3. QED
      BY <3>2 DEF IsRun
  <2>2. QED
    BY <1>3, <2>1
<1> HIDE DEF q, r
<1>6. ASSUME NEW k \in 1 .. L PROVE r[k] = q[k]
  <2>1. k \in 1 .. L + 1 /\ k - 1 \in 0 .. L - 1 /\ k - 1 \in 0 .. n - 1
    BY <1>3
  <2>2. (h + (k - 1)) % n # t /\ (h + (k - 1)) % n \in 0 .. n - 1
    BY <1>3, <2>1, RingCell
  <2>3. QED
    BY <1>1, <1>4, <1>5, <2>1, <2>2
<1>7. r[L + 1] = x
  <2>1. r[L + 1] = g[(h + ((L + 1) - 1)) % n] /\ (L + 1) - 1 = L
    BY <1>3, <1>5
  <2>2. QED
    BY <1>1, <1>3, <2>1
<1>8. r = Append(q, x)
  <2>1. L \in Nat
    BY <1>3
  <2>2. QED
    BY <1>4, <1>5, <1>6, <1>7, <2>1
<1>9. QED
  BY <1>8 DEF r, q

\* An empty ring has its two ends in the same cell; from another the first element
\* goes, and the others stay in order.
LEMMA RingSeqGet ==
    ASSUME NEW T, NEW n, NEW f, NEW h, NEW t, IsRing(f, h, t, n, T),
           NEW s, s = (h + 1) % n
    PROVE  /\ h = t <=> RingSeq(f, h, t, n) = <<>>
           /\ h # t => /\ Head(RingSeq(f, h, t, n)) = f[h]
                       /\ RingSeq(f, s, t, n) = Tail(RingSeq(f, h, t, n))
<1> n \in Nat \ {0} /\ f \in [0 .. n - 1 -> T] /\ h \in 0 .. n - 1 /\ t \in 0 .. n - 1
  BY DEF IsRing
<1> DEFINE L == Span(h, t, n)
           g == (h + 1) % n
           q == RingSeq(f, h, t, n)
           r == RingSeq(f, g, t, n)
<1>1. /\ h = t <=> L = 0
      /\ h # t => Span(g, t, n) = L - 1
      /\ \A j \in 0 .. n - 2 : (g + j) % n = (h + (j + 1)) % n
  BY RingGet, Zenon
<1>2. g \in 0 .. n - 1
  BY RingNext
<1>3. /\ q \in Seq(T) /\ Len(q) = L /\ L \in 0 .. n - 1
      /\ \A k \in 1 .. L : q[k] = f[(h + (k - 1)) % n]
  <2>1. IsRun(q, f, h, n, L, T) /\ L \in 0 .. n - 1
    BY RingSeqTyped
  <2> HIDE DEF q, L
  <2>2. QED
    BY <2>1 DEF IsRun
<1> HIDE DEF L, g, q
<1>4. /\ r \in Seq(T) /\ Len(r) = Span(g, t, n)
      /\ \A k \in 1 .. Span(g, t, n) : r[k] = f[(g + (k - 1)) % n]
  <2>1. IsRing(f, g, t, n, T)
    BY <1>2 DEF IsRing
  <2>2. IsRun(r, f, g, n, Span(g, t, n), T)
    BY <2>1, RingSeqTyped
  <2> HIDE DEF r
  <2>3. QED
    BY <2>2 DEF IsRun
<1> HIDE DEF r
<1>5. h = t <=> q = <<>>
  BY <1>1, <1>3
<1>6. ASSUME h # t PROVE Head(q) = f[h] /\ r = Tail(q)
  <2>1. L \in Nat \ {0} /\ q # <<>>
    BY <1>1, <1>3, <1>5, <1>6
  <2>2. Head(q) = f[h]
    <3>1. q[1] = f[(h + (1 - 1)) % n]
      BY <1>3, <2>1
    <3>2. h + (1 - 1) = h /\ h % n = h
      BY ModInside
    <3>3. QED
      BY <2>1, <3>1, <3>2
  <2>3. Len(r) = L - 1 /\ \A k \in 1 .. L - 1 : r[k] = f[(g + (k - 1)) % n]
    BY <1>1, <1>4, <1>6
  <2>4. ASSUME NEW k \in 1 .. L - 1 PROVE r[k] = q[k + 1]
    <3>1. k - 1 \in 0 .. n - 2 /\ k + 1 \in 1 .. L /\ (k - 1) + 1 = (k + 1) - 1
      BY <1>3, <2>1
    <3>2. QED
      BY <1>1, <1>3, <2>3, <3>1
  <2>5. Tail(q) \in Seq(T) /\ Len(Tail(q)) = L - 1
        /\ \A k \in 1 .. L - 1 : Tail(q)[k] = q[k + 1]
    BY <1>3, <2>1
  <2>6. r = Tail(q)
    BY <1>4, <2>1, <2>3, <2>4, <2>5
  <2>7. QED
    BY <2>2, <2>6
<1>7. QED
  BY <1>5, <1>6 DEF q, r, g

\* The cell after the j-th of a ring is the next one.
LEMMA RingSucc ==
    ASSUME NEW n \in Nat \ {0}, NEW h \in 0 .. n - 1, NEW j \in 0 .. n - 2
    PROVE  (((h + j) % n) + 1) % n = (h + (j + 1)) % n
<1> DEFINE c == (h + j) % n
<1>1. j \in 0 .. n - 1 /\ j + 1 \in 0 .. n - 1
  OBVIOUS
<1>2. c = (IF h + j < n THEN h + j ELSE h + j - n) /\ c \in 0 .. n - 1
  BY <1>1, RingCell
<1>3. (h + (j + 1)) % n = IF h + (j + 1) < n THEN h + (j + 1) ELSE h + (j + 1) - n
  <2> DEFINE i == j + 1
  <2>1. i \in 0 .. n - 1
    BY <1>1
  <2> HIDE DEF i
  <2>2. (h + i) % n = IF h + i < n THEN h + i ELSE h + i - n
    BY <2>1, RingCell
  <2>3. QED
    BY <2>2 DEF i
<1> HIDE DEF c
<1>4. (c + 1) % n = IF c + 1 = n THEN 0 ELSE c + 1
  BY <1>2, RingNext
<1>5. QED
  <2>1. (c + 1) % n = (h + (j + 1)) % n
    BY <1>1, <1>2, <1>3, <1>4
  <2>2. QED
    BY <2>1 DEF c

\* The end of a ring moved one cell back leaves one cell less.
LEMMA RingPrev ==
    ASSUME NEW n \in Nat \ {0}, NEW h \in 0 .. n - 1, NEW t \in 0 .. n - 1, h # t
    PROVE  /\ (t - 1) % n \in 0 .. n - 1
           /\ Span(h, (t - 1) % n, n) = Span(h, t, n) - 1
<1> DEFINE x == t - 1
           m == x % n
<1>1. x \in Int /\ -n <= x /\ x < n
  OBVIOUS
<1>2. m = IF t = 0 THEN n - 1 ELSE t - 1
  <2>1. CASE t = 0
    <3>1. x < 0
      BY <2>1
    <3> HIDE DEF x
    <3>2. m = x + n
      BY <1>1, <3>1, ModBelow
    <3>3. QED
      BY <2>1, <3>2 DEF x
  <2>2. CASE t # 0
    <3>1. 0 <= x
      BY <2>2
    <3> HIDE DEF x
    <3>2. m = x
      BY <1>1, <3>1, ModInside
    <3>3. QED
      BY <2>2, <3>2 DEF x
  <2>3. QED
    BY <2>1, <2>2
<1> HIDE DEF m
<1>3. m \in 0 .. n - 1 /\ Span(h, m, n) = Span(h, t, n) - 1
  BY <1>2 DEF Span
<1>4. QED
  BY <1>3 DEF m


USE DEF Sem

\* ThreadSched on the state of Kernel, with the lemmas proved about it.
AP == INSTANCE ThreadSchedProofs WITH
    Thread <- Tid,
    active <- {t \in Tid : Threads[t].active},
    CodaPronti <- Contents(ring),
    Status <- [s \in Sem |-> sem[s].Status],
    queue <- [s \in Sem |-> Waiters(s)]

\* What ThreadSched assumes of its constants holds of Kernel's.
LEMMA Constants == AP!ThreadAssumption /\ AP!SemAssumption /\ AP!SizeAssumption
BY KernelAssumption DEF AP!ThreadAssumption, AP!SemAssumption, AP!SizeAssumption, Tid,
       kernel_thread, init_thread, THREAD_INVALID

--------------------------------------------------------------------------------
(* The ring.                                                                   *)

Ring == [cell : [Cells -> Tid], testa : Cells, coda : Cells]

\* The contents of a ring of threads are the cells from testa to coda.
LEMMA ContentsSeq ==
    ASSUME NEW q \in Ring
    PROVE  /\ Contents(q) = RingSeq(q.cell, q.testa, q.coda, MAX_REFERENCES)
           /\ IsRing(q.cell, q.testa, q.coda, MAX_REFERENCES, Tid)
           /\ Contents(q) \in Seq(Tid)
<1>1. Contents(q) = RingSeq(q.cell, q.testa, q.coda, MAX_REFERENCES)
  BY Zenon DEF Contents, RingSeq, Place
<1>2. IsRing(q.cell, q.testa, q.coda, MAX_REFERENCES, Tid)
  BY KernelAssumption DEF IsRing, Ring, Cells
<1>3. IsRun(Contents(q), q.cell, q.testa, MAX_REFERENCES,
            Span(q.testa, q.coda, MAX_REFERENCES), Tid)
  BY <1>1, <1>2, RingSeqTyped
<1>4. QED
  BY <1>1, <1>2, <1>3 DEF IsRun

\* A ring is full when it holds MAX_REFERENCES - 1 threads, one less than its cells.
LEMMA FullContents ==
    ASSUME NEW q \in Ring
    PROVE  IsFull(q) <=> Len(Contents(q)) = MAX_REFERENCES - 1
BY ContentsSeq, RingSeqFull DEF IsFull, Succ

\* Put writes at coda and moves it.
LEMMA PutFields ==
    ASSUME NEW q \in Ring, NEW t \in Tid
    PROVE  /\ Put(q, t) \in Ring
           /\ Put(q, t).cell = [q.cell EXCEPT ![q.coda] = t]
           /\ Put(q, t).testa = q.testa /\ Put(q, t).coda = Succ(q.coda)
<1>1. Succ(q.coda) \in Cells
  BY KernelAssumption, RingNext DEF Ring, Cells, Succ
<1> DEFINE c == Succ(q.coda)
<1>2. Put(q, t) = [q EXCEPT !.cell[q.coda] = t, !.coda = c]
  BY DEF Put, Ring
<1> HIDE DEF c
<1>3. QED
  BY <1>1, <1>2 DEF Ring, c

\* What is put in a ring that is not full is the last of its queue.
LEMMA PutContents ==
    ASSUME NEW q \in Ring, ~IsFull(q), NEW t \in Tid
    PROVE  Put(q, t) \in Ring /\ Contents(Put(q, t)) = Append(Contents(q), t)
<1>1. Put(q, t) \in Ring
  BY PutFields
<1>2. Contents(Put(q, t)) = RingSeq(Put(q, t).cell, Put(q, t).testa, Put(q, t).coda, MAX_REFERENCES)
  BY <1>1, ContentsSeq
<1>3. Contents(Put(q, t)) = RingSeq(Put(q, t).cell, q.testa, Succ(q.coda), MAX_REFERENCES)
      /\ Put(q, t).cell = [q.cell EXCEPT ![q.coda] = t]
  BY <1>2, PutFields, Zenon
<1>4. q.testa # Succ(q.coda) /\ Succ(q.coda) = (q.coda + 1) % MAX_REFERENCES
  BY DEF IsFull, Succ
<1>5. IsRing(q.cell, q.testa, q.coda, MAX_REFERENCES, Tid)
      /\ Contents(q) = RingSeq(q.cell, q.testa, q.coda, MAX_REFERENCES)
  BY ContentsSeq
<1>6. QED
  BY <1>1, <1>3, <1>4, <1>5, RingSeqPut

\* Get_Thread_From_CodaPronti takes the first of the queue and leaves a free cell.
LEMMA DropContents ==
    ASSUME NEW q \in Ring
    PROVE  /\ IsEmpty(q) <=> Contents(q) = <<>>
           /\ ~IsEmpty(q) => /\ First(q) = Head(Contents(q)) /\ First(q) \in Tid
                             /\ DropFirst(q) \in Ring /\ ~IsFull(DropFirst(q))
                             /\ Contents(DropFirst(q)) = Tail(Contents(q))
<1>1. Succ(q.testa) \in Cells /\ Succ(q.coda) \in Cells /\ q.testa \in Cells /\ q.coda \in Cells
  BY KernelAssumption, RingNext DEF Ring, Cells, Succ
<1>2. /\ DropFirst(q) \in Ring /\ DropFirst(q).cell = q.cell
      /\ DropFirst(q).testa = Succ(q.testa) /\ DropFirst(q).coda = q.coda
  <2> DEFINE c == Succ(q.testa)
  <2>1. DropFirst(q) = [q EXCEPT !.testa = c]
    BY DEF DropFirst, Ring
  <2> HIDE DEF c
  <2>2. QED
    BY <1>1, <2>1 DEF Ring, c
<1>3. /\ IsRing(q.cell, q.testa, q.coda, MAX_REFERENCES, Tid)
      /\ Contents(q) = RingSeq(q.cell, q.testa, q.coda, MAX_REFERENCES)
  BY ContentsSeq
<1>4. /\ Contents(DropFirst(q)) = RingSeq(q.cell, Succ(q.testa), q.coda, MAX_REFERENCES)
      /\ Succ(q.testa) = (q.testa + 1) % MAX_REFERENCES
  BY <1>2, ContentsSeq, Zenon DEF Succ
<1>5. /\ q.testa = q.coda <=> Contents(q) = <<>>
      /\ q.testa # q.coda => /\ Head(Contents(q)) = q.cell[q.testa]
                             /\ Contents(DropFirst(q)) = Tail(Contents(q))
  BY <1>3, <1>4, RingSeqGet
<1>6. IsFull(DropFirst(q)) => q.testa = q.coda
  <2>1. IsFull(DropFirst(q)) => Succ(q.testa) = Succ(q.coda)
    BY <1>2 DEF IsFull
  <2>2. /\ Succ(q.testa) = (IF q.testa + 1 = MAX_REFERENCES THEN 0 ELSE q.testa + 1)
        /\ Succ(q.coda) = (IF q.coda + 1 = MAX_REFERENCES THEN 0 ELSE q.coda + 1)
    BY <1>1, KernelAssumption, RingNext DEF Succ, Cells
  <2>3. QED
    BY <1>1, <2>1, <2>2, KernelAssumption DEF Cells
<1>7. First(q) \in Tid
  BY <1>1 DEF First, Ring
<1>8. QED
  BY <1>2, <1>5, <1>6, <1>7 DEF IsEmpty, First

\* The cells of a ring and their places, counted from testa.
LEMMA Places ==
    ASSUME NEW q \in Ring
    PROVE  /\ Place(q, q.coda) = Len(Contents(q)) /\ Len(Contents(q)) \in 0 .. MAX_REFERENCES - 1
           /\ \A i \in Cells : /\ Place(q, i) \in 0 .. MAX_REFERENCES - 1
                               /\ (q.testa + Place(q, i)) % MAX_REFERENCES = i
           /\ \A j \in 0 .. MAX_REFERENCES - 1 :
                 /\ (q.testa + j) % MAX_REFERENCES \in Cells
                 /\ Place(q, (q.testa + j) % MAX_REFERENCES) = j
           /\ \A k \in 1 .. Len(Contents(q)) :
                 Contents(q)[k] = q.cell[(q.testa + (k - 1)) % MAX_REFERENCES]
<1> DEFINE n == MAX_REFERENCES
           h == q.testa
<1>1. n \in Nat \ {0} /\ h \in 0 .. n - 1 /\ q.coda \in 0 .. n - 1
  BY KernelAssumption DEF Ring, Cells
<1>2. IsRun(Contents(q), q.cell, h, n, Span(h, q.coda, n), Tid) /\ Span(h, q.coda, n) \in 0 .. n - 1
  BY ContentsSeq, RingSeqTyped
<1> HIDE DEF n, h
<1>3. \A i \in 0 .. n - 1 : (i - h) % n = Span(h, i, n) /\ Span(h, i, n) \in 0 .. n - 1
                            /\ (h + Span(h, i, n)) % n = i
  <2>1. ASSUME NEW i \in 0 .. n - 1
        PROVE  (i - h) % n = Span(h, i, n) /\ Span(h, i, n) \in 0 .. n - 1
    BY <1>1, RingSpan
  <2>2. ASSUME NEW i \in 0 .. n - 1
        PROVE  (h + Span(h, i, n)) % n = i
    BY <1>1, RingPut
  <2>3. QED
    BY <2>1, <2>2
<1>4. \A j \in 0 .. n - 1 : (h + j) % n \in 0 .. n - 1 /\ Span(h, (h + j) % n, n) = j
  <2>1. ASSUME NEW j \in 0 .. n - 1 PROVE (h + j) % n \in 0 .. n - 1
    BY <1>1, RingCell
  <2>2. ASSUME NEW j \in 0 .. n - 1 PROVE Span(h, (h + j) % n, n) = j
    BY <1>1, RingPlace
  <2>3. QED
    BY <2>1, <2>2
<1>5. \A i \in Cells : Place(q, i) = Span(h, i, n)
  BY <1>3 DEF Place, Cells, n, h
<1>6. Cells = 0 .. n - 1
  BY DEF Cells, n
<1>7. Place(q, q.coda) = Len(Contents(q)) /\ Len(Contents(q)) \in 0 .. n - 1
  BY <1>1, <1>2, <1>5, <1>6 DEF IsRun
<1>8. \A i \in Cells : Place(q, i) \in 0 .. n - 1 /\ (h + Place(q, i)) % n = i
  BY <1>3, <1>5, <1>6
<1>9. \A j \in 0 .. n - 1 : (h + j) % n \in Cells /\ Place(q, (h + j) % n) = j
  BY <1>4, <1>5, <1>6
<1>10. \A k \in 1 .. Len(Contents(q)) : Contents(q)[k] = q.cell[(h + (k - 1)) % n]
  BY <1>2 DEF IsRun
<1>11. QED
  BY <1>7, <1>8, <1>9, <1>10 DEF n, h

\* The cells in use are the places of the queue: the ring holds a thread when its
\* queue does.
LEMMA HoldsContents ==
    ASSUME NEW q \in Ring, NEW t
    PROVE  Holds(q, t) <=> AP!InSeq(t, Contents(q))
<1> DEFINE n == MAX_REFERENCES
           L == Len(Contents(q))
           C == [j \in 0 .. n - 1 |-> (q.testa + j) % n]
<1>1. n \in Nat /\ L \in 0 .. n - 1
  BY Places, KernelAssumption
<1>2. /\ \A i \in Cells : Place(q, i) \in 0 .. n - 1 /\ C[Place(q, i)] = i
      /\ \A j \in 0 .. n - 1 : C[j] \in Cells /\ Place(q, C[j]) = j
  BY Places
<1>3. \A k \in 1 .. L : Contents(q)[k] = q.cell[C[k - 1]]
  <2>1. \A k \in 1 .. L : k - 1 \in 0 .. n - 1
    BY <1>1
  <2>2. QED
    BY <2>1, Places
<1>4. Used(q) = {i \in Cells : Place(q, i) < L}
  BY Places DEF Used
<1> HIDE DEF n, L, C
<1>5. ASSUME NEW i \in Used(q), q.cell[i] = t PROVE \E k \in 1 .. L : Contents(q)[k] = t
  <2>1. PICK p \in 0 .. n - 1 : p = Place(q, i) /\ C[p] = i /\ p < L
    BY <1>2, <1>4
  <2>2. p + 1 \in 1 .. L /\ (p + 1) - 1 = p
    BY <1>1, <2>1
  <2>3. QED
    BY <1>3, <1>5, <2>1, <2>2
<1>6. ASSUME NEW k \in 1 .. L, Contents(q)[k] = t PROVE \E i \in Used(q) : q.cell[i] = t
  <2>1. k - 1 \in 0 .. n - 1 /\ k - 1 < L
    BY <1>1
  <2>2. QED
    BY <1>2, <1>3, <1>4, <1>6, <2>1
<1>7. QED
  BY <1>5, <1>6 DEF Holds, AP!InSeq, L

--------------------------------------------------------------------------------
(* The lists of waiters.                                                       *)

Statuses == {"DEAD", "READY", "RUN", "STOPPED"}

ThreadTable ==
    [Tid -> [active : BOOLEAN, status : Statuses, next : Tid \cup {THREAD_INVALID}]]

\* The links of the table thr lead from hd through the threads of w to tl.
IsList(thr, hd, tl, w) ==
    /\ w \in Seq(Tid) /\ Len(w) <= MAX_THREADS
    /\ w = <<>> => hd = THREAD_INVALID /\ tl = THREAD_INVALID
    /\ w # <<>> => hd = w[1] /\ tl = w[Len(w)] /\ thr[tl].next = THREAD_INVALID
    /\ \A i \in 1 .. Len(w) - 1 : thr[w[i]].next = w[i + 1]

\* Following the links of a list finds its threads.
LEMMA ChainIs ==
    ASSUME NEW thr, NEW hd, NEW tl, NEW w, IsList(thr, hd, tl, w)
    PROVE  Chain(thr, hd) = w
<1> DEFINE N == MAX_THREADS + 1
           Step(g, n) == IF n = 1 THEN hd
                         ELSE IF g[n - 1] = THREAD_INVALID THEN THREAD_INVALID
                         ELSE thr[g[n - 1]].next
           Walk(g) == g = [n \in 1..MAX_THREADS + 1 |->
                             IF n = 1 THEN hd
                             ELSE IF g[n - 1] = THREAD_INVALID THEN THREAD_INVALID
                             ELSE thr[g[n - 1]].next]
           at == CHOOSE g : Walk(g)
           f == [n \in 1..N |-> IF n <= Len(w) THEN w[n] ELSE THREAD_INVALID]
<1>1. /\ w \in Seq(Tid) /\ Len(w) \in Nat /\ Len(w) <= MAX_THREADS /\ N \in Nat /\ Len(w) < N
      /\ w = <<>> => hd = THREAD_INVALID
      /\ w # <<>> => hd = w[1] /\ thr[w[Len(w)]].next = THREAD_INVALID
      /\ \A i \in 1 .. Len(w) - 1 : thr[w[i]].next = w[i + 1]
      /\ \A i \in 1 .. Len(w) : w[i] \in Tid /\ w[i] # THREAD_INVALID
  BY KernelAssumption DEF IsList, Tid, THREAD_INVALID
<1>2. ASSUME NEW n \in 1..N PROVE f[n] = Step(f, n)
  <2>1. CASE n = 1
    BY <1>1, <2>1
  <2>2. CASE n # 1 /\ n <= Len(w)
    BY <1>1, <2>2
  <2>3. CASE n = Len(w) + 1 /\ n # 1
    BY <1>1, <2>3
  <2>4. CASE n > Len(w) + 1
    BY <1>1, <2>4
  <2>5. QED
    BY <1>1, <2>1, <2>2, <2>3, <2>4
<1>3. Walk(f)
  <2>1. f = [n \in 1..N |-> Step(f, n)]
    BY <1>2, Zenon
  <2>2. QED
    BY <2>1
<1>4. Walk(at)
  BY <1>3, Zenon
<1>5. Chain(thr, hd) = [n \in {m \in 1..MAX_THREADS + 1 : at[m] # THREAD_INVALID} |-> at[n]]
  BY Zenon DEF Chain
<1>6. \A n \in 1..N : at[n] = Step(at, n)
  BY <1>4
<1> HIDE DEF at, Walk
<1>7. \A n \in 1..N : at[n] = f[n]
  <2> DEFINE S == {m \in Nat : m + 1 <= N => at[m + 1] = f[m + 1]}
  <2>1. 0 \in S
    BY <1>1, <1>2, <1>6
  <2>2. ASSUME NEW m \in S PROVE m + 1 \in S
    <3>1. CASE (m + 1) + 1 <= N
      <4>1. m + 1 \in 1..N /\ (m + 1) + 1 \in 1..N /\ ((m + 1) + 1) - 1 = m + 1 /\ (m + 1) + 1 # 1
        BY <1>1, <3>1
      <4>2. at[m + 1] = f[m + 1]
        BY <4>1
      <4>3. Step(at, (m + 1) + 1) = Step(f, (m + 1) + 1)
        BY <4>1, <4>2
      <4>4. at[(m + 1) + 1] = f[(m + 1) + 1]
        BY <1>2, <1>6, <4>1, <4>3
      <4>5. QED
        BY <4>4
    <3>2. QED
      BY <3>1
  <2> HIDE DEF S
  <2>3. S = Nat
    BY <2>1, <2>2, Inductive DEF S
  <2>4. ASSUME NEW n \in 1..N PROVE at[n] = f[n]
    <3>1. n - 1 \in S /\ (n - 1) + 1 = n /\ n <= N
      BY <1>1, <2>3
    <3>2. QED
      BY <3>1 DEF S
  <2>5. QED
    BY <2>4
<1>8. {m \in 1..N : at[m] # THREAD_INVALID} = 1 .. Len(w)
  BY <1>1, <1>7
<1>9. Chain(thr, hd) = [n \in 1 .. Len(w) |-> w[n]]
  <2>1. Chain(thr, hd) = [n \in 1 .. Len(w) |-> at[n]]
    BY <1>5, <1>8
  <2>2. \A n \in 1 .. Len(w) : at[n] = w[n]
    BY <1>1, <1>7
  <2>3. QED
    BY <2>1, <2>2
<1>10. QED
  BY <1>1, <1>9

\* The tables agree on the links of the a-th to the b-th thread of w.
KeepsNext(thr2, thr, w, a, b) == \A i \in a .. b : thr2[w[i]].next = thr[w[i]].next

\* Links of other threads do not matter to a list.
LEMMA ListKept ==
    ASSUME NEW thr, NEW thr2, NEW hd, NEW tl, NEW w, IsList(thr, hd, tl, w),
           KeepsNext(thr2, thr, w, 1, Len(w))
    PROVE  IsList(thr2, hd, tl, w)
<1>1. w \in Seq(Tid) /\ Len(w) \in Nat
  BY DEF IsList
<1>2. w # <<>> => Len(w) \in 1 .. Len(w)
  BY <1>1
<1>3. QED
  BY <1>1, <1>2 DEF IsList, KeepsNext

\* A thread is linked at the end of a list it is not in.
LEMMA ListAppend ==
    ASSUME NEW thr, NEW thr2, NEW hd, NEW tl, NEW w, IsList(thr, hd, tl, w),
           NEW me \in Tid, Len(w) < MAX_THREADS,
           KeepsNext(thr2, thr, w, 1, Len(w) - 1),
           w # <<>> => thr2[tl].next = me,
           thr2[me].next = THREAD_INVALID,
           NEW hd2, hd2 = IF hd = THREAD_INVALID THEN me ELSE hd
    PROVE  IsList(thr2, hd2, me, Append(w, me))
<1> DEFINE v == Append(w, me)
<1>1. w \in Seq(Tid) /\ Len(w) \in Nat /\ \A i \in 1 .. Len(w) : w[i] \in Tid
  BY DEF IsList
<1>2. /\ v \in Seq(Tid) /\ Len(v) = Len(w) + 1 /\ v[Len(w) + 1] = me
      /\ \A i \in 1 .. Len(w) : v[i] = w[i]
  BY <1>1
<1>3. (hd = THREAD_INVALID <=> w = <<>>) /\ (w # <<>> => hd = w[1] /\ tl = w[Len(w)])
  BY <1>1, KernelAssumption DEF IsList, THREAD_INVALID, Tid
<1> HIDE DEF v
<1>4. v # <<>> /\ Len(v) <= MAX_THREADS /\ me = v[Len(v)]
  BY <1>1, <1>2, KernelAssumption
<1>5. hd2 = v[1]
  <2>1. CASE w = <<>>
    BY <1>1, <1>2, <1>3, <2>1
  <2>2. CASE w # <<>>
    BY <1>1, <1>2, <1>3, <2>2
  <2>3. QED
    BY <2>1, <2>2
<1>6. ASSUME NEW i \in 1 .. Len(v) - 1 PROVE thr2[v[i]].next = v[i + 1]
  <2>1. CASE i = Len(w)
    BY <1>1, <1>2, <1>3, <2>1
  <2>2. CASE i # Len(w)
    <3>1. i \in 1 .. Len(w) - 1 /\ i + 1 \in 1 .. Len(w)
      BY <1>1, <1>2, <2>2
    <3>2. QED
      BY <1>1, <1>2, <3>1 DEF IsList, KeepsNext
  <2>3. QED
    BY <2>1, <2>2
<1>7. QED
  BY <1>2, <1>4, <1>5, <1>6 DEF IsList, v

\* The first thread of a list is unlinked.
LEMMA ListTail ==
    ASSUME NEW thr, NEW thr2, NEW hd, NEW tl, NEW w, IsList(thr, hd, tl, w), w # <<>>,
           KeepsNext(thr2, thr, w, 2, Len(w)),
           NEW rest, rest = thr[hd].next,
           NEW tl2, tl2 = IF rest = THREAD_INVALID THEN THREAD_INVALID ELSE tl
    PROVE  hd = Head(w) /\ IsList(thr2, rest, tl2, Tail(w))
<1> DEFINE v == Tail(w)
<1>1. w \in Seq(Tid) /\ Len(w) \in Nat \ {0} /\ Len(w) <= MAX_THREADS /\ hd = w[1]
      /\ tl = w[Len(w)] /\ thr[tl].next = THREAD_INVALID
      /\ \A i \in 1 .. Len(w) - 1 : thr[w[i]].next = w[i + 1]
  BY DEF IsList
<1>2. \A i \in 1 .. Len(w) : w[i] \in Tid /\ w[i] # THREAD_INVALID
  BY <1>1, KernelAssumption DEF Tid, THREAD_INVALID
<1>3. v \in Seq(Tid) /\ Len(v) = Len(w) - 1 /\ \A i \in 1 .. Len(v) : v[i] = w[i + 1]
  <2>1. v \in Seq(Tid) /\ Len(v) = Len(w) - 1
    BY <1>1
  <2>2. \A i \in 1 .. Len(w) - 1 : v[i] = w[i + 1]
    BY <1>1
  <2>3. QED
    BY <2>1, <2>2
<1>4. Len(v) \in Nat /\ Len(v) <= MAX_THREADS /\ Head(w) = w[1]
  BY <1>1, <1>3, KernelAssumption
<1> HIDE DEF v
<1>5. v = <<>> <=> Len(w) = 1
  <2>1. v = <<>> <=> Len(v) = 0
    BY <1>3
  <2>2. QED
    BY <1>1, <1>3, <2>1
<1>6. CASE v = <<>>
  <2>1. rest = THREAD_INVALID
    BY <1>1, <1>5, <1>6
  <2>2. tl2 = THREAD_INVALID
    BY <2>1
  <2>3. \A i \in 1 .. Len(v) - 1 : thr2[v[i]].next = v[i + 1]
    <3>1. Len(v) = 0
      BY <1>1, <1>3, <1>5, <1>6
    <3>2. \A i \in 1 .. Len(v) - 1 : FALSE
      BY <3>1
    <3>3. QED
      BY <3>2, Zenon
  <2>4. IsList(thr2, rest, tl2, v)
    BY <1>3, <1>4, <1>6, <2>1, <2>2, <2>3, Zenon DEF IsList
  <2>5. QED
    BY <1>1, <1>4, <2>4 DEF v
<1>7. CASE v # <<>>
  <2>1. 1 \in 1 .. Len(w) - 1 /\ 1 \in 1 .. Len(v) /\ Len(v) \in 1 .. Len(v) /\ Len(w) \in 2 .. Len(w)
    BY <1>1, <1>3, <1>5, <1>7
  <2>2. rest = w[2] /\ rest = v[1] /\ rest # THREAD_INVALID
    BY <1>1, <1>2, <1>3, <2>1
  <2>3. tl = v[Len(v)] /\ thr2[tl].next = THREAD_INVALID
    BY <1>1, <1>3, <2>1 DEF KeepsNext
  <2>4. ASSUME NEW i \in 1 .. Len(v) - 1 PROVE thr2[v[i]].next = v[i + 1]
    <3>1. i + 1 \in 2 .. Len(w) /\ i + 1 \in 1 .. Len(w) - 1 /\ i \in 1 .. Len(v) /\ i + 1 \in 1 .. Len(v)
      BY <1>1, <1>3
    <3>2. QED
      BY <1>1, <1>3, <3>1 DEF KeepsNext
  <2>5. tl2 = tl
    BY <2>2
  <2>6. IsList(thr2, rest, tl2, v)
    BY <1>3, <1>4, <1>7, <2>2, <2>3, <2>4, <2>5 DEF IsList
  <2>7. QED
    BY <1>1, <1>4, <2>6 DEF v
<1>8. QED
  BY <1>6, <1>7

--------------------------------------------------------------------------------
(* The fragments of the actions, on the ring and on the queue.                 *)

\* The table thr2 differs from thr in the status of some threads only.
SameLinks(thr2, thr) ==
    \A t \in Tid : thr2[t].next = thr[t].next /\ (thr2[t].active <=> thr[t].active)

\* The tables have the same links.
SameNext(thr2, thr) == \A t \in Tid : thr2[t].next = thr[t].next

\* The same links and the same active threads, in the two forms the lemmas use.
LEMMA SameLinksMeans ==
    ASSUME NEW thr2, NEW thr, SameLinks(thr2, thr)
    PROVE  SameNext(thr2, thr) /\ {t \in Tid : thr2[t].active} = {t \in Tid : thr[t].active}
BY DEF SameLinks, SameNext

\* A change of a thread's status.
SetStatus(thr, t, v) == [thr EXCEPT ![t].status = v]

\* It leaves every link and every active thread as it was.
LEMMA StatusOnly ==
    ASSUME NEW thr \in ThreadTable, NEW t \in Tid, NEW v \in Statuses
    PROVE  /\ SetStatus(thr, t, v) \in ThreadTable
           /\ SameLinks(SetStatus(thr, t, v), thr)
           /\ \A u \in Tid : SetStatus(thr, t, v)[u].status = IF u = t THEN v ELSE thr[u].status
<1>1. SetStatus(thr, t, v) \in ThreadTable
  BY DEF ThreadTable, SetStatus, Statuses
<1>2. \A u \in Tid : SetStatus(thr, t, v)[u].next = thr[u].next
  BY DEF ThreadTable, SetStatus
<1>3. \A u \in Tid : SetStatus(thr, t, v)[u].active <=> thr[u].active
  BY Zenon DEF ThreadTable, SetStatus
<1>4. \A u \in Tid : SetStatus(thr, t, v)[u].status = IF u = t THEN v ELSE thr[u].status
  BY DEF ThreadTable, SetStatus
<1>5. QED
  BY <1>1, <1>2, <1>3, <1>4 DEF SameLinks

\* Schedule_Next_Thread does to the ring what the dispatcher of ThreadSched does to
\* the queue; it sets the status of the thread it dispatches and of the one it puts
\* back, and nothing else of the table.
LEMMA ScheduleStep ==
    ASSUME NEW thr \in ThreadTable, NEW q \in Ring, NEW cur \in Tid \cup {THREAD_INVALID},
           Schedule_Next_Thread(thr, q, cur)
    PROVE  /\ AP!Schedule_Next_Thread(Contents(q), cur)
           /\ ring' \in Ring /\ Threads' \in ThreadTable /\ SameLinks(Threads', thr)
           /\ Contents(q) = <<>> => Threads' = thr
           /\ Contents(q) # <<>> /\ cur # Thread_In_Esecuzione' =>
                 \A u \in Tid : Threads'[u].status = IF u = cur THEN "READY"
                                                     ELSE IF u = Thread_In_Esecuzione' THEN "RUN"
                                                     ELSE thr[u].status
<1> DEFINE t == First(q)
           got == SetStatus(thr, t, "STOPPED")
           run == SetStatus(got, t, "RUN")
<1>0. THREAD_INVALID \notin Tid
  BY DEF Tid, THREAD_INVALID
<1>1. CASE IsEmpty(q)
  <2>1. Contents(q) = <<>>
    BY <1>1, DropContents
  <2>2. Thread_In_Esecuzione' = cur /\ ring' = q /\ Threads' = thr
    BY <1>1 DEF Schedule_Next_Thread
  <2>3. AP!Schedule_Next_Thread(Contents(q), cur)
    BY <2>1, <2>2 DEF AP!Schedule_Next_Thread
  <2>4. SameLinks(Threads', thr)
    BY <2>2, Zenon DEF SameLinks
  <2>5. QED
    BY <2>1, <2>2, <2>3, <2>4
<1>2. CASE ~IsEmpty(q)
  <2>1. /\ Contents(q) # <<>> /\ t = Head(Contents(q)) /\ t \in Tid
        /\ DropFirst(q) \in Ring /\ ~IsFull(DropFirst(q))
        /\ Contents(DropFirst(q)) = Tail(Contents(q))
    BY <1>2, DropContents
  <2>2. /\ got \in ThreadTable /\ SameLinks(got, thr)
        /\ \A u \in Tid : got[u].status = IF u = t THEN "STOPPED" ELSE thr[u].status
    BY <2>1, StatusOnly DEF Statuses
  <2>3. /\ run \in ThreadTable /\ SameLinks(run, got)
        /\ \A u \in Tid : run[u].status = IF u = t THEN "RUN" ELSE got[u].status
    <3> HIDE DEF got
    <3>1. "RUN" \in Statuses
      BY DEF Statuses
    <3>2. QED
      BY <2>1, <2>2, <3>1, StatusOnly
  <2>4. SameLinks(run, thr)
    <3> HIDE DEF got, run
    <3>1. QED
      BY <2>2, <2>3, Zenon DEF SameLinks
  <2>5. Thread_In_Esecuzione' = t
    BY <1>2 DEF Schedule_Next_Thread
  <2>6. CASE cur = t
    <3>1. ring' = DropFirst(q) /\ Threads' = got
      BY <1>2, <2>6, <2>1, <1>0 DEF Schedule_Next_Thread, SetStatus
    <3>2. AP!Schedule_Next_Thread(Contents(q), cur)
      BY <2>1, <2>5, <2>6, <3>1 DEF AP!Schedule_Next_Thread
    <3>3. QED
      BY <2>1, <2>2, <2>5, <2>6, <3>1, <3>2
  <2>7. CASE cur = THREAD_INVALID
    <3>1. ring' = DropFirst(q) /\ Threads' = run
      BY <1>2, <2>7, <2>1, <1>0 DEF Schedule_Next_Thread, SetStatus
    <3>2. AP!Schedule_Next_Thread(Contents(q), cur)
      BY <2>1, <2>5, <2>7, <3>1 DEF AP!Schedule_Next_Thread
    <3> HIDE DEF got, run
    <3>3. \A u \in Tid : Threads'[u].status = IF u = cur THEN "READY"
                                              ELSE IF u = t THEN "RUN" ELSE thr[u].status
      BY <1>0, <2>2, <2>3, <2>7, <3>1
    <3>4. QED
      BY <2>1, <2>3, <2>4, <2>5, <3>1, <3>2, <3>3
  <2>8. CASE cur # t /\ cur # THREAD_INVALID
    <3> DEFINE back == SetStatus(run, cur, "READY")
    <3>1. cur \in Tid
      BY <2>8
    <3>2. ring' = Put(DropFirst(q), cur) /\ Threads' = back
      BY <1>2, <2>8 DEF Schedule_Next_Thread, SetStatus
    <3>3. ring' \in Ring /\ Contents(ring') = Append(Tail(Contents(q)), cur)
      BY <2>1, <3>1, <3>2, PutContents
    <3>4. AP!Schedule_Next_Thread(Contents(q), cur)
      BY <2>1, <2>5, <2>8, <3>3 DEF AP!Schedule_Next_Thread
    <3> HIDE DEF run
    <3>5. /\ back \in ThreadTable /\ SameLinks(back, run)
          /\ \A u \in Tid : back[u].status = IF u = cur THEN "READY" ELSE run[u].status
      BY <2>3, <3>1, StatusOnly DEF Statuses
    <3> HIDE DEF back, got
    <3>6. SameLinks(Threads', thr)
      BY <2>4, <3>2, <3>5, Zenon DEF SameLinks
    <3>7. \A u \in Tid : Threads'[u].status = IF u = cur THEN "READY"
                                              ELSE IF u = t THEN "RUN" ELSE thr[u].status
      BY <2>2, <2>3, <3>2, <3>5
    <3>8. QED
      BY <2>1, <2>5, <3>2, <3>3, <3>4, <3>5, <3>6, <3>7
  <2>9. QED
    BY <2>6, <2>7, <2>8
<1>3. QED
  BY <1>1, <1>2

\* Add_Thread_To_CodaPronti does to the ring what its promise does to the queue, and
\* panics in the same cases.
LEMMA AddStep ==
    ASSUME NEW thr \in ThreadTable, ring \in Ring, NEW t \in Tid,
           Add_Thread_To_CodaPronti(thr, t)
    PROVE  /\ AP!Add_Thread_To_CodaPronti(t)
           /\ ring' \in Ring /\ Threads' \in ThreadTable /\ SameLinks(Threads', thr)
           /\ ~panicked' =>
                 \A u \in Tid : Threads'[u].status = IF u = t THEN "READY" ELSE thr[u].status
<1>1. CASE IsFull(ring) \/ ~thr[t].active
  <2>1. ring' = ring /\ Threads' = thr
    BY <1>1 DEF Add_Thread_To_CodaPronti
  <2>2. panicked' = TRUE
    BY <1>1, Zenon DEF Add_Thread_To_CodaPronti
  <2>3. SameLinks(Threads', thr)
    BY <2>1, Zenon DEF SameLinks
  <2>4. Len(Contents(ring)) = MAX_REFERENCES - 1 \/ t \notin {u \in Tid : Threads'[u].active}
    BY <1>1, <2>1, FullContents
  <2>5. AP!Add_Thread_To_CodaPronti(t)
    BY <2>1, <2>2, <2>4, Zenon DEF AP!Add_Thread_To_CodaPronti
  <2>6. QED
    BY <2>1, <2>2, <2>3, <2>5
<1>2. CASE ~(IsFull(ring) \/ ~thr[t].active)
  <2>1. ring' = Put(ring, t) /\ Threads' = SetStatus(thr, t, "READY")
    BY <1>2 DEF Add_Thread_To_CodaPronti, SetStatus
  <2>2. panicked' = panicked
    BY <1>2, Zenon DEF Add_Thread_To_CodaPronti
  <2>3. ring' \in Ring /\ Contents(ring') = Append(Contents(ring), t)
    BY <1>2, <2>1, PutContents
  <2>4. /\ Threads' \in ThreadTable /\ SameLinks(Threads', thr)
        /\ \A u \in Tid : Threads'[u].status = IF u = t THEN "READY" ELSE thr[u].status
    <3>1. "READY" \in Statuses
      BY DEF Statuses
    <3>2. QED
      BY <2>1, <3>1, StatusOnly
  <2>5. ~(Len(Contents(ring)) = MAX_REFERENCES - 1 \/ t \notin {u \in Tid : Threads'[u].active})
    BY <1>2, <2>4, FullContents DEF SameLinks
  <2>6. AP!Add_Thread_To_CodaPronti(t)
    BY <2>2, <2>3, <2>5, Zenon DEF AP!Add_Thread_To_CodaPronti
  <2>7. QED
    BY <2>3, <2>4, <2>6
<1>3. QED
  BY <1>1, <1>2

\* The saved context is resumed as in ThreadSched.
LEMMA ResumeStep ==
    ASSUME NEW ctx \in [Tid -> Sem \cup {NoSem}],
           Thread_In_Esecuzione' \in Tid \cup {THREAD_INVALID}, jump_tss(ctx)
    PROVE  AP!Resume(ctx)
BY KernelAssumption DEF jump_tss, AP!Resume, AP!Sem, Tid, THREAD_INVALID

--------------------------------------------------------------------------------
(* The inductive invariant.                                                    *)

KType ==
    /\ Threads \in ThreadTable
    /\ ring \in Ring
    /\ sem \in [Sem -> [Status : Nat, Head_Thread : Tid \cup {THREAD_INVALID},
                        Tail_Thread : Tid \cup {THREAD_INVALID}]]

\* The waiters of every semaphore are a list from Head_Thread to Tail_Thread.
Lists == \A s \in Sem : IsList(Threads, sem[s].Head_Thread, sem[s].Tail_Thread, Waiters(s))

\* Only the threads of a list, its last one excepted, have a next one.
InnerLinks ==
    \A t \in Tid : Threads[t].next # THREAD_INVALID =>
       \E s \in Sem : \E i \in 1..Len(Waiters(s)) - 1 : Waiters(s)[i] = t

\* READY is the status of the threads of the queue.
Statused ==
    \A t \in Tid : Threads[t].active =>
       /\ Threads[t].status = "READY" <=> AP!Ready(t)
       /\ t = Thread_In_Esecuzione => Threads[t].status \in {"RUN", "DEAD"}

KInv == KType /\ AP!TypeOK /\ AP!Placed /\ Lists /\ InnerLinks /\ Statused

\* Statused is StatusFollowsQueue on the queue instead of the ring.
LEMMA StatusedRing == ring \in Ring => (Statused <=> StatusFollowsQueue)
BY HoldsContents DEF Statused, StatusFollowsQueue, AP!Ready

\* A step that keeps the links and the heads keeps the lists.
LEMMA LinksKept ==
    ASSUME Lists, InnerLinks, SameNext(Threads', Threads),
           \A s \in Sem : /\ sem'[s].Head_Thread = sem[s].Head_Thread
                          /\ sem'[s].Tail_Thread = sem[s].Tail_Thread
    PROVE  /\ \A s \in Sem : Waiters(s)' = Waiters(s)
           /\ Lists' /\ InnerLinks'
           /\ [s \in Sem |-> Waiters(s)]' = [s \in Sem |-> Waiters(s)]
<1>1. ASSUME NEW s \in Sem
      PROVE  /\ IsList(Threads', sem'[s].Head_Thread, sem'[s].Tail_Thread, Waiters(s))
             /\ Waiters(s)' = Waiters(s)
  <2>1. IsList(Threads, sem[s].Head_Thread, sem[s].Tail_Thread, Waiters(s))
    BY DEF Lists
  <2>2. KeepsNext(Threads', Threads, Waiters(s), 1, Len(Waiters(s)))
    BY <2>1 DEF SameNext, IsList, KeepsNext
  <2>3. IsList(Threads', sem'[s].Head_Thread, sem'[s].Tail_Thread, Waiters(s))
    BY <2>1, <2>2, ListKept
  <2>4. Chain(Threads', sem'[s].Head_Thread) = Waiters(s)
    BY <2>3, ChainIs
  <2>5. QED
    BY <2>3, <2>4 DEF Waiters
<1>2. Lists'
  BY <1>1 DEF Lists
<1>3. InnerLinks'
  BY <1>1 DEF InnerLinks, SameNext
<1>4. [s \in Sem |-> Waiters(s)]' = [s \in Sem |-> Waiters(s)]
  BY <1>1
<1>5. QED
  BY <1>1, <1>2, <1>3, <1>4

--------------------------------------------------------------------------------
(* The steps.                                                                  *)

\* What a non-panicking step has to establish besides the step of ThreadSched.
Kept == KType' /\ Lists' /\ InnerLinks' /\ Statused'

\* Preemption: scheduler and idle_loop.
LEMMA PreemptStep ==
    ASSUME KInv, Schedule_Next_Thread(Threads, ring, Thread_In_Esecuzione), jump_tss(inP),
           UNCHANGED <<sem, panicked>>
    PROVE  /\ AP!Schedule_Next_Thread(Contents(ring), Thread_In_Esecuzione)
           /\ AP!Resume(inP)
           /\ {t \in Tid : Threads'[t].active} = {t \in Tid : Threads[t].active}
           /\ [s \in Sem |-> sem'[s].Status] = [s \in Sem |-> sem[s].Status]
           /\ [s \in Sem |-> Waiters(s)]' = [s \in Sem |-> Waiters(s)]
           /\ Kept
<1> DEFINE cur == Thread_In_Esecuzione
<1>1. /\ Threads \in ThreadTable /\ ring \in Ring /\ cur \in Tid \cup {THREAD_INVALID}
      /\ inP \in [Tid -> Sem \cup {NoSem}]
  BY DEF KInv, KType, AP!TypeOK, AP!Sem
<1>2. /\ AP!Schedule_Next_Thread(Contents(ring), cur)
      /\ ring' \in Ring /\ Threads' \in ThreadTable /\ SameLinks(Threads', Threads)
      /\ Contents(ring) = <<>> => Threads' = Threads
      /\ Contents(ring) # <<>> /\ cur # Thread_In_Esecuzione' =>
            \A u \in Tid : Threads'[u].status = IF u = cur THEN "READY"
                                                ELSE IF u = Thread_In_Esecuzione' THEN "RUN"
                                                ELSE Threads[u].status
  BY <1>1, ScheduleStep
<1>3. /\ {t \in Tid : Threads'[t].active} = {t \in Tid : Threads[t].active}
      /\ [s \in Sem |-> Waiters(s)]' = [s \in Sem |-> Waiters(s)]
      /\ Lists' /\ InnerLinks'
  BY <1>2, LinksKept, SameLinksMeans DEF KInv
<1>4. KType'
  BY <1>2 DEF KInv, KType
<1>5. Thread_In_Esecuzione' \in Tid \cup {THREAD_INVALID}
  BY <1>1, <1>2, ContentsSeq DEF AP!Schedule_Next_Thread
<1>6. AP!Resume(inP)
  BY <1>1, <1>5, ResumeStep
<1>7. Statused'
  <2>1. CASE Contents(ring) = <<>>
    <3>1. Contents(ring)' = Contents(ring) /\ Thread_In_Esecuzione' = cur /\ Threads' = Threads
      BY <1>2, <2>1 DEF AP!Schedule_Next_Thread
    <3>2. QED
      BY <3>1 DEF KInv, Statused, AP!Ready
  <2>2. CASE Contents(ring) # <<>>
    <3>1. AP!TypeOK /\ AP!Distinct(Contents(ring)) /\ ~AP!Ready(cur)
      BY DEF KInv, AP!Placed, AP!OnePlace
    <3>2. /\ Thread_In_Esecuzione' \in Tid
          /\ AP!Ready(Thread_In_Esecuzione')
          /\ \A t \in Tid : AP!InSeq(t, Contents(ring)') <=>
                  \/ AP!Ready(t) /\ t # Thread_In_Esecuzione'
                  \/ t = cur
      BY <1>1, <1>2, <2>2, <3>1, AP!ScheduleMoves, Constants
    <3>3. \A u \in Tid : Threads'[u].status = IF u = cur THEN "READY"
                                              ELSE IF u = Thread_In_Esecuzione' THEN "RUN"
                                              ELSE Threads[u].status
      BY <1>2, <2>2, <3>1, <3>2
    <3>4. QED
      BY <1>2, <3>1, <3>2, <3>3 DEF KInv, Statused, AP!Ready, SameLinks
  <2>3. QED
    BY <2>1, <2>2
<1>8. QED
  BY <1>2, <1>3, <1>4, <1>6, <1>7 DEF Kept

\* A semaphore is taken.
LEMMA TakeStep ==
    ASSUME KInv, NEW s \in Sem, NEW left \in Nat, Take(s, left)
    PROVE  AP!Take(s, left) /\ Kept
<1>1. /\ sem[s].Status > 0 /\ sem' = [sem EXCEPT ![s].Status = left]
      /\ credit' = [credit EXCEPT ![s] = @ - 1]
      /\ UNCHANGED <<Threads, ring, Thread_In_Esecuzione, inP, panicked>>
  BY DEF Take
<1>2. /\ KType'
      /\ \A r \in Sem : /\ sem'[r].Head_Thread = sem[r].Head_Thread
                        /\ sem'[r].Tail_Thread = sem[r].Tail_Thread
      /\ [r \in Sem |-> sem'[r].Status] = [[r \in Sem |-> sem[r].Status] EXCEPT ![s] = left]
  BY <1>1 DEF KInv, KType
<1>3. SameLinks(Threads', Threads)
  BY <1>1, Zenon DEF SameLinks
<1>4. /\ {t \in Tid : Threads'[t].active} = {t \in Tid : Threads[t].active}
      /\ [r \in Sem |-> Waiters(r)]' = [r \in Sem |-> Waiters(r)]
      /\ Lists' /\ InnerLinks'
  BY <1>2, <1>3, LinksKept, SameLinksMeans DEF KInv
<1>5. Statused'
  BY <1>1 DEF KInv, Statused, AP!Ready
<1>6. AP!Take(s, left)
  BY <1>1, <1>2, <1>4 DEF AP!Take
<1>7. QED
  BY <1>2, <1>4, <1>5, <1>6 DEF Kept

\* There are n numbers from 1 to n.
LEMMA UpToIs ==
    ASSUME NEW n \in Nat
    PROVE  IsFiniteSet(1..n) /\ Cardinality(1..n) = n
<1>1. 1 \in Int /\ n \in Int /\ (IF 1 > n THEN 0 ELSE n - 1 + 1) = n
  OBVIOUS
<1>2. IsFiniteSet(1..n) /\ Cardinality(1..n) = IF 1 > n THEN 0 ELSE n - 1 + 1
  BY <1>1, FS_Interval
<1>3. QED
  BY <1>1, <1>2

\* Of the threads of a table of MAX_THREADS, those of a list without the running
\* thread are fewer.
LEMMA ListShort ==
    ASSUME NEW w \in Seq(Tid), AP!Distinct(w), NEW me \in Tid, ~AP!InSeq(me, w)
    PROVE  Len(w) < MAX_THREADS
<1> DEFINE n == Len(w)
           T == Tid \ {me}
<1>1. n \in Nat /\ w \in [1..n -> Tid]
  OBVIOUS
<1>2. w \in [1..n -> T]
  <2>1. ASSUME NEW i \in 1..n PROVE w[i] \in T
    BY <1>1 DEF AP!InSeq
  <2>2. QED
    BY <1>1, <2>1
<1>3. w \in Injection(1..n, T)
  BY <1>2 DEF Injection, IsInjective, AP!Distinct
<1>4. IsFiniteSet(Tid) /\ Cardinality(Tid) = MAX_THREADS
  <2> DEFINE m == MAX_THREADS - 1
  <2>1. MAX_THREADS \in Nat /\ MAX_THREADS > 1
    BY KernelAssumption
  <2>2. 0 \in Int /\ m \in Int /\ ~(0 > m) /\ m - 0 + 1 = MAX_THREADS
    BY <2>1
  <2> HIDE DEF m
  <2>3. IsFiniteSet(0..m) /\ Cardinality(0..m) = m - 0 + 1
    BY <2>2, FS_Interval
  <2>4. QED
    BY <2>2, <2>3 DEF Tid, m
<1>5. IsFiniteSet(T) /\ Cardinality(T) = Cardinality(Tid) - 1
  BY <1>4, FS_RemoveElement
<1>6. Cardinality(1..n) = n
  BY <1>1, UpToIs, Zenon
<1>7. Cardinality(1..n) <= Cardinality(T)
  BY <1>3, <1>5, FS_Injection
<1>8. QED
  BY <1>1, <1>4, <1>5, <1>6, <1>7, KernelAssumption

\* The threads of the lists: the running one is in none, and one is in one list only,
\* once.
LEMMA ListMembers ==
    ASSUME KInv
    PROVE  /\ Thread_In_Esecuzione \in Tid
           /\ \A s \in Sem : /\ Waiters(s) \in Seq(Tid) /\ AP!Distinct(Waiters(s))
                             /\ ~AP!InSeq(Thread_In_Esecuzione, Waiters(s))
           /\ \A s, r \in Sem : \A i \in 1..Len(Waiters(s)), j \in 1..Len(Waiters(r)) :
                 Waiters(s)[i] = Waiters(r)[j] => s = r /\ i = j
<1>1. Thread_In_Esecuzione \in Tid
  BY DEF KInv, AP!Placed, AP!SomeoneRuns
<1>2. \A s \in Sem : Waiters(s) \in Seq(Tid)
  BY DEF KInv, Lists, IsList
<1>3. \A s \in Sem : [r \in Sem |-> Waiters(r)][s] = Waiters(s)
  OBVIOUS
<1>4. \A s \in Sem : /\ AP!Distinct(Waiters(s))
                     /\ ~AP!InSeq(Thread_In_Esecuzione, Waiters(s))
                     /\ \A t \in Tid : AP!InSeq(t, Waiters(s)) =>
                           \A r \in Sem \ {s} : ~AP!InSeq(t, Waiters(r))
  BY <1>3 DEF KInv, AP!Placed, AP!OnePlace, AP!SuspendedOn, AP!Sem
<1>5. ASSUME NEW s \in Sem, NEW r \in Sem, NEW i \in 1..Len(Waiters(s)), NEW j \in 1..Len(Waiters(r)),
             Waiters(s)[i] = Waiters(r)[j]
      PROVE  s = r /\ i = j
  <2>1. Waiters(s)[i] \in Tid /\ AP!InSeq(Waiters(s)[i], Waiters(s)) /\ AP!InSeq(Waiters(s)[i], Waiters(r))
    BY <1>2, <1>5 DEF AP!InSeq
  <2>2. s = r
    BY <1>4, <2>1
  <2>3. QED
    BY <1>4, <1>5, <2>2 DEF AP!Distinct
<1>6. QED
  BY <1>1, <1>2, <1>4, <1>5

\* Linking the running thread me at the tail of the list of s.
LEMMA EnqueueLinks ==
    ASSUME KInv, NEW s \in Sem, NEW thr,
           \A u \in Tid : thr[u].next =
              IF u = Thread_In_Esecuzione THEN THREAD_INVALID
              ELSE IF sem[s].Head_Thread # THREAD_INVALID /\ u = sem[s].Tail_Thread
              THEN Thread_In_Esecuzione ELSE Threads[u].next,
           SameLinks(Threads', thr),
           sem' = [sem EXCEPT ![s].Tail_Thread = Thread_In_Esecuzione,
                              ![s].Head_Thread = IF @ = THREAD_INVALID THEN Thread_In_Esecuzione ELSE @]
    PROVE  /\ Lists' /\ InnerLinks'
           /\ \A r \in Sem : Waiters(r)' = IF r = s THEN Append(Waiters(s), Thread_In_Esecuzione)
                                           ELSE Waiters(r)
<1> DEFINE me == Thread_In_Esecuzione
           hd == sem[s].Head_Thread
           tail == sem[s].Tail_Thread
           W == Waiters(s)
<1>1. /\ me \in Tid
      /\ \A r \in Sem : /\ Waiters(r) \in Seq(Tid) /\ AP!Distinct(Waiters(r))
                        /\ ~AP!InSeq(me, Waiters(r))
      /\ \A q, r \in Sem : \A i \in 1..Len(Waiters(q)), j \in 1..Len(Waiters(r)) :
            Waiters(q)[i] = Waiters(r)[j] => q = r /\ i = j
  BY ListMembers
<1>2. IsList(Threads, hd, tail, W) /\ W \in Seq(Tid) /\ Len(W) \in Nat
  BY DEF KInv, Lists, IsList
<1>3. (hd = THREAD_INVALID <=> W = <<>>) /\ (W # <<>> => tail = W[Len(W)] /\ Len(W) \in 1..Len(W))
  BY <1>2, KernelAssumption DEF IsList, THREAD_INVALID, Tid
<1>4. \A r \in Sem : \A i \in 1..Len(Waiters(r)) : Waiters(r)[i] \in Tid /\ Waiters(r)[i] # me
  BY <1>1 DEF AP!InSeq
<1>5. \A u \in Tid : Threads'[u].next = IF u = me THEN THREAD_INVALID
                                        ELSE IF hd # THREAD_INVALID /\ u = tail THEN me
                                        ELSE Threads[u].next
  BY DEF SameLinks
<1>6. /\ sem'[s].Tail_Thread = me
      /\ sem'[s].Head_Thread = (IF hd = THREAD_INVALID THEN me ELSE hd)
      /\ \A r \in Sem \ {s} : sem'[r] = sem[r]
  BY DEF KInv, KType
<1>7. IsList(Threads', sem'[s].Head_Thread, sem'[s].Tail_Thread, Append(W, me))
  <2>1. Len(W) < MAX_THREADS
    BY <1>1, ListShort
  <2>2. ASSUME NEW i \in 1 .. Len(W) - 1 PROVE Threads'[W[i]].next = Threads[W[i]].next
    <3>1. i \in 1 .. Len(W) /\ i # Len(W) /\ W # <<>>
      BY <1>2
    <3>2. W[i] # tail /\ W[i] # me /\ W[i] \in Tid
      BY <1>1, <1>3, <1>4, <3>1
    <3>3. QED
      BY <1>5, <3>2
  <2>3. ASSUME W # <<>> PROVE Threads'[tail].next = me
    BY <1>3, <1>4, <1>5, <2>3
  <2>4. Threads'[me].next = THREAD_INVALID
    BY <1>1, <1>5
  <2> HIDE DEF me, hd, tail, W
  <2>5. IsList(Threads', sem'[s].Head_Thread, me, Append(W, me))
    <3>1. KeepsNext(Threads', Threads, W, 1, Len(W) - 1)
      BY <2>2 DEF KeepsNext
    <3> DEFINE h2 == sem'[s].Head_Thread
    <3>2. /\ IsList(Threads, hd, tail, W) /\ me \in Tid /\ h2 = (IF hd = THREAD_INVALID THEN me ELSE hd)
          /\ W # <<>> => Threads'[tail].next = me
      BY <1>1, <1>2, <1>6, <2>3
    <3> HIDE DEF h2
    <3>3. IsList(Threads', h2, me, Append(W, me))
      BY <2>1, <2>4, <3>1, <3>2, ListAppend
    <3>4. QED
      BY <3>3 DEF h2
  <2>6. QED
    BY <1>6, <2>5
<1>8. ASSUME NEW r \in Sem, r # s
      PROVE  IsList(Threads', sem'[r].Head_Thread, sem'[r].Tail_Thread, Waiters(r))
  <2>1. IsList(Threads, sem[r].Head_Thread, sem[r].Tail_Thread, Waiters(r))
    BY DEF KInv, Lists
  <2>2. ASSUME NEW i \in 1 .. Len(Waiters(r)) PROVE Threads'[Waiters(r)[i]].next = Threads[Waiters(r)[i]].next
    <3>1. Waiters(r)[i] # me /\ Waiters(r)[i] \in Tid
      BY <1>4
    <3>2. hd # THREAD_INVALID => Waiters(r)[i] # tail
      BY <1>1, <1>3, <1>8
    <3>3. QED
      BY <1>5, <3>1, <3>2
  <2>3. IsList(Threads', sem[r].Head_Thread, sem[r].Tail_Thread, Waiters(r))
    <3>1. KeepsNext(Threads', Threads, Waiters(r), 1, Len(Waiters(r)))
      BY <2>2 DEF KeepsNext
    <3>2. QED
      BY <2>1, <3>1, ListKept
  <2>4. QED
    BY <1>6, <1>8, <2>3
<1>9. Waiters(s)' = Append(W, me)
  <2>1. Chain(Threads', sem'[s].Head_Thread) = Append(W, me)
    BY <1>7, ChainIs
  <2> HIDE DEF W, me
  <2>2. QED
    BY <2>1 DEF Waiters
<1>10. \A r \in Sem \ {s} : Waiters(r)' = Waiters(r)
  <2>1. ASSUME NEW r \in Sem, r # s PROVE Waiters(r)' = Waiters(r)
    <3>1. IsList(Threads', sem'[r].Head_Thread, sem'[r].Tail_Thread, Waiters(r))
      BY <1>8, <2>1
    <3>2. Chain(Threads', sem'[r].Head_Thread) = Waiters(r)
      BY <3>1, ChainIs
    <3>3. QED
      BY <3>2 DEF Waiters
  <2>2. QED
    BY <2>1
<1>11. Lists'
  <2>1. ASSUME NEW r \in Sem
        PROVE  IsList(Threads', sem'[r].Head_Thread, sem'[r].Tail_Thread, Waiters(r)')
    BY <1>7, <1>8, <1>9, <1>10
  <2>2. QED
    BY <2>1 DEF Lists
<1>12. InnerLinks'
  <2>1. ASSUME NEW t \in Tid, Threads'[t].next # THREAD_INVALID
        PROVE  \E r \in Sem : \E i \in 1..Len(Waiters(r)') - 1 : Waiters(r)'[i] = t
    <3>1. Len(Append(W, me)) = Len(W) + 1 /\ \A i \in 1 .. Len(W) : Append(W, me)[i] = W[i]
      BY <1>1, <1>2
    <3>2. CASE hd # THREAD_INVALID /\ t = tail
      <4>1. Len(W) \in 1..Len(Waiters(s)') - 1 /\ Waiters(s)'[Len(W)] = t
        BY <1>2, <1>3, <1>9, <3>1, <3>2
      <4>2. QED
        BY <4>1
    <3>3. CASE ~(hd # THREAD_INVALID /\ t = tail)
      <4>1. Threads[t].next # THREAD_INVALID
        BY <1>5, <2>1, <3>3
      <4> PICK r \in Sem : \E i \in 1..Len(Waiters(r)) - 1 : Waiters(r)[i] = t
        BY <4>1 DEF KInv, InnerLinks
      <4>2. PICK i \in 1..Len(Waiters(r)) - 1 : Waiters(r)[i] = t
        OBVIOUS
      <4>3. CASE r = s
        <5>1. i \in 1..Len(Waiters(s)') - 1 /\ Waiters(s)'[i] = t
          BY <1>2, <1>9, <3>1, <4>2, <4>3
        <5>2. QED
          BY <5>1
      <4>4. CASE r # s
        BY <1>10, <4>2, <4>4
      <4>5. QED
        BY <4>3, <4>4
    <3>4. QED
      BY <3>2, <3>3
  <2>2. QED
    BY <2>1 DEF InnerLinks
<1>13. QED
  BY <1>9, <1>10, <1>11, <1>12

\* The table with me linked at the tail of a list from hd to tail.
Linked(thr, hd, tail, me) ==
    [(IF hd = THREAD_INVALID THEN thr ELSE [thr EXCEPT ![tail].next = me])
        EXCEPT ![me].next = THREAD_INVALID]

\* It has the active threads and the statuses of thr.
LEMMA LinkedFields ==
    ASSUME NEW thr \in ThreadTable, NEW hd, NEW tail \in Tid \cup {THREAD_INVALID}, NEW me \in Tid,
           hd # THREAD_INVALID => tail \in Tid
    PROVE  /\ Linked(thr, hd, tail, me) \in ThreadTable
           /\ \A u \in Tid : /\ Linked(thr, hd, tail, me)[u].active <=> thr[u].active
                             /\ Linked(thr, hd, tail, me)[u].status = thr[u].status
                             /\ Linked(thr, hd, tail, me)[u].next =
                                  IF u = me THEN THREAD_INVALID
                                  ELSE IF hd # THREAD_INVALID /\ u = tail THEN me ELSE thr[u].next
<1> DEFINE mid == IF hd = THREAD_INVALID THEN thr ELSE [thr EXCEPT ![tail].next = me]
           new == Linked(thr, hd, tail, me)
<1>1. mid \in ThreadTable
  BY DEF ThreadTable
<1>2. \A u \in Tid : /\ mid[u].status = thr[u].status
                     /\ mid[u].next = IF hd # THREAD_INVALID /\ u = tail THEN me ELSE thr[u].next
  BY DEF ThreadTable
<1>3. \A u \in Tid : mid[u].active <=> thr[u].active
  <2>1. CASE hd = THREAD_INVALID
    BY <2>1
  <2>2. CASE hd # THREAD_INVALID
    <3>1. mid = [thr EXCEPT ![tail].next = me]
      BY <2>2
    <3>2. QED
      BY <3>1, Zenon DEF ThreadTable
  <2>3. QED
    BY <2>1, <2>2
<1>4. new = [mid EXCEPT ![me].next = THREAD_INVALID]
  BY DEF Linked
<1> HIDE DEF mid, new
<1>5. new \in ThreadTable
  BY <1>1, <1>4 DEF ThreadTable
<1>6. \A u \in Tid : /\ new[u].status = mid[u].status
                     /\ new[u].next = IF u = me THEN THREAD_INVALID ELSE mid[u].next
  BY <1>1, <1>4 DEF ThreadTable
<1>7. \A u \in Tid : new[u].active <=> mid[u].active
  BY <1>1, <1>4, Zenon DEF ThreadTable
<1>8. QED
  BY <1>2, <1>3, <1>5, <1>6, <1>7 DEF new

\* The caller of P suspends itself.
LEMMA SuspendStep ==
    ASSUME KInv, Syscall, NEW s \in Sem, Suspend(s)
    PROVE  AP!Suspend(s) /\ Kept
<1> DEFINE me == Thread_In_Esecuzione
           thr == Linked(Threads, sem[s].Head_Thread, sem[s].Tail_Thread, me)
           ctx == [inP EXCEPT ![me] = s]
<1>1. /\ Threads \in ThreadTable /\ ring \in Ring /\ me \in Tid /\ me # kernel_thread
      /\ ctx \in [Tid -> Sem \cup {NoSem}]
  BY ListMembers DEF KInv, KType, AP!TypeOK, AP!Sem, Syscall
<1>2. /\ sem[s].Status = 0 /\ UNCHANGED panicked
      /\ sem' = [sem EXCEPT ![s].Tail_Thread = me,
                            ![s].Head_Thread = IF @ = THREAD_INVALID THEN me ELSE @]
      /\ Schedule_Next_Thread(thr, ring, THREAD_INVALID)
      /\ jump_tss(ctx)
  BY DEF Suspend, Linked
<1>3. sem[s].Tail_Thread \in Tid \cup {THREAD_INVALID}
      /\ (sem[s].Head_Thread # THREAD_INVALID => sem[s].Tail_Thread \in Tid)
  <2>1. IsList(Threads, sem[s].Head_Thread, sem[s].Tail_Thread, Waiters(s))
    BY DEF KInv, Lists
  <2>2. Waiters(s) # <<>> => Waiters(s)[Len(Waiters(s))] \in Tid
    BY <2>1 DEF IsList
  <2>3. QED
    BY <2>1, <2>2 DEF IsList
<1>4. /\ thr \in ThreadTable
      /\ \A u \in Tid : /\ thr[u].active <=> Threads[u].active
                        /\ thr[u].status = Threads[u].status
                        /\ thr[u].next = IF u = me THEN THREAD_INVALID
                                         ELSE IF sem[s].Head_Thread # THREAD_INVALID /\ u = sem[s].Tail_Thread
                                         THEN me ELSE Threads[u].next
  BY <1>1, <1>3, LinkedFields
<1> HIDE DEF thr, ctx
<1>5. /\ AP!Schedule_Next_Thread(Contents(ring), THREAD_INVALID)
      /\ ring' \in Ring /\ Threads' \in ThreadTable /\ SameLinks(Threads', thr)
      /\ Contents(ring) # <<>> /\ THREAD_INVALID # Thread_In_Esecuzione' =>
            \A u \in Tid : Threads'[u].status = IF u = THREAD_INVALID THEN "READY"
                                                ELSE IF u = Thread_In_Esecuzione' THEN "RUN"
                                                ELSE thr[u].status
  BY <1>1, <1>2, <1>4, ScheduleStep
<1>6. /\ Lists' /\ InnerLinks'
      /\ \A r \in Sem : Waiters(r)' = IF r = s THEN Append(Waiters(s), me) ELSE Waiters(r)
  BY <1>2, <1>4, <1>5, EnqueueLinks
<1>7. KType'
  BY <1>1, <1>2, <1>5 DEF KInv, KType
<1>8. [r \in Sem |-> sem'[r].Status] = [r \in Sem |-> sem[r].Status]
  BY <1>2 DEF KInv, KType
<1>9. {t \in Tid : Threads'[t].active} = {t \in Tid : Threads[t].active}
  BY <1>4, <1>5 DEF SameLinks
<1>10. [r \in Sem |-> Waiters(r)]' = [[r \in Sem |-> Waiters(r)] EXCEPT ![s] = Append(Waiters(s), me)]
  BY <1>6
<1>11. /\ AP!TypeOK /\ AP!Distinct(Contents(ring)) /\ ~AP!Ready(THREAD_INVALID)
       /\ ~AP!Ready(me) /\ Contents(ring) # <<>>
  <2>1. AP!TypeOK /\ AP!OnePlace /\ AP!SomeoneRuns
    BY DEF KInv, AP!Placed
  <2>2. ~AP!Ready(THREAD_INVALID) /\ ~AP!Ready(me)
    BY <2>1, AP!NotReady, Constants
  <2>3. Contents(ring) # <<>>
    BY <1>1, <2>1, AP!SomeoneReady, Constants
  <2>4. QED
    BY <2>1, <2>2, <2>3 DEF AP!OnePlace
<1>12. /\ Thread_In_Esecuzione' \in Tid
       /\ AP!Ready(Thread_In_Esecuzione')
       /\ \A t \in Tid : AP!InSeq(t, Contents(ring)') <=>
               \/ AP!Ready(t) /\ t # Thread_In_Esecuzione'
               \/ t = THREAD_INVALID
  BY <1>5, <1>11, AP!ScheduleMoves, Constants
<1>13. AP!Resume(ctx)
  BY <1>1, <1>2, <1>12, ResumeStep
<1>14. AP!Suspend(s)
  BY <1>2, <1>5, <1>8, <1>9, <1>10, <1>13 DEF AP!Suspend, ctx
<1>15. Statused'
  <2>1. THREAD_INVALID \notin Tid
    BY DEF Tid, THREAD_INVALID
  <2>2. \A u \in Tid : Threads'[u].status = IF u = Thread_In_Esecuzione' THEN "RUN" ELSE Threads[u].status
    BY <1>4, <1>5, <1>11, <1>12, <2>1
  <2>3. \A u \in Tid : Threads'[u].active <=> Threads[u].active
    BY <1>4, <1>5 DEF SameLinks
  <2>4. QED
    BY <1>12, <2>1, <2>2, <2>3 DEF KInv, Statused, AP!Ready
<1>16. QED
  BY <1>6, <1>7, <1>14, <1>15 DEF Kept

\* Unlinking the first thread of the list of s.
LEMMA DequeueLinks ==
    ASSUME KInv, NEW s \in Sem, Waiters(s) # <<>>, NEW thr,
           \A u \in Tid : thr[u].next =
              IF u = sem[s].Head_Thread THEN THREAD_INVALID ELSE Threads[u].next,
           SameLinks(Threads', thr),
           NEW rest, rest = Threads[sem[s].Head_Thread].next,
           sem' = [sem EXCEPT ![s].Head_Thread = rest,
                              ![s].Tail_Thread = IF rest = THREAD_INVALID THEN THREAD_INVALID ELSE @]
    PROVE  /\ Lists' /\ InnerLinks'
           /\ \A r \in Sem : Waiters(r)' = IF r = s THEN Tail(Waiters(s)) ELSE Waiters(r)
<1> DEFINE hd == sem[s].Head_Thread
           tail == sem[s].Tail_Thread
           W == Waiters(s)
<1>1. /\ \A r \in Sem : Waiters(r) \in Seq(Tid)
      /\ \A q, r \in Sem : \A i \in 1..Len(Waiters(q)), j \in 1..Len(Waiters(r)) :
            Waiters(q)[i] = Waiters(r)[j] => q = r /\ i = j
  BY ListMembers
<1>2. /\ IsList(Threads, hd, tail, W) /\ W \in Seq(Tid) /\ W # <<>> /\ Len(W) \in Nat \ {0}
      /\ hd = W[1] /\ 1 \in 1..Len(W)
  BY DEF KInv, Lists, IsList
<1>3. \A u \in Tid : Threads'[u].next = IF u = hd THEN THREAD_INVALID ELSE Threads[u].next
  BY DEF SameLinks
<1>4. /\ sem'[s].Head_Thread = rest
      /\ sem'[s].Tail_Thread = (IF rest = THREAD_INVALID THEN THREAD_INVALID ELSE tail)
      /\ \A r \in Sem \ {s} : sem'[r] = sem[r]
  BY DEF KInv, KType
<1>5. IsList(Threads', sem'[s].Head_Thread, sem'[s].Tail_Thread, Tail(W))
  <2>1. ASSUME NEW i \in 2 .. Len(W) PROVE Threads'[W[i]].next = Threads[W[i]].next
    <3>1. i \in 1 .. Len(W) /\ i # 1
      BY <1>2
    <3>2. W[i] # hd /\ W[i] \in Tid
      BY <1>1, <1>2, <3>1
    <3>3. QED
      BY <1>3, <3>2
  <2>2. KeepsNext(Threads', Threads, W, 2, Len(W))
    BY <2>1 DEF KeepsNext
  <2> DEFINE h2 == sem'[s].Head_Thread
             t2 == sem'[s].Tail_Thread
  <2>3. h2 = Threads[hd].next /\ t2 = (IF h2 = THREAD_INVALID THEN THREAD_INVALID ELSE tail)
    BY <1>4
  <2> HIDE DEF h2, t2, hd, tail, W
  <2>4. IsList(Threads', h2, t2, Tail(W))
    BY <1>2, <2>2, <2>3, ListTail
  <2>5. QED
    BY <2>4 DEF h2, t2
<1>6. ASSUME NEW r \in Sem, r # s
      PROVE  IsList(Threads', sem'[r].Head_Thread, sem'[r].Tail_Thread, Waiters(r))
  <2>1. IsList(Threads, sem[r].Head_Thread, sem[r].Tail_Thread, Waiters(r))
    BY DEF KInv, Lists
  <2>2. ASSUME NEW i \in 1 .. Len(Waiters(r)) PROVE Threads'[Waiters(r)[i]].next = Threads[Waiters(r)[i]].next
    <3>1. Waiters(r)[i] \in Tid
      BY <1>1
    <3>2. Waiters(r)[i] # hd
      <4>1. 1 \in 1..Len(Waiters(s)) /\ hd = Waiters(s)[1]
        BY <1>2
      <4>2. Waiters(r)[i] = Waiters(s)[1] => r = s
        BY <1>1, <4>1
      <4>3. QED
        BY <1>6, <4>1, <4>2
    <3>3. QED
      BY <1>3, <3>1, <3>2
  <2>3. KeepsNext(Threads', Threads, Waiters(r), 1, Len(Waiters(r)))
    BY <2>2 DEF KeepsNext
  <2>4. IsList(Threads', sem[r].Head_Thread, sem[r].Tail_Thread, Waiters(r))
    BY <2>1, <2>3, ListKept
  <2>5. QED
    BY <1>4, <1>6, <2>4
<1>7. Waiters(s)' = Tail(W)
  <2>1. Chain(Threads', sem'[s].Head_Thread) = Tail(W)
    BY <1>5, ChainIs
  <2> HIDE DEF W
  <2>2. QED
    BY <2>1 DEF Waiters
<1>8. \A r \in Sem \ {s} : Waiters(r)' = Waiters(r)
  <2>1. ASSUME NEW r \in Sem, r # s PROVE Waiters(r)' = Waiters(r)
    <3>1. IsList(Threads', sem'[r].Head_Thread, sem'[r].Tail_Thread, Waiters(r))
      BY <1>6, <2>1
    <3>2. Chain(Threads', sem'[r].Head_Thread) = Waiters(r)
      BY <3>1, ChainIs
    <3>3. QED
      BY <3>2 DEF Waiters
  <2>2. QED
    BY <2>1
<1>9. Lists'
  <2>1. ASSUME NEW r \in Sem
        PROVE  IsList(Threads', sem'[r].Head_Thread, sem'[r].Tail_Thread, Waiters(r)')
    BY <1>5, <1>6, <1>7, <1>8
  <2>2. QED
    BY <2>1 DEF Lists
<1>10. InnerLinks'
  <2>1. ASSUME NEW t \in Tid, Threads'[t].next # THREAD_INVALID
        PROVE  \E r \in Sem : \E i \in 1..Len(Waiters(r)') - 1 : Waiters(r)'[i] = t
    <3>1. Len(Tail(W)) = Len(W) - 1 /\ \A i \in 1 .. Len(W) - 1 : Tail(W)[i] = W[i + 1]
      BY <1>2
    <3>2. t # hd /\ Threads[t].next # THREAD_INVALID
      BY <1>3, <2>1
    <3> PICK r \in Sem : \E i \in 1..Len(Waiters(r)) - 1 : Waiters(r)[i] = t
      BY <3>2 DEF KInv, InnerLinks
    <3>3. PICK i \in 1..Len(Waiters(r)) - 1 : Waiters(r)[i] = t
      OBVIOUS
    <3>4. CASE r = s
      <4>1. i # 1 /\ i - 1 \in 1 .. Len(W) - 1 /\ (i - 1) + 1 = i /\ i - 1 \in 1 .. (Len(W) - 1) - 1
        BY <1>2, <3>2, <3>3, <3>4
      <4>2. i - 1 \in 1..Len(Waiters(s)') - 1 /\ Waiters(s)'[i - 1] = t
        BY <1>7, <3>1, <3>3, <3>4, <4>1
      <4>3. QED
        BY <4>2
    <3>5. CASE r # s
      BY <1>8, <3>3, <3>5
    <3>6. QED
      BY <3>4, <3>5
  <2>2. QED
    BY <2>1 DEF InnerLinks
<1>11. QED
  BY <1>7, <1>8, <1>9, <1>10

\* V and the interrupt handlers.
LEMMA ReleaseStep ==
    ASSUME KInv, NEW s \in Sem, NEW v \in Nat, Release(s, v), ~panicked'
    PROVE  AP!Release(s, v) /\ Kept
<1> DEFINE hd == sem[s].Head_Thread
           rest == Threads[hd].next
           W == Waiters(s)
<1>1. /\ Threads \in ThreadTable /\ ring \in Ring /\ panicked \in BOOLEAN
      /\ UNCHANGED <<Thread_In_Esecuzione, inP>>
  BY DEF KInv, KType, AP!TypeOK, Release
<1>2. IsList(Threads, hd, sem[s].Tail_Thread, W) /\ W \in Seq(Tid)
  BY DEF KInv, Lists, IsList
<1>3. (hd = THREAD_INVALID <=> W = <<>>) /\ (W # <<>> => hd = Head(W) /\ hd \in Tid /\ AP!InSeq(hd, W))
  <2>1. W # <<>> => W[1] \in Tid /\ Head(W) = W[1] /\ 1 \in 1..Len(W)
    BY <1>2
  <2>2. QED
    BY <1>2, <2>1, KernelAssumption DEF IsList, THREAD_INVALID, Tid, AP!InSeq
<1>4. [r \in Sem |-> Waiters(r)][s] = W /\ [r \in Sem |-> sem[r].Status][s] = sem[s].Status
  OBVIOUS
<1>5. CASE hd = THREAD_INVALID
  <2>1. /\ sem' = [sem EXCEPT ![s].Status = v]
        /\ credit' = [credit EXCEPT ![s] = @ + v - sem[s].Status]
        /\ UNCHANGED <<Threads, ring>>
    BY <1>5 DEF Release
  <2>2. panicked' = panicked
    BY <1>5, Zenon DEF Release
  <2>3. /\ KType'
        /\ \A r \in Sem : /\ sem'[r].Head_Thread = sem[r].Head_Thread
                          /\ sem'[r].Tail_Thread = sem[r].Tail_Thread
        /\ [r \in Sem |-> sem'[r].Status] = [[r \in Sem |-> sem[r].Status] EXCEPT ![s] = v]
    BY <2>1 DEF KInv, KType
  <2>4. SameLinks(Threads', Threads)
    BY <2>1, Zenon DEF SameLinks
  <2>5. /\ {t \in Tid : Threads'[t].active} = {t \in Tid : Threads[t].active}
        /\ [r \in Sem |-> Waiters(r)]' = [r \in Sem |-> Waiters(r)]
        /\ Lists' /\ InnerLinks'
    BY <2>3, <2>4, LinksKept, SameLinksMeans DEF KInv
  <2>6. Statused'
    BY <1>1, <2>1 DEF KInv, Statused, AP!Ready
  <2>7. AP!Release(s, v)
    BY <1>1, <1>3, <1>4, <1>5, <2>1, <2>2, <2>3, <2>5 DEF AP!Release
  <2>8. QED
    BY <2>3, <2>5, <2>6, <2>7 DEF Kept
<1>6. CASE hd # THREAD_INVALID
  <2> DEFINE thr == [Threads EXCEPT ![hd].next = THREAD_INVALID]
  <2>1. W # <<>> /\ hd = Head(W) /\ hd \in Tid /\ AP!InSeq(hd, W)
    BY <1>3, <1>6
  <2> PICK x \in Tid : x = hd
    BY <2>1
  <2>2. /\ Add_Thread_To_CodaPronti(thr, x)
        /\ credit' = [credit EXCEPT ![s] = @ + 1]
    <3>1. /\ Add_Thread_To_CodaPronti(thr, hd)
          /\ credit' = [credit EXCEPT ![s] = @ + 1]
      BY <1>6 DEF Release
    <3> HIDE DEF thr, hd
    <3>2. QED
      BY <3>1, Zenon DEF Add_Thread_To_CodaPronti
  <2>3. sem' = [sem EXCEPT ![s].Head_Thread = rest,
                           ![s].Tail_Thread = IF rest = THREAD_INVALID THEN THREAD_INVALID ELSE @]
    BY <1>6 DEF Release
  <2>4. thr \in ThreadTable
    BY <1>1, <2>1 DEF ThreadTable
  <2>5. \A u \in Tid : thr[u].status = Threads[u].status
                       /\ thr[u].next = IF u = hd THEN THREAD_INVALID ELSE Threads[u].next
    BY <1>1, <2>1 DEF ThreadTable
  <2>6. \A u \in Tid : thr[u].active <=> Threads[u].active
    BY <1>1, <2>1, Zenon DEF ThreadTable
  <2> HIDE DEF thr
  <2>7. /\ AP!Add_Thread_To_CodaPronti(x)
        /\ ring' \in Ring /\ Threads' \in ThreadTable /\ SameLinks(Threads', thr)
        /\ ~panicked' => \A u \in Tid : Threads'[u].status = IF u = x THEN "READY" ELSE thr[u].status
    BY <1>1, <2>2, <2>4, AddStep
  <2>8. /\ Lists' /\ InnerLinks'
        /\ \A r \in Sem : Waiters(r)' = IF r = s THEN Tail(W) ELSE Waiters(r)
    <3> HIDE DEF rest
    <3>1. rest = Threads[sem[s].Head_Thread].next
      BY DEF rest
    <3>2. QED
      BY <2>1, <2>3, <2>5, <2>7, <3>1, DequeueLinks
  <2>9. [r \in Sem |-> Waiters(r)]' = [[r \in Sem |-> Waiters(r)] EXCEPT ![s] = Tail(W)]
    BY <2>8
  <2>10. rest \in Tid \cup {THREAD_INVALID}
    BY <1>1, <2>1 DEF ThreadTable
  <2>11. KType' /\ [r \in Sem |-> sem'[r].Status] = [r \in Sem |-> sem[r].Status]
    <3> HIDE DEF rest
    <3>1. QED
      BY <2>3, <2>7, <2>10 DEF KInv, KType
  <2>12. {t \in Tid : Threads'[t].active} = {t \in Tid : Threads[t].active}
    BY <2>6, <2>7 DEF SameLinks
  <2>13. AP!Release(s, v)
    <3> DEFINE Q == [r \in Sem |-> Waiters(r)]
    <3>1. Q' = IF panicked' THEN Q ELSE [Q EXCEPT ![s] = Tail(@)]
      <4>1. Q' = [Q EXCEPT ![s] = Tail(@)]
        BY <1>4, <2>9
      <4>2. QED
        BY <4>1, Zenon
    <3>2. Q[s] # <<>> /\ Head(Q[s]) = hd
      BY <1>4, <2>1
    <3>3. AP!Add_Thread_To_CodaPronti(Head(Q[s]))
      <4> HIDE DEF hd, Q
      <4>1. Head(Q[s]) = x
        BY <3>2
      <4>2. QED
        BY <2>7, <4>1, Zenon DEF AP!Add_Thread_To_CodaPronti
    <3>4. UNCHANGED <<{t \in Tid : Threads[t].active}, [r \in Sem |-> sem[r].Status]>>
      BY <2>11, <2>12
    <3>5. UNCHANGED <<Thread_In_Esecuzione, inP>>
      BY <1>1
    <3>6. credit' = [credit EXCEPT ![s] = @ + 1]
      BY <2>2
    <3>7. IF Q[s] = <<>>
          THEN /\ [r \in Sem |-> sem[r].Status]' = [[r \in Sem |-> sem[r].Status] EXCEPT ![s] = v]
               /\ credit' = [credit EXCEPT ![s] = @ + v - [r \in Sem |-> sem[r].Status][s]]
               /\ UNCHANGED <<{t \in Tid : Threads[t].active}, Contents(ring), Q, panicked>>
          ELSE /\ UNCHANGED <<{t \in Tid : Threads[t].active}, [r \in Sem |-> sem[r].Status]>>
               /\ AP!Add_Thread_To_CodaPronti(Head(Q[s]))
               /\ Q' = IF panicked' THEN Q ELSE [Q EXCEPT ![s] = Tail(@)]
               /\ credit' = [credit EXCEPT ![s] = @ + 1]
      <4> HIDE DEF Q
      <4>1. QED
        BY <3>1, <3>2, <3>3, <3>4, <3>6, Zenon
    <3>8. QED
      BY <3>5, <3>7, Zenon DEF AP!Release, AP!Add_Thread_To_CodaPronti
  <2>14. Statused'
    <3>1. /\ AP!TypeOK /\ AP!Distinct(Contents(ring)) /\ ~AP!Ready(hd) /\ hd # Thread_In_Esecuzione
      BY <1>4, <2>1, ListMembers DEF KInv, AP!Placed, AP!OnePlace, AP!SuspendedOn, AP!Sem
    <3>2. \A t \in Tid : AP!InSeq(t, Contents(ring)') <=> (AP!Ready(t) \/ t = x)
      <4> HIDE DEF hd
      <4>1. ~AP!Ready(x)
        BY <3>1
      <4>2. QED
        BY <2>7, <3>1, <4>1, AP!AddMoves, Constants
    <3>3. \A u \in Tid : Threads'[u].status = IF u = hd THEN "READY" ELSE Threads[u].status
      BY <2>5, <2>7
    <3>4. \A u \in Tid : Threads'[u].active <=> Threads[u].active
      BY <2>6, <2>7 DEF SameLinks
    <3>5. QED
      BY <1>1, <3>1, <3>2, <3>3, <3>4 DEF KInv, Statused, AP!Ready
  <2>15. QED
    BY <2>8, <2>11, <2>13, <2>14 DEF Kept
<1>7. QED
  BY <1>5, <1>6

\* Get_Free_Thread_Slot finds a free slot if there is one.
LEMMA FreeSlot ==
    ASSUME \E t \in Tid : ~Threads[t].active
    PROVE  FirstFree \in Tid /\ ~Threads[FirstFree].active
<1> DEFINE Free == {t \in Tid : ~Threads[t].active}
<1>1. Free \in SUBSET Nat /\ Free # {}
  BY KernelAssumption DEF Tid
<1>2. PICK x \in Free : \A y \in Free : x <= y
  BY <1>1, LeastExists
<1>3. \A u \in 0..x - 1 : Threads[u].active
  BY <1>2, KernelAssumption DEF Tid
<1>4. \E t \in Tid : ~Threads[t].active /\ \A u \in 0..t - 1 : Threads[u].active
  BY <1>2, <1>3
<1>5. QED
  BY <1>4, Zenon DEF FirstFree

\* A thread is created in the first free slot.
LEMMA CreateStep ==
    ASSUME KInv, Create_Thread, ~panicked'
    PROVE  AP!Create_Thread /\ Kept
<1> DEFINE thr == [Threads EXCEPT ![FirstFree].active = TRUE]
<1>1. FirstFree \in Tid /\ ~Threads[FirstFree].active
  BY FreeSlot DEF Create_Thread
<1>2. PICK x \in Tid : x = FirstFree
  BY <1>1
<1>3. /\ Syscall /\ UNCHANGED <<Thread_In_Esecuzione, sem, inP, credit>>
      /\ Add_Thread_To_CodaPronti(thr, FirstFree)
  BY DEF Create_Thread
<1>4. thr = [Threads EXCEPT ![x].active = TRUE]
  BY <1>2
<1>5. /\ Threads \in ThreadTable /\ ring \in Ring
  BY DEF KInv, KType
<1> HIDE DEF thr
<1>6. Add_Thread_To_CodaPronti(thr, x)
  BY <1>2, <1>3, Zenon DEF Add_Thread_To_CodaPronti
<1>7. thr \in ThreadTable /\ \A u \in Tid : thr[u].status = Threads[u].status /\ thr[u].next = Threads[u].next
  BY <1>4, <1>5 DEF ThreadTable
<1>8. \A u \in Tid : thr[u].active <=> (u = x \/ Threads[u].active)
  <2>1. thr[x].active
    BY <1>4, <1>5, Zenon DEF ThreadTable
  <2>2. \A u \in Tid : u # x => thr[u] = Threads[u]
    BY <1>4, <1>5 DEF ThreadTable
  <2>3. QED
    BY <2>1, <2>2
<1>9. /\ AP!Add_Thread_To_CodaPronti(x)
      /\ ring' \in Ring /\ Threads' \in ThreadTable /\ SameLinks(Threads', thr)
      /\ ~panicked' => \A u \in Tid : Threads'[u].status = IF u = x THEN "READY" ELSE thr[u].status
  BY <1>5, <1>6, <1>7, AddStep
<1>10. KType'
  BY <1>3, <1>9 DEF KInv, KType
<1>11. SameNext(Threads', Threads)
  BY <1>7, <1>9 DEF SameNext, SameLinks
<1>12. /\ [r \in Sem |-> Waiters(r)]' = [r \in Sem |-> Waiters(r)]
       /\ Lists' /\ InnerLinks'
  <2>1. \A s \in Sem : /\ sem'[s].Head_Thread = sem[s].Head_Thread
                       /\ sem'[s].Tail_Thread = sem[s].Tail_Thread
    BY <1>3
  <2>2. QED
    BY <1>11, <2>1, LinksKept DEF KInv
<1>13. \A u \in Tid : Threads'[u].active <=> (u = x \/ Threads[u].active)
  BY <1>8, <1>9 DEF SameLinks
<1>14. /\ x \in Tid \ {t \in Tid : Threads[t].active}
       /\ {t \in Tid : Threads'[t].active} = {t \in Tid : Threads[t].active} \cup {x}
  BY <1>1, <1>2, <1>13
<1>15. AP!Create_Thread
  <2>1. AP!SystemCall
    BY <1>3, ListMembers DEF AP!SystemCall, Syscall
  <2>2. UNCHANGED [r \in Sem |-> sem[r].Status]
    BY <1>3
  <2>3. QED
    BY <1>3, <1>9, <1>12, <1>14, <2>1, <2>2 DEF AP!Create_Thread
<1>16. Statused'
  <2>1. /\ AP!TypeOK /\ AP!Distinct(Contents(ring)) /\ ~AP!Ready(x) /\ x # Thread_In_Esecuzione
    BY <1>14, <1>2 DEF KInv, AP!Placed, AP!OnePlace, AP!NoThreadLost
  <2>2. \A t \in Tid : AP!InSeq(t, Contents(ring)') <=> (AP!Ready(t) \/ t = x)
    BY <1>9, <2>1, AP!AddMoves, Constants
  <2>3. \A u \in Tid : Threads'[u].status = IF u = x THEN "READY" ELSE Threads[u].status
    BY <1>7, <1>9
  <2>4. QED
    BY <1>3, <1>13, <2>1, <2>2, <2>3 DEF KInv, Statused, AP!Ready
<1>17. QED
  BY <1>10, <1>12, <1>15, <1>16 DEF Kept

\* The running thread exits.  It is not in the ring.
LEMMA ExitStep ==
    ASSUME KInv, Exit_Thread
    PROVE  AP!Exit_Thread /\ Kept
<1> DEFINE me == Thread_In_Esecuzione
           thr == [Threads EXCEPT ![me].active = FALSE, ![me].status = Threads[me].status]
<1>1. /\ Threads \in ThreadTable /\ ring \in Ring /\ me \in Tid /\ me # kernel_thread
      /\ inP \in [Tid -> Sem \cup {NoSem}] /\ Syscall /\ UNCHANGED <<sem, panicked>>
      /\ jump_tss(inP)
  BY ListMembers DEF KInv, KType, AP!TypeOK, AP!Sem, Exit_Thread, Syscall
<1>2. /\ AP!TypeOK /\ AP!Distinct(Contents(ring)) /\ ~AP!Ready(THREAD_INVALID)
      /\ ~AP!Ready(me) /\ Contents(ring) # <<>>
  <2>1. AP!TypeOK /\ AP!OnePlace /\ AP!SomeoneRuns
    BY DEF KInv, AP!Placed
  <2>2. ~AP!Ready(THREAD_INVALID) /\ ~AP!Ready(me)
    BY <2>1, AP!NotReady, Constants
  <2>3. Contents(ring) # <<>>
    BY <1>1, <2>1, AP!SomeoneReady, Constants
  <2>4. QED
    BY <2>1, <2>2, <2>3 DEF AP!OnePlace
<1>3. ~Holds(ring, me)
  BY <1>1, <1>2, HoldsContents DEF AP!Ready
<1>4. Schedule_Next_Thread(thr, ring, THREAD_INVALID)
  BY <1>3 DEF Exit_Thread
<1>5. thr \in ThreadTable /\ \A u \in Tid : thr[u].status = Threads[u].status /\ thr[u].next = Threads[u].next
  BY <1>1 DEF ThreadTable
<1>6. \A u \in Tid : thr[u].active <=> (u # me /\ Threads[u].active)
  <2>1. ~thr[me].active
    BY <1>1, Zenon DEF ThreadTable
  <2>2. \A u \in Tid : u # me => thr[u] = Threads[u]
    BY <1>1 DEF ThreadTable
  <2> HIDE DEF thr
  <2>3. QED
    BY <2>1, <2>2
<1> HIDE DEF thr
<1>7. /\ AP!Schedule_Next_Thread(Contents(ring), THREAD_INVALID)
      /\ ring' \in Ring /\ Threads' \in ThreadTable /\ SameLinks(Threads', thr)
      /\ Contents(ring) # <<>> /\ THREAD_INVALID # Thread_In_Esecuzione' =>
            \A u \in Tid : Threads'[u].status = IF u = THREAD_INVALID THEN "READY"
                                                ELSE IF u = Thread_In_Esecuzione' THEN "RUN"
                                                ELSE thr[u].status
  BY <1>1, <1>4, <1>5, ScheduleStep
<1>8. KType'
  BY <1>1, <1>7 DEF KInv, KType
<1>9. SameNext(Threads', Threads)
  BY <1>5, <1>7 DEF SameNext, SameLinks
<1>10. /\ [r \in Sem |-> Waiters(r)]' = [r \in Sem |-> Waiters(r)]
       /\ Lists' /\ InnerLinks'
  <2>1. \A s \in Sem : /\ sem'[s].Head_Thread = sem[s].Head_Thread
                       /\ sem'[s].Tail_Thread = sem[s].Tail_Thread
    BY <1>1
  <2>2. QED
    BY <1>9, <2>1, LinksKept DEF KInv
<1>11. \A u \in Tid : Threads'[u].active <=> (u # me /\ Threads[u].active)
  BY <1>6, <1>7 DEF SameLinks
<1>12. {t \in Tid : Threads'[t].active} = {t \in Tid : Threads[t].active} \ {me}
  BY <1>11
<1>13. /\ Thread_In_Esecuzione' \in Tid
       /\ AP!Ready(Thread_In_Esecuzione')
       /\ \A t \in Tid : AP!InSeq(t, Contents(ring)') <=>
               \/ AP!Ready(t) /\ t # Thread_In_Esecuzione'
               \/ t = THREAD_INVALID
  BY <1>7, <1>2, AP!ScheduleMoves, Constants
<1>14. AP!Exit_Thread
  <2>1. AP!Resume(inP)
    BY <1>1, <1>13, ResumeStep
  <2>2. AP!SystemCall
    BY <1>1 DEF AP!SystemCall, Syscall
  <2>3. QED
    BY <1>1, <1>7, <1>10, <1>12, <2>1, <2>2 DEF AP!Exit_Thread
<1>15. Statused'
  <2>1. THREAD_INVALID \notin Tid
    BY DEF Tid, THREAD_INVALID
  <2>2. \A u \in Tid : Threads'[u].status = IF u = Thread_In_Esecuzione' THEN "RUN" ELSE Threads[u].status
    BY <1>5, <1>7, <1>2, <1>13, <2>1
  <2>3. QED
    BY <1>11, <1>13, <2>1, <2>2 DEF KInv, Statused, AP!Ready
<1>16. QED
  BY <1>8, <1>10, <1>14, <1>15 DEF Kept

\* A step that changes nothing changes no queue.
LEMMA StutterStep ==
    ASSUME KInv, UNCHANGED vars
    PROVE  UNCHANGED AP!vars /\ Kept
<1>1. SameNext(Threads', Threads) /\ Threads' = Threads
  BY DEF vars, SameNext
<1>2. \A s \in Sem : /\ sem'[s].Head_Thread = sem[s].Head_Thread
                     /\ sem'[s].Tail_Thread = sem[s].Tail_Thread
  BY DEF vars
<1>3. /\ [r \in Sem |-> Waiters(r)]' = [r \in Sem |-> Waiters(r)]
      /\ Lists' /\ InnerLinks'
  BY <1>1, <1>2, LinksKept DEF KInv
<1>4. KType' /\ Statused'
  BY DEF vars, KInv, KType, Statused, AP!Ready
<1>5. QED
  BY <1>3, <1>4 DEF vars, AP!vars, Kept

\* A step of the code that does not panic is the step of ThreadSched of the same name.
LEMMA NextStep ==
    ASSUME KInv, Next, ~panicked'
    PROVE  AP!Next /\ Kept
<1> DEFINE value == [s \in Sem |-> sem[s].Status]
<1>0. \A s \in Sem : sem[s].Status \in Nat
  BY DEF KInv, KType
<1>1. \A s \in Sem : value[s] = sem[s].Status
  OBVIOUS
<1>2. Syscall => AP!SystemCall
  BY ListMembers DEF Syscall, AP!SystemCall
<1>3. ASSUME NEW x \in Sem, Take(x, sem[x].Status - 1) PROVE AP!Take(x, value[x] - 1) /\ Kept
  <2> sem[x].Status - 1 \in Nat
    BY <1>0, <1>3 DEF Take
  <2>1. PICK n \in Nat : n = sem[x].Status - 1
    OBVIOUS
  <2>2. Take(x, n)
    BY <1>3, <2>1 DEF Take
  <2>3. AP!Take(x, n) /\ Kept
    BY <2>2, TakeStep
  <2>4. value[x] - 1 = n
    BY <1>1, <2>1
  <2> HIDE DEF value
  <2>5. QED
    BY <2>3, <2>4 DEF AP!Take
<1>4. ASSUME NEW x \in Sem, Take(x, 0) PROVE AP!Take(x, 0) /\ Kept
  BY <1>4, TakeStep
<1>5. ASSUME NEW x \in Sem, Syscall, Suspend(x) PROVE AP!Suspend(x) /\ Kept
  BY <1>5, SuspendStep
<1>6. ASSUME NEW x \in Sem, Release(x, sem[x].Status + 1)
      PROVE  AP!Release(x, value[x] + 1) /\ Kept
  <2> sem[x].Status + 1 \in Nat
    BY <1>0
  <2>1. PICK n \in Nat : n = sem[x].Status + 1
    OBVIOUS
  <2>2. Release(x, n)
    BY <1>6, <2>1, Zenon DEF Release
  <2>3. AP!Release(x, n) /\ Kept
    BY <2>2, ReleaseStep
  <2>4. value[x] + 1 = n
    BY <1>1, <2>1
  <2> HIDE DEF value
  <2>5. QED
    BY <2>3, <2>4, Zenon DEF AP!Release
<1>7. ASSUME NEW x \in Sem, Release(x, 1) PROVE AP!Release(x, 1) /\ Kept
  BY <1>7, ReleaseStep
<1>8. ASSUME UNCHANGED vars PROVE UNCHANGED AP!vars /\ Kept
  BY <1>8, StutterStep
<1>9. CASE scheduler
  <2>1. AP!scheduler /\ Kept
    BY <1>9, PreemptStep DEF scheduler, AP!scheduler
  <2>2. QED
    BY <2>1 DEF AP!Next
<1>10. CASE idle_loop
  <2>1. ~IsEmpty(ring) => Contents(ring) # <<>>
    BY DropContents DEF KInv, KType
  <2>2. AP!idle_loop /\ Kept
    BY <1>10, <2>1, PreemptStep DEF idle_loop, AP!idle_loop
  <2>3. QED
    BY <2>2 DEF AP!Next
<1>11. ASSUME NEW x \in Semaphore, P(x) \/ Non_Block_P(x) \/ V(x) PROVE AP!Next /\ Kept
  <2>1. CASE P(x)
    <3>1. AP!P(x) /\ Kept
      BY <1>2, <1>3, <1>5, <2>1 DEF P, AP!P, AP!Take
    <3>2. QED
      BY <3>1 DEF AP!Next
  <2>2. CASE Non_Block_P(x)
    <3>1. AP!Non_Block_P(x) /\ Kept
      BY <1>1, <1>2, <1>3, <1>8, <2>2 DEF Non_Block_P, AP!Non_Block_P, AP!Take
    <3>2. QED
      BY <3>1 DEF AP!Next
  <2>3. CASE V(x)
    <3>1. AP!V(x) /\ Kept
      BY <1>1, <1>2, <1>6, <2>3 DEF V, AP!V, AP!Release, AP!Add_Thread_To_CodaPronti
    <3>2. QED
      BY <3>1 DEF AP!Next
  <2>4. QED
    BY <1>11, <2>1, <2>2, <2>3
<1>12. ASSUME NEW x \in Bool_Semaphore, Bool_P(x) \/ Non_Block_Bool_P(x) \/ Bool_V(x)
       PROVE  AP!Next /\ Kept
  <2>1. CASE Bool_P(x)
    <3>1. AP!Bool_P(x) /\ Kept
      BY <1>2, <1>4, <1>5, <2>1 DEF Bool_P, AP!Bool_P
    <3>2. QED
      BY <3>1 DEF AP!Next
  <2>2. CASE Non_Block_Bool_P(x)
    <3>1. AP!Non_Block_Bool_P(x) /\ Kept
      BY <1>1, <1>2, <1>4, <1>8, <2>2 DEF Non_Block_Bool_P, AP!Non_Block_Bool_P
    <3>2. QED
      BY <3>1 DEF AP!Next
  <2>3. CASE Bool_V(x)
    <3>1. AP!Bool_V(x) /\ Kept
      BY <1>2, <1>7, <2>3 DEF Bool_V, AP!Bool_V
    <3>2. QED
      BY <3>1 DEF AP!Next
  <2>4. QED
    BY <1>12, <2>1, <2>2, <2>3
<1>13. ASSUME NEW x \in IRQ_Semaphore, IRQ(x) PROVE AP!Next /\ Kept
  <2>1. x \in Sem
    BY KernelAssumption
  <2>2. AP!IRQ(x) /\ Kept
    BY <1>1, <1>6, <1>13, <2>1 DEF IRQ, AP!IRQ, AP!Release, AP!Add_Thread_To_CodaPronti
  <2>3. QED
    BY <2>2 DEF AP!Next
<1>14. CASE Create_Thread
  BY <1>14, CreateStep DEF AP!Next
<1>15. CASE Exit_Thread
  BY <1>15, ExitStep DEF AP!Next
<1>16. QED
  BY <1>9, <1>10, <1>11, <1>12, <1>13, <1>14, <1>15 DEF Next

--------------------------------------------------------------------------------
(* The theorems.                                                               *)

\* The initial state of the code is that of ThreadSched, with empty lists.
LEMMA InitStep == Init => AP!Init /\ KInv
<1> SUFFICES ASSUME Init PROVE AP!Init /\ KInv
  OBVIOUS
<1>0. kernel_thread \in Tid /\ init_thread \in Tid /\ kernel_thread # init_thread
      /\ THREAD_INVALID \notin Tid /\ 0 \in Cells
  BY KernelAssumption DEF Tid, kernel_thread, init_thread, THREAD_INVALID, Cells
<1>1. EmptyRing \in Ring /\ IsEmpty(EmptyRing) /\ ~IsFull(EmptyRing)
  <2>1. EmptyRing \in Ring
    BY <1>0 DEF EmptyRing, Ring, kernel_thread
  <2>2. EmptyRing.coda = 0 /\ EmptyRing.testa = 0
    BY DEF EmptyRing
  <2>3. (0 + 1) % MAX_REFERENCES = 1
    BY KernelAssumption
  <2>4. QED
    BY <2>1, <2>2, <2>3 DEF IsEmpty, IsFull, Succ
<1>2. ring \in Ring /\ Contents(ring) = <<init_thread>>
  <2>1. Contents(EmptyRing) = <<>>
    BY <1>1, DropContents
  <2>2. Put(EmptyRing, init_thread) \in Ring
        /\ Contents(Put(EmptyRing, init_thread)) = Append(Contents(EmptyRing), init_thread)
    BY <1>0, <1>1, PutContents
  <2>3. ring = Put(EmptyRing, init_thread)
    BY DEF Init
  <2>4. Append(Contents(EmptyRing), init_thread) = <<init_thread>>
    BY <2>1
  <2>5. QED
    BY <2>2, <2>3, <2>4
<1>3. Threads \in ThreadTable
  BY <1>0 DEF Init, ThreadTable, Statuses, FreeThread
<1>4. KType
  BY <1>2, <1>3, KernelAssumption DEF KType, Init
<1>5. \A t \in Tid : Threads[t].next = THREAD_INVALID
                     /\ Threads[t].status = IF t = init_thread THEN "READY" ELSE "DEAD"
  BY <1>0 DEF Init, FreeThread
<1>6. \A t \in Tid : Threads[t].active <=> t \in {kernel_thread, init_thread}
  <2>1. Threads[kernel_thread].active /\ Threads[init_thread].active
    BY <1>0 DEF Init, FreeThread
  <2>2. \A t \in Tid : t \notin {kernel_thread, init_thread} => ~Threads[t].active
    BY <1>0 DEF Init, FreeThread
  <2>3. QED
    BY <2>1, <2>2
<1>7. ASSUME NEW s \in Sem
      PROVE  /\ IsList(Threads, sem[s].Head_Thread, sem[s].Tail_Thread, <<>>)
             /\ Waiters(s) = <<>>
  <2>1. sem[s].Head_Thread = THREAD_INVALID /\ sem[s].Tail_Thread = THREAD_INVALID
    BY DEF Init
  <2>2. IsList(Threads, sem[s].Head_Thread, sem[s].Tail_Thread, <<>>)
    BY <2>1, KernelAssumption DEF IsList
  <2>3. QED
    BY <2>2, ChainIs DEF Waiters
<1>8. Lists
  BY <1>7 DEF Lists
<1>9. InnerLinks
  BY <1>5 DEF InnerLinks
<1>10. AP!Init
  <2>1. {t \in Tid : Threads[t].active} = {kernel_thread, init_thread}
    BY <1>0, <1>6
  <2>2. [s \in Sem |-> sem[s].Status] = InitStatus
    BY KernelAssumption DEF Init
  <2>3. [s \in Sem |-> Waiters(s)] = [s \in Sem |-> <<>>]
    BY <1>7
  <2>4. QED
    BY <1>2, <2>1, <2>2, <2>3 DEF Init, AP!Init, AP!Sem
<1>11. AP!TypeOK /\ AP!Placed
  BY <1>10, AP!TypeCorrectInit, AP!InitPlaced, Constants
<1>12. Statused
  <2>1. \A t : AP!Ready(t) <=> t = init_thread
    BY <1>2 DEF AP!Ready, AP!InSeq
  <2>2. Thread_In_Esecuzione = kernel_thread
    BY DEF Init
  <2>3. QED
    BY <1>0, <1>5, <2>1, <2>2 DEF Statused
<1>13. QED
  BY <1>4, <1>8, <1>9, <1>10, <1>11, <1>12 DEF KInv

\* Nothing happens after a panic.
LEMMA Stops == Next => ~panicked
BY DEF Next, scheduler, idle_loop, P, Non_Block_P, V, Bool_P, Non_Block_Bool_P,
       Bool_V, IRQ, Create_Thread, Exit_Thread, Syscall

\* Every step keeps the invariant, or panics.
LEMMA InvStep ==
    ASSUME panicked \/ KInv, [Next]_vars
    PROVE  panicked' \/ (KInv /\ [AP!Next]_(AP!vars) /\ KInv') 
<1>1. CASE Next
  <2>1. SUFFICES ASSUME ~panicked' PROVE KInv /\ [AP!Next]_(AP!vars) /\ KInv'
    OBVIOUS
  <2>2. KInv
    BY <1>1, Stops
  <2>3. AP!Next /\ Kept
    BY <1>1, <2>1, <2>2, NextStep
  <2>4. AP!TypeOK' /\ AP!Placed'
    BY <2>1, <2>2, <2>3, AP!NextType, AP!NextPlaced, Constants DEF KInv
  <2>5. QED
    BY <2>2, <2>3, <2>4 DEF KInv, Kept
<1>2. CASE UNCHANGED vars
  <2>1. SUFFICES ASSUME ~panicked' PROVE KInv /\ [AP!Next]_(AP!vars) /\ KInv'
    OBVIOUS
  <2>2. KInv
    BY <1>2, <2>1 DEF vars
  <2>3. UNCHANGED AP!vars /\ Kept
    BY <1>2, <2>2, StutterStep
  <2>4. AP!IInv'
    BY <2>2, <2>3, AP!NextIInv, Constants DEF KInv, AP!IInv
  <2>5. AP!TypeOK' /\ AP!Placed'
    BY <2>1, <2>4 DEF AP!IInv
  <2>6. QED
    BY <2>2, <2>3, <2>5 DEF KInv, Kept
<1>3. QED
  BY <1>1, <1>2

\* The invariant says what the runs check of the lists and of the status.
LEMMA InvMeans == KInv => ListsWellFormed /\ StatusFollowsQueue
<1> SUFFICES ASSUME KInv PROVE ListsWellFormed /\ StatusFollowsQueue
  OBVIOUS
<1>1. StatusFollowsQueue
  BY StatusedRing DEF KInv, KType
<1>2. THREAD_INVALID \notin Tid
  BY KernelAssumption DEF Tid, THREAD_INVALID
<1>3. ASSUME NEW s \in Sem
      PROVE  /\ (sem[s].Head_Thread = THREAD_INVALID) <=> (sem[s].Tail_Thread = THREAD_INVALID)
             /\ sem[s].Head_Thread # THREAD_INVALID =>
                   sem[s].Tail_Thread = Waiters(s)[Len(Waiters(s))]
  <2>1. IsList(Threads, sem[s].Head_Thread, sem[s].Tail_Thread, Waiters(s))
    BY DEF KInv, Lists
  <2>2. CASE Waiters(s) = <<>>
    BY <2>1, <2>2 DEF IsList
  <2>3. CASE Waiters(s) # <<>>
    <3>1. Waiters(s) \in Seq(Tid) /\ sem[s].Head_Thread = Waiters(s)[1]
          /\ sem[s].Tail_Thread = Waiters(s)[Len(Waiters(s))]
      BY <2>1, <2>3 DEF IsList
    <3>2. Waiters(s)[1] \in Tid /\ Waiters(s)[Len(Waiters(s))] \in Tid
      BY <2>3, <3>1
    <3>3. QED
      BY <1>2, <3>1, <3>2
  <2>4. QED
    BY <2>2, <2>3
<1>4. QED
  BY <1>1, <1>3 DEF ListsWellFormed, KInv, InnerLinks

\* Whatever the sizes of the table and of the ring, the lists of waiters and the status
\* of the threads are sound until the kernel panics.
THEOREM SoundUntilPanic == Spec => [](panicked \/ (ListsWellFormed /\ StatusFollowsQueue))
<1>1. Init => panicked \/ KInv
  BY InitStep
<1>2. (panicked \/ KInv) /\ [Next]_vars => (panicked \/ KInv)'
  BY InvStep
<1>3. panicked \/ KInv => panicked \/ (ListsWellFormed /\ StatusFollowsQueue)
  BY InvMeans
<1>4. QED
  BY <1>1, <1>2, <1>3, PTL DEF Spec

--------------------------------------------------------------------------------
(* With a ring no smaller than the table the kernel never panics.              *)

\* The table fits in the ring.  (In the default configuration it does not: MAX_THREADS
\* is 150 and MAX_REFERENCES 50.)
TableFits == MAX_THREADS <= MAX_REFERENCES

\* The code's table has as many slots as ThreadSched has threads.
LEMMA Fits == TableFits => AP!QueueFits
<1>1. AP!IsFiniteSet(0..MAX_THREADS - 1) /\ AP!Cardinality(0..MAX_THREADS - 1) = MAX_THREADS
  BY Constants, KernelAssumption, AP!FS_Interval
<1>2. AP!IsFiniteSet(Tid) /\ AP!Cardinality(Tid) = MAX_THREADS
  BY <1>1, Zenon DEF Tid
<1>3. TableFits => AP!Cardinality(Tid) <= MAX_REFERENCES
  BY <1>2, KernelAssumption DEF TableFits
<1>4. QED
  BY <1>2, <1>3, Zenon DEF AP!QueueFits

\* A thread that neither runs nor is ready finds a free cell in the ring.
LEMMA RoomInRing ==
    ASSUME TableFits, KInv, NEW x \in Tid, x # Thread_In_Esecuzione, ~AP!Ready(x)
    PROVE  ~IsFull(ring)
<1>1. Len(Contents(ring)) < MAX_REFERENCES - 1
  <2>1. AP!TypeOK /\ AP!Distinct(Contents(ring)) /\ Thread_In_Esecuzione \in Tid
        /\ ~AP!Ready(Thread_In_Esecuzione)
    BY ListMembers DEF KInv, AP!Placed, AP!OnePlace
  <2>2. QED
    BY <2>1, Fits, AP!RoomInQueue, Constants
<1>2. ring \in Ring /\ Len(Contents(ring)) \in Nat
  BY ContentsSeq DEF KInv, KType
<1>3. QED
  BY <1>1, <1>2, FullContents, KernelAssumption

\* A waiter is an active thread that neither runs nor is ready.
LEMMA WaiterIdle ==
    ASSUME KInv, NEW s \in Sem, sem[s].Head_Thread # THREAD_INVALID
    PROVE  /\ sem[s].Head_Thread \in Tid /\ sem[s].Head_Thread # Thread_In_Esecuzione
           /\ Threads[sem[s].Head_Thread].active
           /\ ~AP!Ready(sem[s].Head_Thread)
<1>1. IsList(Threads, sem[s].Head_Thread, sem[s].Tail_Thread, Waiters(s))
  BY DEF KInv, Lists
<1>2. Waiters(s) # <<>> /\ Waiters(s) \in Seq(Tid) /\ sem[s].Head_Thread = Waiters(s)[1]
  BY <1>1 DEF IsList
<1>3. PICK x \in Tid : x = sem[s].Head_Thread
  BY <1>2
<1>4. AP!InSeq(x, Waiters(s))
  BY <1>2, <1>3 DEF AP!InSeq
<1>5. AP!SuspendedOn(x, s)
  BY <1>4 DEF AP!SuspendedOn
<1>6. x \in {t \in Tid : Threads[t].active} /\ ~AP!Ready(x) /\ x # Thread_In_Esecuzione
  BY <1>5 DEF KInv, AP!Placed, AP!OnePlace, AP!NoThreadLost, AP!Sem, Sem
<1>7. QED
  BY <1>3, <1>6

\* Making a waiter or a new thread ready does not panic.
LEMMA AddPasses ==
    ASSUME TableFits, KInv, ~panicked, NEW thr, NEW x \in Tid, thr[x].active,
           x # Thread_In_Esecuzione, ~AP!Ready(x), Add_Thread_To_CodaPronti(thr, x)
    PROVE  ~panicked'
<1>1. ~IsFull(ring)
  BY RoomInRing
<1>2. QED
  BY <1>1, Zenon DEF Add_Thread_To_CodaPronti

\* V does not panic.
LEMMA ReleasePasses ==
    ASSUME TableFits, KInv, ~panicked, NEW s \in Sem, NEW v, Release(s, v)
    PROVE  ~panicked'
<1>1. CASE sem[s].Head_Thread = THREAD_INVALID
  BY <1>1, Zenon DEF Release
<1>2. CASE sem[s].Head_Thread # THREAD_INVALID
  <2>1. PICK x \in Tid : x = sem[s].Head_Thread
    BY <1>2, WaiterIdle
  <2>2. x # Thread_In_Esecuzione /\ Threads[x].active /\ ~AP!Ready(x)
    <3>1. sem[s].Head_Thread # Thread_In_Esecuzione /\ Threads[sem[s].Head_Thread].active
      BY <1>2, WaiterIdle
    <3>2. \A i \in 1..Len(Contents(ring)) : Contents(ring)[i] # sem[s].Head_Thread
      BY <1>2, WaiterIdle DEF AP!Ready, AP!InSeq
    <3>3. QED
      BY <2>1, <3>1, <3>2 DEF AP!Ready, AP!InSeq
  <2>3. PICK thr : thr = [Threads EXCEPT ![x].next = THREAD_INVALID]
    OBVIOUS
  <2>4. thr[x].active
    BY <2>2, <2>3, Zenon DEF KInv, KType, ThreadTable
  <2>5. Add_Thread_To_CodaPronti(thr, x)
    BY <1>2, <2>1, <2>3, Zenon DEF Release, Add_Thread_To_CodaPronti
  <2>6. QED
    BY <2>2, <2>4, <2>5, AddPasses
<1>3. QED
  BY <1>1, <1>2

\* Creating a thread does not panic.
LEMMA CreatePasses ==
    ASSUME TableFits, KInv, ~panicked, Create_Thread
    PROVE  ~panicked'
<1>1. PICK x \in Tid : x = FirstFree /\ ~Threads[x].active
  BY FreeSlot DEF Create_Thread
<1>2. x # Thread_In_Esecuzione /\ ~AP!Ready(x)
  <2>1. x \notin {t \in Tid : Threads[t].active}
    BY <1>1
  <2>2. QED
    BY <2>1 DEF KInv, AP!Placed, AP!NoThreadLost
<1>3. PICK thr : thr = [Threads EXCEPT ![x].active = TRUE]
  OBVIOUS
<1>4. thr[x].active
  BY <1>3, Zenon DEF KInv, KType, ThreadTable
<1>5. Add_Thread_To_CodaPronti(thr, x)
  BY <1>1, <1>3, Zenon DEF Create_Thread, Add_Thread_To_CodaPronti
<1>6. QED
  BY <1>2, <1>4, <1>5, AddPasses

\* No step panics.
LEMMA NextPasses ==
    ASSUME TableFits, KInv, ~panicked, [Next]_vars
    PROVE  ~panicked'
<1>1. CASE panicked' = panicked
  BY <1>1
<1>2. ASSUME NEW s \in Semaphore, P(s) \/ Non_Block_P(s) \/ V(s) PROVE ~panicked'
  BY <1>1, <1>2, ReleasePasses DEF P, Non_Block_P, V, Take, Suspend, vars, Sem
<1>3. ASSUME NEW s \in Bool_Semaphore, Bool_P(s) \/ Non_Block_Bool_P(s) \/ Bool_V(s) PROVE ~panicked'
  BY <1>1, <1>3, ReleasePasses DEF Bool_P, Non_Block_Bool_P, Bool_V, Take, Suspend, vars, Sem
<1>4. ASSUME NEW s \in IRQ_Semaphore, IRQ(s) PROVE ~panicked'
  BY <1>4, ReleasePasses, KernelAssumption DEF IRQ, Sem
<1>5. QED
  BY <1>1, <1>2, <1>3, <1>4, CreatePasses DEF Next, scheduler, idle_loop, Exit_Thread, vars

\* AP and Abstract are the same instance of ThreadSched, one with its proofs.
LEMMA SameInit == AP!Init <=> Abstract!Init
BY DEF AP!Init, Abstract!Init, AP!Sem, Abstract!Sem

\* A step of the one is the step of the other.
LEMMA SameNextStep == [AP!Next]_(AP!vars) => [Abstract!Next]_(Abstract!vars)
<1> SUFFICES ASSUME [AP!Next]_(AP!vars) PROVE [Abstract!Next]_(Abstract!vars)
  OBVIOUS
<1>1. UNCHANGED AP!vars <=> UNCHANGED Abstract!vars
  BY Zenon DEF AP!vars, Abstract!vars
<1>2. AP!SystemCall <=> Abstract!SystemCall
  BY Zenon DEF AP!SystemCall, Abstract!SystemCall
<1>3. AP!scheduler => Abstract!scheduler
  BY Zenon DEF AP!scheduler, Abstract!scheduler, AP!Schedule_Next_Thread, Abstract!Schedule_Next_Thread,
         AP!Resume, Abstract!Resume, AP!Sem, Abstract!Sem
<1>4. AP!idle_loop => Abstract!idle_loop
  BY Zenon DEF AP!idle_loop, Abstract!idle_loop, AP!Schedule_Next_Thread, Abstract!Schedule_Next_Thread,
         AP!Resume, Abstract!Resume, AP!Sem, Abstract!Sem
<1>5. ASSUME NEW s, AP!Suspend(s) PROVE Abstract!Suspend(s)
  BY <1>5, Zenon DEF AP!Suspend, Abstract!Suspend, AP!Schedule_Next_Thread,
         Abstract!Schedule_Next_Thread, AP!Resume, Abstract!Resume, AP!Sem, Abstract!Sem
<1>6. ASSUME NEW s \in Semaphore, AP!P(s) \/ AP!Non_Block_P(s) \/ AP!V(s)
      PROVE  Abstract!P(s) \/ Abstract!Non_Block_P(s) \/ Abstract!V(s)
  BY <1>1, <1>2, <1>5, <1>6, Zenon DEF AP!P, AP!Non_Block_P, AP!V, Abstract!P, Abstract!Non_Block_P, Abstract!V,
         AP!Take, Abstract!Take, AP!Release, Abstract!Release,
         AP!Add_Thread_To_CodaPronti, Abstract!Add_Thread_To_CodaPronti
<1>7. ASSUME NEW s \in Bool_Semaphore, AP!Bool_P(s) \/ AP!Non_Block_Bool_P(s) \/ AP!Bool_V(s)
      PROVE  Abstract!Bool_P(s) \/ Abstract!Non_Block_Bool_P(s) \/ Abstract!Bool_V(s)
  BY <1>1, <1>2, <1>5, <1>7, Zenon DEF AP!Bool_P, AP!Non_Block_Bool_P, AP!Bool_V,
         Abstract!Bool_P, Abstract!Non_Block_Bool_P, Abstract!Bool_V,
         AP!Take, Abstract!Take, AP!Release, Abstract!Release,
         AP!Add_Thread_To_CodaPronti, Abstract!Add_Thread_To_CodaPronti
<1>8. ASSUME NEW s \in IRQ_Semaphore, AP!IRQ(s) PROVE Abstract!IRQ(s)
  BY <1>8, Zenon DEF AP!IRQ, Abstract!IRQ, AP!Release, Abstract!Release,
         AP!Add_Thread_To_CodaPronti, Abstract!Add_Thread_To_CodaPronti
<1>9. AP!Create_Thread => Abstract!Create_Thread
  BY <1>2, Zenon DEF AP!Create_Thread, Abstract!Create_Thread,
         AP!Add_Thread_To_CodaPronti, Abstract!Add_Thread_To_CodaPronti
<1>10. AP!Exit_Thread => Abstract!Exit_Thread
  BY <1>2, Zenon DEF AP!Exit_Thread, Abstract!Exit_Thread, AP!Schedule_Next_Thread,
         Abstract!Schedule_Next_Thread, AP!Resume, Abstract!Resume, AP!Sem, Abstract!Sem
<1>11. QED
  BY <1>1, <1>3, <1>4, <1>6, <1>7, <1>8, <1>9, <1>10 DEF AP!Next, Abstract!Next

\* With a table that fits in the ring, V, an interrupt or a creation never panics, and
\* the lists of waiters and the status of the threads are sound in every state.
THEOREM KernelSound ==
    ASSUME TableFits
    PROVE  Spec => [](~panicked /\ ListsWellFormed /\ StatusFollowsQueue)
<1>1. Init => ~panicked /\ KInv
  BY InitStep DEF Init
<1>2. (~panicked /\ KInv) /\ [Next]_vars => (~panicked /\ KInv)'
  BY InvStep, NextPasses
<1>3. KInv => ListsWellFormed /\ StatusFollowsQueue
  BY InvMeans
<1>4. QED
  BY <1>1, <1>2, <1>3, PTL DEF Spec

\* With a table that fits in the ring, every step of the code, on its ring and its
\* linked lists, is the step of the same name of ThreadSched on FIFO queues, or
\* changes nothing there: the part of ImplementsThreadSched that is not fairness.
THEOREM StepsAreThreadSched ==
    ASSUME TableFits
    PROVE  Spec => Abstract!Init /\ [][Abstract!Next]_(Abstract!vars)
<1>1. Init => ~panicked /\ KInv
  BY InitStep DEF Init
<1>2. (~panicked /\ KInv) /\ [Next]_vars => (~panicked /\ KInv)'
  BY InvStep, NextPasses
<1>3. Init => Abstract!Init
  BY InitStep, SameInit
<1>4. (~panicked /\ KInv) /\ [Next]_vars => [Abstract!Next]_(Abstract!vars)
  BY InvStep, NextPasses, SameNextStep
<1>5. QED
  BY <1>1, <1>2, <1>3, <1>4, PTL DEF Spec

\* Whatever the sizes, every step that does not panic is a step of ThreadSched.
THEOREM StepsUntilPanic ==
    Spec => Abstract!Init /\ [][panicked' \/ [Abstract!Next]_(Abstract!vars)]_vars
<1>1. Init => panicked \/ KInv
  BY InitStep
<1>2. (panicked \/ KInv) /\ [Next]_vars => (panicked \/ KInv)'
  BY InvStep
<1>3. Init => Abstract!Init
  BY InitStep, SameInit
<1>4. (panicked \/ KInv) /\ [Next]_vars => [panicked' \/ [Abstract!Next]_(Abstract!vars)]_vars
  BY InvStep, SameNextStep
<1>5. QED
  BY <1>1, <1>2, <1>3, <1>4, PTL DEF Spec

--------------------------------------------------------------------------------
(* Remove_Thread_From_CodaPronti.                                              *)

\* The cells behind the one removed move one place forward, wherever the ring wraps.
LEMMA Removal ==
    ASSUME NEW q \in Ring, NEW t, Holds(q, t), AP!Distinct(Contents(q))
    PROVE  /\ \E k \in 1 .. Len(Contents(q)) :
                 Contents(q)[k] = t /\ Contents(TakeOut(q, t)) = Without(Contents(q), k)
           /\ ~Holds(TakeOut(q, t), t)
           /\ ~IsFull(TakeOut(q, t))
<1> DEFINE n == MAX_REFERENCES
           h == q.testa
           w == Contents(q)
           L == Len(w)
           r == TakeOut(q, t)
<1>1. n \in Nat \ {0, 1} /\ h \in 0 .. n - 1 /\ q.coda \in 0 .. n - 1 /\ Cells = 0 .. n - 1
  BY KernelAssumption DEF Ring, Cells
<1>2. /\ Place(q, q.coda) = L /\ L \in 0 .. n - 1 /\ w \in Seq(Tid)
      /\ \A i \in Cells : Place(q, i) \in 0 .. n - 1 /\ (h + Place(q, i)) % n = i
      /\ \A j \in 0 .. n - 1 : (h + j) % n \in Cells /\ Place(q, (h + j) % n) = j
      /\ \A m \in 1 .. L : w[m] = q.cell[(h + (m - 1)) % n]
  BY Places, ContentsSeq
<1>3. PICK C : C = [j \in 0 .. n - 1 |-> (h + j) % n]
  OBVIOUS
<1>4. /\ \A i \in Cells : Place(q, i) \in 0 .. n - 1 /\ C[Place(q, i)] = i
      /\ \A j \in 0 .. n - 1 : C[j] \in Cells /\ Place(q, C[j]) = j
      /\ \A m \in 1 .. L : w[m] = q.cell[C[m - 1]]
  <2>1. \A j \in 0 .. n - 1 : C[j] = (h + j) % n
    BY <1>3
  <2>2. \A m \in 1 .. L : m - 1 \in 0 .. n - 1
    BY <1>1, <1>2
  <2>3. QED
    BY <1>2, <2>1, <2>2
<1>5. \A j \in 0 .. n - 2 : Succ(C[j]) = C[j + 1]
  <2>1. ASSUME NEW j \in 0 .. n - 2 PROVE Succ(C[j]) = C[j + 1]
    <3>1. j \in 0 .. n - 1 /\ j + 1 \in 0 .. n - 1
      BY <1>1
    <3>2. C[j] = (h + j) % n /\ C[j + 1] = (h + (j + 1)) % n
      BY <1>3, <3>1
    <3>3. (((h + j) % n) + 1) % n = (h + (j + 1)) % n
      BY <1>1, RingSucc
    <3>4. QED
      BY <3>2, <3>3 DEF Succ
  <2>2. QED
    BY <2>1
<1>6. q.cell \in [Cells -> Tid]
  BY DEF Ring
<1>7. PICK k \in 1 .. L : w[k] = t
  BY HoldsContents DEF AP!InSeq
<1>8. \A i, j \in 1 .. L : w[i] = w[j] => i = j
  BY DEF AP!Distinct
<1>9. Used(q) = {i \in Cells : Place(q, i) < L}
  BY <1>2 DEF Used
<1> DEFINE a == C[k - 1]
<1>10. k - 1 \in 0 .. n - 1 /\ a \in Used(q) /\ q.cell[a] = t /\ Place(q, a) = k - 1
  <2>1. k - 1 \in 0 .. n - 1 /\ k - 1 < L
    <3>1. n \in Nat /\ L \in 0 .. n - 1 /\ k \in 1 .. L
      BY <1>1, <1>2
    <3> HIDE DEF n, L
    <3>2. QED
      BY <3>1
  <2>2. a \in Cells /\ Place(q, a) = k - 1 /\ q.cell[a] = t
    BY <1>4, <1>7, <2>1
  <2>3. QED
    BY <1>9, <2>1, <2>2
<1>11. \A i \in Used(q) : q.cell[i] = t => i = a
  <2>1. ASSUME NEW i \in Used(q), q.cell[i] = t PROVE i = a
    <3>1. PICK p \in 0 .. n - 1 : p = Place(q, i) /\ C[p] = i /\ p < L
      BY <1>4, <1>9
    <3>2. p + 1 \in 1 .. L /\ (p + 1) - 1 = p
      BY <1>2, <3>1
    <3>3. w[p + 1] = t
      BY <1>4, <2>1, <3>1, <3>2
    <3>4. p + 1 = k
      BY <1>7, <1>8, <3>2, <3>3
    <3>5. QED
      BY <3>1, <3>2, <3>4
  <2>2. QED
    BY <2>1
<1> DEFINE at == CHOOSE i \in Used(q) :
                    q.cell[i] = t /\ \A u \in Used(q) : q.cell[u] = t => Place(q, i) <= Place(q, u)
           moved == {i \in Used(q) : Place(q, i) >= k - 1 /\ Succ(i) # q.coda}
<1> HIDE DEF a
<1>12. at = a
  <2>1. \A u \in Used(q) : q.cell[u] = t => Place(q, a) <= Place(q, u)
    BY <1>10, <1>11
  <2>2. at \in Used(q) /\ q.cell[at] = t
    BY <1>10, <2>1
  <2>3. QED
    BY <1>11, <2>2
<1>13. /\ r.cell = [i \in Cells |-> IF i = q.coda THEN 0
                                    ELSE IF i \in moved THEN q.cell[Succ(i)] ELSE q.cell[i]]
       /\ r.testa = h /\ r.coda = (q.coda - 1) % n
       /\ r = [cell |-> r.cell, testa |-> r.testa, coda |-> r.coda]
  <2>1. r = [q EXCEPT !.cell = [i \in Cells |-> IF i = q.coda THEN 0
                                    ELSE IF i \in {j \in Used(q) : Place(q, j) >= Place(q, at) /\ Succ(j) # q.coda}
                                    THEN q.cell[Succ(i)] ELSE q.cell[i]],
                      !.coda = (@ - 1) % n]
    BY Zenon DEF TakeOut
  <2>2. {j \in Used(q) : Place(q, j) >= Place(q, at) /\ Succ(j) # q.coda} = moved
    BY <1>10, <1>12
  <2>3. PICK g : g = [i \in Cells |-> IF i = q.coda THEN 0
                                      ELSE IF i \in moved THEN q.cell[Succ(i)] ELSE q.cell[i]]
    OBVIOUS
  <2>4. PICK e : e = (q.coda - 1) % n
    OBVIOUS
  <2> HIDE DEF r, at, moved
  <2>5. r = [q EXCEPT !.cell = g, !.coda = e]
    BY <2>1, <2>2, <2>3, <2>4
  <2>6. r = [cell |-> g, testa |-> h, coda |-> e]
    BY <2>5 DEF Ring
  <2>7. QED
    BY <2>3, <2>4, <2>6
<1> HIDE DEF at, r
<1>14. \A i \in Cells : Succ(i) \in Cells
  <2>1. ASSUME NEW i \in Cells PROVE Succ(i) \in Cells
    <3>1. i \in 0 .. n - 1 /\ n \in Nat \ {0}
      BY <1>1
    <3>2. (i + 1) % n \in 0 .. n - 1
      BY <3>1, RingNext
    <3>3. QED
      BY <1>1, <3>2 DEF Succ
  <2>2. QED
    BY <2>1
<1>15. h # q.coda
  <2>1. L # 0
    BY <1>2, <1>7
  <2>2. L = Span(h, q.coda, n)
    BY <1>1, <1>2, RingSpan DEF Place
  <2>3. QED
    BY <1>1, <2>1, <2>2 DEF Span
<1>16. /\ r.coda \in 0 .. n - 1 /\ Span(h, r.coda, n) = Span(h, q.coda, n) - 1
  <2>1. n \in Nat \ {0}
    BY <1>1
  <2>2. PICK c \in 0 .. n - 1 : c = q.coda
    BY <1>1
  <2>3. PICK b \in 0 .. n - 1 : b = h
    BY <1>1
  <2> HIDE DEF n, h
  <2>4. (c - 1) % n \in 0 .. n - 1 /\ Span(b, (c - 1) % n, n) = Span(b, c, n) - 1
    BY <1>15, <2>1, <2>2, <2>3, RingPrev
  <2>5. QED
    BY <1>13, <2>2, <2>3, <2>4
<1>17. r \in Ring
  <2>1. r.cell \in [Cells -> Tid]
    BY <1>6, <1>13, <1>14, KernelAssumption DEF Tid
  <2>2. r.testa \in Cells /\ r.coda \in Cells
    BY <1>1, <1>13, <1>16
  <2>3. QED
    BY <1>13, <2>1, <2>2 DEF Ring
<1>18. Len(Contents(r)) = L - 1
  <2>1. Place(r, r.coda) = Span(h, r.coda, n)
    BY <1>1, <1>13, <1>16, RingSpan, SMTT(20) DEF Place
  <2>2. L = Span(h, q.coda, n)
    BY <1>1, <1>2, RingSpan DEF Place
  <2>3. Place(r, r.coda) = Len(Contents(r))
    BY <1>17, Places
  <2>4. QED
    BY <1>16, <2>1, <2>2, <2>3
<1>19. ASSUME NEW m \in 1 .. L - 1
       PROVE  Contents(r)[m] = IF m < k THEN w[m] ELSE w[m + 1]
  <2> DEFINE i == C[m - 1]
  <2>1. m - 1 \in 0 .. n - 2 /\ m \in 0 .. n - 1 /\ m \in 1 .. L /\ m + 1 \in 1 .. L
        /\ (m - 1) + 1 = m /\ (m + 1) - 1 = m /\ m - 1 \in 0 .. n - 1
    BY <1>1, <1>2
  <2>2. i \in Cells /\ Place(q, i) = m - 1 /\ Succ(i) = C[m] /\ Place(q, C[m]) = m
    BY <1>4, <1>5, <2>1
  <2>3. i \in Used(q) /\ i # q.coda /\ Succ(i) # q.coda
    BY <1>2, <1>9, <2>1, <2>2
  <2>4. Contents(r)[m] = r.cell[i]
    <3>1. Contents(r)[m] = r.cell[(r.testa + (m - 1)) % n]
      BY <1>17, <1>18, Places
    <3>2. i = (h + (m - 1)) % n
      BY <1>3, <2>1
    <3>3. QED
      BY <1>13, <3>1, <3>2
  <2>5. w[m] = q.cell[i] /\ w[m + 1] = q.cell[C[m]]
    BY <1>4, <2>1
  <2> HIDE DEF i
  <2>6. i \in moved <=> m >= k
    BY <2>1, <2>2, <2>3
  <2> HIDE DEF moved
  <2>7. r.cell[i] = IF i \in moved THEN q.cell[Succ(i)] ELSE q.cell[i]
    BY <1>13, <2>2, <2>3
  <2>8. QED
    BY <2>1, <2>2, <2>4, <2>5, <2>6, <2>7
<1>20. Contents(r) = Without(w, k)
  <2>1. Contents(r) \in Seq(Tid) /\ Contents(r) = [m \in 1 .. L - 1 |-> Contents(r)[m]]
    BY <1>17, <1>18, ContentsSeq
  <2>2. QED
    BY <1>19, <2>1 DEF Without
<1>21. ~Holds(r, t)
  <2>1. \A m \in 1 .. L - 1 : Contents(r)[m] # t
    <3>1. ASSUME NEW m \in 1 .. L - 1 PROVE Contents(r)[m] # t
      <4>1. m \in 1 .. L /\ m + 1 \in 1 .. L /\ (m < k => m # k) /\ (~(m < k) => m + 1 # k)
        BY <1>2
      <4>2. QED
        BY <1>7, <1>8, <1>19, <4>1
    <3>2. QED
      BY <3>1
  <2>2. QED
    BY <1>17, <1>18, <2>1, HoldsContents DEF AP!InSeq
<1>22. ~IsFull(r)
  BY <1>1, <1>2, <1>17, <1>18, FullContents
<1>23. QED
  BY <1>7, <1>20, <1>21, <1>22 DEF r

\* With a table that fits in the ring, Remove_Thread_From_CodaPronti takes a thread out
\* of whatever ring the kernel has got to and leaves the others in their order.
THEOREM RemovalSound ==
    ASSUME TableFits
    PROVE  Spec => []RemovalKeepsOrder
<1>1. Init => ~panicked /\ KInv
  BY InitStep DEF Init
<1>2. (~panicked /\ KInv) /\ [Next]_vars => (~panicked /\ KInv)'
  BY InvStep, NextPasses
<1>3. KInv => RemovalKeepsOrder
  <2>1. KInv => ring \in Ring /\ AP!Distinct(Contents(ring))
    BY DEF KInv, KType, AP!Placed, AP!OnePlace
  <2>2. QED
    BY <2>1, Removal DEF RemovalKeepsOrder
<1>4. QED
  BY <1>1, <1>2, <1>3, PTL DEF Spec


=================================================================================
