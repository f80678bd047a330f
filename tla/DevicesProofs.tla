------------------------------ MODULE DevicesProofs -----------------------------
(* Proofs about Devices, for any numbers of processes, buffers, channels, blocks   *)
(* and descriptors: the table of buffers keeps its shape, an open buffer can be    *)
(* used, what dead processes leave of the DMA is inert, and the rings of chardevs.c *)
(* implement the bounded queues of CharQueues. The loops of read() and write() are *)
(* followed turn by turn, by induction.                                            *)
EXTENDS Devices, WellFoundedInduction, TLAPS

--------------------------------------------------------------------------------
(* Induction, with sets where the library has an operator P(_). *)

\* The order of the natural numbers, as the relation the library's theorems are about.
LEMMA LessThanRel == \A x, y \in Nat : <<x, y>> \in OpToRel(<, Nat) <=> x < y
  BY DEF OpToRel

\* A nonempty set of natural numbers has a least element.
LEMMA LeastExists ==
    ASSUME NEW T \in SUBSET Nat, T # {}
    PROVE  \E x \in T : \A y \in T : x <= y
<1>1. \E x \in T : \A y \in T : ~(<<y, x>> \in OpToRel(<, Nat))
  BY NatLessThanWellFounded, WFMin
<1>2. \A x, y \in T : <<y, x>> \in OpToRel(<, Nat) <=> y < x
  BY LessThanRel, Zenon
<1>3. \E x \in T : \A y \in T : ~(y < x)
  BY <1>1, <1>2, Zenon
<1>4. QED
  BY <1>3

\* Induction: a set of natural numbers that holds 0 and the successor of every member
\* holds them all.
LEMMA Inductive ==
    ASSUME NEW S \in SUBSET Nat, 0 \in S, \A n \in S : n + 1 \in S
    PROVE  S = Nat
<1>1. SUFFICES ASSUME Nat \ S # {} PROVE FALSE
  OBVIOUS
<1>2. PICK x \in Nat \ S : \A y \in Nat \ S : x <= y
  BY <1>1, LeastExists
<1>3. x # 0 /\ x - 1 \in Nat /\ x - 1 \in S
  BY <1>2
<1>4. QED
  BY <1>2, <1>3

\* A loop of n turns has a run, all of whose states are in the set its turns stay in.
LEMMA LoopExists ==
    ASSUME NEW T, NEW t0 \in T, NEW n \in Nat, NEW F \in [1 .. n -> [T -> T]]
    PROVE  \E g \in [0 .. n -> T] :
              g[0] = t0 /\ \A k \in 1 .. n : g[k] = F[k][g[k - 1]]
<1> DEFINE Turned(g, m) == g[0] = t0 /\ \A k \in 1 .. m : g[k] = F[k][g[k - 1]]
           S == {m \in Nat : m <= n => \E g \in [0 .. m -> T] : Turned(g, m)}
<1>1. 0 \in S
  <2>1. [k \in 0 .. 0 |-> t0] \in [0 .. 0 -> T] /\ Turned([k \in 0 .. 0 |-> t0], 0)
    OBVIOUS
  <2>2. QED
    BY <2>1
<1>2. ASSUME NEW m \in S PROVE m + 1 \in S
  <2> HIDE DEF Turned
  <2>0. SUFFICES ASSUME m + 1 <= n PROVE \E g \in [0 .. m + 1 -> T] : Turned(g, m + 1)
    BY <2>0
  <2>1. m \in Nat /\ m <= n
    BY <2>0
  <2>2. PICK g \in [0 .. m -> T] : Turned(g, m)
    BY <2>1
  <2> USE DEF Turned
  <2> DEFINE h == [k \in 0 .. m + 1 |-> IF k = m + 1 THEN F[m + 1][g[m]] ELSE g[k]]
  <2>3. h \in [0 .. m + 1 -> T]
    <3>1. F[m + 1][g[m]] \in T
      <4>1. m + 1 \in 1 .. n /\ m \in 0 .. m
        BY <2>0, <2>1
      <4>2. F[m + 1] \in [T -> T] /\ g[m] \in T
        BY <4>1
      <4>3. QED
        BY <4>2
    <3>2. QED
      BY <2>1, <3>1
  <2>4. h[0] = t0
    BY <2>1, <2>2
  <2>5. ASSUME NEW k \in 1 .. m + 1 PROVE h[k] = F[k][h[k - 1]]
    <3>1. k - 1 \in 0 .. m /\ h[k - 1] = g[k - 1]
      BY <2>1
    <3>2. CASE k = m + 1
      BY <2>1, <3>1, <3>2
    <3>3. CASE k # m + 1
      <4>1. k \in 1 .. m /\ h[k] = g[k]
        BY <2>1, <3>3
      <4>2. QED
        BY <2>2, <3>1, <4>1
    <3>4. QED
      BY <3>2, <3>3
  <2>6. QED
    BY <2>3, <2>4, <2>5
<1> HIDE DEF S
<1>3. S = Nat
  <2>1. S \in SUBSET Nat
    BY DEF S
  <2>2. QED
    BY <1>1, <1>2, <2>1, Inductive
<1>4. n \in S
  BY <1>3
<1>5. QED
  BY <1>4 DEF S

--------------------------------------------------------------------------------
(* Rings: % close to its divisor. *)

\* % for an argument inside the range of the divisor, one turn above it and one below.
LEMMA ModInside ==
    ASSUME NEW n \in Nat \ {0}, NEW x \in Int, 0 <= x, x < n
    PROVE  x % n = x
  OBVIOUS

\* One turn above the range, n is subtracted.
LEMMA ModAbove ==
    ASSUME NEW n \in Nat \ {0}, NEW x \in Int, n <= x, x < n + n
    PROVE  x % n = x - n
  OBVIOUS

\* One turn below the range, n is added.
LEMMA ModBelow ==
    ASSUME NEW n \in Nat \ {0}, NEW x \in Int, -n <= x, x < 0
    PROVE  x % n = x + n
  OBVIOUS

\* The indices of a ring of n cells whose contents go from h to t, t excluded: how many
\* there are, where they lie, and what a cell more at the end or one less at the start
\* makes of them.
Span(h, t, n) == IF h <= t THEN t - h ELSE t - h + n

\* The difference of the two indices, taken modulo the size, is the number of cells in use.
LEMMA RingSpan ==
    ASSUME NEW n \in Nat \ {0}, NEW h \in 0 .. n - 1, NEW t \in 0 .. n - 1
    PROVE  (t - h) % n = Span(h, t, n) /\ Span(h, t, n) \in 0 .. n - 1
<1> DEFINE x == t - h
<1>1. x \in Int /\ -n <= x /\ x < n /\ (h <= t <=> 0 <= x)
  OBVIOUS
<1> HIDE DEF x
<1>2. x % n = IF 0 <= x THEN x ELSE x + n
  <2>1. CASE 0 <= x
    BY <1>1, <2>1, ModInside
  <2>2. CASE x < 0
    BY <1>1, <2>2, ModBelow
  <2>3. QED
    BY <1>1, <2>1, <2>2
<1>3. (IF 0 <= x THEN x ELSE x + n) = Span(h, t, n)
  BY <1>1 DEF Span, x
<1>4. Span(h, t, n) \in 0 .. n - 1
  BY DEF Span
<1>5. QED
  BY <1>2, <1>3, <1>4 DEF x

\* The next index is one more, or 0 after the last.
LEMMA RingNext ==
    ASSUME NEW n \in Nat \ {0}, NEW t \in 0 .. n - 1
    PROVE  (t + 1) % n = (IF t + 1 = n THEN 0 ELSE t + 1) /\ (t + 1) % n \in 0 .. n - 1
<1> DEFINE x == t + 1
           m == x % n
<1>1. x \in Int /\ 0 <= x /\ x <= n
  OBVIOUS
<1> HIDE DEF x
<1>2. (x # n => m = x) /\ (x = n => m = 0)
  BY <1>1, ModInside, ModAbove
<1> HIDE DEF m
<1>3. m = (IF x = n THEN 0 ELSE x) /\ m \in 0 .. n - 1
  BY <1>1, <1>2
<1>4. QED
  BY <1>3 DEF m, x

\* The cell j places after the head.
LEMMA RingCell ==
    ASSUME NEW n \in Nat \ {0}, NEW h \in 0 .. n - 1, NEW j \in 0 .. n - 1
    PROVE  (h + j) % n = (IF h + j < n THEN h + j ELSE h + j - n)
           /\ (h + j) % n \in 0 .. n - 1
<1> DEFINE x == h + j
           m == x % n
<1>1. x \in Int /\ 0 <= x /\ x < n + n
  OBVIOUS
<1> HIDE DEF x
<1>2. (x < n => m = x) /\ (n <= x => m = x - n)
  BY <1>1, ModInside, ModAbove
<1> HIDE DEF m
<1>3. m = (IF x < n THEN x ELSE x - n) /\ m \in 0 .. n - 1
  BY <1>1, <1>2
<1>4. QED
  BY <1>3 DEF m, x

\* A cell more at the end: when the ring is full, and what happens when it is not.
LEMMA RingPut ==
    ASSUME NEW n \in Nat \ {0}, NEW h \in 0 .. n - 1, NEW t \in 0 .. n - 1
    PROVE  /\ h = (t + 1) % n => Span(h, t, n) = n - 1
           /\ h # (t + 1) % n => /\ Span(h, t, n) \in 0 .. n - 2
                                 /\ Span(h, (t + 1) % n, n) = Span(h, t, n) + 1
           /\ (h + Span(h, t, n)) % n = t
           /\ \A j \in 0 .. Span(h, t, n) - 1 : (h + j) % n # t
<1> DEFINE s == (t + 1) % n
<1>1. s = (IF t + 1 = n THEN 0 ELSE t + 1) /\ s \in 0 .. n - 1
  BY RingNext
<1>2. Span(h, t, n) \in 0 .. n - 1
  BY RingSpan
<1> HIDE DEF s
<1>3. /\ h = s => Span(h, t, n) = n - 1
      /\ h # s => Span(h, t, n) \in 0 .. n - 2 /\ Span(h, s, n) = Span(h, t, n) + 1
  BY <1>1 DEF Span
<1>4. (h + Span(h, t, n)) % n = t
  <2> DEFINE j == Span(h, t, n)
  <2>1. (h + j) % n = (IF h + j < n THEN h + j ELSE h + j - n)
    BY <1>2, RingCell
  <2>2. QED
    BY <2>1 DEF Span
<1>5. ASSUME NEW j \in 0 .. Span(h, t, n) - 1 PROVE (h + j) % n # t
  <2>1. j \in 0 .. n - 1
    BY <1>2
  <2>2. (h + j) % n = (IF h + j < n THEN h + j ELSE h + j - n)
    BY <2>1, RingCell
  <2>3. QED
    BY <2>2 DEF Span
<1>6. QED
  BY <1>3, <1>4, <1>5 DEF s

\* A cell less at the start: when the ring is empty, and where the others are then.
LEMMA RingGet ==
    ASSUME NEW n \in Nat \ {0}, NEW h \in 0 .. n - 1, NEW t \in 0 .. n - 1
    PROVE  /\ h = t <=> Span(h, t, n) = 0
           /\ h # t => Span((h + 1) % n, t, n) = Span(h, t, n) - 1
           /\ \A j \in 0 .. n - 2 : (((h + 1) % n) + j) % n = (h + (j + 1)) % n
<1> DEFINE g == (h + 1) % n
<1>1. g = (IF h + 1 = n THEN 0 ELSE h + 1) /\ g \in 0 .. n - 1
  BY RingNext
<1> HIDE DEF g
<1>2. /\ h = t <=> Span(h, t, n) = 0
      /\ h # t => Span(g, t, n) = Span(h, t, n) - 1
  BY <1>1 DEF Span
<1>3. ASSUME NEW j \in 0 .. n - 2 PROVE (g + j) % n = (h + (j + 1)) % n
  <2>1. j \in 0 .. n - 1 /\ j + 1 \in 0 .. n - 1
    OBVIOUS
  <2>2. (h + (j + 1)) % n = (IF h + (j + 1) < n THEN h + (j + 1) ELSE h + (j + 1) - n)
    BY <2>1, RingCell
  <2>3. (g + j) % n = (IF g + j < n THEN g + j ELSE g + j - n)
    BY <1>1, <2>1, RingCell
  <2>4. QED
    BY <1>1, <2>2, <2>3
<1>4. QED
  BY <1>2, <1>3 DEF g

\* A prefix grows by its next element, and a suffix loses its first.
LEMMA PrefixGrows ==
    ASSUME NEW T, NEW s \in Seq(T), NEW k \in 0 .. Len(s) - 1
    PROVE  SubSeq(s, 1, k + 1) = Append(SubSeq(s, 1, k), s[k + 1])
<1>1. Len(s) \in Nat
  OBVIOUS
<1>2. SubSeq(s, 1, k) \in Seq(T) /\ Len(SubSeq(s, 1, k)) = k
      /\ \A i \in 1 .. k : SubSeq(s, 1, k)[i] = s[i]
  BY <1>1
<1>3. SubSeq(s, 1, k + 1) \in Seq(T) /\ Len(SubSeq(s, 1, k + 1)) = k + 1
      /\ \A i \in 1 .. k + 1 : SubSeq(s, 1, k + 1)[i] = s[i]
  BY <1>1
<1>4. QED
  BY <1>1, <1>2, <1>3

\* What is left of a sequence loses its first element as the part taken grows.
LEMMA SuffixShrinks ==
    ASSUME NEW T, NEW s \in Seq(T), NEW k \in 0 .. Len(s) - 1
    PROVE  /\ Head(SubSeq(s, k + 1, Len(s))) = s[k + 1]
           /\ Tail(SubSeq(s, k + 1, Len(s))) = SubSeq(s, k + 2, Len(s))
<1>1. Len(s) \in Nat
  OBVIOUS
<1> DEFINE r == SubSeq(s, k + 1, Len(s))
           q == SubSeq(s, k + 2, Len(s))
<1>2. r \in Seq(T) /\ Len(r) = Len(s) - k /\ \A i \in 1 .. Len(s) - k : r[i] = s[k + i]
  BY <1>1
<1>3. q \in Seq(T) /\ Len(q) = Len(s) - k - 1
      /\ \A i \in 1 .. Len(s) - k - 1 : q[i] = s[k + 1 + i]
  BY <1>1
<1> HIDE DEF r, q
<1>4. Head(r) = s[k + 1]
  BY <1>1, <1>2
<1>5. Tail(r) \in Seq(T) /\ Len(Tail(r)) = Len(s) - k - 1
      /\ \A i \in 1 .. Len(s) - k - 1 : Tail(r)[i] = r[i + 1]
  BY <1>1, <1>2
<1>6. Tail(r) = q
  <2>1. ASSUME NEW i \in 1 .. Len(s) - k - 1 PROVE Tail(r)[i] = q[i]
    <3>1. i + 1 \in 1 .. Len(s) - k /\ k + (i + 1) = k + 1 + i
      BY <1>1
    <3>2. QED
      BY <1>2, <1>3, <1>5, <3>1
  <2> DEFINE n == Len(s) - k - 1
  <2>2. n \in Nat /\ Tail(r) \in Seq(T) /\ q \in Seq(T) /\ Len(Tail(r)) = n /\ Len(q) = n
        /\ \A i \in 1 .. n : Tail(r)[i] = q[i]
    BY <1>1, <1>3, <1>5, <2>1
  <2> HIDE DEF n
  <2>3. QED
    BY <2>2
<1>7. QED
  BY <1>4, <1>6 DEF r, q


Cell == Byte \cup {Junk}

Buffer == UNION {[0 .. n - 1 -> Cell] : n \in Nat}

Dev == [present : BOOLEAN, ownerpid : Proc \cup {NoPid}, size : Nat, head : Nat,
        tail : Nat, semaforo : {0, 1}, buffer : Buffer]

\* An entry that was opened at least once: its indices are inside its buffer.
Ring(d) ==
    /\ d \in Dev /\ d.size # 0
    /\ d.head \in 0 .. d.size - 1 /\ d.tail \in 0 .. d.size - 1
    /\ d.buffer \in [0 .. d.size - 1 -> Cell]

\* What the loops of read() and write() go through, from d0.
Turn(d0) ==
    {t \in [d : Dev, bytes : Seq(Cell)] :
        /\ Ring(t.d) /\ t.d.size = d0.size
        /\ t.d.present = d0.present /\ t.d.semaforo = d0.semaforo}

\* A function over the indices of a buffer of n bytes is a buffer.
LEMMA IsBuffer ==
    ASSUME NEW n \in Nat, NEW f \in [0 .. n - 1 -> Cell]
    PROVE  f \in Buffer
  BY DEF Buffer

\* What the turns of write() and read() do to an entry.
AfterPut(d, f, n) == [d EXCEPT !.buffer = f, !.tail = n]
Put1(d, b) == [d EXCEPT !.buffer[d.tail] = b, !.tail = (@ + 1) % d.size]
Get1(d) == [d EXCEPT !.head = (@ + 1) % d.size]

\* The fields of an entry when its buffer and its tail are assigned.
LEMMA AfterPutFields ==
    ASSUME NEW d \in Dev, NEW f \in Buffer, NEW n \in Nat
    PROVE  LET e == AfterPut(d, f, n)
           IN /\ e \in Dev /\ e.buffer = f /\ e.tail = n /\ e.head = d.head
              /\ e.size = d.size /\ e.present = d.present /\ e.semaforo = d.semaforo
<1> HIDE DEF Buffer
<1>1. QED
  BY DEF AfterPut, Dev

\* A byte put in a ring leaves a ring, of the same size.
LEMMA PutFields ==
    ASSUME NEW d, Ring(d), NEW b \in Byte
    PROVE  LET e == Put1(d, b)
           IN /\ Ring(e) /\ e.buffer = [d.buffer EXCEPT ![d.tail] = b]
              /\ e.tail = (d.tail + 1) % d.size /\ e.head = d.head /\ e.size = d.size
              /\ e.present = d.present /\ e.semaforo = d.semaforo
<1> DEFINE f == [d.buffer EXCEPT ![d.tail] = b]
           n == (d.tail + 1) % d.size
           e == AfterPut(d, f, n)
<1>1. d \in Dev /\ d.size \in Nat \ {0} /\ d.tail \in 0 .. d.size - 1
      /\ d.buffer \in [0 .. d.size - 1 -> Cell]
  BY DEF Ring, Dev
<1>2. n \in 0 .. d.size - 1
  BY <1>1
<1>3. f \in [0 .. d.size - 1 -> Cell] /\ f \in Buffer
  <2>1. f \in [0 .. d.size - 1 -> Cell]
    BY <1>1 DEF Cell
  <2>2. QED
    BY <1>1, <2>1, IsBuffer
<1>4. Put1(d, b) = e
  BY DEF AfterPut, Put1
<1> HIDE DEF f, n
<1>5. /\ e \in Dev /\ e.buffer = f /\ e.tail = n /\ e.head = d.head
      /\ e.size = d.size /\ e.present = d.present /\ e.semaforo = d.semaforo
  BY <1>1, <1>2, <1>3, AfterPutFields
<1>6. Ring(e)
  <2> HIDE DEF e
  <2>1. QED
    BY <1>1, <1>2, <1>3, <1>5 DEF Ring
<1> HIDE DEF e
<1>7. QED
  BY <1>4, <1>5, <1>6 DEF f, n

\* One turn of write() keeps the ring a ring of the same size.
LEMMA PutTyped ==
    ASSUME NEW d0, NEW t \in Turn(d0), NEW b \in Byte
    PROVE  PutByte(t, b) \in Turn(d0)
<1>1. t \in [d : Dev, bytes : Seq(Cell)] /\ Ring(t.d) /\ t.d \in Dev /\ t.bytes \in Seq(Cell)
  BY DEF Turn
<1> DEFINE e == Put1(t.d, b)
<1>2. Ring(e) /\ e.size = t.d.size /\ e.present = t.d.present /\ e.semaforo = t.d.semaforo
  BY <1>1, PutFields
<1>3. e \in Dev
  BY <1>2 DEF Ring
<1> HIDE DEF e
<1>4. Append(t.bytes, b) \in Seq(Cell)
  BY <1>1 DEF Cell
<1>5. [d |-> e, bytes |-> Append(t.bytes, b)] \in Turn(d0)
  BY <1>2, <1>3, <1>4 DEF Turn
<1>6. QED
  BY <1>5 DEF PutByte, e, Put1

\* A byte taken from a ring leaves a ring, of the same size.
LEMMA GetFields ==
    ASSUME NEW d, Ring(d)
    PROVE  LET e == Get1(d)
           IN /\ Ring(e) /\ e.head = (d.head + 1) % d.size /\ e.tail = d.tail
              /\ e.buffer = d.buffer /\ e.size = d.size
              /\ e.present = d.present /\ e.semaforo = d.semaforo
<1> DEFINE e == Get1(d)
<1>1. d \in Dev /\ d.size \in Nat \ {0} /\ d.head \in 0 .. d.size - 1
  BY DEF Ring, Dev
<1>2. (d.head + 1) % d.size \in 0 .. d.size - 1
  BY <1>1
<1>3. /\ e \in Dev /\ e.buffer = d.buffer /\ e.head = (d.head + 1) % d.size /\ e.tail = d.tail
      /\ e.size = d.size /\ e.present = d.present /\ e.semaforo = d.semaforo
  BY <1>1, <1>2 DEF Dev, Get1
<1> HIDE DEF e
<1>4. Ring(e)
  BY <1>2, <1>3 DEF Ring
<1>5. QED
  BY <1>3, <1>4 DEF e

\* One turn of read() keeps the ring a ring too.
LEMMA GetTyped ==
    ASSUME NEW d0, NEW t \in Turn(d0)
    PROVE  GetByte(t) \in Turn(d0)
<1>1. t \in [d : Dev, bytes : Seq(Cell)] /\ Ring(t.d) /\ t.d \in Dev /\ t.bytes \in Seq(Cell)
  BY DEF Turn
<1> DEFINE e == Get1(t.d)
<1>2. Ring(e) /\ e.size = t.d.size /\ e.present = t.d.present /\ e.semaforo = t.d.semaforo
  BY <1>1, GetFields
<1>3. e \in Dev
  BY <1>2 DEF Ring
<1> HIDE DEF e
<1>4. Append(t.bytes, t.d.buffer[t.d.head]) \in Seq(Cell)
  <2>1. t.d.buffer[t.d.head] \in Cell
    BY <1>1 DEF Ring
  <2>2. QED
    BY <1>1, <2>1
<1>5. [d |-> e, bytes |-> Append(t.bytes, t.d.buffer[t.d.head])] \in Turn(d0)
  BY <1>2, <1>3, <1>4 DEF Turn
<1>6. QED
  BY <1>5 DEF GetByte, e, Get1

------------------------------------------------------------------------------
(* One turn, on the queue the ring stands for *)

\* What is in an open ring: a sequence shorter than the ring.
LEMMA ContentTyped ==
    ASSUME NEW d, Ring(d), d.present
    PROVE  /\ Content(d) \in Seq(Cell)
           /\ Len(Content(d)) = Span(d.head, d.tail, d.size)
           /\ Len(Content(d)) \in 0 .. d.size - 1
           /\ \A k \in 1 .. Len(Content(d)) :
                 Content(d)[k] = d.buffer[(d.head + (k - 1)) % d.size]
<1>1. d.size \in Nat \ {0} /\ d.tail \in 0 .. d.size - 1 /\ d.head \in 0 .. d.size - 1
      /\ d.buffer \in [0 .. d.size - 1 -> Cell]
  BY DEF Ring, Dev
<1> DEFINE L == (d.tail - d.head) % d.size
<1>2. L = Span(d.head, d.tail, d.size) /\ L \in 0 .. d.size - 1
  BY <1>1, RingSpan
<1>3. Content(d) = [k \in 1 .. L |-> d.buffer[(d.head + k - 1) % d.size]]
  BY DEF Content
<1> HIDE DEF L
<1>4. ASSUME NEW k \in 1 .. L
      PROVE  /\ d.head + k - 1 = d.head + (k - 1)
             /\ (d.head + (k - 1)) % d.size \in 0 .. d.size - 1
  <2>1. k - 1 \in 0 .. d.size - 1 /\ d.head + k - 1 = d.head + (k - 1)
    BY <1>1, <1>2
  <2>2. QED
    BY <1>1, <2>1, RingCell
<1>5. \A k \in 1 .. L : Content(d)[k] = d.buffer[(d.head + (k - 1)) % d.size]
  BY <1>3, <1>4
<1>6. Content(d) \in [1 .. L -> Cell]
  BY <1>1, <1>3, <1>4, <1>5
<1>7. Content(d) \in Seq(Cell) /\ Len(Content(d)) = L
  BY <1>2, <1>6
<1>8. QED
  BY <1>2, <1>5, <1>7

\* When write() finds the ring full, the queue holds all it has room for, one byte less
\* than the ring.
LEMMA FullContent ==
    ASSUME NEW d, Ring(d), d.present, d.head = (d.tail + 1) % d.size
    PROVE  Len(Content(d)) = d.size - 1
<1>1. d.size \in Nat \ {0} /\ d.tail \in 0 .. d.size - 1 /\ d.head \in 0 .. d.size - 1
  BY DEF Ring, Dev
<1>2. Span(d.head, d.tail, d.size) = d.size - 1
  BY <1>1, RingPut
<1>3. QED
  BY <1>2, ContentTyped

\* Otherwise the byte goes at the end of the queue, across the wrap around.
LEMMA PutContent ==
    ASSUME NEW d, Ring(d), d.present, NEW b \in Byte, d.head # (d.tail + 1) % d.size
    PROVE  /\ Len(Content(d)) < d.size - 1
           /\ Content(Put1(d, b)) = Append(Content(d), b)
<1>1. d.size \in Nat \ {0} /\ d.tail \in 0 .. d.size - 1 /\ d.head \in 0 .. d.size - 1
      /\ d.buffer \in [0 .. d.size - 1 -> Cell]
  BY DEF Ring, Dev
<1> DEFINE n == d.size
           h == d.head
           L == Span(h, d.tail, n)
           e == Put1(d, b)
<1>2. /\ Ring(e) /\ e.buffer = [d.buffer EXCEPT ![d.tail] = b]
      /\ e.tail = (d.tail + 1) % n /\ e.head = h /\ e.size = n /\ e.present
  BY PutFields
<1> HIDE DEF e
<1>3. L \in 0 .. n - 2 /\ Span(h, e.tail, n) = L + 1 /\ (h + L) % n = d.tail
      /\ \A j \in 0 .. L - 1 : (h + j) % n # d.tail
  <2> DEFINE tl == d.tail
  <2>1. n \in Nat \ {0} /\ h \in 0 .. n - 1 /\ tl \in 0 .. n - 1 /\ h # (tl + 1) % n
    BY <1>1
  <2> HIDE DEF n, h, tl
  <2>2. /\ h # (tl + 1) % n => /\ Span(h, tl, n) \in 0 .. n - 2
                               /\ Span(h, (tl + 1) % n, n) = Span(h, tl, n) + 1
        /\ (h + Span(h, tl, n)) % n = tl
        /\ \A j \in 0 .. Span(h, tl, n) - 1 : (h + j) % n # tl
    BY <2>1, RingPut
  <2>3. e.tail = (tl + 1) % n
    BY <1>2, Zenon DEF tl
  <2>4. Span(h, e.tail, n) = Span(h, tl, n) + 1
    BY <2>1, <2>2, <2>3, Zenon
  <2>5. QED
    BY <2>1, <2>2, <2>4, Zenon DEF tl
<1>4. Content(d) \in Seq(Cell) /\ Len(Content(d)) = L
      /\ \A k \in 1 .. L : Content(d)[k] = d.buffer[(h + (k - 1)) % n]
  BY ContentTyped
<1>5. Content(e) \in Seq(Cell) /\ Len(Content(e)) = L + 1
      /\ \A k \in 1 .. L + 1 : Content(e)[k] = e.buffer[(h + (k - 1)) % n]
  <2>1. Len(Content(e)) = Span(e.head, e.tail, e.size) /\ Content(e) \in Seq(Cell)
        /\ \A k \in 1 .. Len(Content(e)) : Content(e)[k] = e.buffer[(e.head + (k - 1)) % e.size]
    BY <1>2, ContentTyped
  <2>2. QED
    BY <1>2, <1>3, <2>1
<1> HIDE DEF L, h, n
<1>6. ASSUME NEW k \in 1 .. L PROVE Content(e)[k] = Content(d)[k]
  <2>1. k \in 1 .. L + 1 /\ k - 1 \in 0 .. L - 1 /\ k - 1 \in 0 .. n - 1
    BY <1>3, <1>1 DEF n
  <2>2. (h + (k - 1)) % n # d.tail /\ (h + (k - 1)) % n \in 0 .. d.size - 1
    BY <1>1, <1>3, <2>1, RingCell DEF h, n
  <2>3. e.buffer[(h + (k - 1)) % n] = d.buffer[(h + (k - 1)) % n]
    BY <1>1, <1>2, <2>2
  <2>4. QED
    BY <1>4, <1>5, <2>1, <2>3
<1>7. Content(e)[L + 1] = b
  <2>1. Content(e)[L + 1] = e.buffer[(h + ((L + 1) - 1)) % n] /\ (L + 1) - 1 = L
    BY <1>3, <1>5
  <2>2. e.buffer[d.tail] = b
    BY <1>1, <1>2
  <2>3. QED
    BY <1>3, <2>1, <2>2
<1>8. Content(e) = Append(Content(d), b)
  <2>1. L \in Nat
    BY <1>3
  <2>2. QED
    BY <1>4, <1>5, <1>6, <1>7, <2>1 DEF Cell
<1>9. QED
  <2>1. L < n - 1
    BY <1>1, <1>3 DEF n
  <2>2. QED
    BY <1>4, <1>8, <2>1, Zenon DEF e, n

\* read() stops when the queue is empty, and otherwise takes its first byte.
LEMMA GetContent ==
    ASSUME NEW d, Ring(d), d.present
    PROVE  /\ d.head = d.tail => Content(d) = <<>>
           /\ d.head # d.tail => /\ Content(d) # <<>>
                                 /\ d.buffer[d.head] = Head(Content(d))
                                 /\ Content(Get1(d)) = Tail(Content(d))
<1>1. d.size \in Nat \ {0} /\ d.tail \in 0 .. d.size - 1 /\ d.head \in 0 .. d.size - 1
      /\ d.buffer \in [0 .. d.size - 1 -> Cell]
  BY DEF Ring, Dev
<1> DEFINE n == d.size
           h == d.head
           L == Span(h, d.tail, n)
           e == Get1(d)
<1>2. /\ Ring(e) /\ e.buffer = d.buffer /\ e.tail = d.tail /\ e.head = (h + 1) % n
      /\ e.size = n /\ e.present
  BY GetFields
<1> HIDE DEF e
<1>3. /\ h = d.tail <=> L = 0
      /\ h # d.tail => Span(e.head, d.tail, n) = L - 1
      /\ \A j \in 0 .. n - 2 : (e.head + j) % n = (h + (j + 1)) % n
  <2> DEFINE tl == d.tail
  <2>1. n \in Nat \ {0} /\ h \in 0 .. n - 1 /\ tl \in 0 .. n - 1
    BY <1>1
  <2> HIDE DEF n, h, tl
  <2>2. /\ h = tl <=> Span(h, tl, n) = 0
        /\ h # tl => Span((h + 1) % n, tl, n) = Span(h, tl, n) - 1
        /\ \A j \in 0 .. n - 2 : (((h + 1) % n) + j) % n = (h + (j + 1)) % n
    BY <2>1, RingGet, Zenon
  <2>3. QED
    BY <1>2, <2>2, Zenon DEF tl
<1>4. Content(d) \in Seq(Cell) /\ Len(Content(d)) = L /\ L \in 0 .. n - 1
      /\ \A k \in 1 .. L : Content(d)[k] = d.buffer[(h + (k - 1)) % n]
  BY ContentTyped
<1> HIDE DEF L
<1>5. ASSUME h = d.tail PROVE Content(d) = <<>>
  BY <1>3, <1>4, <1>5
<1>6. ASSUME h # d.tail
      PROVE  /\ Content(d) # <<>> /\ d.buffer[h] = Head(Content(d))
             /\ Content(e) = Tail(Content(d))
  <2>1. L \in Nat \ {0} /\ Content(d) # <<>>
    BY <1>3, <1>4, <1>6
  <2>2. (h + (1 - 1)) % n = h
    <3>1. h + (1 - 1) = h
      BY <1>1
    <3>2. h % n = h
      <4>1. n \in Nat \ {0} /\ h \in Int /\ 0 <= h /\ h < n
        BY <1>1
      <4> HIDE DEF h, n
      <4>2. QED
        BY <4>1, ModInside
    <3>3. QED
      BY <3>1, <3>2
  <2>3. d.buffer[h] = Head(Content(d))
    <3>1. Content(d)[1] = d.buffer[h]
      BY <1>4, <2>1, <2>2
    <3>2. Head(Content(d)) = Content(d)[1]
      OBVIOUS
    <3>3. QED
      BY <3>1, <3>2
  <2>4. Content(e) \in Seq(Cell) /\ Len(Content(e)) = L - 1
        /\ \A k \in 1 .. L - 1 : Content(e)[k] = d.buffer[(e.head + (k - 1)) % n]
    <3>1. Len(Content(e)) = Span(e.head, e.tail, e.size) /\ Content(e) \in Seq(Cell)
          /\ \A k \in 1 .. Len(Content(e)) :
                Content(e)[k] = e.buffer[(e.head + (k - 1)) % e.size]
      BY <1>2, ContentTyped
    <3>2. QED
      BY <1>2, <1>3, <1>6, <3>1
  <2> HIDE DEF h, n
  <2>5. ASSUME NEW k \in 1 .. L - 1 PROVE Content(e)[k] = Content(d)[k + 1]
    <3>1. k - 1 \in 0 .. n - 2 /\ k + 1 \in 1 .. L /\ (k - 1) + 1 = (k + 1) - 1
      BY <1>1, <1>4, <2>1 DEF n
    <3>2. QED
      BY <1>3, <1>4, <2>4, <3>1, ZenonT(40)
  <2>6. Content(e) = Tail(Content(d))
    <3>1. Tail(Content(d)) \in Seq(Cell) /\ Len(Tail(Content(d))) = L - 1
          /\ \A k \in 1 .. L - 1 : Tail(Content(d))[k] = Content(d)[k + 1]
      BY <1>4, <2>1
    <3>2. QED
      BY <2>1, <2>4, <2>5, <3>1
  <2>7. QED
    BY <2>1, <2>3, <2>6 DEF h
<1>7. QED
  BY <1>5, <1>6 DEF e

------------------------------------------------------------------------------
(* The loops of write() and read() *)

\* Before its first turn a loop has moved no byte.
LEMMA TurnStart ==
    ASSUME NEW d, Ring(d)
    PROVE  LET t0 == [d |-> d, bytes |-> <<>>]
           IN t0 \in Turn(d) /\ t0.d = d /\ t0.bytes = <<>>
  BY DEF Turn, Ring

\* The loop of write() has a run, so WriteLoop() is the end of one.
LEMMA WriteRun ==
    ASSUME NEW d, Ring(d), NEW s \in Seq(Byte)
    PROVE  \E g : /\ g[0] = [d |-> d, bytes |-> <<>>]
                  /\ \A k \in 1 .. Len(s) : g[k] = PutByte(g[k - 1], s[k])
                  /\ WriteLoop(d, s) = g[Len(s)]
<1> DEFINE t0 == [d |-> d, bytes |-> <<>>]
           Run(g) == g = [k \in 0 .. Len(s) |->
                             IF k = 0 THEN t0 ELSE PutByte(g[k - 1], s[k])]
           F == [k \in 1 .. Len(s) |-> [t \in Turn(d) |-> PutByte(t, s[k])]]
<1>1. t0 \in Turn(d)
  BY TurnStart
<1>2. Len(s) \in Nat /\ \A k \in 1 .. Len(s) : s[k] \in Byte
  OBVIOUS
<1>3. F \in [1 .. Len(s) -> [Turn(d) -> Turn(d)]]
  BY <1>2, PutTyped
<1>4. \E g \in [0 .. Len(s) -> Turn(d)] :
         g[0] = t0 /\ \A k \in 1 .. Len(s) : g[k] = F[k][g[k - 1]]
  <2> DEFINE n == Len(s)
             T == Turn(d)
  <2>1. t0 \in T /\ n \in Nat /\ F \in [1 .. n -> [T -> T]]
    BY <1>1, <1>2, <1>3
  <2> HIDE DEF F, t0, n, T
  <2>2. \E g \in [0 .. n -> T] : g[0] = t0 /\ \A k \in 1 .. n : g[k] = F[k][g[k - 1]]
    BY <2>1, LoopExists
  <2>3. QED
    BY <2>2 DEF n, T
<1>5. \E g : Run(g)
  <2>1. PICK g \in [0 .. Len(s) -> Turn(d)] :
           g[0] = t0 /\ \A k \in 1 .. Len(s) : g[k] = F[k][g[k - 1]]
    BY <1>4
  <2> HIDE DEF t0
  <2>2. ASSUME NEW k \in 0 .. Len(s)
        PROVE  g[k] = IF k = 0 THEN t0 ELSE PutByte(g[k - 1], s[k])
    <3>1. CASE k = 0
      BY <2>1, <3>1
    <3>2. CASE k # 0
      <4>1. k \in 1 .. Len(s) /\ k - 1 \in 0 .. Len(s)
        BY <1>2, <3>2
      <4>2. g[k] = F[k][g[k - 1]] /\ g[k - 1] \in Turn(d)
        BY <2>1, <4>1
      <4>3. F[k][g[k - 1]] = PutByte(g[k - 1], s[k])
        BY <4>1, <4>2
      <4>4. QED
        BY <3>2, <4>2, <4>3
    <3>3. QED
      BY <3>1, <3>2
  <2>3. Run(g)
    BY <2>1, <2>2
  <2>4. QED
    BY <2>3
<1> DEFINE turn == CHOOSE g : Run(g)
<1>6. Run(turn)
  BY <1>5, Zenon
<1>7. WriteLoop(d, s) = turn[Len(s)]
  BY Zenon DEF WriteLoop
<1> HIDE DEF turn, t0
<1>8. turn[0] = t0 /\ \A k \in 1 .. Len(s) : turn[k] = PutByte(turn[k - 1], s[k])
  BY <1>2, <1>6
<1>9. QED
  BY <1>7, <1>8 DEF t0

\* A byte more at the end of what is appended.
LEMMA AppendCell ==
    \A C, a \in Seq(Cell), x \in Cell : Append(C \o a, x) = C \o Append(a, x)
  OBVIOUS

\* Where the loop of write() is after k turns: the first bytes of s that fit are in the
\* queue, and no other.
Wrote(t, k, d, s) ==
    LET m == CQ!Least(k, d.size - 1 - Len(Content(d)))
    IN /\ t \in Turn(d)
       /\ Content(t.d) = Content(d) \o SubSeq(s, 1, m)
       /\ t.bytes = SubSeq(s, 1, m)

\* One more byte of a write: it joins the contents if there was room for it, and what has
\* been written so far is the part of the string that fits.
LEMMA WriteStep ==
    ASSUME NEW d, Ring(d), d.present, NEW s \in Seq(Byte), NEW k \in 0 .. Len(s) - 1,
           NEW t, Wrote(t, k, d, s)
    PROVE  Wrote(PutByte(t, s[k + 1]), k + 1, d, s)
<1> DEFINE C == Content(d)
           room == d.size - 1 - Len(C)
           m == CQ!Least(k, room)
           p == CQ!Least(k + 1, room)
           u == PutByte(t, s[k + 1])
<1>1. C \in Seq(Cell) /\ room \in Nat /\ d.size \in Nat
  BY ContentTyped DEF Ring, Dev
<1>2. /\ t \in Turn(d) /\ Ring(t.d) /\ t.d.present /\ t.d.size = d.size
      /\ Content(t.d) = C \o SubSeq(s, 1, m) /\ t.bytes = SubSeq(s, 1, m)
  BY DEF Wrote, Turn
<1>3. s \in Seq(Cell) /\ s[k + 1] \in Byte /\ s[k + 1] \in Cell /\ Len(s) \in Nat
  BY DEF Cell
<1>4. u \in Turn(d)
  BY <1>2, <1>3, PutTyped
<1>5. m \in 0 .. k /\ m <= room
  BY <1>1 DEF CQ!Least
<1> HIDE DEF C
<1>6. SubSeq(s, 1, m) \in Seq(Cell) /\ Len(SubSeq(s, 1, m)) = m
  BY <1>3, <1>5
<1>7. Len(Content(t.d)) = Len(C) + m
  BY <1>1, <1>2, <1>6
<1>8. CASE t.d.head = (t.d.tail + 1) % t.d.size
  <2>1. Len(C) + m = d.size - 1
    BY <1>2, <1>7, <1>8, FullContent
  <2>2. m = p
    BY <1>1, <2>1 DEF CQ!Least
  <2>3. u = t
    BY <1>8 DEF PutByte
  <2> HIDE DEF u, m, p
  <2>4. Content(u.d) = C \o SubSeq(s, 1, p) /\ u.bytes = SubSeq(s, 1, p)
    BY <1>2, <2>2, <2>3
  <2>5. QED
    BY <1>4, <2>4, Zenon DEF Wrote, u, p, C
<1>9. CASE t.d.head # (t.d.tail + 1) % t.d.size
  <2>1. Len(C) + m < d.size - 1
    BY <1>2, <1>3, <1>7, <1>9, PutContent
  <2>2. m = k /\ p = k + 1
    BY <1>1, <2>1 DEF CQ!Least
  <2>3. Content(Put1(t.d, s[k + 1])) = Append(Content(t.d), s[k + 1])
    BY <1>2, <1>3, <1>9, PutContent
  <2>4. u.d = Put1(t.d, s[k + 1]) /\ u.bytes = Append(t.bytes, s[k + 1])
    BY <1>9 DEF PutByte, Put1
  <2> HIDE DEF u, m, p
  <2>5. SubSeq(s, 1, p) = Append(SubSeq(s, 1, m), s[k + 1])
    BY <1>3, <2>2, PrefixGrows
  <2>6. Content(u.d) = C \o SubSeq(s, 1, p)
    <3> DEFINE a == SubSeq(s, 1, m)
               x == s[k + 1]
    <3>1. C \in Seq(Cell) /\ a \in Seq(Cell) /\ x \in Cell
      BY <1>1, <1>3, <1>6
    <3>2. Content(u.d) = Append(C \o a, x) /\ SubSeq(s, 1, p) = Append(a, x)
      BY <1>2, <2>3, <2>4, <2>5, Zenon
    <3> HIDE DEF a, x
    <3>3. Append(C \o a, x) = C \o Append(a, x)
      BY <3>1, AppendCell, Zenon
    <3>4. QED
      BY <3>2, <3>3, Zenon
  <2>7. u.bytes = SubSeq(s, 1, p)
    BY <1>2, <2>4, <2>5
  <2>8. QED
    BY <1>4, <2>6, <2>7, Zenon DEF Wrote, u, p, C
<1>10. QED
  BY <1>8, <1>9

\* write() appends to the queue the first bytes of s that fit, and says how many.
LEMMA WriteDoes ==
    ASSUME NEW d, Ring(d), d.present, NEW s \in Seq(Byte)
    PROVE  Wrote(WriteLoop(d, s), Len(s), d, s)
<1>1. PICK g : /\ g[0] = [d |-> d, bytes |-> <<>>]
               /\ \A k \in 1 .. Len(s) : g[k] = PutByte(g[k - 1], s[k])
               /\ WriteLoop(d, s) = g[Len(s)]
  BY WriteRun
<1>2. Len(s) \in Nat
  OBVIOUS
<1> DEFINE S == {k \in Nat : k <= Len(s) => Wrote(g[k], k, d, s)}
<1>3. 0 \in S
  <2>1. g[0] \in Turn(d) /\ g[0].d = d /\ g[0].bytes = <<>>
    BY <1>1, TurnStart, Zenon
  <2>2. Content(d) \in Seq(Cell) /\ d.size - 1 - Len(Content(d)) \in Nat
    BY ContentTyped DEF Ring, Dev
  <2>3. CQ!Least(0, d.size - 1 - Len(Content(d))) = 0
    BY <2>2 DEF CQ!Least
  <2>4. SubSeq(s, 1, 0) = <<>>
    OBVIOUS
  <2>5. Content(d) \o <<>> = Content(d)
    BY <2>2
  <2>6. Wrote(g[0], 0, d, s)
    BY <2>1, <2>3, <2>4, <2>5, Zenon DEF Wrote
  <2>7. QED
    BY <2>6
<1>4. ASSUME NEW k \in S PROVE k + 1 \in S
  <2>1. SUFFICES ASSUME k + 1 <= Len(s) PROVE Wrote(g[k + 1], k + 1, d, s)
    BY <2>1
  <2>2. k \in 0 .. Len(s) - 1 /\ Wrote(g[k], k, d, s)
    BY <1>2, <2>1
  <2>3. g[k + 1] = PutByte(g[k], s[k + 1])
    <3>1. k + 1 \in 1 .. Len(s) /\ (k + 1) - 1 = k
      BY <2>2
    <3>2. QED
      BY <1>1, <3>1
  <2>4. Wrote(PutByte(g[k], s[k + 1]), k + 1, d, s)
    BY <2>2, WriteStep
  <2>5. QED
    BY <2>3, <2>4, Zenon
<1> HIDE DEF S
<1>5. S = Nat
  <2>1. S \in SUBSET Nat
    BY DEF S
  <2>2. QED
    BY <1>3, <1>4, <2>1, Inductive
<1>6. Wrote(g[Len(s)], Len(s), d, s)
  BY <1>2, <1>5 DEF S
<1>7. QED
  BY <1>1, <1>6, Zenon

\* The same for read().
LEMMA ReadRun ==
    ASSUME NEW d, Ring(d), NEW count \in Nat
    PROVE  \E g : /\ g[0] = [d |-> d, bytes |-> <<>>]
                  /\ \A k \in 1 .. count : g[k] = GetByte(g[k - 1])
                  /\ ReadLoop(d, count) = g[count]
<1> DEFINE t0 == [d |-> d, bytes |-> <<>>]
           Run(g) == g = [k \in 0 .. count |-> IF k = 0 THEN t0 ELSE GetByte(g[k - 1])]
           F == [k \in 1 .. count |-> [t \in Turn(d) |-> GetByte(t)]]
<1>1. t0 \in Turn(d)
  BY TurnStart
<1>2. F \in [1 .. count -> [Turn(d) -> Turn(d)]]
  BY GetTyped
<1>3. \E g \in [0 .. count -> Turn(d)] :
         g[0] = t0 /\ \A k \in 1 .. count : g[k] = F[k][g[k - 1]]
  <2> DEFINE T == Turn(d)
  <2>1. t0 \in T /\ F \in [1 .. count -> [T -> T]]
    BY <1>1, <1>2
  <2> HIDE DEF F, t0, T
  <2>2. \E g \in [0 .. count -> T] :
           g[0] = t0 /\ \A k \in 1 .. count : g[k] = F[k][g[k - 1]]
    BY <2>1, LoopExists
  <2>3. QED
    BY <2>2 DEF T
<1>4. \E g : Run(g)
  <2>1. PICK g \in [0 .. count -> Turn(d)] :
           g[0] = t0 /\ \A k \in 1 .. count : g[k] = F[k][g[k - 1]]
    BY <1>3
  <2> HIDE DEF t0
  <2>2. ASSUME NEW k \in 0 .. count
        PROVE  g[k] = IF k = 0 THEN t0 ELSE GetByte(g[k - 1])
    <3>1. CASE k = 0
      BY <2>1, <3>1
    <3>2. CASE k # 0
      <4>1. k \in 1 .. count /\ k - 1 \in 0 .. count
        BY <3>2
      <4>2. g[k] = F[k][g[k - 1]] /\ g[k - 1] \in Turn(d)
        BY <2>1, <4>1
      <4>3. F[k][g[k - 1]] = GetByte(g[k - 1])
        BY <4>1, <4>2
      <4>4. QED
        BY <3>2, <4>2, <4>3
    <3>3. QED
      BY <3>1, <3>2
  <2>3. Run(g)
    BY <2>1, <2>2
  <2>4. QED
    BY <2>3
<1> DEFINE turn == CHOOSE g : Run(g)
<1>5. Run(turn)
  BY <1>4, Zenon
<1>6. ReadLoop(d, count) = turn[count]
  BY Zenon DEF ReadLoop
<1> HIDE DEF turn, t0
<1>7. turn[0] = t0 /\ \A k \in 1 .. count : turn[k] = GetByte(turn[k - 1])
  BY <1>5
<1>8. QED
  BY <1>6, <1>7 DEF t0

\* Where the loop of read() is after k turns: it has the first bytes of the queue, and
\* the queue has the others.
HasRead(t, k, d) ==
    LET m == CQ!Least(k, Len(Content(d)))
    IN /\ t \in Turn(d)
       /\ Content(t.d) = SubSeq(Content(d), m + 1, Len(Content(d)))
       /\ t.bytes = SubSeq(Content(d), 1, m)

\* One more byte of a read: it is the next of the contents, if there is one.
LEMMA ReadStep ==
    ASSUME NEW d, Ring(d), d.present, NEW k \in Nat, NEW t, HasRead(t, k, d)
    PROVE  HasRead(GetByte(t), k + 1, d)
<1> DEFINE C == Content(d)
           m == CQ!Least(k, Len(C))
           p == CQ!Least(k + 1, Len(C))
           u == GetByte(t)
<1>1. C \in Seq(Cell) /\ Len(C) \in Nat
  BY ContentTyped
<1>2. /\ t \in Turn(d) /\ Ring(t.d) /\ t.d.present
      /\ Content(t.d) = SubSeq(C, m + 1, Len(C)) /\ t.bytes = SubSeq(C, 1, m)
  BY DEF HasRead, Turn
<1>3. u \in Turn(d)
  BY <1>2, GetTyped
<1>4. m \in 0 .. k /\ m <= Len(C)
  BY <1>1 DEF CQ!Least
<1> HIDE DEF C
<1>5. Len(SubSeq(C, m + 1, Len(C))) = Len(C) - m
  BY <1>1, <1>4
<1>6. CASE t.d.head = t.d.tail
  <2>1. Len(Content(t.d)) = 0
    <3>1. Content(t.d) = <<>>
      BY <1>2, <1>6, GetContent, Zenon
    <3>2. QED
      BY <3>1
  <2>2. m = p
    BY <1>1, <1>2, <1>5, <2>1 DEF CQ!Least
  <2>3. u = t
    BY <1>6 DEF GetByte
  <2> HIDE DEF u, m, p
  <2>4. Content(u.d) = SubSeq(C, p + 1, Len(C)) /\ u.bytes = SubSeq(C, 1, p)
    BY <1>2, <2>2, <2>3
  <2>5. QED
    BY <1>3, <2>4, Zenon DEF HasRead, u, p, C
<1>7. CASE t.d.head # t.d.tail
  <2>1. /\ Content(t.d) # <<>> /\ t.d.buffer[t.d.head] = Head(Content(t.d))
        /\ Content(Get1(t.d)) = Tail(Content(t.d))
    BY <1>2, <1>7, GetContent
  <2>2. Len(C) - m # 0
    <3> HIDE DEF m
    <3>1. QED
      BY <1>1, <1>2, <1>4, <1>5, <2>1
  <2>3. m = k /\ p = k + 1 /\ m \in 0 .. Len(C) - 1
    BY <1>1, <1>4, <2>2 DEF CQ!Least
  <2>4. u.d = Get1(t.d) /\ u.bytes = Append(t.bytes, t.d.buffer[t.d.head])
    BY <1>7 DEF GetByte, Get1
  <2> HIDE DEF u, m, p
  <2>5. /\ Head(SubSeq(C, m + 1, Len(C))) = C[m + 1]
        /\ Tail(SubSeq(C, m + 1, Len(C))) = SubSeq(C, m + 2, Len(C))
        /\ SubSeq(C, 1, m + 1) = Append(SubSeq(C, 1, m), C[m + 1])
    BY <1>1, <2>3, SuffixShrinks, PrefixGrows
  <2>6. p = m + 1 /\ p + 1 = m + 2
    BY <2>3
  <2>7. Content(u.d) = SubSeq(C, p + 1, Len(C))
    BY <1>2, <2>1, <2>4, <2>5, <2>6, Zenon
  <2>8. u.bytes = SubSeq(C, 1, p)
    BY <1>2, <2>1, <2>4, <2>5, <2>6, Zenon
  <2>9. QED
    BY <1>3, <2>7, <2>8, Zenon DEF HasRead, u, p, C
<1>8. QED
  BY <1>6, <1>7

\* read() returns the first bytes of the queue and removes them, and no other.
LEMMA ReadDoes ==
    ASSUME NEW d, Ring(d), d.present, NEW count \in Nat
    PROVE  HasRead(ReadLoop(d, count), count, d)
<1>1. PICK g : /\ g[0] = [d |-> d, bytes |-> <<>>]
               /\ \A k \in 1 .. count : g[k] = GetByte(g[k - 1])
               /\ ReadLoop(d, count) = g[count]
  BY ReadRun
<1> DEFINE S == {k \in Nat : k <= count => HasRead(g[k], k, d)}
<1>2. 0 \in S
  <2>1. g[0] \in Turn(d) /\ g[0].d = d /\ g[0].bytes = <<>>
    BY <1>1, TurnStart, Zenon
  <2>2. Content(d) \in Seq(Cell) /\ Len(Content(d)) \in Nat
    BY ContentTyped
  <2>3. CQ!Least(0, Len(Content(d))) = 0
    BY <2>2 DEF CQ!Least
  <2>4. SubSeq(Content(d), 1, 0) = <<>> /\ SubSeq(Content(d), 0 + 1, Len(Content(d))) = Content(d)
    BY <2>2
  <2>5. HasRead(g[0], 0, d)
    BY <2>1, <2>3, <2>4, Zenon DEF HasRead
  <2>6. QED
    BY <2>5
<1>3. ASSUME NEW k \in S PROVE k + 1 \in S
  <2>1. SUFFICES ASSUME k + 1 <= count PROVE HasRead(g[k + 1], k + 1, d)
    BY <2>1
  <2>2. k \in Nat /\ HasRead(g[k], k, d)
    BY <2>1
  <2>3. g[k + 1] = GetByte(g[k])
    <3>1. k + 1 \in 1 .. count /\ (k + 1) - 1 = k
      BY <2>1, <2>2
    <3>2. QED
      BY <1>1, <3>1
  <2>4. HasRead(GetByte(g[k]), k + 1, d)
    BY <2>2, ReadStep
  <2>5. QED
    BY <2>3, <2>4, Zenon
<1> HIDE DEF S
<1>4. S = Nat
  <2>1. S \in SUBSET Nat
    BY DEF S
  <2>2. QED
    BY <1>2, <1>3, <2>1, Inductive
<1>5. HasRead(g[count], count, d)
  BY <1>4 DEF S
<1>6. QED
  BY <1>1, <1>5, Zenon

------------------------------------------------------------------------------
(* The invariant *)

\* An entry of the table: once opened it is a ring, and its semaphore is free as long
\* as it is open and taken from releasecharbuffer() on.
EntryOK(d) ==
    /\ d \in Dev
    /\ d.size # 0 => Ring(d)
    /\ d.present => d.size # 0
    /\ d.present <=> d.semaforo = 1

BuffersOK ==
    /\ chardevs \in Seq(Dev)
    /\ \A i \in DOMAIN chardevs : EntryOK(chardevs[i])

ProcsOK ==
    /\ alive \subseteq Proc /\ exited \subseteq Proc /\ alive \cap exited = {}
    /\ tss_des \in [Proc -> 0 .. Entries]
    /\ \A p \in Proc \ alive : tss_des[p] = 0
    /\ \A p, q \in alive : p # q => tss_des[p] # tss_des[q]

DmaOK ==
    /\ DMA_CHANNEL \in [Channels -> Proc \cup {NoPid}]
    /\ armed \in [Channels -> Proc \cup {NoPid}]
    /\ Block_Used \subseteq 0 .. Blocks - 1
    /\ held \in [Proc -> SUBSET Block_Used]
    /\ \A p, q \in Proc : p # q => held[p] \cap held[q] = {}

DevInv == BuffersOK /\ ProcsOK /\ DmaOK

\* A scan from 0 for a free entry stops at one, if there is one.
LEMMA FirstOfIn ==
    ASSUME NEW S \in SUBSET Nat, S # {}
    PROVE  FirstOf(S) \in S
<1>1. \E i \in S : \A j \in S : i <= j
  BY LeastExists
<1>2. QED
  BY <1>1, Zenon DEF FirstOf

\* getcharbuffer() leaves an empty ring whose semaphore is free.
LEMMA OpenedOK ==
    ASSUME NEW d \in Dev, NEW p \in Proc, NEW dim \in Sizes
    PROVE  LET e == Opened(d, p, dim)
           IN /\ EntryOK(e) /\ e.present /\ Ring(e) /\ Content(e) = <<>>
              /\ e.size = dim /\ dim \in Nat \ {0}
<1> DEFINE f == [k \in 0 .. dim - 1 |-> Junk]
           e == Opened(d, p, dim)
<1>1. dim \in Nat \ {0}
  BY DeviceAssumption
<1>2. f \in [0 .. dim - 1 -> Cell] /\ f \in Buffer
  <2>1. f \in [0 .. dim - 1 -> Cell]
    BY DEF Cell
  <2>2. QED
    BY <1>1, <2>1, IsBuffer
<1>3. e = [d EXCEPT !.present = TRUE, !.ownerpid = p, !.size = dim, !.head = 0,
                    !.tail = 0, !.buffer = f, !.semaforo = 1]
  BY DEF Opened
<1> HIDE DEF f, e
<1>4. e \in Dev
  BY <1>1, <1>2, <1>3 DEF Dev
<1>5. e.size = dim /\ e.head = 0 /\ e.tail = 0 /\ e.buffer = f /\ e.semaforo = 1
  BY <1>3 DEF Dev
<1>6. e.present = TRUE
  BY <1>3 DEF Dev
<1>7. Ring(e)
  BY <1>1, <1>2, <1>4, <1>5 DEF Ring
<1>8. EntryOK(e)
  BY <1>1, <1>4, <1>5, <1>6, <1>7 DEF EntryOK
<1>9. Content(e) = <<>>
  <2>1. Ring(e) /\ e.present /\ e.head = e.tail
    BY <1>5, <1>6, <1>7
  <2>2. QED
    BY <2>1, GetContent, Zenon
<1>10. QED
  BY <1>1, <1>5, <1>6, <1>7, <1>8, <1>9 DEF e

Released(d) == [d EXCEPT !.present = FALSE, !.semaforo = 0]

\* releasecharbuffer() leaves an entry that nobody can use until it is opened again.
LEMMA ReleasedOK ==
    ASSUME NEW d, EntryOK(d)
    PROVE  EntryOK(Released(d)) /\ Released(d).present = FALSE
<1> DEFINE e == Released(d)
<1>1. d \in Dev
  BY DEF EntryOK
<1>2. e \in Dev /\ e.size = d.size /\ e.head = d.head /\ e.tail = d.tail
      /\ e.buffer = d.buffer /\ e.semaforo = 0
  BY <1>1 DEF Dev, Released
<1>3. e.present = FALSE
  BY <1>1 DEF Dev, Released
<1> HIDE DEF e
<1>4. EntryOK(e)
  BY <1>2, <1>3 DEF EntryOK, Ring
<1>5. QED
  BY <1>3, <1>4 DEF e

\* A buffer whose semaphore is free is open, and a transfer leaves it so.
LEMMA TransferOK ==
    ASSUME NEW d, EntryOK(d), d.semaforo = 1, NEW t \in Turn(d)
    PROVE  Ring(d) /\ d.present /\ EntryOK(t.d) /\ t.d.present /\ t.d.size = d.size
  BY DEF EntryOK, Turn, Ring

------------------------------------------------------------------------------
(* What the three calls on buffers do *)

Replaces(i, e) ==
    i \in DOMAIN chardevs /\ EntryOK(e) /\ chardevs' = [chardevs EXCEPT ![i] = e]

Opens(i, e) ==
    /\ Replaces(i, e) /\ UNCHANGED last
    /\ ~chardevs[i].present /\ e.present /\ Content(e) = <<>> /\ e.size \in Nat \ {0}
Closes(i, e) ==
    Replaces(i, e) /\ UNCHANGED last /\ chardevs[i].present /\ ~e.present
Same(i, e) ==
    /\ Replaces(i, e) /\ Ring(chardevs[i]) /\ chardevs[i].present
    /\ e.present /\ e.size = chardevs[i].size
Writes(i, t, s) ==
    /\ Same(i, t.d) /\ Wrote(t, Len(s), chardevs[i], s)
    /\ last' = [kind |-> "write", asked |-> s, bytes |-> t.bytes]
Reads(i, t, n) ==
    /\ Same(i, t.d) /\ HasRead(t, n, chardevs[i])
    /\ last' = [kind |-> "read", asked |-> n, bytes |-> t.bytes]

\* getcharbuffer() opens an entry of the table, unless the table is full and the byte
\* after it is not 0: then it takes what follows.
LEMMA getcharbufferDoes ==
    ASSUME BuffersOK, NEW p \in Proc, getcharbuffer(p)
    PROVE  \/ \E i, e : Opens(i, e)
           \/ /\ ~(Garbage \subseteq {0})
              /\ \E e : EntryOK(e) /\ chardevs' = Append(chardevs, e)
<1>1. PICK dim \in Sizes, k \in Garbage :
         LET free == {i \in DOMAIN chardevs : ~chardevs[i].present}
         IN /\ free # {} \/ k # 0
            /\ chardevs' = IF free = {} THEN Append(chardevs, Opened(Closed, p, dim))
                           ELSE [chardevs EXCEPT ![FirstOf(free)] = Opened(@, p, dim)]
            /\ UNCHANGED last
  BY DEF getcharbuffer
<1> DEFINE free == {i \in DOMAIN chardevs : ~chardevs[i].present}
<1>2. CASE free = {}
  <2>1. k # 0 /\ chardevs' = Append(chardevs, Opened(Closed, p, dim))
    BY <1>1, <1>2
  <2>2. Closed \in Dev
    <3>1. <<>> \in [0 .. 0 - 1 -> Cell]
      OBVIOUS
    <3>2. <<>> \in Buffer
      BY <3>1 DEF Buffer
    <3>3. QED
      BY <3>2 DEF Closed, Dev
  <2>3. EntryOK(Opened(Closed, p, dim))
    BY <2>2, OpenedOK
  <2>4. QED
    BY <2>1, <2>3
<1>3. CASE free # {}
  <2> DEFINE i == FirstOf(free)
  <2>1. i \in free
    <3>1. free \in SUBSET Nat
      BY DEF BuffersOK
    <3> HIDE DEF free
    <3>2. QED
      BY <1>3, <3>1, FirstOfIn
  <2>2. i \in DOMAIN chardevs /\ ~chardevs[i].present
    BY <2>1
  <2>3. chardevs' = [chardevs EXCEPT ![i] = Opened(chardevs[i], p, dim)] /\ UNCHANGED last
    BY <1>1, <1>3
  <2> HIDE DEF i
  <2>4. chardevs[i] \in Dev
    BY <2>2 DEF BuffersOK, EntryOK
  <2> DEFINE e == Opened(chardevs[i], p, dim)
  <2>5. EntryOK(e) /\ e.present /\ Content(e) = <<>> /\ e.size \in Nat \ {0}
    BY <2>4, OpenedOK
  <2> HIDE DEF e
  <2>6. Opens(i, e)
    BY <2>2, <2>3, <2>5 DEF Opens, Replaces, e
  <2>7. QED
    BY <2>6
<1>4. QED
  BY <1>2, <1>3

\* releasecharbuffer() closes an entry.
LEMMA releasecharbufferDoes ==
    ASSUME BuffersOK, NEW p \in Proc, releasecharbuffer(p)
    PROVE  \E i, e : Closes(i, e)
<1>1. PICK i \in DOMAIN chardevs :
         /\ chardevs[i].present
         /\ chardevs' = [chardevs EXCEPT ![i].present = FALSE, ![i].semaforo = 0]
         /\ UNCHANGED last
  BY DEF releasecharbuffer
<1> DEFINE e == Released(chardevs[i])
<1>2. chardevs' = [chardevs EXCEPT ![i] = e]
  BY <1>1 DEF Released, BuffersOK
<1>3. EntryOK(e) /\ e.present = FALSE
  <2>1. EntryOK(chardevs[i])
    BY DEF BuffersOK
  <2>2. QED
    BY <2>1, ReleasedOK
<1> HIDE DEF e
<1>4. Closes(i, e)
  BY <1>1, <1>2, <1>3 DEF Closes, Replaces
<1>5. QED
  BY <1>4

\* read() and write() move bytes of an open buffer, or put the caller to sleep.
LEMMA TransferDoes ==
    ASSUME BuffersOK, NEW p \in Proc, Transfer(p)
    PROVE  \/ \E i, t : \E s \in Seq(Byte) : Writes(i, t, s)
           \/ \E i, t : \E n \in Nat : Reads(i, t, n)
           \/ UNCHANGED <<chardevs, last>>
<1>1. PICK i \in DOMAIN chardevs, n \in Count :
         read(p, i, n) \/ \E s \in [1 .. n -> Byte] : write(p, i, s)
  BY DEF Transfer
<1>2. n \in Nat /\ EntryOK(chardevs[i])
  BY DeviceAssumption DEF BuffersOK
<1>3. CASE Sleep(p, i)
  BY <1>3 DEF Sleep
<1>4. ASSUME chardevs[i].semaforo = 1, NEW s \in [1 .. n -> Byte],
             chardevs' = [chardevs EXCEPT ![i] = WriteLoop(chardevs[i], s).d],
             last' = [kind |-> "write", asked |-> s,
                      bytes |-> WriteLoop(chardevs[i], s).bytes]
      PROVE  \E j, t : \E q \in Seq(Byte) : Writes(j, t, q)
  <2> DEFINE t == WriteLoop(chardevs[i], s)
  <2>1. s \in Seq(Byte)
    BY <1>2
  <2>2. Ring(chardevs[i]) /\ chardevs[i].present
    BY <1>2, <1>4 DEF EntryOK
  <2>3. Wrote(t, Len(s), chardevs[i], s)
    BY <2>1, <2>2, WriteDoes
  <2> HIDE DEF t
  <2>4. t \in Turn(chardevs[i])
    BY <2>3 DEF Wrote
  <2>5. EntryOK(t.d) /\ t.d.present /\ t.d.size = chardevs[i].size
    BY <1>2, <1>4, <2>4, TransferOK
  <2>6. Writes(i, t, s)
    BY <1>4, <2>2, <2>3, <2>5, Zenon DEF Writes, Same, Replaces, t
  <2>7. QED
    BY <2>1, <2>6
<1>5. ASSUME chardevs[i].semaforo = 1,
             chardevs' = [chardevs EXCEPT ![i] = ReadLoop(chardevs[i], n).d],
             last' = [kind |-> "read", asked |-> n,
                      bytes |-> ReadLoop(chardevs[i], n).bytes]
      PROVE  \E j, t : \E m \in Nat : Reads(j, t, m)
  <2> DEFINE t == ReadLoop(chardevs[i], n)
  <2>1. Ring(chardevs[i]) /\ chardevs[i].present
    BY <1>2, <1>5 DEF EntryOK
  <2>2. HasRead(t, n, chardevs[i])
    BY <1>2, <2>1, ReadDoes
  <2> HIDE DEF t
  <2>3. t \in Turn(chardevs[i])
    BY <2>2 DEF HasRead
  <2>4. EntryOK(t.d) /\ t.d.present /\ t.d.size = chardevs[i].size
    BY <1>2, <1>5, <2>3, TransferOK
  <2>5. Reads(i, t, n)
    BY <1>5, <2>1, <2>2, <2>4, Zenon DEF Reads, Same, Replaces, t
  <2>6. QED
    BY <1>2, <2>5
<1>6. QED
  BY <1>1, <1>3, <1>4, <1>5, Zenon DEF read, write

\* An entry replaced by a sound one leaves a sound table of the same length.
LEMMA ReplacesOK ==
    ASSUME BuffersOK, NEW i, NEW e, Replaces(i, e)
    PROVE  /\ BuffersOK' /\ Len(chardevs') = Len(chardevs) /\ chardevs'[i] = e
           /\ DOMAIN chardevs' = DOMAIN chardevs
           /\ \A j \in DOMAIN chardevs : j # i => chardevs'[j] = chardevs[j]
<1>1. i \in DOMAIN chardevs /\ EntryOK(e) /\ e \in Dev
      /\ chardevs' = [chardevs EXCEPT ![i] = e] /\ chardevs \in Seq(Dev)
  BY DEF Replaces, EntryOK, BuffersOK
<1>2. /\ chardevs' \in Seq(Dev) /\ Len(chardevs') = Len(chardevs) /\ chardevs'[i] = e
      /\ DOMAIN chardevs' = DOMAIN chardevs
      /\ \A j \in DOMAIN chardevs : j # i => chardevs'[j] = chardevs[j]
  BY <1>1
<1>3. \A j \in DOMAIN chardevs' : EntryOK(chardevs'[j])
  BY <1>1, <1>2 DEF BuffersOK
<1>4. BuffersOK'
  BY <1>2, <1>3 DEF BuffersOK, EntryOK, Ring
<1>5. QED
  BY <1>2, <1>4

\* The calls on buffers keep the table sound.
LEMMA BufferCalls ==
    ASSUME BuffersOK, NEW p \in Proc,
           getcharbuffer(p) \/ releasecharbuffer(p) \/ Transfer(p)
    PROVE  BuffersOK' /\ (Garbage \subseteq {0} => Len(chardevs') = Len(chardevs))
<1>1. ASSUME NEW i, NEW e, Replaces(i, e)
      PROVE  BuffersOK' /\ Len(chardevs') = Len(chardevs)
  BY <1>1, ReplacesOK
<1>2. CASE getcharbuffer(p)
  <2>1. ASSUME NEW e, EntryOK(e), chardevs' = Append(chardevs, e) PROVE BuffersOK'
    <3>1. chardevs' \in Seq(Dev) /\ Len(chardevs') = Len(chardevs) + 1
          /\ chardevs'[Len(chardevs) + 1] = e
          /\ \A j \in DOMAIN chardevs : chardevs'[j] = chardevs[j]
      BY <2>1 DEF BuffersOK, EntryOK
    <3>2. \A j \in DOMAIN chardevs' : j = Len(chardevs) + 1 \/ j \in DOMAIN chardevs
      BY <3>1 DEF BuffersOK
    <3>3. \A j \in DOMAIN chardevs' : EntryOK(chardevs'[j])
      BY <2>1, <3>1, <3>2 DEF BuffersOK
    <3>4. QED
      BY <3>1, <3>3 DEF BuffersOK, EntryOK, Ring
  <2>2. QED
    BY <1>1, <1>2, <2>1, getcharbufferDoes DEF Opens
<1>3. CASE releasecharbuffer(p)
  BY <1>1, <1>3, releasecharbufferDoes DEF Closes
<1>4. CASE Transfer(p)
  <2>1. CASE UNCHANGED <<chardevs, last>>
    BY <2>1 DEF BuffersOK
  <2>2. QED
    BY <1>1, <1>4, <2>1, TransferDoes DEF Writes, Reads, Same
<1>5. QED
  BY <1>2, <1>3, <1>4

\* The calls on the DMA keep every channel and every block with one owner.
LEMMA DmaCalls ==
    ASSUME DmaOK, NEW p \in Proc,
           \/ DMA_Request_Channel(p) \/ DMA_Free_Channel(p) \/ StartDMA(p)
           \/ DMA_Memory_Get_Block(p) \/ DMA_Memory_Free_Block(p)
    PROVE  DmaOK'
<1>1. CASE DMA_Request_Channel(p)
  BY <1>1 DEF DMA_Request_Channel, DmaOK
<1>2. CASE DMA_Free_Channel(p)
  BY <1>2 DEF DMA_Free_Channel, DmaOK
<1>3. CASE StartDMA(p)
  BY <1>3 DEF StartDMA, DmaOK
<1>4. CASE DMA_Memory_Get_Block(p)
  <2> DEFINE free == (0 .. Blocks - 1) \ Block_Used
             i == FirstOf(free)
  <2>1. i \in free
    <3>1. free \in SUBSET Nat /\ free # {}
      <4> DEFINE B == 0 .. Blocks - 1
      <4>1. B \subseteq Nat /\ Block_Used \subseteq B /\ Block_Used # B
        BY <1>4, DeviceAssumption DEF DMA_Memory_Get_Block, DmaOK
      <4> HIDE DEF B
      <4>2. B \ Block_Used \in SUBSET Nat /\ B \ Block_Used # {}
        BY <4>1
      <4>3. QED
        BY <4>2 DEF B
    <3> HIDE DEF free
    <3>2. QED
      BY <3>1, FirstOfIn
  <2>2. i \in 0 .. Blocks - 1 /\ i \notin Block_Used
    BY <2>1
  <2>3. Block_Used' = Block_Used \cup {i} /\ held' = [held EXCEPT ![p] = @ \cup {i}]
        /\ UNCHANGED <<DMA_CHANNEL, armed>>
    BY <1>4 DEF DMA_Memory_Get_Block
  <2> HIDE DEF i
  <2>4. QED
    BY <2>2, <2>3 DEF DmaOK
<1>5. CASE DMA_Memory_Free_Block(p)
  <2>1. PICK i \in held[p] :
           Block_Used' = Block_Used \ {i} /\ held' = [held EXCEPT ![p] = @ \ {i}]
    BY <1>5 DEF DMA_Memory_Free_Block
  <2>2. UNCHANGED <<DMA_CHANNEL, armed>>
    BY <1>5 DEF DMA_Memory_Free_Block
  <2>3. ASSUME NEW q \in Proc
        PROVE  held'[q] \in SUBSET Block_Used' /\ held'[q] \subseteq held[q]
    BY <2>1 DEF DmaOK
  <2>4. held' \in [Proc -> SUBSET Block_Used']
    BY <2>1, <2>3 DEF DmaOK
  <2>5. QED
    BY <2>1, <2>2, <2>3, <2>4 DEF DmaOK
<1>6. QED
  BY <1>1, <1>2, <1>3, <1>4, <1>5

\* A process that starts gets a descriptor that no thread has, and one that exits gives
\* its own back.
LEMMA ProcSteps ==
    ASSUME ProcsOK, NEW p \in Proc, Start(p) \/ (p \in alive /\ Exit_Process(p))
    PROVE  ProcsOK'
<1>1. CASE Start(p)
  <2>1. CASE Taken = 1 .. Entries
    BY <1>1, <2>1 DEF Start, ProcsOK
  <2>2. CASE Taken # 1 .. Entries
    <3> DEFINE free == (1 .. Entries) \ Taken
               i == FirstOf(free)
    <3>1. i \in free
      <4>1. Taken \subseteq 1 .. Entries
        BY DeviceAssumption DEF Taken, ProcsOK
      <4>2. free \in SUBSET Nat /\ free # {}
        <5> DEFINE E == 1 .. Entries
        <5>1. E \subseteq Nat /\ Taken \subseteq E /\ Taken # E
          BY <2>2, <4>1
        <5> HIDE DEF E
        <5>2. E \ Taken \in SUBSET Nat /\ E \ Taken # {}
          BY <5>1
        <5>3. QED
          BY <5>2 DEF E
      <4> HIDE DEF free
      <4>3. QED
        BY <4>2, FirstOfIn
    <3>2. i \in 1 .. Entries /\ \A q \in Proc : tss_des[q] # i
      <4>1. i \in 1 .. Entries /\ i \notin Taken
        BY <3>1
      <4> HIDE DEF i
      <4>2. QED
        BY <4>1 DEF Taken
    <3>3. alive' = alive \cup {p} /\ tss_des' = [tss_des EXCEPT ![p] = i]
          /\ UNCHANGED exited /\ p \notin alive \cup exited
      BY <1>1, <2>2 DEF Start
    <3> HIDE DEF i
    <3>4. QED
      BY <3>2, <3>3, DeviceAssumption DEF ProcsOK
  <2>3. QED
    BY <2>1, <2>2
<1>2. CASE p \in alive /\ Exit_Process(p)
  BY <1>2, DeviceAssumption DEF Exit_Process, ProcsOK
<1>3. QED
  BY <1>1, <1>2

\* Every step keeps the invariant.
LEMMA NextDevInv ==
    ASSUME DevInv, [Next]_vars
    PROVE  DevInv' /\ (Garbage \subseteq {0} => Len(chardevs') = Len(chardevs))
<1>1. CASE UNCHANGED vars
  BY <1>1 DEF vars, procs, buffers, dma, DevInv, BuffersOK, ProcsOK, DmaOK
<1>2. ASSUME NEW p \in Proc, Start(p) PROVE DevInv' /\ UNCHANGED chardevs
  <2>1. ProcsOK'
    BY <1>2, ProcSteps DEF DevInv
  <2>2. UNCHANGED <<buffers, dma>>
    BY <1>2 DEF Start
  <2>3. QED
    BY <2>1, <2>2 DEF buffers, dma, DevInv, BuffersOK, DmaOK
<1>3. ASSUME NEW p \in Proc, p \in alive, Exit_Process(p) PROVE DevInv' /\ UNCHANGED chardevs
  <2>1. ProcsOK'
    BY <1>3, ProcSteps DEF DevInv
  <2>2. UNCHANGED <<buffers, dma>>
    BY <1>3 DEF Exit_Process
  <2>3. QED
    BY <2>1, <2>2 DEF buffers, dma, DevInv, BuffersOK, DmaOK
<1>4. ASSUME NEW p \in Proc, getcharbuffer(p) \/ releasecharbuffer(p) \/ Transfer(p)
      PROVE  DevInv' /\ (Garbage \subseteq {0} => Len(chardevs') = Len(chardevs))
  <2>1. UNCHANGED <<procs, dma>>
    BY <1>4 DEF getcharbuffer, releasecharbuffer, Transfer
  <2>2. ProcsOK' /\ DmaOK'
    BY <2>1 DEF procs, dma, DevInv, ProcsOK, DmaOK
  <2>3. QED
    BY <1>4, <2>2, BufferCalls DEF DevInv
<1>5. ASSUME NEW p \in Proc,
             \/ DMA_Request_Channel(p) \/ DMA_Free_Channel(p) \/ StartDMA(p)
             \/ DMA_Memory_Get_Block(p) \/ DMA_Memory_Free_Block(p)
      PROVE  DevInv' /\ UNCHANGED chardevs
  <2>1. UNCHANGED <<procs, buffers>>
    BY <1>5 DEF DMA_Request_Channel, DMA_Free_Channel, StartDMA, DMA_Memory_Get_Block,
                DMA_Memory_Free_Block
  <2>2. DmaOK'
    BY <1>5, DmaCalls DEF DevInv
  <2>3. QED
    BY <2>1, <2>2 DEF procs, buffers, DevInv, ProcsOK, BuffersOK
<1>6. QED
  BY <1>1, <1>2, <1>3, <1>4, <1>5 DEF Next, Call, Runs

\* The invariant holds when the kernel starts.
LEMMA InitDevInv == Init => DevInv /\ Len(chardevs) = MAXCHARDEVS
<1> SUFFICES ASSUME Init PROVE DevInv /\ Len(chardevs) = MAXCHARDEVS
  OBVIOUS
<1>1. Closed \in Dev
  <2>1. <<>> \in [0 .. 0 - 1 -> Cell]
    OBVIOUS
  <2>2. <<>> \in Buffer
    BY <2>1 DEF Buffer
  <2>3. QED
    BY <2>2 DEF Closed, Dev
<1>2. EntryOK(Closed)
  BY <1>1 DEF EntryOK, Closed
<1>3. chardevs \in Seq(Dev) /\ Len(chardevs) = MAXCHARDEVS
      /\ \A i \in DOMAIN chardevs : chardevs[i] = Closed
  <2>1. chardevs = [i \in 1 .. MAXCHARDEVS |-> Closed] /\ MAXCHARDEVS \in Nat
    BY DeviceAssumption DEF Init
  <2>2. QED
    BY <1>1, <2>1
<1>4. BuffersOK
  BY <1>2, <1>3 DEF BuffersOK
<1>5. ProcsOK
  BY DeviceAssumption DEF Init, ProcsOK
<1>6. DmaOK
  BY DEF Init, DmaOK
<1>7. QED
  BY <1>3, <1>4, <1>5, <1>6 DEF DevInv

\* The invariant holds in every state, whatever the memory after the table holds.
THEOREM DevicesSound == Spec => []DevInv
<1>1. DevInv /\ [Next]_vars => DevInv'
  BY NextDevInv
<1>2. QED
  BY <1>1, InitDevInv, PTL DEF Spec

\* releasecharbuffer() leaves the semaphore of an entry taken, but in no state is an open
\* buffer one on which read() and write() go to sleep for ever.
THEOREM OpenStaysUsable == Spec => []OpenIsUsable
<1>1. DevInv => OpenIsUsable
  BY DEF DevInv, BuffersOK, EntryOK, OpenIsUsable
<1>2. QED
  BY <1>1, DevicesSound, PTL

\* If the memory after chardevs[] happens to be 0, getcharbuffer() never opens a buffer
\* past the end of the table; the indices of a ring stay inside its buffer, and no two
\* threads share a descriptor.
THEOREM DevicesTyped ==
    ASSUME Garbage \subseteq {0}
    PROVE  Spec => []DevTypeOK
<1> DEFINE Inv == DevInv /\ Len(chardevs) = MAXCHARDEVS
<1>1. Init => Inv
  BY InitDevInv
<1>2. Inv /\ [Next]_vars => Inv'
  BY NextDevInv
<1>3. Inv => DevTypeOK
  <2> SUFFICES ASSUME Inv PROVE DevTypeOK
    OBVIOUS
  <2>1. ASSUME NEW i \in DOMAIN chardevs, chardevs[i].present PROVE Ring(chardevs[i])
    BY <2>1 DEF DevInv, BuffersOK, EntryOK
  <2>2. QED
    BY <2>1 DEF DevInv, ProcsOK, Ring, DevTypeOK
<1>4. QED
  BY <1>1, <1>2, <1>3, PTL DEF Spec

\* Exit_Process() gives no DMA channel or block back: nobody programs or takes the
\* channels of the dead, and no block is given to a second process.
THEOREM LeftoversStayInert == Spec => LeftoversInert
<1> DEFINE A == /\ \A c \in Channels : DMA_CHANNEL[c] \in exited =>
                      DMA_CHANNEL'[c] = DMA_CHANNEL[c] /\ armed'[c] = armed[c]
                /\ \A p, q \in Proc : p # q => held[p] \cap held'[q] = {}
<1>1. DevInv /\ DevInv' /\ [Next]_vars => [A]_vars
  <2> SUFFICES ASSUME DevInv, DevInv', Next PROVE A
    OBVIOUS
  <2>1. CASE UNCHANGED dma
    BY <2>1 DEF dma, DevInv, DmaOK
  <2>2. ASSUME NEW p \in Proc, p \in alive,
               DMA_Request_Channel(p) \/ DMA_Free_Channel(p) \/ StartDMA(p)
        PROVE  A
    <3>1. p \notin exited /\ NoPid \notin exited
      BY <2>2, DeviceAssumption DEF DevInv, ProcsOK
    <3>2. UNCHANGED held
      BY <2>2 DEF DMA_Request_Channel, DMA_Free_Channel, StartDMA
    <3>3. PICK c \in Channels :
             /\ DMA_CHANNEL[c] = NoPid \/ DMA_CHANNEL[c] = p
             /\ \A b \in Channels : b # c => DMA_CHANNEL'[b] = DMA_CHANNEL[b]
                                             /\ armed'[b] = armed[b]
      <4>1. CASE DMA_Request_Channel(p)
        BY <4>1 DEF DMA_Request_Channel, DevInv, DmaOK
      <4>2. CASE DMA_Free_Channel(p)
        BY <4>2 DEF DMA_Free_Channel, DevInv, DmaOK
      <4>3. CASE StartDMA(p)
        BY <4>3 DEF StartDMA, DevInv, DmaOK
      <4>4. QED
        BY <2>2, <4>1, <4>2, <4>3
    <3>4. QED
      BY <3>1, <3>2, <3>3 DEF DevInv, DmaOK
  <2>3. ASSUME NEW p \in Proc, DMA_Memory_Get_Block(p) \/ DMA_Memory_Free_Block(p)
        PROVE  A
    <3>1. UNCHANGED <<DMA_CHANNEL, armed>>
      BY <2>3 DEF DMA_Memory_Get_Block, DMA_Memory_Free_Block
    <3>2. \A q \in Proc : q # p => held'[q] = held[q]
      BY <2>3 DEF DMA_Memory_Get_Block, DMA_Memory_Free_Block, DevInv, DmaOK
    <3>3. \A q \in Proc : q # p => held[q] \cap held'[p] = {}
      BY <3>2 DEF DevInv, DmaOK
    <3>4. QED
      BY <3>1, <3>2, <3>3 DEF DevInv, DmaOK
  <2>4. QED
    BY <2>1, <2>2, <2>3 DEF Next, Call, Runs, Start, Exit_Process, getcharbuffer,
                            releasecharbuffer, Transfer
<1>2. QED
  BY <1>1, DevicesSound, PTL DEF Spec, LeftoversInert

------------------------------------------------------------------------------
(* The rings implement the queues *)

Room(d) == IF d.present THEN d.size - 1 ELSE -1
RoomMap == [i \in 1 .. MAXCHARDEVS |-> Room(chardevs[i])]
QueueMap == [i \in 1 .. MAXCHARDEVS |-> Content(chardevs[i])]

\* A call on one buffer changes no other queue.
LEMMA MapStep ==
    ASSUME BuffersOK, Len(chardevs) = MAXCHARDEVS, NEW i, NEW e, Replaces(i, e)
    PROVE  /\ i \in 1 .. MAXCHARDEVS
           /\ RoomMap' = [RoomMap EXCEPT ![i] = Room(e)]
           /\ QueueMap' = [QueueMap EXCEPT ![i] = Content(e)]
           /\ RoomMap[i] = Room(chardevs[i]) /\ QueueMap[i] = Content(chardevs[i])
<1>1. i \in 1 .. MAXCHARDEVS /\ DOMAIN chardevs = 1 .. MAXCHARDEVS
  BY DEF Replaces, BuffersOK
<1>2. chardevs'[i] = e
      /\ \A j \in 1 .. MAXCHARDEVS : j # i => chardevs'[j] = chardevs[j]
  BY <1>1, ReplacesOK
<1>3. \A j \in 1 .. MAXCHARDEVS :
         /\ Room(chardevs'[j]) = IF j = i THEN Room(e) ELSE Room(chardevs[j])
         /\ Content(chardevs'[j]) = IF j = i THEN Content(e) ELSE Content(chardevs[j])
  BY <1>2, Zenon
<1>4. /\ RoomMap' = [j \in 1 .. MAXCHARDEVS |-> Room(chardevs'[j])]
      /\ QueueMap' = [j \in 1 .. MAXCHARDEVS |-> Content(chardevs'[j])]
  BY DEF RoomMap, QueueMap, Room, Content
<1>5. QED
  BY <1>1, <1>3, <1>4 DEF RoomMap, QueueMap

\* What the actions of CharQueues say of the state of Devices.
LEMMA QueueActions ==
    ASSUME NEW i \in 1 .. MAXCHARDEVS
    PROVE  /\ CQ!Open(i) <=> /\ RoomMap[i] = -1
                             /\ RoomMap'[i] \in Nat
                             /\ RoomMap' = [RoomMap EXCEPT ![i] = RoomMap'[i]]
                             /\ QueueMap' = QueueMap /\ last' = last
           /\ CQ!Close(i) <=> /\ RoomMap[i] # -1
                              /\ RoomMap' = [RoomMap EXCEPT ![i] = -1]
                              /\ QueueMap' = [QueueMap EXCEPT ![i] = <<>>]
                              /\ last' = last
           /\ CQ!vars' = CQ!vars <=> /\ RoomMap' = RoomMap /\ QueueMap' = QueueMap
                                     /\ last' = last
  BY DEF CQ!Open, CQ!Close, CQ!vars, RoomMap, QueueMap, Room
\* What CharQueues says of a transfer, with the queue and the room spelt out.
LEMMA QueueTransfers ==
    ASSUME NEW i \in 1 .. MAXCHARDEVS
    PROVE  /\ CQ!Put(i) <=>
                 /\ RoomMap[i] # -1
                 /\ last'.kind = "write"
                 /\ LET n == CQ!Least(Len(last'.asked), RoomMap[i] - Len(QueueMap[i]))
                        s == SubSeq(last'.asked, 1, n)
                    IN QueueMap' = [QueueMap EXCEPT ![i] = QueueMap[i] \o s] /\ last'.bytes = s
                 /\ RoomMap' = RoomMap
           /\ CQ!Get(i) <=>
                 /\ RoomMap[i] # -1
                 /\ last'.kind = "read"
                 /\ LET n == CQ!Least(last'.asked, Len(QueueMap[i]))
                    IN /\ last'.bytes = SubSeq(QueueMap[i], 1, n)
                       /\ QueueMap' = [QueueMap EXCEPT ![i] =
                                          SubSeq(QueueMap[i], n + 1, Len(QueueMap[i]))]
                 /\ RoomMap' = RoomMap
  BY DEF CQ!Put, CQ!Get, RoomMap, QueueMap, Room

\* getcharbuffer() opens an empty queue, and releasecharbuffer() closes one.
LEMMA OpensOpen ==
    ASSUME BuffersOK, Len(chardevs) = MAXCHARDEVS, NEW i, NEW e, Opens(i, e)
    PROVE  i \in 1 .. MAXCHARDEVS /\ CQ!Open(i)
<1>1. /\ Replaces(i, e) /\ last' = last /\ ~chardevs[i].present /\ e.present
      /\ Content(e) = <<>> /\ e.size \in Nat \ {0}
  BY DEF Opens
<1>2. /\ i \in 1 .. MAXCHARDEVS
      /\ RoomMap' = [RoomMap EXCEPT ![i] = Room(e)]
      /\ QueueMap' = [QueueMap EXCEPT ![i] = Content(e)]
      /\ RoomMap[i] = Room(chardevs[i]) /\ QueueMap[i] = Content(chardevs[i])
  BY <1>1, MapStep, Zenon
<1>3. Room(chardevs[i]) = -1 /\ Content(chardevs[i]) = <<>> /\ Room(e) \in Nat
  BY <1>1 DEF Room, Content
<1>4. RoomMap'[i] = Room(e) /\ QueueMap' = QueueMap
  <2>1. /\ DOMAIN RoomMap = 1 .. MAXCHARDEVS
        /\ QueueMap = [j \in 1 .. MAXCHARDEVS |-> QueueMap[j]]
    BY DEF RoomMap, QueueMap
  <2>2. RoomMap'[i] = Room(e)
    BY <1>2, <2>1
  <2>3. QueueMap' = QueueMap
    BY <1>1, <1>2, <1>3, <2>1
  <2>4. QED
    BY <2>2, <2>3
<1>5. QED
  BY <1>1, <1>2, <1>3, <1>4, QueueActions
\* Releasing a buffer closes the abstract queue.
LEMMA ClosesClose ==
    ASSUME BuffersOK, Len(chardevs) = MAXCHARDEVS, NEW i, NEW e, Closes(i, e)
    PROVE  i \in 1 .. MAXCHARDEVS /\ CQ!Close(i)
<1>1. Replaces(i, e) /\ last' = last /\ chardevs[i].present /\ ~e.present
  BY DEF Closes
<1>2. /\ i \in 1 .. MAXCHARDEVS
      /\ RoomMap' = [RoomMap EXCEPT ![i] = Room(e)]
      /\ QueueMap' = [QueueMap EXCEPT ![i] = Content(e)]
      /\ RoomMap[i] = Room(chardevs[i])
  BY <1>1, MapStep, Zenon
<1>3. Room(e) = -1 /\ Content(e) = <<>>
  BY <1>1 DEF Room, Content
<1>4. Room(chardevs[i]) # -1
  <2>1. chardevs[i].size \in Nat \ {0}
    BY <1>1 DEF Replaces, BuffersOK, EntryOK, Dev
  <2>2. QED
    BY <1>1, <2>1 DEF Room
<1>5. QED
  BY <1>1, <1>2, <1>3, <1>4, QueueActions

\* write() and read() are one step of the queue each, whatever their loops do.
LEMMA WritesPut ==
    ASSUME BuffersOK, Len(chardevs) = MAXCHARDEVS,
           NEW i, NEW t, NEW s \in Seq(Byte), Writes(i, t, s)
    PROVE  i \in 1 .. MAXCHARDEVS /\ CQ!Put(i)
<1> DEFINE d == chardevs[i]
           n == CQ!Least(Len(s), Room(d) - Len(Content(d)))
<1>1. /\ Replaces(i, t.d) /\ Ring(d) /\ d.present /\ t.d.present /\ t.d.size = d.size
      /\ Wrote(t, Len(s), d, s)
      /\ last' = [kind |-> "write", asked |-> s, bytes |-> t.bytes]
  BY DEF Writes, Same
<1>2. /\ i \in 1 .. MAXCHARDEVS
      /\ RoomMap' = [RoomMap EXCEPT ![i] = Room(t.d)]
      /\ QueueMap' = [QueueMap EXCEPT ![i] = Content(t.d)]
      /\ RoomMap[i] = Room(d) /\ QueueMap[i] = Content(d)
  BY <1>1, MapStep, Zenon
<1>3. Room(d) = d.size - 1 /\ Room(t.d) = Room(d) /\ d.size \in Nat \ {0}
  BY <1>1 DEF Room, Ring, Dev
<1>4. Content(t.d) = Content(d) \o SubSeq(s, 1, n) /\ t.bytes = SubSeq(s, 1, n)
  <2>1. Room(d) - Len(Content(d)) = d.size - 1 - Len(Content(d))
    BY <1>3
  <2>2. QED
    BY <1>1, <2>1, Zenon DEF Wrote
<1>5. last'.kind = "write" /\ last'.asked = s /\ last'.bytes = t.bytes
  BY <1>1
<1>6. RoomMap' = RoomMap
  BY <1>2, <1>3 DEF RoomMap
<1>7. RoomMap[i] # -1
  BY <1>2, <1>3
<1> HIDE DEF d
<1>8. /\ QueueMap' = [QueueMap EXCEPT ![i] = QueueMap[i] \o SubSeq(s, 1, n)]
      /\ n = CQ!Least(Len(s), RoomMap[i] - Len(QueueMap[i]))
  BY <1>2, <1>4, Zenon
<1> HIDE DEF n
<1>9. QED
  BY <1>2, <1>4, <1>5, <1>6, <1>7, <1>8, QueueTransfers, Zenon
\* Reading from a buffer takes from the abstract queue, as much as there is.
LEMMA ReadsGet ==
    ASSUME BuffersOK, Len(chardevs) = MAXCHARDEVS,
           NEW i, NEW t, NEW count \in Nat, Reads(i, t, count)
    PROVE  i \in 1 .. MAXCHARDEVS /\ CQ!Get(i)
<1> DEFINE d == chardevs[i]
           n == CQ!Least(count, Len(Content(d)))
<1>1. /\ Replaces(i, t.d) /\ Ring(d) /\ d.present /\ t.d.present /\ t.d.size = d.size
      /\ HasRead(t, count, d)
      /\ last' = [kind |-> "read", asked |-> count, bytes |-> t.bytes]
  BY DEF Reads, Same
<1>2. /\ i \in 1 .. MAXCHARDEVS
      /\ RoomMap' = [RoomMap EXCEPT ![i] = Room(t.d)]
      /\ QueueMap' = [QueueMap EXCEPT ![i] = Content(t.d)]
      /\ RoomMap[i] = Room(d) /\ QueueMap[i] = Content(d)
  BY <1>1, MapStep, Zenon
<1>3. Room(d) = d.size - 1 /\ Room(t.d) = Room(d) /\ d.size \in Nat \ {0}
  BY <1>1 DEF Room, Ring, Dev
<1>4. /\ Content(t.d) = SubSeq(Content(d), n + 1, Len(Content(d)))
      /\ t.bytes = SubSeq(Content(d), 1, n)
  BY <1>1, Zenon DEF HasRead
<1>5. last'.kind = "read" /\ last'.asked = count /\ last'.bytes = t.bytes
  BY <1>1
<1>6. RoomMap' = RoomMap
  BY <1>2, <1>3 DEF RoomMap
<1>7. RoomMap[i] # -1
  BY <1>2, <1>3
<1> HIDE DEF d
<1>8. /\ QueueMap' = [QueueMap EXCEPT ![i] = SubSeq(QueueMap[i], n + 1, Len(QueueMap[i]))]
      /\ n = CQ!Least(count, Len(QueueMap[i]))
      /\ t.bytes = SubSeq(QueueMap[i], 1, n)
  BY <1>2, <1>4, Zenon
<1> HIDE DEF n
<1>9. QED
  BY <1>2, <1>5, <1>6, <1>7, <1>8, QueueTransfers, Zenon

\* Every step of Devices is a step of one queue or leaves the queues alone.
LEMMA QueueStep ==
    ASSUME Garbage \subseteq {0}, DevInv, Len(chardevs) = MAXCHARDEVS, [Next]_vars
    PROVE  [CQ!Next]_CQ!vars
<1>1. BuffersOK
  BY DEF DevInv
<1>2. CASE UNCHANGED <<chardevs, last>>
  BY <1>2 DEF CQ!vars, Content
<1>3. ASSUME NEW p \in Proc, getcharbuffer(p) PROVE CQ!Next
  <2>1. PICK i, e : Opens(i, e)
    BY <1>1, <1>3, getcharbufferDoes
  <2>2. i \in 1 .. MAXCHARDEVS /\ CQ!Open(i)
    BY <1>1, <2>1, OpensOpen
  <2>3. QED
    BY <2>2, Zenon DEF CQ!Next
<1>4. ASSUME NEW p \in Proc, releasecharbuffer(p) PROVE CQ!Next
  <2>1. PICK i, e : Closes(i, e)
    BY <1>1, <1>4, releasecharbufferDoes
  <2>2. i \in 1 .. MAXCHARDEVS /\ CQ!Close(i)
    BY <1>1, <2>1, ClosesClose
  <2>3. QED
    BY <2>2, Zenon DEF CQ!Next
<1>5. ASSUME NEW p \in Proc, Transfer(p) PROVE CQ!Next \/ UNCHANGED <<chardevs, last>>
  <2>1. ASSUME NEW i, NEW t, NEW s \in Seq(Byte), Writes(i, t, s) PROVE CQ!Next
    <3>1. i \in 1 .. MAXCHARDEVS /\ CQ!Put(i)
      BY <1>1, <2>1, WritesPut
    <3>2. QED
      BY <3>1, Zenon DEF CQ!Next
  <2>2. ASSUME NEW i, NEW t, NEW n \in Nat, Reads(i, t, n) PROVE CQ!Next
    <3>1. i \in 1 .. MAXCHARDEVS /\ CQ!Get(i)
      BY <1>1, <2>2, ReadsGet
    <3>2. QED
      BY <3>1, Zenon DEF CQ!Next
  <2>3. QED
    BY <1>1, <1>5, <2>1, <2>2, TransferDoes
<1>6. ASSUME NEW p \in Proc, Start(p) PROVE UNCHANGED <<chardevs, last>>
  BY <1>6 DEF Start, buffers
<1>7. ASSUME NEW p \in Proc,
             \/ DMA_Request_Channel(p) \/ DMA_Free_Channel(p) \/ StartDMA(p)
             \/ DMA_Memory_Get_Block(p) \/ DMA_Memory_Free_Block(p) \/ Exit_Process(p)
      PROVE  UNCHANGED <<chardevs, last>>
  BY <1>7 DEF DMA_Request_Channel, DMA_Free_Channel, StartDMA, DMA_Memory_Get_Block,
              DMA_Memory_Free_Block, Exit_Process, buffers
<1>8. CASE UNCHANGED vars
  BY <1>2, <1>8 DEF vars, buffers
<1>9. QED
  BY <1>2, <1>3, <1>4, <1>5, <1>6, <1>7, <1>8 DEF Next, Call

\* The rings of chardevs.c are bounded queues, for any number of processes and buffers,
\* any sizes and any transfers: what is read is what was written, in order and once,
\* across wrap around, partial transfers and the release and reuse of an entry.
THEOREM RingsAreQueues ==
    ASSUME Garbage \subseteq {0}
    PROVE  Spec => ImplementsCharQueues
<1> DEFINE Inv == DevInv /\ Len(chardevs) = MAXCHARDEVS
<1>1. Init => Inv
  BY InitDevInv
<1>2. Inv /\ [Next]_vars => Inv'
  BY NextDevInv
<1>3. Init => CQ!Init
  <2> SUFFICES ASSUME Init PROVE CQ!Init
    OBVIOUS
  <2>1. \A i \in 1 .. MAXCHARDEVS : chardevs[i] = Closed /\ Content(Closed) = <<>>
                                    /\ ~Closed.present
    BY DEF Init, Closed, Content
  <2>2. last = [kind |-> "none"]
    BY DEF Init
  <2>3. QED
    BY <2>1, <2>2 DEF CQ!Init
<1>4. Inv /\ [Next]_vars => [CQ!Next]_CQ!vars
  BY QueueStep
<1>5. QED
  BY <1>1, <1>2, <1>3, <1>4, PTL DEF Spec, ImplementsCharQueues, CQ!Spec

================================================================================
