------------------------------ MODULE MemoryProofs ------------------------------
(***************************************************************************)
(* The memory is accounted for: every page has one use, free_pages counts  *)
(* the free ones, what a process holds is mapped, and the kernel frees     *)
(* nothing but what is allocated (the theorems at the end).                *)
(*                                                                         *)
(* The invariant says who has each page: Accounted, an owner for each, the *)
(* place that pagelist says.  What a process holds is a set of extents of  *)
(* its virtual pages: Proper, they are mapped and apart.  From the bottom  *)
(* up: what one page more and one less do to a cursor, the loops over      *)
(* pages, tables and threads, the handlers, and the invariant.             *)
(***************************************************************************)
EXTENDS Memory, FiniteSetTheorems, WellFoundedInduction, TLAPS

--------------------------------------------------------------------------------
(* Induction, with sets where the library has an operator P(_). *)

\* The order of the natural numbers, as the relation the library's theorems are about.
LEMMA LessThanRel == \A x, y \in Nat : <<x, y>> \in OpToRel(<, Nat) <=> x < y
  BY DEF OpToRel

\* A nonempty set of natural numbers has a least element.
LEMMA LeastExists ==
    ASSUME NEW T \in SUBSET Nat, T # {}
    PROVE  \E x \in T : \A y \in T : x <= y
<1>1. \E x \in T : \A y \in T : ~(<<y, x>> \in OpToRel(<, Nat))
  BY NatLessThanWellFounded, WFMin
<1>2. \A x, y \in T : <<y, x>> \in OpToRel(<, Nat) <=> y < x
  BY LessThanRel, Zenon
<1>3. \E x \in T : \A y \in T : ~(y < x)
  BY <1>1, <1>2, Zenon
<1>4. QED
  BY <1>3

\* Induction: a set of natural numbers that holds 0 and the successor of every member
\* holds them all.
LEMMA Inductive ==
    ASSUME NEW S \in SUBSET Nat, 0 \in S, \A n \in S : n + 1 \in S
    PROVE  S = Nat
<1>1. SUFFICES ASSUME Nat \ S # {} PROVE FALSE
  OBVIOUS
<1>2. PICK x \in Nat \ S : \A y \in Nat \ S : x <= y
  BY <1>1, LeastExists
<1>3. x # 0 /\ x - 1 \in Nat /\ x - 1 \in S
  BY <1>2
<1>4. QED
  BY <1>2, <1>3

\* A loop of n turns has a run, all of whose states are in the set its turns stay in.
LEMMA LoopExists ==
    ASSUME NEW T, NEW t0 \in T, NEW n \in Nat, NEW F \in [1 .. n -> [T -> T]]
    PROVE  \E g \in [0 .. n -> T] :
              g[0] = t0 /\ \A k \in 1 .. n : g[k] = F[k][g[k - 1]]
<1> DEFINE Turned(g, m) == g[0] = t0 /\ \A k \in 1 .. m : g[k] = F[k][g[k - 1]]
           S == {m \in Nat : m <= n => \E g \in [0 .. m -> T] : Turned(g, m)}
<1>1. 0 \in S
  <2>1. [k \in 0 .. 0 |-> t0] \in [0 .. 0 -> T] /\ Turned([k \in 0 .. 0 |-> t0], 0)
    OBVIOUS
  <2>2. QED
    BY <2>1
<1>2. ASSUME NEW m \in S PROVE m + 1 \in S
  <2> HIDE DEF Turned
  <2>0. SUFFICES ASSUME m + 1 <= n PROVE \E g \in [0 .. m + 1 -> T] : Turned(g, m + 1)
    BY <2>0
  <2>1. m \in Nat /\ m <= n
    BY <2>0
  <2>2. PICK g \in [0 .. m -> T] : Turned(g, m)
    BY <2>1
  <2> USE DEF Turned
  <2> DEFINE h == [k \in 0 .. m + 1 |-> IF k = m + 1 THEN F[m + 1][g[m]] ELSE g[k]]
  <2>3. h \in [0 .. m + 1 -> T]
    <3>1. F[m + 1][g[m]] \in T
      <4>1. m + 1 \in 1 .. n /\ m \in 0 .. m
        BY <2>0, <2>1
      <4>2. F[m + 1] \in [T -> T] /\ g[m] \in T
        BY <4>1
      <4>3. QED
        BY <4>2
    <3>2. QED
      BY <2>1, <3>1
  <2>4. h[0] = t0
    BY <2>1, <2>2
  <2>5. ASSUME NEW k \in 1 .. m + 1 PROVE h[k] = F[k][h[k - 1]]
    <3>1. k - 1 \in 0 .. m /\ h[k - 1] = g[k - 1]
      BY <2>1
    <3>2. CASE k = m + 1
      BY <2>1, <3>1, <3>2
    <3>3. CASE k # m + 1
      <4>1. k \in 1 .. m /\ h[k] = g[k]
        BY <2>1, <3>3
      <4>2. QED
        BY <2>2, <3>1, <4>1
    <3>4. QED
      BY <3>2, <3>3
  <2>6. QED
    BY <2>3, <2>4, <2>5
<1> HIDE DEF S
<1>3. S = Nat
  <2>1. S \in SUBSET Nat
    BY DEF S
  <2>2. QED
    BY <1>1, <1>2, <2>1, Inductive
<1>4. n \in S
  BY <1>3
<1>5. QED
  BY <1>4 DEF S


--------------------------------------------------------------------------------
(* Loops: a recursive function over 0 .. n that starts at t0 and whose turn j is    *)
(* F[j] exists, and its values stay in the sets G if the turns do.                  *)

(* The turns F lead from each of the sets G to the next; g is a run of them.       *)
Leads(n, F, G) == \A j \in 1..n : \A z \in G[j - 1] : F[j][z] \in G[j]
Turns(g, n, t0, F, G) ==
    /\ g = [j \in 0..n |-> g[j]] /\ g[0] = t0
    /\ \A j \in 1..n : g[j] = F[j][g[j - 1]]
    /\ \A j \in 0..n : g[j] \in G[j]

\* The function of a loop whose turns lead from each of the sets G to the next.
LEMMA LoopRun ==
    ASSUME NEW n \in Nat, NEW G, NEW F, NEW t0 \in G[0], Leads(n, F, G)
    PROVE  \E g : Turns(g, n, t0, F, G)
<1>0. \A j \in 1..n : \A z \in G[j - 1] : F[j][z] \in G[j]
  BY DEF Leads
<1> DEFINE T == UNION {G[j] : j \in 0..n}
           H == [j \in 1..n |-> [z \in T |-> IF F[j][z] \in T THEN F[j][z] ELSE t0]]
<1>1. \A j \in 0..n : G[j] \subseteq T
  OBVIOUS
<1>2. t0 \in T
  BY <1>1
<1> HIDE DEF T
<1>3. H \in [1..n -> [T -> T]]
  BY <1>2
<1> HIDE DEF H
<1>4. PICK g \in [0..n -> T] : g[0] = t0 /\ \A k \in 1..n : g[k] = H[k][g[k - 1]]
  BY <1>2, <1>3, LoopExists, SMTT(30)
<1> DEFINE S == {k \in Nat : k <= n => g[k] \in G[k]}
<1>5. 0 \in S
  BY <1>4
<1>6. ASSUME NEW j \in 1..n, g[j - 1] \in G[j - 1]
      PROVE  g[j] = F[j][g[j - 1]] /\ g[j] \in G[j]
  <2>1. F[j][g[j - 1]] \in G[j] /\ g[j - 1] \in T /\ j \in 0..n
    BY <1>0, <1>4, <1>6
  <2>2. F[j][g[j - 1]] \in T
    BY <1>1, <2>1
  <2>3. QED
    BY <1>4, <2>1, <2>2 DEF H
<1>7. ASSUME NEW k \in S PROVE k + 1 \in S
  BY <1>6, <1>7
<1> HIDE DEF S
<1>8. S = Nat
  <2>1. S \in SUBSET Nat
    BY DEF S
  <2>2. QED
    BY <1>5, <1>7, <2>1, Inductive
<1>9. \A j \in 0..n : g[j] \in G[j]
  BY <1>8 DEF S
<1>10. \A j \in 1..n : g[j] = F[j][g[j - 1]]
  BY <1>6, <1>9
<1>11. QED
  BY <1>4, <1>9, <1>10 DEF Turns

\* Whatever goes on from set to set stays in them.
LEMMA LoopStays ==
    ASSUME NEW n \in Nat, NEW G, NEW h, h[0] \in G[0],
           \A j \in 1..n : h[j - 1] \in G[j - 1] => h[j] \in G[j]
    PROVE  \A j \in 0..n : h[j] \in G[j]
<1> DEFINE S == {k \in Nat : k <= n => h[k] \in G[k]}
<1>1. 0 \in S
  OBVIOUS
<1>2. ASSUME NEW k \in S PROVE k + 1 \in S
  BY <1>2
<1> HIDE DEF S
<1>3. S = Nat
  <2>1. S \in SUBSET Nat
    BY DEF S
  <2>2. QED
    BY <1>1, <1>2, <2>1, Inductive
<1>4. QED
  BY <1>3 DEF S

--------------------------------------------------------------------------------
(* Arithmetic of pages and tables.                                                 *)

\* What \div is.
LEMMA DivIs ==
    ASSUME NEW n \in Nat \ {0}, NEW x \in Nat
    PROVE  /\ x \div n \in Nat
           /\ n * (x \div n) <= x
           /\ x < n * (x \div n) + n
  OBVIOUS

\* The numbers the module is about.
LEMMA Numbers ==
    /\ mem_pages \in Nat /\ PTES \in Nat \ {0} /\ KDIR \in Nat \ {0}
    /\ KernelTables \in Nat /\ 1 <= KernelTables /\ KernelTables < mem_pages
    /\ DIM_PAGE \in Nat /\ HEADER = 4 /\ DIM_PAGE > 4
    /\ MaxVPage \in Nat /\ UserBase \in Nat /\ StackPages \in Nat /\ IMAGE_PAGES \in Nat
    /\ UserBase + IMAGE_PAGES + 3 + 2 * (StackPages + 1) <= MaxVPage
    /\ NULL = -1 /\ NULL \notin Page /\ 0 \in Page
<1>1. /\ mem_pages \in Nat /\ BASE_FRAMES \in Nat /\ PTES \in Nat \ {0} /\ KDIR \in Nat \ {0}
      /\ DIM_PAGE \in Nat /\ HEADER = 4 /\ DIM_PAGE > 4 /\ STACKS_SIZE \in Nat
      /\ MaxVPage \in Nat /\ IMAGE_PAGES \in Nat
  BY MemoryAssumption DEF HEADER
<1>2. UserBase \in Nat
  BY <1>1 DEF UserBase
<1>3. StackPages \in Nat
  BY <1>1, DivIs DEF StackPages, Pages
<1>4. KernelTables \in Nat /\ KernelTables < mem_pages
  <2>1. KernelTables \in Nat
    BY <1>1, DivIs DEF KernelTables
  <2>2. QED
    BY <2>1, RoomAssumption
<1>5. 1 <= KernelTables
  <2> DEFINE x == BASE_FRAMES + mem_pages + PTES - 1
  <2>1. x \in Nat /\ PTES <= x
    BY <1>1, <1>4
  <2> HIDE DEF x
  <2>2. x \div PTES \in Nat /\ x < PTES * (x \div PTES) + PTES
    BY <1>1, <2>1, DivIs
  <2>3. x \div PTES # 0
    <3>1. SUFFICES ASSUME x \div PTES = 0 PROVE FALSE
      OBVIOUS
    <3>2. PTES * (x \div PTES) = 0
      BY <1>1, <3>1
    <3>3. QED
      BY <1>1, <2>1, <2>2, <3>2
  <2>4. QED
    BY <2>2, <2>3 DEF KernelTables, x
<1>6. NULL = -1 /\ NULL \notin Page /\ 0 \in Page
  BY <1>1, <1>4 DEF NULL, Page
<1>7. QED
  BY <1>1, <1>2, <1>3, <1>4, <1>5, <1>6, RoomAssumption

\* A size in bytes needs so many pages.
LEMMA PagesNat ==
    ASSUME NEW b \in Nat
    PROVE  Pages(b) \in Nat
<1>1. b + DIM_PAGE - 1 \in Nat /\ DIM_PAGE \in Nat \ {0}
  BY Numbers
<1>2. QED
  BY <1>1, DivIs DEF Pages

\* The entry of the directory for a page of the user's, and the pages of an entry.
LEMMA EntryOf ==
    /\ \A v \in VPage : v \in Nat /\ Entry(v) \in Pde
    /\ \A d \in Pde, j \in 0..PTES - 1 :
          /\ d \in Nat /\ d * PTES \in Nat /\ Entry(d * PTES + j) = d
          /\ d * PTES \in VPage
    /\ \A v \in VPage : \E j \in 0..PTES - 1 : v = Entry(v) * PTES + j
<1>1. /\ PTES \in Nat \ {0} /\ KDIR \in Nat /\ MaxVPage \in Nat /\ UserBase = KDIR * PTES
      /\ UserBase \in Nat
  BY Numbers DEF UserBase
<1>2. \A x, y, q \in Nat : PTES * x <= q /\ q < PTES * y + PTES => x <= y
  <2>1. SUFFICES ASSUME NEW x \in Nat, NEW y \in Nat, y + 1 <= x
                 PROVE  PTES * y + PTES <= PTES * x
    BY <1>1
  <2>2. PICK z \in Nat : x = y + 1 + z
    <3>1. x - y - 1 \in Nat /\ x = y + 1 + (x - y - 1)
      BY <2>1
    <3>2. QED
      BY <3>1
  <2>3. PTES * x = PTES * y + PTES + PTES * z /\ PTES * z \in Nat /\ PTES * y \in Nat
    BY <1>1, <2>2
  <2>4. QED
    BY <1>1, <2>3
<1>3. ASSUME NEW v \in VPage PROVE v \in Nat /\ v \div PTES \in Pde
  <2>1. v \in Nat /\ UserBase <= v /\ v <= MaxVPage
    BY <1>1, <1>3 DEF VPage
  <2> DEFINE d == v \div PTES
             e == MaxVPage \div PTES
  <2>2. d \in Nat /\ PTES * d <= v /\ v < PTES * d + PTES
    BY <1>1, <2>1, DivIs
  <2>3. e \in Nat /\ PTES * e <= MaxVPage /\ MaxVPage < PTES * e + PTES
    BY <1>1, DivIs
  <2> HIDE DEF d, e
  <2>4. KDIR <= d
    <3>1. PTES * KDIR <= v
      BY <1>1, <2>1
    <3>2. QED
      BY <1>1, <1>2, <2>1, <2>2, <3>1
  <2>5. d <= e
    <3>1. v < PTES * e + PTES
      <4>1. PTES * e \in Nat
        BY <1>1, <2>3
      <4>2. QED
        BY <1>1, <2>1, <2>3, <4>1
    <3>2. QED
      BY <1>2, <2>1, <2>2, <2>3, <3>1
  <2>6. QED
    BY <1>1, <2>1, <2>2, <2>3, <2>4, <2>5 DEF Pde, d, e
<1>4. ASSUME NEW d \in Pde, NEW j \in 0..PTES - 1
      PROVE  /\ d \in Nat /\ d * PTES \in Nat /\ (d * PTES + j) \div PTES = d
             /\ d * PTES \in VPage
  <2> DEFINE e == MaxVPage \div PTES
             x == d * PTES
             z == x + j
             q == z \div PTES
  <2>1. e \in Nat /\ PTES * e <= MaxVPage /\ MaxVPage < PTES * e + PTES
    BY <1>1, DivIs
  <2> HIDE DEF e
  <2>2. d \in Nat /\ KDIR <= d /\ d <= e
    BY <1>1, <1>4, <2>1 DEF Pde, e
  <2>3. x \in Nat /\ x = PTES * d
    BY <1>1, <2>2
  <2>4. PTES * KDIR <= PTES * d /\ PTES * d <= PTES * e
    <3>1. PICK y, w \in Nat : d = KDIR + y /\ e = d + w
      <4>1. d - KDIR \in Nat /\ e - d \in Nat /\ d = KDIR + (d - KDIR) /\ e = d + (e - d)
        BY <1>1, <2>1, <2>2
      <4>2. QED
        BY <4>1
    <3>2. /\ PTES * d = PTES * KDIR + PTES * y /\ PTES * e = PTES * d + PTES * w
          /\ PTES * y \in Nat /\ PTES * w \in Nat /\ PTES * KDIR \in Nat /\ PTES * d \in Nat
      BY <1>1, <2>2, <3>1
    <3>3. QED
      BY <3>2
  <2>5. x \in VPage
    <3>1. UserBase <= x /\ x <= MaxVPage
      <4>1. PTES * e \in Nat /\ UserBase = PTES * KDIR
        BY <1>1, <2>1
      <4>2. QED
        BY <1>1, <2>1, <2>3, <2>4, <4>1
    <3>2. QED
      BY <1>1, <2>3, <3>1 DEF VPage
  <2> HIDE DEF x
  <2>6. z \in Nat /\ PTES * d <= z /\ z < PTES * d + PTES
    <3>1. PTES * d \in Nat
      BY <1>1, <2>2
    <3>2. QED
      BY <1>1, <1>4, <2>3, <3>1
  <2> HIDE DEF z
  <2>7. q \in Nat /\ PTES * q <= z /\ z < PTES * q + PTES
    BY <1>1, <2>6, DivIs
  <2> HIDE DEF q
  <2>8. q <= d
    BY <1>2, <2>2, <2>6, <2>7
  <2>9. d <= q
    BY <1>2, <2>2, <2>6, <2>7
  <2>10. QED
    BY <2>2, <2>3, <2>5, <2>7, <2>8, <2>9 DEF q, x, z
<1>5. ASSUME NEW v \in VPage PROVE \E j \in 0..PTES - 1 : v = (v \div PTES) * PTES + j
  <2> DEFINE d == v \div PTES
             j == v - PTES * d
  <2>1. v \in Nat /\ d \in Nat /\ PTES * d <= v /\ v < PTES * d + PTES
    BY <1>1, <1>3, <1>5, DivIs
  <2> HIDE DEF d
  <2>2. PTES * d \in Nat /\ d * PTES = PTES * d
    BY <1>1, <2>1
  <2>3. j \in 0..PTES - 1 /\ v = d * PTES + j
    BY <1>1, <2>1, <2>2
  <2>4. QED
    BY <2>3 DEF d
<1>6. QED
  BY <1>3, <1>4, <1>5 DEF Entry

--------------------------------------------------------------------------------
(* The memory, a space and a cursor.                                               *)

Uses == {"FREE", "DATA", "PTAB", "PDIR"}
MaybePage == Page \cup {NULL}
Listing == [Index -> Thread \cup {NULL}]
Mems == [pagelist : [Page -> Uses], free_pages : Int, pt_pages : Int]
Spaces ==
    [active : BOOLEAN, user : BOOLEAN, threads : Listing, PageDir : MaybePage,
     msgqueue : MaybePage, mail : Seq(Page), last_used_page : Int,
     tables : [Pde -> MaybePage], map : [VPage -> MaybePage],
     blocks : SUBSET [at : Int, size : Nat], buffers : SUBSET Int]
Put(f, i, x) == [f EXCEPT ![i] = x]
With(sp, s, a) == [q \in Slot |-> IF q = s THEN a ELSE sp[q]]
Halts ==
    {"no", "finished", "null_table", "unallocated", "kernel_freed", "panic", "undefined"}
Cursors == [mem : Mems, as : Spaces, halt : Halts]

FreeOf(m) == {p \in Page : m.pagelist[p] = "FREE"}

(* The kernel keeps its pages, and page tables are still to be taken from one below *)
(* them; free_pages counts.                                                         *)
Kept(m) ==
    /\ m.pagelist[0] = "DATA"
    /\ \A p \in Page : p >= mem_pages - KernelTables => m.pagelist[p] = "PTAB"
    /\ m.pt_pages \in 0..mem_pages - KernelTables - 1
    /\ m.free_pages = Cardinality(FreeOf(m))

\* The parts of a cursor.
LEMMA CursorIs ==
    ASSUME NEW c \in Cursors
    PROVE  /\ c.mem \in Mems /\ c.as \in Spaces /\ c.halt \in Halts
           /\ c = [mem |-> c.mem, as |-> c.as, halt |-> c.halt]
  BY DEF Cursors

\* A cursor that stops.
LEMMA CursorStops ==
    ASSUME NEW c \in Cursors, NEW h \in Halts
    PROVE  LET r == [c EXCEPT !.halt = h] IN r \in Cursors /\ r.halt = h
  BY DEF Cursors

\* A cursor with another space.
LEMMA CursorAs ==
    ASSUME NEW c \in Cursors, NEW a \in Spaces
    PROVE  LET r == [c EXCEPT !.as = a]
           IN  r \in Cursors /\ r.mem = c.mem /\ r.as = a /\ r.halt = c.halt
  BY DEF Cursors

\* A cursor put together.
LEMMA CursorGoes ==
    ASSUME NEW m \in Mems, NEW a \in Spaces
    PROVE  LET r == Going(m, a)
           IN  r \in Cursors /\ r.mem = m /\ r.as = a /\ r.halt = "no"
  BY DEF Cursors, Halts, Going

\* The parts of a memory.
LEMMA MemIs ==
    ASSUME NEW m \in Mems
    PROVE  /\ m.pagelist \in [Page -> Uses] /\ m.free_pages \in Int /\ m.pt_pages \in Int
           /\ \A f \in [Page -> Uses], n, t \in Int :
                 [pagelist |-> f, free_pages |-> n, pt_pages |-> t] \in Mems
  BY DEF Mems

\* The parts of a space.
LEMMA SpaceIs ==
    ASSUME NEW a \in Spaces
    PROVE  /\ a.active \in BOOLEAN /\ a.user \in BOOLEAN
           /\ a.threads \in Listing
           /\ a.PageDir \in MaybePage /\ a.msgqueue \in MaybePage /\ a.mail \in Seq(Page)
           /\ a.last_used_page \in Int /\ a.tables \in [Pde -> MaybePage]
           /\ a.map \in [VPage -> MaybePage]
           /\ a.blocks \in SUBSET [at : Int, size : Nat] /\ a.buffers \in SUBSET Int
  BY DEF Spaces

--------------------------------------------------------------------------------
(* Taking and freeing a page.                                                      *)

\* What taking, or taking for a table, and freeing make of a memory.
LEMMA TakenIs ==
    ASSUME NEW m \in Mems, NEW i \in Page, NEW tipo \in Uses
    PROVE  /\ Taken(m, i, tipo) = [pagelist |-> Put(m.pagelist, i, tipo),
                                   free_pages |-> m.free_pages - 1, pt_pages |-> m.pt_pages]
           /\ freepage(m, i) = [pagelist |-> Put(m.pagelist, i, "FREE"),
                                free_pages |-> m.free_pages + 1, pt_pages |-> m.pt_pages]
           /\ Taken(m, i, tipo) \in Mems /\ freepage(m, i) \in Mems
<1>1. /\ m = [pagelist |-> m.pagelist, free_pages |-> m.free_pages, pt_pages |-> m.pt_pages]
      /\ m.pagelist \in [Page -> Uses] /\ m.free_pages \in Int /\ m.pt_pages \in Int
  BY DEF Mems
<1> DEFINE new == [pagelist |-> Put(m.pagelist, i, tipo),
                   free_pages |-> m.free_pages - 1, pt_pages |-> m.pt_pages]
           old == [pagelist |-> Put(m.pagelist, i, "FREE"),
                   free_pages |-> m.free_pages + 1, pt_pages |-> m.pt_pages]
<1>2. \A x, f : x = [pagelist |-> f, free_pages |-> m.free_pages, pt_pages |-> m.pt_pages]
              => [x EXCEPT !.free_pages = m.free_pages - 1]
                    = [pagelist |-> f, free_pages |-> m.free_pages - 1, pt_pages |-> m.pt_pages]
               /\ [x EXCEPT !.free_pages = m.free_pages + 1]
                    = [pagelist |-> f, free_pages |-> m.free_pages + 1, pt_pages |-> m.pt_pages]
  OBVIOUS
<1>2a. \A y : [m EXCEPT !.pagelist[i] = y] =
                [pagelist |-> Put(m.pagelist, i, y),
                 free_pages |-> m.free_pages, pt_pages |-> m.pt_pages]
  BY <1>1 DEF Put
<1>3. Taken(m, i, tipo) = new
  <2>1. [[m EXCEPT !.pagelist[i] = tipo] EXCEPT !.free_pages = m.free_pages - 1] = new
    BY <1>2, <1>2a, Zenon
  <2>2. QED
    BY <2>1, Zenon DEF Taken
<1>4. freepage(m, i) = old
  <2>1. [[m EXCEPT !.pagelist[i] = "FREE"] EXCEPT !.free_pages = m.free_pages + 1] = old
    BY <1>2, <1>2a, Zenon
  <2>2. QED
    BY <2>1, Zenon DEF freepage
<1>6. new \in Mems /\ old \in Mems
  <2>1. /\ Put(m.pagelist, i, tipo) \in [Page -> Uses]
        /\ Put(m.pagelist, i, "FREE") \in [Page -> Uses]
    BY <1>1 DEF Uses, Put
  <2>2. QED
    BY <1>1, <2>1, MemIs
<1>7. QED
  BY <1>3, <1>4, <1>6

\* The same, part by part.
LEMMA TakenParts ==
    ASSUME NEW m \in Mems, NEW i \in Page, NEW tipo \in Uses
    PROVE  /\ Taken(m, i, tipo).pagelist = Put(m.pagelist, i, tipo)
           /\ Taken(m, i, tipo).free_pages = m.free_pages - 1
           /\ Taken(m, i, tipo).pt_pages = m.pt_pages
           /\ freepage(m, i).pagelist = Put(m.pagelist, i, "FREE")
           /\ freepage(m, i).free_pages = m.free_pages + 1
           /\ freepage(m, i).pt_pages = m.pt_pages
           /\ Taken(m, i, tipo) \in Mems /\ freepage(m, i) \in Mems
<1> DEFINE w == Taken(m, i, tipo)
           u == freepage(m, i)
<1>1. /\ w = [pagelist |-> Put(m.pagelist, i, tipo),
              free_pages |-> m.free_pages - 1, pt_pages |-> m.pt_pages]
      /\ u = [pagelist |-> Put(m.pagelist, i, "FREE"),
              free_pages |-> m.free_pages + 1, pt_pages |-> m.pt_pages]
      /\ w \in Mems /\ u \in Mems
  BY TakenIs
<1> HIDE DEF w, u
<1>2. /\ w.pagelist = Put(m.pagelist, i, tipo) /\ w.free_pages = m.free_pages - 1
      /\ w.pt_pages = m.pt_pages
  BY <1>1
<1>3. /\ u.pagelist = Put(m.pagelist, i, "FREE") /\ u.free_pages = m.free_pages + 1
      /\ u.pt_pages = m.pt_pages
  BY <1>1
<1>4. QED
  BY <1>1, <1>2, <1>3 DEF w, u

\* The number of free pages when one is taken or given back.
LEMMA FreeCounts ==
    ASSUME NEW m \in Mems, NEW w \in Mems, NEW i \in Page
    PROVE  /\ IsFiniteSet(FreeOf(m)) /\ Cardinality(FreeOf(m)) \in Nat
           /\ m.pagelist[i] = "FREE" /\ FreeOf(w) = FreeOf(m) \ {i}
                 => Cardinality(FreeOf(w)) = Cardinality(FreeOf(m)) - 1
           /\ m.pagelist[i] # "FREE" /\ FreeOf(w) = FreeOf(m) \cup {i}
                 => Cardinality(FreeOf(w)) = Cardinality(FreeOf(m)) + 1
<1>1. IsFiniteSet(Page)
  <2>1. mem_pages - 1 \in Int
    BY Numbers
  <2>2. QED
    BY <2>1, FS_Interval DEF Page
<1>2. FreeOf(m) \subseteq Page
  BY DEF FreeOf
<1>3. IsFiniteSet(FreeOf(m))
  BY <1>1, <1>2, FS_Subset
<1>4. Cardinality(FreeOf(m)) \in Nat
  BY <1>3, FS_CardinalityType
<1>5. m.pagelist[i] = "FREE" <=> i \in FreeOf(m)
  BY DEF FreeOf
<1>6. QED
  BY <1>3, <1>4, <1>5, FS_AddElement, FS_RemoveElement

\* Taking a free page keeps the memory well.
LEMMA TakenKept ==
    ASSUME NEW m \in Mems, Kept(m), NEW i \in Page, m.pagelist[i] = "FREE",
           NEW tipo \in Uses \ {"FREE"}
    PROVE  Kept(Taken(m, i, tipo))
<1> DEFINE w == Taken(m, i, tipo)
<1>1. /\ w.pagelist = Put(m.pagelist, i, tipo) /\ w.free_pages = m.free_pages - 1
      /\ w.pt_pages = m.pt_pages /\ w \in Mems
  BY TakenParts, Zenon
<1> HIDE DEF w
<1>2. m.pagelist \in [Page -> Uses]
  BY MemIs
<1>3. i # 0 /\ ~(i >= mem_pages - KernelTables)
  BY DEF Kept
<1>4. FreeOf(w) = FreeOf(m) \ {i}
  BY <1>1, <1>2 DEF FreeOf, Put
<1>5. w.free_pages = Cardinality(FreeOf(w))
  BY <1>1, <1>4, FreeCounts DEF Kept
<1>6. w.pagelist[0] = "DATA" /\ \A p \in Page : p >= mem_pages - KernelTables => w.pagelist[p] = "PTAB"
  BY <1>1, <1>2, <1>3, Numbers DEF Kept, Put
<1>7. QED
  BY <1>1, <1>5, <1>6 DEF Kept, w

\* The page below the page tables is a page, and taking it for one keeps the memory well.
LEMMA TableKept ==
    ASSUME NEW m \in Mems, Kept(m)
    PROVE  /\ m.pt_pages \in Page
           /\ m.pagelist[m.pt_pages] = "FREE" =>
                 LET w == TakenTop(m)
                 IN  w \in Mems /\ Kept(w) /\ w.pagelist = Put(m.pagelist, m.pt_pages, "PTAB")
<1> DEFINE i == m.pt_pages
           t == Taken(m, i, "PTAB")
           w == TakenTop(m)
<1>1. i \in Page
  BY Numbers DEF Kept, Page
<1>2. SUFFICES ASSUME m.pagelist[i] = "FREE"
               PROVE  w \in Mems /\ Kept(w) /\ w.pagelist = Put(m.pagelist, i, "PTAB")
  BY <1>1
<1> HIDE DEF i
<1>3. "PTAB" \in Uses \ {"FREE"} /\ "PTAB" \in Uses
  BY DEF Uses
<1>4. t \in Mems /\ t.pt_pages = i /\ t.pagelist = Put(m.pagelist, i, "PTAB")
  <2>1. t \in Mems
    BY <1>1, <1>3, TakenIs
  <2>2. t.pt_pages = m.pt_pages /\ t.pagelist = Put(m.pagelist, i, "PTAB")
    BY <1>1, <1>3, TakenParts
  <2>3. QED
    BY <2>1, <2>2 DEF i
<1>5. Kept(t)
  BY <1>1, <1>2, <1>3, TakenKept
<1>6. w = [t EXCEPT !.pt_pages = @ - 1]
  BY Zenon DEF TakenTop, i
<1> HIDE DEF t, w
<1>7. w \in Mems /\ w.pagelist = t.pagelist /\ w.free_pages = t.free_pages /\ w.pt_pages = i - 1
  BY <1>4, <1>6 DEF Mems
<1>8. FreeOf(w) = FreeOf(t)
  BY <1>7 DEF FreeOf
<1>9. i - 1 \in 0..mem_pages - KernelTables - 1
  <2>1. i # 0
    BY <1>2 DEF Kept
  <2>2. QED
    BY <2>1, Numbers DEF Kept, i
<1>10. QED
  BY <1>4, <1>5, <1>7, <1>8, <1>9 DEF Kept, w, i

\* So does freeing one that is in use and not the kernel's.
LEMMA FreedKept ==
    ASSUME NEW m \in Mems, Kept(m), NEW i \in Page, m.pagelist[i] # "FREE", ~Kernels(i)
    PROVE  Kept(freepage(m, i))
<1> DEFINE w == freepage(m, i)
<1>0. "DATA" \in Uses
  BY DEF Uses
<1>1. /\ w.pagelist = Put(m.pagelist, i, "FREE") /\ w.free_pages = m.free_pages + 1
      /\ w.pt_pages = m.pt_pages /\ w \in Mems
  BY <1>0, TakenParts, Zenon
<1> HIDE DEF w
<1>2. m.pagelist \in [Page -> Uses]
  BY MemIs
<1>3. i # 0 /\ ~(i >= mem_pages - KernelTables)
  BY DEF Kernels
<1>4. FreeOf(w) = FreeOf(m) \cup {i}
  BY <1>1, <1>2 DEF FreeOf, Put
<1>5. w.free_pages = Cardinality(FreeOf(w))
  BY <1>1, <1>4, FreeCounts DEF Kept
<1>6. w.pagelist[0] = "DATA" /\ \A p \in Page : p >= mem_pages - KernelTables => w.pagelist[p] = "PTAB"
  BY <1>1, <1>2, <1>3, Numbers DEF Kept, Put
<1>7. QED
  BY <1>1, <1>5, <1>6 DEF Kept, w

--------------------------------------------------------------------------------
(* Who has which page.                                                             *)

(* The places of a space where a page can be, and the page that is there.          *)
Spots == {<<"dir", 0>>, <<"queue", 0>>} \cup ({"table"} \X Pde) \cup ({"map"} \X VPage)
At(a, x) == CASE x[1] = "dir" -> a.PageDir [] x[1] = "queue" -> a.msgqueue
              [] x[1] = "table" -> a.tables[x[2]] [] OTHER -> a.map[x[2]]
Mail == <<"mail", 0>>

(* A page is free, the kernel's, or in one place of one slot.                      *)
Free == <<0, <<"free", 0>>>>
Kernel == <<0, <<"kernel", 0>>>>
Owners == {Free, Kernel} \cup (Slot \X (Spots \cup {Mail}))

Role(x) == CASE x[1] = "free" -> "FREE" [] x[1] = "dir" -> "PDIR" [] x[1] = "table" -> "PTAB"
             [] OTHER -> "DATA"

(* pagelist says of each page what own does ...                                    *)
Listed(own, m) ==
    \A p \in Page : IF Kernels(p) THEN own[p] = Kernel
                    ELSE own[p] # Kernel /\ m.pagelist[p] = Role(own[p][2])

(* ... and slot s, whose space is a, has the pages that own gives it.              *)
Has(own, s, a) ==
    /\ \A p \in Page, x \in Spots : own[p] = <<s, x>> <=> At(a, x) = p
    /\ \A p \in Page : own[p] = <<s, Mail>> <=> \E i \in DOMAIN a.mail : a.mail[i] = p
    /\ \A i, j \in DOMAIN a.mail : a.mail[i] = a.mail[j] => i = j

(* The memory m is kept, and each page has one owner among the spaces sp.          *)
Accounted(m, sp) ==
    /\ m \in Mems /\ Kept(m)
    /\ \E own \in [Page -> Owners] : Listed(own, m) /\ \A s \in Slot : Has(own, s, sp[s])

(* b is a with page p at x instead of what was there.                               *)
Placed(a, b, x, p) ==
    /\ b \in Spaces /\ b.mail = a.mail
    /\ \A y \in Spots : At(b, y) = IF y = x THEN p ELSE At(a, y)

Spacings == [Slot -> Spaces]

\* What own says of a page that is at a place of a slot.
LEMMA OwnedIs ==
    ASSUME NEW own \in [Page -> Owners], NEW m \in Mems, Listed(own, m), NEW i \in Page,
           NEW s \in Slot, NEW x \in Spots \cup {Mail}, own[i] = <<s, x>>
    PROVE  ~Kernels(i) /\ m.pagelist[i] = Role(x) /\ Role(x) # "FREE" /\ Role(x) \in Uses
<1>1. <<s, x>> # Kernel /\ Role(x) # "FREE" /\ Role(x) \in Uses
  BY DEF Kernel, Role, Spots, Mail, Uses
<1>2. <<s, x>>[2] = x
  OBVIOUS
<1>3. QED
  BY <1>1, <1>2 DEF Listed

\* A free page has no owner.
LEMMA FreeIs ==
    ASSUME NEW own \in [Page -> Owners], NEW m \in Mems, Kept(m), Listed(own, m), NEW i \in Page,
           m.pagelist[i] = "FREE"
    PROVE  ~Kernels(i) /\ \A s \in Slot, x \in Spots \cup {Mail} : own[i] # <<s, x>>
<1>1. ~Kernels(i)
  BY DEF Kept, Kernels
<1>2. QED
  BY <1>1, OwnedIs

\* A free page is put in an empty place.
LEMMA PutThere ==
    ASSUME NEW m \in Mems, NEW sp \in Spacings, Accounted(m, sp), NEW s \in Slot, NEW x \in Spots,
           NEW i \in Page, m.pagelist[i] = "FREE", At(sp[s], x) = NULL,
           NEW b, Placed(sp[s], b, x, i),
           NEW w \in Mems, Kept(w), w.pagelist = Put(m.pagelist, i, Role(x))
    PROVE  Accounted(w, With(sp, s, b))
<1> DEFINE np == With(sp, s, b)
<1>1. PICK own \in [Page -> Owners] : Listed(own, m) /\ \A q \in Slot : Has(own, q, sp[q])
  BY DEF Accounted
<1> DEFINE new == [own EXCEPT ![i] = <<s, x>>]
<1>2. ~Kernels(i) /\ \A q \in Slot, y \in Spots \cup {Mail} : own[i] # <<q, y>>
  BY <1>1, FreeIs DEF Accounted
<1>3. <<s, x>> \in Owners /\ <<s, x>> # Kernel /\ <<s, x>>[2] = x /\ x # Mail /\ i # NULL
  BY Numbers DEF Owners, Kernel, Spots, Mail
<1>4. new \in [Page -> Owners] /\ \A p \in Page : new[p] = IF p = i THEN <<s, x>> ELSE own[p]
  BY <1>3
<1> HIDE DEF new
<1>5. \A p \in Page : w.pagelist[p] = IF p = i THEN Role(x) ELSE m.pagelist[p]
  BY MemIs DEF Put
<1>6. Listed(new, w)
  BY <1>1, <1>2, <1>3, <1>4, <1>5 DEF Listed
<1>7. \A q \in Slot : np[q] = IF q = s THEN b ELSE sp[q]
  BY DEF Spacings, With
<1> HIDE DEF np
<1>8. ASSUME NEW q \in Slot PROVE Has(new, q, np[q])
  <2>1. Has(own, q, sp[q])
    BY <1>1
  <2>2. ASSUME NEW p \in Page, NEW y \in Spots PROVE new[p] = <<q, y>> <=> At(np[q], y) = p
    <3>1. own[p] = <<q, y>> <=> At(sp[q], y) = p
      BY <2>1 DEF Has
    <3>2. CASE p # i
      <4>1. new[p] = own[p] /\ (q = s /\ y = x => At(np[q], y) # p /\ At(sp[q], y) # p)
        BY <1>4, <1>7, <3>2, Numbers DEF Placed
      <4>2. QED
        BY <1>7, <3>1, <4>1 DEF Placed
    <3>3. CASE p = i
      <4>1. At(sp[q], y) # i /\ (new[p] = <<q, y>> <=> q = s /\ y = x)
        BY <1>2, <1>4, <3>1, <3>3
      <4>2. QED
        BY <1>7, <3>3, <4>1 DEF Placed
    <3>4. QED
      BY <3>2, <3>3
  <2>3. np[q].mail = sp[q].mail
    BY <1>7 DEF Placed
  <2>4. \A p \in Page : new[p] = <<q, Mail>> <=> own[p] = <<q, Mail>>
    BY <1>2, <1>3, <1>4
  <2>5. QED
    BY <2>1, <2>2, <2>3, <2>4 DEF Has
<1>9. QED
  BY <1>4, <1>6, <1>8 DEF Accounted, np

\* A page that is at a place is freed, and the place is empty.
LEMMA TakenAway ==
    ASSUME NEW m \in Mems, NEW sp \in Spacings, Accounted(m, sp), NEW s \in Slot, NEW x \in Spots,
           NEW i \in Page, At(sp[s], x) = i,
           NEW b, Placed(sp[s], b, x, NULL)
    PROVE  /\ m.pagelist[i] # "FREE" /\ ~Kernels(i)
           /\ \A w \in Mems : Kept(w) /\ w.pagelist = Put(m.pagelist, i, "FREE")
                 => Accounted(w, With(sp, s, b))
<1> DEFINE np == With(sp, s, b)
<1>1. PICK own \in [Page -> Owners] : Listed(own, m) /\ \A q \in Slot : Has(own, q, sp[q])
  BY DEF Accounted
<1>2. own[i] = <<s, x>>
  BY <1>1 DEF Has
<1>3. ~Kernels(i) /\ m.pagelist[i] # "FREE"
  BY <1>1, <1>2, OwnedIs
<1>4. SUFFICES ASSUME NEW w \in Mems, Kept(w), w.pagelist = Put(m.pagelist, i, "FREE")
               PROVE  Accounted(w, np)
  BY <1>3
<1> DEFINE new == [own EXCEPT ![i] = Free]
<1>5. /\ Free \in Owners /\ Free # Kernel /\ Role(Free[2]) = "FREE" /\ x # Mail
      /\ \A q \in Slot, y \in Spots \cup {Mail} : Free # <<q, y>>
  BY DEF Owners, Kernel, Free, Role, Spots, Mail
<1>6. new \in [Page -> Owners] /\ \A p \in Page : new[p] = IF p = i THEN Free ELSE own[p]
  BY <1>5
<1> HIDE DEF new
<1>7. \A p \in Page : w.pagelist[p] = IF p = i THEN "FREE" ELSE m.pagelist[p]
  BY <1>4, MemIs DEF Put
<1>8. Listed(new, w)
  BY <1>1, <1>3, <1>5, <1>6, <1>7 DEF Listed
<1>9. \A q \in Slot : np[q] = IF q = s THEN b ELSE sp[q]
  BY DEF Spacings, With
<1> HIDE DEF np
<1>10. ASSUME NEW q \in Slot PROVE Has(new, q, np[q])
  <2>1. Has(own, q, sp[q])
    BY <1>1
  <2>2. ASSUME NEW p \in Page, NEW y \in Spots PROVE new[p] = <<q, y>> <=> At(np[q], y) = p
    <3>1. (own[p] = <<q, y>> <=> At(sp[q], y) = p) /\ p # NULL
      BY <2>1, Numbers DEF Has
    <3>2. CASE p # i
      <4>1. new[p] = own[p] /\ (q = s /\ y = x => At(np[q], y) # p /\ At(sp[q], y) # p)
        BY <1>6, <1>9, <3>1, <3>2 DEF Placed
      <4>2. QED
        BY <1>9, <3>1, <4>1 DEF Placed
    <3>3. CASE p = i
      <4>1. new[p] # <<q, y>> /\ (At(sp[q], y) = p <=> q = s /\ y = x)
        BY <1>2, <1>5, <1>6, <3>1, <3>3
      <4>2. QED
        BY <1>9, <3>1, <3>3, <4>1 DEF Placed
    <3>4. QED
      BY <3>2, <3>3
  <2>3. np[q].mail = sp[q].mail
    BY <1>9 DEF Placed
  <2>4. \A p \in Page : new[p] = <<q, Mail>> <=> own[p] = <<q, Mail>>
    BY <1>2, <1>5, <1>6
  <2>5. QED
    BY <2>1, <2>2, <2>3, <2>4 DEF Has
<1>11. QED
  BY <1>4, <1>6, <1>8, <1>10 DEF Accounted, np

\* A space with the same pages in the same places.
LEMMA SamePlaces ==
    ASSUME NEW m \in Mems, NEW sp \in Spacings, Accounted(m, sp), NEW s \in Slot, NEW b,
           b.mail = sp[s].mail, \A y \in Spots : At(b, y) = At(sp[s], y)
    PROVE  Accounted(m, With(sp, s, b))
<1> DEFINE np == With(sp, s, b)
<1>1. PICK own \in [Page -> Owners] : Listed(own, m) /\ \A q \in Slot : Has(own, q, sp[q])
  BY DEF Accounted
<1>2. \A q \in Slot : np[q] = IF q = s THEN b ELSE sp[q]
  BY DEF Spacings, With
<1> HIDE DEF np
<1>3. ASSUME NEW q \in Slot PROVE Has(own, q, np[q])
  <2>1. Has(own, q, sp[q])
    BY <1>1
  <2>2. np[q].mail = sp[q].mail /\ \A y \in Spots : At(np[q], y) = At(sp[q], y)
    BY <1>2
  <2>3. QED
    BY <2>1, <2>2 DEF Has
<1>4. QED
  BY <1>1, <1>3 DEF Accounted, np
\* A page goes from a map to the end of a queue of messages.
LEMMA PageSent ==
    ASSUME NEW m \in Mems, NEW sp \in Spacings, Accounted(m, sp), NEW s \in Slot, NEW d \in Slot,
           NEW x \in Spots, x[1] = "map", NEW i \in Page, At(sp[s], x) = i,
           NEW np \in Spacings,
           \A q \in Slot, y \in Spots :
              At(np[q], y) = IF q = s /\ y = x THEN NULL ELSE At(sp[q], y),
           \A q \in Slot : np[q].mail = IF q = d THEN Append(sp[q].mail, i) ELSE sp[q].mail
    PROVE  Accounted(m, np)
<1>1. PICK own \in [Page -> Owners] : Listed(own, m) /\ \A q \in Slot : Has(own, q, sp[q])
  BY DEF Accounted
<1> DEFINE new == [own EXCEPT ![i] = <<d, Mail>>]
<1>2. own[i] = <<s, x>>
  BY <1>1 DEF Has
<1>3. /\ <<d, Mail>> \in Owners /\ <<d, Mail>> # Kernel /\ <<d, Mail>>[2] = Mail /\ x # Mail
      /\ Mail \notin Spots /\ Role(Mail) = "DATA" /\ Role(x) = "DATA" /\ i # NULL
  BY Numbers DEF Owners, Kernel, Spots, Mail, Role
<1>4. new \in [Page -> Owners] /\ \A p \in Page : new[p] = IF p = i THEN <<d, Mail>> ELSE own[p]
  BY <1>3
<1> HIDE DEF new
<1>5. ~Kernels(i) /\ m.pagelist[i] = "DATA"
  BY <1>1, <1>2, <1>3, OwnedIs
<1>6. Listed(new, m)
  BY <1>1, <1>3, <1>4, <1>5 DEF Listed
<1>7. ASSUME NEW q \in Slot PROVE Has(new, q, np[q])
  <2>1. Has(own, q, sp[q]) /\ sp[q].mail \in Seq(Page)
    BY <1>1 DEF Spacings, Spaces
  <2>2. ASSUME NEW p \in Page, NEW y \in Spots PROVE new[p] = <<q, y>> <=> At(np[q], y) = p
    <3>1. (own[p] = <<q, y>> <=> At(sp[q], y) = p) /\ p # NULL
      BY <2>1, Numbers DEF Has
    <3>2. CASE p # i
      <4>1. new[p] = own[p] /\ (q = s /\ y = x => At(np[q], y) # p /\ At(sp[q], y) # p)
        BY <1>4, <3>1, <3>2
      <4>2. QED
        BY <3>1, <4>1
    <3>3. CASE p = i
      <4>1. new[p] # <<q, y>> /\ (At(sp[q], y) = p <=> q = s /\ y = x)
        BY <1>2, <1>3, <1>4, <3>1, <3>3
      <4>2. QED
        BY <3>1, <3>3, <4>1
    <3>4. QED
      BY <3>2, <3>3
  <2>3. CASE q # d
    <3>1. np[q].mail = sp[q].mail
      BY <2>3
    <3>2. \A p \in Page : new[p] = <<q, Mail>> <=> own[p] = <<q, Mail>>
      BY <1>2, <1>3, <1>4, <2>3
    <3>3. QED
      BY <2>1, <2>2, <3>1, <3>2 DEF Has
  <2>4. CASE q = d
    <3> DEFINE u == sp[q].mail
               w == np[q].mail
    <3>0. w = Append(u, i) /\ u \in Seq(Page)
      BY <2>1, <2>4
    <3>1. /\ Len(u) \in Nat
          /\ DOMAIN u = 1..Len(u) /\ DOMAIN w = 1..Len(u) + 1
          /\ w[Len(u) + 1] = i /\ \A k \in 1..Len(u) : w[k] = u[k]
      <4> HIDE DEF u, w
      <4>1. QED
        BY <3>0
    <3>2. /\ \A p \in Page : own[p] = <<q, Mail>> <=> \E k \in DOMAIN u : u[k] = p
          /\ \A k, l \in DOMAIN u : u[k] = u[l] => k = l
      BY <2>1 DEF Has
    <3> HIDE DEF u, w
    <3>3. \A k \in 1..Len(u) : u[k] # i
      BY <1>2, <1>3, <3>1, <3>2
    <3>4. \A p \in Page : new[p] = <<q, Mail>> <=> \E k \in DOMAIN w : w[k] = p
      <4>1. ASSUME NEW p \in Page, p # i
            PROVE  new[p] = <<q, Mail>> <=> \E k \in DOMAIN w : w[k] = p
        BY <1>4, <3>1, <3>2, <4>1
      <4>2. new[i] = <<q, Mail>> /\ \E k \in DOMAIN w : w[k] = i
        BY <1>4, <2>4, <3>1
      <4>3. QED
        BY <4>1, <4>2
    <3>5. \A k, l \in DOMAIN w : w[k] = w[l] => k = l
      BY <3>1, <3>2, <3>3
    <3>6. QED
      BY <2>2, <3>4, <3>5 DEF Has, w
  <2>5. QED
    BY <2>3, <2>4
<1>8. QED
  BY <1>4, <1>6, <1>7 DEF Accounted

\* A page goes from the head of a queue of messages to an empty place of the map.
LEMMA PageReceived ==
    ASSUME NEW m \in Mems, NEW sp \in Spacings, Accounted(m, sp), NEW s \in Slot,
           NEW x \in Spots, x[1] = "map", At(sp[s], x) = NULL, sp[s].mail # <<>>,
           NEW b \in Spaces, b.mail = Tail(sp[s].mail),
           \A y \in Spots : At(b, y) = IF y = x THEN Head(sp[s].mail) ELSE At(sp[s], y)
    PROVE  Accounted(m, With(sp, s, b))
<1> DEFINE np == With(sp, s, b)
           u == sp[s].mail
           w == b.mail
           i == Head(u)
<1>1. PICK own \in [Page -> Owners] : Listed(own, m) /\ \A q \in Slot : Has(own, q, sp[q])
  BY DEF Accounted
<1>2. /\ u \in Seq(Page) /\ u # <<>> /\ i \in Page /\ Len(u) \in Nat /\ i = u[1]
      /\ DOMAIN u = 1..Len(u) /\ 1 \in DOMAIN u /\ DOMAIN w = 1..Len(u) - 1
      /\ \A k \in 1..Len(u) - 1 : w[k] = u[k + 1]
  <2>1. u \in Seq(Page) /\ u # <<>> /\ w = Tail(u)
    BY DEF Spacings, Spaces
  <2> HIDE DEF u, w
  <2>2. QED
    BY <2>1
<1>3. /\ \A p \in Page : own[p] = <<s, Mail>> <=> \E k \in DOMAIN u : u[k] = p
      /\ \A k, l \in DOMAIN u : u[k] = u[l] => k = l
  BY <1>1 DEF Has
<1>4. \A q \in Slot : np[q] = IF q = s THEN b ELSE sp[q]
  BY DEF Spacings, With
<1>5. /\ At(sp[s], x) = NULL /\ w = b.mail
      /\ \A y \in Spots : At(b, y) = IF y = x THEN i ELSE At(sp[s], y)
  OBVIOUS
<1> HIDE DEF u, w, i, np
<1>6. own[i] = <<s, Mail>>
  BY <1>2, <1>3
<1> DEFINE new == [own EXCEPT ![i] = <<s, x>>]
<1>7. /\ <<s, x>> \in Owners /\ <<s, x>> # Kernel /\ <<s, x>>[2] = x /\ x # Mail
      /\ Mail \notin Spots /\ Role(Mail) = "DATA" /\ Role(x) = "DATA" /\ i # NULL
  <2>1. i # NULL
    BY <1>2, Numbers
  <2>2. QED
    BY <2>1 DEF Owners, Kernel, Spots, Mail, Role
<1>8. new \in [Page -> Owners] /\ \A p \in Page : new[p] = IF p = i THEN <<s, x>> ELSE own[p]
  BY <1>2, <1>7
<1> HIDE DEF new
<1>9. ~Kernels(i) /\ m.pagelist[i] = "DATA"
  BY <1>1, <1>2, <1>6, <1>7, OwnedIs
<1>10. Listed(new, m)
  BY <1>1, <1>7, <1>8, <1>9 DEF Listed
<1>11. ASSUME NEW q \in Slot PROVE Has(new, q, np[q])
  <2>1. Has(own, q, sp[q])
    BY <1>1
  <2>2. ASSUME NEW p \in Page, NEW y \in Spots PROVE new[p] = <<q, y>> <=> At(np[q], y) = p
    <3>1. (own[p] = <<q, y>> <=> At(sp[q], y) = p) /\ p # NULL
      BY <2>1, Numbers DEF Has
    <3>2. CASE p # i
      <4>1. new[p] = own[p] /\ (q = s /\ y = x => At(np[q], y) # p /\ At(sp[q], y) # p)
        BY <1>4, <1>5, <1>8, <3>1, <3>2
      <4>2. QED
        BY <1>4, <1>5, <3>1, <4>1
    <3>3. CASE p = i
      <4>1. (new[p] = <<q, y>> <=> q = s /\ y = x) /\ At(sp[q], y) # p
        BY <1>6, <1>7, <1>8, <3>1, <3>3
      <4>2. QED
        BY <1>4, <1>5, <3>1, <3>3, <4>1
    <3>4. QED
      BY <3>2, <3>3
  <2>3. CASE q # s
    <3>1. np[q] = sp[q]
      BY <1>4, <2>3
    <3>2. \A p \in Page : new[p] = <<q, Mail>> <=> own[p] = <<q, Mail>>
      BY <1>6, <1>7, <1>8, <2>3
    <3>3. QED
      BY <2>1, <2>2, <3>1, <3>2 DEF Has
  <2>4. CASE q = s
    <3>1. np[q].mail = w
      BY <1>4, <1>5, <2>4
    <3>2. \A p \in Page : new[p] = <<q, Mail>> <=> \E k \in DOMAIN w : w[k] = p
      <4>1. ASSUME NEW p \in Page, p # i
            PROVE  new[p] = <<q, Mail>> <=> \E k \in DOMAIN w : w[k] = p
        <5>1. (\E k \in DOMAIN u : u[k] = p) <=> \E k \in DOMAIN w : w[k] = p
          <6>1. ASSUME NEW k \in DOMAIN u, u[k] = p PROVE \E l \in DOMAIN w : w[l] = p
            <7>1. k # 1 /\ k - 1 \in DOMAIN w
              BY <1>2, <4>1, <6>1
            <7>2. w[k - 1] = u[k]
              BY <1>2, <7>1
            <7>3. QED
              BY <6>1, <7>1, <7>2
          <6>2. ASSUME NEW l \in DOMAIN w, w[l] = p PROVE \E k \in DOMAIN u : u[k] = p
            <7>1. l \in 1..Len(u) - 1 /\ l + 1 \in DOMAIN u
              BY <1>2
            <7>2. u[l + 1] = w[l]
              BY <1>2, <7>1
            <7>3. QED
              BY <6>2, <7>1, <7>2
          <6>3. QED
            BY <6>1, <6>2
        <5>2. QED
          BY <1>3, <1>8, <2>4, <4>1, <5>1
      <4>2. new[i] # <<q, Mail>>
        BY <1>2, <1>7, <1>8
      <4>3. ASSUME NEW l \in DOMAIN w PROVE w[l] # i
        <5>1. l + 1 \in DOMAIN u /\ w[l] = u[l + 1] /\ l + 1 # 1
          BY <1>2
        <5>2. QED
          BY <1>2, <1>3, <5>1
      <4>4. QED
        BY <4>1, <4>2, <4>3
    <3>3. ASSUME NEW k \in DOMAIN w, NEW l \in DOMAIN w, w[k] = w[l] PROVE k = l
      <4>1. /\ k \in Int /\ l \in Int /\ k + 1 \in DOMAIN u /\ l + 1 \in DOMAIN u
            /\ u[k + 1] = w[k] /\ u[l + 1] = w[l]
        BY <1>2
      <4>2. k + 1 = l + 1
        BY <1>3, <3>3, <4>1
      <4>3. QED
        BY <4>1, <4>2
    <3>4. QED
      BY <2>2, <3>1, <3>2, <3>3 DEF Has
  <2>5. QED
    BY <2>3, <2>4
<1>12. QED
  BY <1>8, <1>10, <1>11 DEF Accounted, np
\* Where a space has its pages: at its places, and in its queue of messages.
LEMMA HeldIs ==
    ASSUME NEW a \in Spaces, a.PageDir # NULL, a.msgqueue # NULL
    PROVE  \A h : h \in Held(a) <=>
              \/ \E x \in Spots : At(a, x) # NULL /\ h = <<x[1], x[2], At(a, x)>>
              \/ \E i \in DOMAIN a.mail : h = <<"mail", i, a.mail[i]>>
<1>1. ASSUME NEW h, h \in Held(a)
      PROVE  \/ \E x \in Spots : At(a, x) # NULL /\ h = <<x[1], x[2], At(a, x)>>
             \/ \E i \in DOMAIN a.mail : h = <<"mail", i, a.mail[i]>>
  <2>1. CASE h = <<"dir", 0, a.PageDir>>
    <3>1. /\ <<"dir", 0>> \in Spots /\ At(a, <<"dir", 0>>) = a.PageDir
      BY DEF Spots, At
    <3>2. QED
      BY <2>1, <3>1
  <2>2. CASE h = <<"queue", 0, a.msgqueue>>
    <3>1. /\ <<"queue", 0>> \in Spots /\ At(a, <<"queue", 0>>) = a.msgqueue
      BY DEF Spots, At
    <3>2. QED
      BY <2>2, <3>1
  <2>3. ASSUME NEW d \in Pde, a.tables[d] # NULL, h = <<"table", d, a.tables[d]>>
        PROVE  \E x \in Spots : At(a, x) # NULL /\ h = <<x[1], x[2], At(a, x)>>
    <3>1. /\ <<"table", d>> \in Spots /\ At(a, <<"table", d>>) = a.tables[d]
      BY DEF Spots, At
    <3>2. QED
      BY <2>3, <3>1
  <2>4. ASSUME NEW v \in VPage, a.map[v] # NULL, h = <<"map", v, a.map[v]>>
        PROVE  \E x \in Spots : At(a, x) # NULL /\ h = <<x[1], x[2], At(a, x)>>
    <3>1. /\ <<"map", v>> \in Spots /\ At(a, <<"map", v>>) = a.map[v]
      BY DEF Spots, At
    <3>2. QED
      BY <2>4, <3>1
  <2>5. QED
    BY <1>1, <2>1, <2>2, <2>3, <2>4 DEF Held
<1>2. ASSUME NEW x \in Spots, At(a, x) # NULL PROVE <<x[1], x[2], At(a, x)>> \in Held(a)
  <2>1. \/ x = <<"dir", 0>> \/ x = <<"queue", 0>>
        \/ \E d \in Pde : x = <<"table", d>>
        \/ \E v \in VPage : x = <<"map", v>>
    BY DEF Spots
  <2>2. CASE x = <<"dir", 0>> \/ x = <<"queue", 0>>
    BY <2>2 DEF Held, At
  <2>3. ASSUME NEW d \in Pde, x = <<"table", d>> PROVE <<x[1], x[2], At(a, x)>> \in Held(a)
    <3>1. At(a, x) = a.tables[d] /\ x[1] = "table" /\ x[2] = d
      BY <2>3 DEF At
    <3>2. QED
      BY <1>2, <3>1 DEF Held
  <2>4. ASSUME NEW v \in VPage, x = <<"map", v>> PROVE <<x[1], x[2], At(a, x)>> \in Held(a)
    <3>1. At(a, x) = a.map[v] /\ x[1] = "map" /\ x[2] = v
      BY <2>4 DEF At
    <3>2. QED
      BY <1>2, <3>1 DEF Held
  <2>5. QED
    BY <2>1, <2>2, <2>3, <2>4
<1>3. \A i \in DOMAIN a.mail : <<"mail", i, a.mail[i]>> \in Held(a)
  BY DEF Held
<1>4. QED
  BY <1>1, <1>2, <1>3, Zenon

\* At a place there is a page, or nothing.
LEMMA AtIs ==
    ASSUME NEW a \in Spaces, NEW x \in Spots
    PROVE  At(a, x) \in MaybePage /\ (At(a, x) # NULL <=> At(a, x) \in Page)
<1>1. At(a, x) \in MaybePage
  BY SpaceIs DEF At, Spots
<1>2. QED
  BY <1>1, Numbers DEF MaybePage

\* The owner of what a space holds.
LEMMA HeldOwned ==
    ASSUME NEW a \in Spaces, a.PageDir # NULL, a.msgqueue # NULL, NEW s \in Slot,
           NEW own \in [Page -> Owners], Has(own, s, a)
    PROVE  /\ \A h \in Held(a) :
                 /\ h = <<h[1], h[2], h[3]>> /\ h[3] \in Page
                 /\ h[1] = "mail" => /\ h[2] \in DOMAIN a.mail /\ a.mail[h[2]] = h[3]
                                     /\ own[h[3]] = <<s, Mail>>
                 /\ h[1] # "mail" => <<h[1], h[2]>> \in Spots /\ own[h[3]] = <<s, <<h[1], h[2]>>>>
           /\ \A h, g \in Held(a) : h[3] = g[3] => h = g
           /\ \A p \in Page : (\E h \in Held(a) : h[3] = p)
                                 <=> \E x \in Spots \cup {Mail} : own[p] = <<s, x>>
<1>1. ASSUME NEW h \in Held(a)
      PROVE  /\ h = <<h[1], h[2], h[3]>> /\ h[3] \in Page
             /\ h[1] = "mail" => /\ h[2] \in DOMAIN a.mail /\ a.mail[h[2]] = h[3]
                                 /\ own[h[3]] = <<s, Mail>>
             /\ h[1] # "mail" => <<h[1], h[2]>> \in Spots /\ own[h[3]] = <<s, <<h[1], h[2]>>>>
  <2>1. ASSUME NEW x \in Spots, At(a, x) # NULL, h = <<x[1], x[2], At(a, x)>>
        PROVE  /\ h = <<h[1], h[2], h[3]>> /\ h[3] \in Page /\ h[1] # "mail"
               /\ <<h[1], h[2]>> \in Spots /\ own[h[3]] = <<s, <<h[1], h[2]>>>>
    <3>1. h[1] = x[1] /\ h[2] = x[2] /\ h[3] = At(a, x)
      BY <2>1
    <3>2. x = <<x[1], x[2]>> /\ x[1] # "mail"
      BY DEF Spots
    <3>3. h[3] \in Page
      BY <2>1, <3>1, AtIs
    <3>4. own[h[3]] = <<s, x>>
      BY <3>1, <3>3 DEF Has
    <3>5. QED
      BY <2>1, <3>1, <3>2, <3>3, <3>4
  <2>2. ASSUME NEW i \in DOMAIN a.mail, h = <<"mail", i, a.mail[i]>>
        PROVE  /\ h = <<h[1], h[2], h[3]>> /\ h[3] \in Page /\ h[1] = "mail"
               /\ h[2] \in DOMAIN a.mail /\ a.mail[h[2]] = h[3] /\ own[h[3]] = <<s, Mail>>
    <3>1. h[1] = "mail" /\ h[2] = i /\ h[3] = a.mail[i]
      BY <2>2
    <3>2. h[3] \in Page
      BY <3>1, SpaceIs
    <3>3. own[h[3]] = <<s, Mail>>
      BY <3>1, <3>2 DEF Has
    <3>4. QED
      BY <2>2, <3>1, <3>2, <3>3
  <2>3. QED
    BY <2>1, <2>2, HeldIs, Zenon
<1>2. ASSUME NEW h \in Held(a), NEW g \in Held(a), h[3] = g[3] PROVE h = g
  <2>1. CASE h[1] = "mail" /\ g[1] = "mail"
    <3>0. /\ h[2] \in DOMAIN a.mail /\ g[2] \in DOMAIN a.mail
          /\ a.mail[h[2]] = h[3] /\ a.mail[g[2]] = g[3]
      BY <1>1, <2>1
    <3>1. h[2] = g[2]
      BY <1>2, <3>0 DEF Has
    <3>2. QED
      BY <1>1, <1>2, <2>1, <3>1
  <2>2. CASE h[1] # "mail" /\ g[1] # "mail"
    <3>1. <<s, <<h[1], h[2]>>>> = <<s, <<g[1], g[2]>>>>
      BY <1>1, <1>2, <2>2
    <3>2. h[1] = g[1] /\ h[2] = g[2]
      BY <3>1
    <3>3. QED
      BY <1>1, <1>2, <3>2
  <2>3. ASSUME NEW k \in Held(a), NEW l \in Held(a), k[1] = "mail", l[1] # "mail", k[3] = l[3]
        PROVE  FALSE
    <3>1. <<s, Mail>> = <<s, <<l[1], l[2]>>>>
      BY <1>1, <2>3
    <3>2. QED
      BY <2>3, <3>1 DEF Mail
  <2>4. QED
    BY <1>2, <2>1, <2>2, <2>3
<1>3. ASSUME NEW p \in Page
      PROVE  (\E h \in Held(a) : h[3] = p) <=> \E x \in Spots \cup {Mail} : own[p] = <<s, x>>
  <2>1. ASSUME NEW h \in Held(a), h[3] = p PROVE \E x \in Spots \cup {Mail} : own[p] = <<s, x>>
    BY <1>1, <2>1
  <2>2. ASSUME NEW x \in Spots, own[p] = <<s, x>> PROVE \E h \in Held(a) : h[3] = p
    <3>1. At(a, x) = p /\ p # NULL
      BY <2>2, Numbers DEF Has
    <3>2. <<x[1], x[2], p>> \in Held(a) /\ <<x[1], x[2], p>>[3] = p
      BY <3>1, HeldIs
    <3>3. QED
      BY <3>2
  <2>3. ASSUME own[p] = <<s, Mail>> PROVE \E h \in Held(a) : h[3] = p
    <3>1. PICK i \in DOMAIN a.mail : a.mail[i] = p
      BY <2>3 DEF Has
    <3>2. <<"mail", i, p>> \in Held(a) /\ <<"mail", i, p>>[3] = p
      BY <3>1, HeldIs
    <3>3. QED
      BY <3>2
  <2>4. QED
    BY <2>1, <2>2, <2>3
<1>4. QED
  BY <1>1, <1>2, <1>3
\* GiveBack frees each page of a space once.
LEMMA GivenBack ==
    ASSUME NEW m \in Mems, NEW sp \in Spacings, Accounted(m, sp), NEW s \in Slot,
           sp[s].PageDir # NULL, sp[s].msgqueue # NULL
    PROVE  LET w == Freed(m, Held(sp[s]))
           IN  w \in Mems /\ Accounted(w, With(sp, s, NoSpace))
<1> DEFINE a == sp[s]
           H == Held(a)
           P == {p \in Page : \E h \in H : h[3] = p}
           w == Freed(m, H)
           np == With(sp, s, NoSpace)
<1>1. PICK own \in [Page -> Owners] : Listed(own, m) /\ \A q \in Slot : Has(own, q, sp[q])
  BY DEF Accounted
<1>2. a \in Spaces /\ Has(own, s, a)
  BY <1>1 DEF Spacings
<1>3. /\ \A h \in H : h[3] \in P
      /\ \A h, g \in H : h[3] = g[3] => h = g
      /\ \A p \in Page : p \in P <=> \E x \in Spots \cup {Mail} : own[p] = <<s, x>>
  <2>1. /\ \A h \in H : h[3] \in Page
        /\ \A h, g \in H : h[3] = g[3] => h = g
        /\ \A p \in Page : (\E h \in H : h[3] = p)
                              <=> \E x \in Spots \cup {Mail} : own[p] = <<s, x>>
    <3> HIDE DEF a
    <3>1. a.PageDir # NULL /\ a.msgqueue # NULL
      BY DEF a
    <3>2. \A h \in Held(a) : h[3] \in Page
      BY <1>2, <3>1, HeldOwned
    <3>3. \A h, g \in Held(a) : h[3] = g[3] => h = g
      BY <1>2, <3>1, HeldOwned
    <3>4. \A p \in Page : (\E h \in Held(a) : h[3] = p)
                             <=> \E x \in Spots \cup {Mail} : own[p] = <<s, x>>
      BY <1>2, <3>1, HeldOwned
    <3>5. QED
      BY <3>2, <3>3, <3>4
  <2> HIDE DEF H
  <2>2. QED
    BY <2>1
<1>4. /\ w.pagelist = [p \in Page |-> IF p \in P THEN "FREE" ELSE m.pagelist[p]]
      /\ w.free_pages = m.free_pages + Cardinality(H) /\ w.pt_pages = m.pt_pages
      /\ w = [pagelist |-> w.pagelist, free_pages |-> w.free_pages, pt_pages |-> w.pt_pages]
  <2>1. m = [pagelist |-> m.pagelist, free_pages |-> m.free_pages, pt_pages |-> m.pt_pages]
    BY DEF Mems
  <2> DEFINE f == [p \in Page |-> IF \E h \in H : h[3] = p THEN "FREE" ELSE m.pagelist[p]]
  <2>2. f = [p \in Page |-> IF p \in P THEN "FREE" ELSE m.pagelist[p]]
    OBVIOUS
  <2>3. w = [[m EXCEPT !.pagelist = f] EXCEPT !.free_pages = m.free_pages + Cardinality(H)]
    <3>1. [m EXCEPT !.pagelist = f] = [pagelist |-> f, free_pages |-> m.free_pages,
                                       pt_pages |-> m.pt_pages]
      <4> HIDE DEF f
      <4>1. QED
        BY <2>1
    <3>2. QED
      BY Zenon DEF Freed
  <2> HIDE DEF f, H, P, w
  <2>4. [m EXCEPT !.pagelist = f] = [pagelist |-> f, free_pages |-> m.free_pages,
                                     pt_pages |-> m.pt_pages]
    BY <2>1
  <2>5. w = [pagelist |-> f, free_pages |-> m.free_pages + Cardinality(H),
             pt_pages |-> m.pt_pages]
    BY <2>3, <2>4
  <2>6. QED
    BY <2>2, <2>5
<1>5. Cardinality(H) = Cardinality(P) /\ IsFiniteSet(P)
  <2>1. IsFiniteSet(P)
    <3>1. IsFiniteSet(Page) /\ P \subseteq Page
      BY FS_Interval, Numbers DEF Page
    <3>2. QED
      BY <3>1, FS_Subset
  <2> DEFINE f == [h \in H |-> h[3]]
  <2> HIDE DEF H
  <2>2. f \in Injection(H, P)
    <3> HIDE DEF P
    <3>1. f \in [H -> P]
      BY <1>3
    <3>2. \A h, g \in H : f[h] = f[g] => h = g
      BY <1>3
    <3>3. QED
      BY <3>1, <3>2 DEF Injection, IsInjective
  <2>3. f \in Surjection(H, P)
    <3>1. f \in [H -> P]
      BY <1>3
    <3>2. \A p \in P : \E h \in H : f[h] = p
      OBVIOUS
    <3>3. QED
      BY <3>1, <3>2 DEF Surjection
  <2> HIDE DEF P, f
  <2>4. IsFiniteSet(P) /\ (Cardinality(H) = Cardinality(P) <=> f \in Surjection(H, P))
    BY <2>1, <2>2, FS_Injection
  <2>5. QED
    BY <2>3, <2>4
<1> HIDE DEF H, P, w
<1>6. P \subseteq Page /\ P \cap FreeOf(m) = {} /\ \A p \in P : ~Kernels(p)
  <2>1. ASSUME NEW p \in P PROVE p \in Page /\ m.pagelist[p] # "FREE" /\ ~Kernels(p)
    <3>1. p \in Page
      BY DEF P
    <3>2. PICK x \in Spots \cup {Mail} : own[p] = <<s, x>>
      BY <1>3, <3>1
    <3>3. QED
      BY <1>1, <3>1, <3>2, OwnedIs
  <2>2. QED
    BY <2>1 DEF FreeOf
<1>7. w \in Mems
  <2>1. w.pagelist \in [Page -> Uses]
    BY <1>4, MemIs DEF Uses
  <2>2. Cardinality(H) \in Nat
    BY <1>5, FS_CardinalityType
  <2>3. m.free_pages \in Int /\ m.pt_pages \in Int
    BY MemIs
  <2>4. w.free_pages \in Int /\ w.pt_pages \in Int
    BY <1>4, <2>2, <2>3
  <2>5. QED
    BY <1>4, <2>1, <2>4 DEF Mems
<1>8. Kept(w)
  <2>1. FreeOf(w) = FreeOf(m) \cup P
    BY <1>4, <1>6 DEF FreeOf
  <2>2. Cardinality(FreeOf(w)) = Cardinality(FreeOf(m)) + Cardinality(P)
    <3>1. IsFiniteSet(FreeOf(m)) /\ Cardinality(FreeOf(m)) \in Nat
      BY FreeCounts, Numbers
    <3>2. FreeOf(m) \cap P = {}
      BY <1>6
    <3>3. Cardinality(FreeOf(m) \cap P) = 0
      BY <3>2, FS_EmptySet
    <3>4. Cardinality(P) \in Nat
      BY <1>5, FS_CardinalityType
    <3>5. Cardinality(FreeOf(w)) = Cardinality(FreeOf(m)) + Cardinality(P)
                                   - Cardinality(FreeOf(m) \cap P)
      BY <1>5, <2>1, <3>1, FS_Union
    <3>6. QED
      BY <3>1, <3>3, <3>4, <3>5
  <2>3. w.free_pages = Cardinality(FreeOf(w))
    BY <1>4, <1>5, <2>2 DEF Accounted, Kept
  <2>4. w.pagelist[0] = "DATA" /\ \A p \in Page : p >= mem_pages - KernelTables => w.pagelist[p] = "PTAB"
    BY <1>4, <1>6, Numbers DEF Accounted, Kept, Kernels
  <2>5. QED
    BY <1>4, <2>3, <2>4 DEF Accounted, Kept
<1> DEFINE new == [p \in Page |-> IF p \in P THEN Free ELSE own[p]]
<1>9. /\ Free \in Owners /\ Free # Kernel /\ Role(Free[2]) = "FREE"
      /\ \A q \in Slot, y \in Spots \cup {Mail} : Free # <<q, y>>
  BY DEF Owners, Kernel, Free, Role, Spots, Mail
<1>10. new \in [Page -> Owners] /\ \A p \in Page : new[p] = IF p \in P THEN Free ELSE own[p]
  BY <1>9
<1> HIDE DEF new
<1>11. Listed(new, w)
  BY <1>1, <1>4, <1>6, <1>9, <1>10 DEF Listed
<1>12. \A q \in Slot : np[q] = IF q = s THEN NoSpace ELSE sp[q]
  BY DEF Spacings, With
<1> HIDE DEF np, a
<1>13. ASSUME NEW q \in Slot PROVE Has(new, q, np[q])
  <2>1. CASE q = s
    <3>1. ASSUME NEW p \in Page, NEW x \in Spots \cup {Mail} PROVE new[p] # <<q, x>>
      <4>1. CASE p \in P
        BY <1>9, <1>10, <4>1
      <4>2. CASE p \notin P
        <5>1. own[p] # <<s, x>> /\ new[p] = own[p]
          BY <1>3, <1>10, <4>2
        <5>2. QED
          BY <2>1, <5>1
      <4>3. QED
        BY <4>1, <4>2
    <3>2. np[q].mail = <<>> /\ \A x \in Spots : At(np[q], x) = NULL
      BY <1>12, <2>1 DEF NoSpace, At, Spots
    <3>3. DOMAIN np[q].mail = {}
      BY <3>2
    <3>4. QED
      BY <3>1, <3>2, <3>3, Numbers DEF Has
  <2>2. CASE q # s
    <3>1. ASSUME NEW p \in Page, NEW x \in Spots \cup {Mail}
          PROVE  new[p] = <<q, x>> <=> own[p] = <<q, x>>
      <4>1. p \in P => own[p] # <<q, x>>
        BY <1>3, <2>2
      <4>2. QED
        BY <1>9, <1>10, <4>1
    <3>2. np[q] = sp[q] /\ Has(own, q, sp[q])
      BY <1>1, <1>12, <2>2
    <3>3. QED
      BY <3>1, <3>2 DEF Has
  <2>3. QED
    BY <2>1, <2>2
<1>14. QED
  BY <1>7, <1>8, <1>10, <1>11, <1>13 DEF Accounted, np, w, H, a
--------------------------------------------------------------------------------
(* One page more, or one less.                                                     *)

(* The virtual pages that are mapped, and the entries that have a table.           *)
MappedOf(a) == {v \in VPage : a.map[v] # NULL}
TablesOf(a) == {d \in Pde : a.tables[d] # NULL}

(* Nothing else of b is new.                                                       *)
SameRest(a, b) ==
    /\ b.active = a.active /\ b.user = a.user /\ b.threads = a.threads /\ b.PageDir = a.PageDir
    /\ b.msgqueue = a.msgqueue /\ b.mail = a.mail /\ b.blocks = a.blocks /\ b.buffers = a.buffers

(* b has what a has, and pages at V and tables at D.                               *)
Grows(a, b, V, D) ==
    MappedOf(b) = MappedOf(a) \cup V /\ TablesOf(b) = TablesOf(a) \cup D /\ SameRest(a, b)

(* A cursor on the space of slot s, when those of the others are in sp.            *)
Sound(c, s, sp) == c \in Cursors /\ Accounted(c.mem, With(sp, s, c.as))

(* A space with another page at v, or another table at d.                          *)
MapAt(a, v, p) == [a EXCEPT !.map[v] = p]
TableAt(a, d, p) == [a EXCEPT !.tables[d] = p]

\* A space with another page at v.
LEMMA MapAtIs ==
    ASSUME NEW a \in Spaces, NEW v \in VPage, NEW p \in MaybePage
    PROVE  LET b == MapAt(a, v, p)
           IN  /\ Placed(a, b, <<"map", v>>, p) /\ SameRest(a, b)
               /\ \A w \in VPage : b.map[w] = IF w = v THEN p ELSE a.map[w]
               /\ b.tables = a.tables /\ b.last_used_page = a.last_used_page
               /\ MappedOf(b) = IF p = NULL THEN MappedOf(a) \ {v} ELSE MappedOf(a) \cup {v}
<1> DEFINE b == MapAt(a, v, p)
<1>1. a.map \in [VPage -> MaybePage] /\ [a.map EXCEPT ![v] = p] \in [VPage -> MaybePage]
  BY SpaceIs
<1>2. /\ b \in Spaces /\ b.map = [a.map EXCEPT ![v] = p] /\ SameRest(a, b)
      /\ b.tables = a.tables /\ b.last_used_page = a.last_used_page
  BY <1>1 DEF Spaces, SameRest, MapAt
<1> HIDE DEF b
<1>3. Placed(a, b, <<"map", v>>, p)
  <2>1. ASSUME NEW y \in Spots
        PROVE  At(b, y) = IF y = <<"map", v>> THEN p ELSE At(a, y)
    <3>1. \/ y = <<"dir", 0>> \/ y = <<"queue", 0>>
          \/ \E d \in Pde : y = <<"table", d>>
          \/ \E w \in VPage : y = <<"map", w>>
      BY DEF Spots
    <3>2. CASE y = <<"dir", 0>> \/ y = <<"queue", 0>> \/ \E d \in Pde : y = <<"table", d>>
      BY <1>2, <3>2 DEF At, SameRest
    <3>3. ASSUME NEW w \in VPage, y = <<"map", w>>
          PROVE  At(b, y) = IF y = <<"map", v>> THEN p ELSE At(a, y)
      <4>1. At(b, y) = b.map[w] /\ At(a, y) = a.map[w] /\ (y = <<"map", v>> <=> w = v)
        BY <3>3 DEF At
      <4>2. QED
        BY <1>1, <1>2, <4>1
    <3>4. QED
      BY <3>1, <3>2, <3>3
  <2>2. QED
    BY <1>2, <2>1 DEF Placed, SameRest
<1>3a. \A w \in VPage : b.map[w] = IF w = v THEN p ELSE a.map[w]
  BY <1>1, <1>2
<1>4. MappedOf(b) = IF p = NULL THEN MappedOf(a) \ {v} ELSE MappedOf(a) \cup {v}
  BY <1>1, <1>2 DEF MappedOf
<1>5. QED
  BY <1>2, <1>3, <1>3a, <1>4 DEF b

\* A space with a table at entry d.
LEMMA TableAtIs ==
    ASSUME NEW a \in Spaces, NEW d \in Pde, NEW p \in Page
    PROVE  LET b == TableAt(a, d, p)
           IN  /\ Placed(a, b, <<"table", d>>, p) /\ SameRest(a, b)
               /\ b.map = a.map /\ b.last_used_page = a.last_used_page
               /\ TablesOf(b) = TablesOf(a) \cup {d}
<1> DEFINE b == TableAt(a, d, p)
<1>0. p \in MaybePage /\ p # NULL
  BY Numbers DEF MaybePage
<1>1. a.tables \in [Pde -> MaybePage] /\ [a.tables EXCEPT ![d] = p] \in [Pde -> MaybePage]
  BY <1>0, SpaceIs
<1>2. /\ b \in Spaces /\ b.tables = [a.tables EXCEPT ![d] = p] /\ SameRest(a, b)
      /\ b.map = a.map /\ b.last_used_page = a.last_used_page
  BY <1>1 DEF Spaces, SameRest, TableAt
<1> HIDE DEF b
<1>3. Placed(a, b, <<"table", d>>, p)
  <2>1. ASSUME NEW y \in Spots
        PROVE  At(b, y) = IF y = <<"table", d>> THEN p ELSE At(a, y)
    <3>1. \/ y = <<"dir", 0>> \/ y = <<"queue", 0>>
          \/ \E e \in Pde : y = <<"table", e>>
          \/ \E w \in VPage : y = <<"map", w>>
      BY DEF Spots
    <3>2. CASE y = <<"dir", 0>> \/ y = <<"queue", 0>> \/ \E w \in VPage : y = <<"map", w>>
      BY <1>2, <3>2 DEF At, SameRest
    <3>3. ASSUME NEW e \in Pde, y = <<"table", e>>
          PROVE  At(b, y) = IF y = <<"table", d>> THEN p ELSE At(a, y)
      <4>1. At(b, y) = b.tables[e] /\ At(a, y) = a.tables[e] /\ (y = <<"table", d>> <=> e = d)
        BY <3>3 DEF At
      <4>2. QED
        BY <1>1, <1>2, <4>1
    <3>4. QED
      BY <3>1, <3>2, <3>3
  <2>2. QED
    BY <1>2, <2>1 DEF Placed, SameRest
<1>4. TablesOf(b) = TablesOf(a) \cup {d}
  BY <1>0, <1>1, <1>2 DEF TablesOf
<1>5. QED
  BY <1>2, <1>3, <1>4 DEF b
\* The least element of a set of natural numbers.
LEMMA MinIs ==
    ASSUME NEW S \in SUBSET Nat, S # {}
    PROVE  Min(S) \in S /\ \A x \in S : Min(S) <= x
<1>1. \E x \in S : \A y \in S : x <= y
  BY LeastExists
<1>2. QED
  BY <1>1, Zenon DEF Min

\* The search for a page ends: at the kernel's tables if not before.
LEMMA FoundIs ==
    ASSUME NEW m \in Mems, Kept(m)
    PROVE  Found(m) \in Page
<1> DEFINE S == {i \in Page : m.pagelist[i] \in {"FREE", "PTAB"}}
<1>1. mem_pages - 1 \in Page /\ mem_pages - 1 >= mem_pages - KernelTables
  BY Numbers DEF Page
<1>2. mem_pages - 1 \in S
  BY <1>1 DEF Kept
<1>3. S \in SUBSET Nat
  BY DEF Page
<1> HIDE DEF S
<1>4. Min(S) \in S
  BY <1>2, <1>3, MinIs
<1>5. QED
  BY <1>4 DEF Found, S

\* The spaces with another one for slot s.
LEMMA WithIs ==
    ASSUME NEW sp \in Spacings, NEW s \in Slot, NEW a \in Spaces
    PROVE  /\ With(sp, s, a) \in Spacings /\ With(sp, s, a)[s] = a
           /\ \A q \in Slot : q # s => With(sp, s, a)[q] = sp[q]
           /\ \A b : With(With(sp, s, a), s, b) = With(sp, s, b)
  BY DEF Spacings, With

\* mem_getpage puts the page it finds in an empty place.
LEMMA GetPage ==
    ASSUME NEW sp \in Spacings, NEW s \in Slot, NEW c, Sound(c, s, sp), c.halt = "no",
           NEW x \in Spots, At(c.as, x) = NULL,
           NEW as, Placed(c.as, as, x, Found(c.mem))
    PROVE  LET r == mem_getpage(c, Role(x), as)
           IN  /\ r \in Cursors /\ r.halt \in {"no", "finished"}
               /\ r.halt = "no" => Sound(r, s, sp) /\ r.as = as
<1> DEFINE m == c.mem
           i == Found(m)
           tipo == Role(x)
           r == mem_getpage(c, tipo, as)
           np == With(sp, s, c.as)
<1>1. /\ c \in Cursors /\ m \in Mems /\ Kept(m) /\ Accounted(m, np) /\ c.as \in Spaces
      /\ as \in Spaces
  BY CursorIs DEF Sound, Accounted, Placed
<1>2. i \in Page
  BY <1>1, FoundIs
<1>3. np \in Spacings /\ np[s] = c.as /\ With(np, s, as) = With(sp, s, as)
  <2>1. \A b : With(np, s, b) = With(sp, s, b)
    BY <1>1, WithIs
  <2>2. np \in Spacings /\ np[s] = c.as
    BY <1>1, WithIs
  <2>3. QED
    BY <2>1, <2>2
<1>4. tipo \in Uses \ {"FREE"} /\ tipo \in Uses
  BY DEF Role, Spots, Uses
<1> HIDE DEF m, i, tipo, np
<1>5. CASE m.pagelist[i] # "FREE"
  <2>1. r = [c EXCEPT !.halt = "finished"]
    BY <1>5 DEF mem_getpage, m, i
  <2>2. r \in Cursors /\ r.halt = "finished"
    <3>1. "finished" \in Halts
      BY DEF Halts
    <3> HIDE DEF r
    <3>2. QED
      BY <1>1, <2>1, <3>1, CursorStops
  <2> HIDE DEF r
  <2>3. QED
    BY <2>2 DEF r, tipo
<1>6. CASE m.pagelist[i] = "FREE"
  <2> DEFINE w == Taken(m, i, tipo)
  <2>1. w \in Mems /\ w.pagelist = Put(m.pagelist, i, tipo)
    BY <1>1, <1>2, <1>4, TakenParts
  <2>2. Kept(w)
    BY <1>1, <1>2, <1>4, <1>6, TakenKept
  <2>3. r = Going(w, as)
    BY <1>6, Zenon DEF mem_getpage, m, i
  <2> HIDE DEF w, r
  <2>4. r \in Cursors /\ r.mem = w /\ r.as = as /\ r.halt = "no"
    BY <1>1, <2>1, <2>3, CursorGoes
  <2>6. Accounted(w, With(np, s, as))
    <3>1. At(np[s], x) = NULL /\ Placed(np[s], as, x, i)
      BY <1>3 DEF i, m
    <3>2. w.pagelist = Put(m.pagelist, i, Role(x))
      BY <2>1 DEF tipo
    <3>3. QED
      BY <1>1, <1>2, <1>3, <1>6, <2>1, <2>2, <3>1, <3>2, PutThere
  <2>7. QED
    BY <1>3, <2>4, <2>6 DEF Sound, r, tipo
<1>7. QED
  BY <1>5, <1>6 DEF tipo

\* getpagetable gives the entry of v a table, if it has none.
LEMMA GetTable ==
    ASSUME NEW sp \in Spacings, NEW s \in Slot, NEW c \in Cursors, c.halt = "no" => Sound(c, s, sp),
           NEW v \in VPage, NEW onNull \in Halts \ {"no"}
    PROVE  LET r == getpagetable(c, v, onNull)
           IN  /\ r \in Cursors /\ r.halt \in {c.halt, onNull}
               /\ r.halt = "no" =>
                     /\ c.halt = "no" /\ Sound(r, s, sp)
                     /\ Grows(c.as, r.as, {}, {Entry(v)}) /\ r.as.map = c.as.map
                     /\ r.as.last_used_page = c.as.last_used_page
<1> DEFINE r == getpagetable(c, v, onNull)
           m == c.mem
           i == m.pt_pages
           d == Entry(v)
           b == TableAt(c.as, d, i)
           w == TakenTop(m)
           np == With(sp, s, c.as)
<1>1. m \in Mems /\ c.as \in Spaces /\ c.halt \in Halts /\ d \in Pde
  BY CursorIs, EntryOf
<1>2. CASE c.halt # "no"
  <2>1. r = c
    BY <1>2, Zenon DEF getpagetable
  <2> HIDE DEF r
  <2>2. QED
    BY <1>2, <2>1 DEF r
<1>3. CASE c.halt = "no" /\ c.as.tables[d] # NULL
  <2>1. r = c
    BY <1>3, Zenon DEF getpagetable
  <2>2. TablesOf(c.as) = TablesOf(c.as) \cup {d} /\ MappedOf(c.as) = MappedOf(c.as) \cup {}
    BY <1>1, <1>3 DEF TablesOf
  <2> HIDE DEF r, d
  <2>3. Grows(c.as, r.as, {}, {d})
    BY <2>1, <2>2 DEF Grows, SameRest
  <2>4. QED
    BY <1>3, <2>1, <2>3 DEF r, d
<1>4. CASE c.halt = "no" /\ c.as.tables[d] = NULL
  <2>1. Kept(m) /\ Accounted(m, np)
    BY <1>4 DEF Sound, Accounted
  <2>2. i \in Page /\ (m.pagelist[i] = "FREE" => /\ w \in Mems /\ Kept(w)
                                                   /\ w.pagelist = Put(m.pagelist, i, "PTAB"))
    BY <1>1, <2>1, TableKept
  <2>3. np \in Spacings /\ np[s] = c.as
    BY <1>1, WithIs
  <2>4. \A a : With(np, s, a) = With(sp, s, a)
    BY <1>1, WithIs
  <2>5. CASE m.pagelist[i] # "FREE"
    <3>1. r = [c EXCEPT !.halt = onNull]
      BY <1>4, <2>5 DEF getpagetable
    <3> HIDE DEF r
    <3>2. r \in Cursors /\ r.halt = onNull
      BY <3>1, CursorStops
    <3>3. QED
      BY <3>2 DEF r
  <2>6. CASE m.pagelist[i] = "FREE"
    <3>1. r = Going(w, b)
      BY <1>4, <2>6 DEF getpagetable, TableAt
    <3>2. /\ Placed(c.as, b, <<"table", d>>, i) /\ SameRest(c.as, b)
          /\ b.map = c.as.map /\ b.last_used_page = c.as.last_used_page
          /\ TablesOf(b) = TablesOf(c.as) \cup {d}
      BY <1>1, <2>2, TableAtIs
    <3> HIDE DEF r, m, i, d, b, w, np
    <3>3. b \in Spaces /\ MappedOf(b) = MappedOf(c.as)
      BY <3>2 DEF Placed, MappedOf
    <3>4. r \in Cursors /\ r.mem = w /\ r.as = b /\ r.halt = "no"
      BY <2>2, <2>6, <3>1, <3>3, CursorGoes
    <3>5. Accounted(w, With(np, s, b))
      <4> DEFINE x == <<"table", d>>
      <4>1. x \in Spots /\ Role(x) = "PTAB" /\ At(c.as, x) = c.as.tables[d]
        BY <1>1 DEF Spots, Role, At
      <4>2. At(np[s], x) = NULL /\ Placed(np[s], b, x, i)
        BY <1>4, <2>3, <3>2, <4>1
      <4> HIDE DEF x
      <4>3. QED
        BY <1>1, <2>1, <2>2, <2>3, <2>6, <4>1, <4>2, PutThere
    <3>6. Sound(r, s, sp)
      BY <2>4, <3>4, <3>5 DEF Sound
    <3>7. Grows(c.as, r.as, {}, {d})
      BY <3>2, <3>3, <3>4 DEF Grows
    <3>8. QED
      BY <1>4, <3>2, <3>4, <3>6, <3>7 DEF r, d
  <2>7. QED
    BY <2>5, <2>6
<1>5. QED
  BY <1>2, <1>3, <1>4

\* MapPage maps a page at v, where there is none.
LEMMA MapPageIs ==
    ASSUME NEW sp \in Spacings, NEW s \in Slot, NEW c \in Cursors, NEW v \in VPage,
           c.halt = "no" => Sound(c, s, sp) /\ v \notin MappedOf(c.as)
    PROVE  LET r == MapPage(c, v)
           IN  /\ r \in Cursors /\ r.halt \in {c.halt, "finished"}
               /\ r.halt = "no" =>
                     /\ c.halt = "no" /\ Sound(r, s, sp) /\ Grows(c.as, r.as, {v}, {})
                     /\ r.as.last_used_page = c.as.last_used_page
<1> DEFINE r == MapPage(c, v)
           i == Found(c.mem)
           b == MapAt(c.as, v, i)
           x == <<"map", v>>
<1>1. c.mem \in Mems /\ c.as \in Spaces
  BY CursorIs
<1>2. r = mem_getpage(c, "DATA", b)
  BY Zenon DEF MapPage, MapAt
<1>3. CASE c.halt # "no"
  <2>1. r = c
    BY <1>2, <1>3, Zenon DEF mem_getpage
  <2> HIDE DEF r
  <2>2. QED
    BY <1>3, <2>1 DEF r
<1>4. CASE c.halt = "no"
  <2>1. i \in Page
    BY <1>1, <1>4, FoundIs DEF Sound, Accounted
  <2>2. i \in MaybePage /\ i # NULL
    BY <2>1, Numbers DEF MaybePage
  <2>3. /\ Placed(c.as, b, x, i) /\ SameRest(c.as, b) /\ b.tables = c.as.tables
        /\ b.last_used_page = c.as.last_used_page /\ MappedOf(b) = MappedOf(c.as) \cup {v}
    BY <1>1, <2>2, MapAtIs
  <2>4. x \in Spots /\ Role(x) = "DATA" /\ At(c.as, x) = NULL
    BY <1>4 DEF Spots, Role, At, MappedOf
  <2>5. Grows(c.as, b, {v}, {})
    BY <2>3 DEF Grows, TablesOf
  <2> HIDE DEF r, b, x, i
  <2>6. /\ mem_getpage(c, Role(x), b) \in Cursors
        /\ mem_getpage(c, Role(x), b).halt \in {"no", "finished"}
        /\ mem_getpage(c, Role(x), b).halt = "no" =>
              /\ Sound(mem_getpage(c, Role(x), b), s, sp)
              /\ mem_getpage(c, Role(x), b).as = b
    <3>1. Placed(c.as, b, x, Found(c.mem))
      BY <2>3 DEF i
    <3>2. QED
      BY <1>4, <2>4, <3>1, GetPage
  <2>7. /\ r \in Cursors /\ r.halt \in {"no", "finished"}
        /\ r.halt = "no" => Sound(r, s, sp) /\ r.as = b
    BY <1>2, <2>4, <2>6
  <2>8. QED
    BY <1>4, <2>3, <2>5, <2>7 DEF r
<1>5. QED
  BY <1>3, <1>4
(* b has what a has but for the pages at V.                                        *)
Shrinks(a, b, V) ==
    /\ MappedOf(b) = MappedOf(a) \ V /\ TablesOf(b) = TablesOf(a) /\ SameRest(a, b)
    /\ b.last_used_page = a.last_used_page

\* UnmapPage frees the page at v if one is mapped there, and stops if not.
LEMMA UnmapPageIs ==
    ASSUME NEW sp \in Spacings, NEW s \in Slot, NEW c \in Cursors, NEW v \in Int,
           c.halt = "no" => Sound(c, s, sp)
    PROVE  LET r == UnmapPage(c, v)
           IN  /\ r \in Cursors
               /\ r.halt = "no" =>
                     /\ c.halt = "no" /\ v \in MappedOf(c.as) /\ Sound(r, s, sp)
                     /\ Shrinks(c.as, r.as, {v})
               /\ c.halt # "no" \/ v \in MappedOf(c.as) => r.halt = c.halt
<1> DEFINE r == UnmapPage(c, v)
           m == c.mem
           i == c.as.map[v]
           b == MapAt(c.as, v, NULL)
           w == freepage(m, i)
           np == With(sp, s, c.as)
           x == <<"map", v>>
<1>1. m \in Mems /\ c.as \in Spaces /\ c.halt \in Halts
  BY CursorIs
<1>2. CASE c.halt # "no"
  <2>1. r = c
    BY <1>2, Zenon DEF UnmapPage
  <2> HIDE DEF r
  <2>2. QED
    BY <1>2, <2>1 DEF r
<1>3. CASE c.halt = "no" /\ v \notin MappedOf(c.as)
  <2>1. v < UserBase \/ v > MaxVPage \/ c.as.map[v] = NULL
    BY <1>3, Numbers DEF MappedOf, VPage
  <2>2. r = [c EXCEPT !.halt = "kernel_freed"] \/ r = [c EXCEPT !.halt = "unallocated"]
    BY <1>3, <2>1 DEF UnmapPage
  <2> HIDE DEF r
  <2>3. r \in Cursors /\ r.halt # "no"
    BY <2>2, CursorStops DEF Halts
  <2>4. QED
    BY <1>3, <2>3 DEF r
<1>4. CASE c.halt = "no" /\ v \in MappedOf(c.as)
  <2>1. v \in VPage /\ i # NULL /\ UserBase <= v /\ v <= MaxVPage
    BY <1>4, Numbers DEF MappedOf, VPage
  <2>2. i \in Page /\ x \in Spots /\ At(c.as, x) = i
    <3>1. x \in Spots /\ At(c.as, x) = i
      BY <2>1 DEF Spots, At
    <3>2. QED
      BY <1>1, <2>1, <3>1, AtIs
  <2>3. r = Going(w, b)
    BY <1>4, <2>1, Numbers DEF UnmapPage, MapAt
  <2>4. NULL \in MaybePage
    BY DEF MaybePage
  <2>5. /\ Placed(c.as, b, x, NULL) /\ SameRest(c.as, b) /\ b.tables = c.as.tables
        /\ b.last_used_page = c.as.last_used_page /\ MappedOf(b) = MappedOf(c.as) \ {v}
    BY <1>1, <2>1, <2>4, MapAtIs
  <2>6. np \in Spacings /\ np[s] = c.as
    BY <1>1, WithIs
  <2>7. \A a : With(np, s, a) = With(sp, s, a)
    BY <1>1, WithIs
  <2>8. Kept(m) /\ Accounted(m, np)
    BY <1>4 DEF Sound, Accounted
  <2> HIDE DEF r, m, i, b, w, np, x
  <2>9. Placed(np[s], b, x, NULL) /\ At(np[s], x) = i
    BY <2>2, <2>5, <2>6
  <2>10. /\ m.pagelist[i] # "FREE" /\ ~Kernels(i)
         /\ \A u \in Mems : Kept(u) /\ u.pagelist = Put(m.pagelist, i, "FREE")
               => Accounted(u, With(np, s, b))
    BY <1>1, <2>2, <2>6, <2>8, <2>9, TakenAway
  <2>11. w \in Mems /\ w.pagelist = Put(m.pagelist, i, "FREE") /\ Kept(w)
    <3>1. "DATA" \in Uses
      BY DEF Uses
    <3>2. freepage(m, i) \in Mems /\ freepage(m, i).pagelist = Put(m.pagelist, i, "FREE")
      BY <1>1, <2>2, <3>1, TakenParts
    <3>3. Kept(freepage(m, i))
      BY <1>1, <2>2, <2>8, <2>10, FreedKept
    <3>4. QED
      BY <3>2, <3>3 DEF w
  <2>12. b \in Spaces
    BY <2>5 DEF Placed
  <2>13. r \in Cursors /\ r.mem = w /\ r.as = b /\ r.halt = "no"
    BY <2>3, <2>11, <2>12, CursorGoes
  <2>14. Sound(r, s, sp)
    BY <2>7, <2>10, <2>11, <2>13 DEF Sound
  <2>15. Shrinks(c.as, r.as, {v})
    BY <2>5, <2>13 DEF Shrinks, TablesOf
  <2>16. QED
    BY <1>4, <2>13, <2>14, <2>15 DEF r
<1>5. QED
  BY <1>2, <1>3, <1>4

\* A cursor whose space has the same pages in the same places.
LEMMA SoundSame ==
    ASSUME NEW sp \in Spacings, NEW s \in Slot, NEW c \in Cursors, Sound(c, s, sp),
           NEW r \in Cursors, r.mem = c.mem, r.as.mail = c.as.mail, r.as.map = c.as.map,
           r.as.tables = c.as.tables, r.as.PageDir = c.as.PageDir, r.as.msgqueue = c.as.msgqueue
    PROVE  Sound(r, s, sp)
<1> DEFINE np == With(sp, s, c.as)
<1>1. c.mem \in Mems /\ c.as \in Spaces /\ r.as \in Spaces
  BY CursorIs
<1>2. np \in Spacings /\ np[s] = c.as
  BY <1>1, WithIs
<1>3. \A a : With(np, s, a) = With(sp, s, a)
  BY <1>1, WithIs
<1> HIDE DEF np
<1>4. \A y \in Spots : At(r.as, y) = At(np[s], y)
  BY <1>2 DEF At
<1>5. r.as.mail = np[s].mail
  BY <1>2
<1>6. Accounted(c.mem, np)
  BY DEF Sound, np
<1>7. Accounted(c.mem, With(np, s, r.as))
  BY <1>1, <1>2, <1>4, <1>5, <1>6, SamePlaces
<1>8. QED
  BY <1>3, <1>7 DEF Sound
\* A cursor with another last_used_page.
LEMMA CursorLast ==
    ASSUME NEW c \in Cursors, NEW v \in Int
    PROVE  LET r == [c EXCEPT !.as.last_used_page = v]
           IN  /\ r \in Cursors /\ r.mem = c.mem /\ r.halt = c.halt
               /\ r.as.last_used_page = v /\ r.as.map = c.as.map /\ r.as.tables = c.as.tables
               /\ SameRest(c.as, r.as)
               /\ \A sp \in Spacings, s \in Slot : Sound(c, s, sp) => Sound(r, s, sp)
<1> DEFINE a == [c.as EXCEPT !.last_used_page = v]
           r == [c EXCEPT !.as.last_used_page = v]
<1>1. c.as \in Spaces
  BY CursorIs
<1>2. /\ a \in Spaces /\ a.last_used_page = v /\ a.map = c.as.map /\ a.tables = c.as.tables
      /\ SameRest(c.as, a)
  BY <1>1 DEF Spaces, SameRest
<1>3. r = [c EXCEPT !.as = a]
  BY DEF Cursors
<1> HIDE DEF a, r
<1>4. r \in Cursors /\ r.mem = c.mem /\ r.as = a /\ r.halt = c.halt
  BY <1>2, <1>3, CursorAs
<1>5. ASSUME NEW sp \in Spacings, NEW s \in Slot, Sound(c, s, sp) PROVE Sound(r, s, sp)
  BY <1>2, <1>4, <1>5, SoundSame DEF SameRest
<1>6. QED
  BY <1>2, <1>4, <1>5 DEF r

\* One growth after another.
LEMMA GrowsTwice ==
    ASSUME NEW a, NEW b, NEW e, NEW V, NEW W, NEW D, NEW E, Grows(a, b, V, D), Grows(b, e, W, E)
    PROVE  Grows(a, e, V \cup W, D \cup E)
<1>1. MappedOf(e) = MappedOf(a) \cup (V \cup W) /\ TablesOf(e) = TablesOf(a) \cup (D \cup E)
  BY DEF Grows
<1>2. SameRest(a, e)
  BY DEF Grows, SameRest
<1>3. QED
  BY <1>1, <1>2 DEF Grows

\* A page and a table for v, which is the last page then.
LEMMA AllocPageIs ==
    ASSUME NEW sp \in Spacings, NEW s \in Slot, NEW c \in Cursors, NEW v \in VPage,
           c.halt = "no" => Sound(c, s, sp) /\ v \notin MappedOf(c.as)
    PROVE  LET r == AllocPage(c, v)
           IN  /\ r \in Cursors /\ r.halt \in {c.halt, "finished"}
               /\ r.halt = "no" =>
                     /\ c.halt = "no" /\ Sound(r, s, sp) /\ Grows(c.as, r.as, {v}, {Entry(v)})
                     /\ r.as.last_used_page = v
<1> DEFINE d == [c EXCEPT !.as.last_used_page = v]
           e == MapPage(d, v)
           r == getpagetable(e, v, "finished")
<1>0. v \in Int /\ "finished" \in Halts \ {"no"}
  BY EntryOf DEF Halts
<1>1. /\ d \in Cursors /\ d.halt = c.halt /\ d.as.last_used_page = v /\ d.as.map = c.as.map
      /\ d.as.tables = c.as.tables /\ SameRest(c.as, d.as) /\ (c.halt = "no" => Sound(d, s, sp))
  BY <1>0, CursorLast
<1> HIDE DEF d
<1>2. MappedOf(d.as) = MappedOf(c.as) /\ TablesOf(d.as) = TablesOf(c.as)
  BY <1>1 DEF MappedOf, TablesOf
<1>3. /\ e \in Cursors /\ e.halt \in {c.halt, "finished"}
      /\ e.halt = "no" => /\ c.halt = "no" /\ Sound(e, s, sp) /\ Grows(d.as, e.as, {v}, {})
                          /\ e.as.last_used_page = v
  BY <1>1, <1>2, MapPageIs
<1> HIDE DEF e
<1>4. /\ r \in Cursors /\ r.halt \in {e.halt, "finished"}
      /\ r.halt = "no" => /\ e.halt = "no" /\ Sound(r, s, sp)
                          /\ Grows(e.as, r.as, {}, {Entry(v)})
                          /\ r.as.last_used_page = e.as.last_used_page
  <2>1. e \in Cursors /\ (e.halt = "no" => Sound(e, s, sp))
    BY <1>3
  <2> HIDE DEF r
  <2>2. LET u == getpagetable(e, v, "finished")
        IN  /\ u \in Cursors /\ u.halt \in {e.halt, "finished"}
            /\ u.halt = "no" => /\ e.halt = "no" /\ Sound(u, s, sp)
                                /\ Grows(e.as, u.as, {}, {Entry(v)})
                                /\ u.as.last_used_page = e.as.last_used_page
    BY <1>0, <2>1, GetTable
  <2>3. QED
    BY <2>2 DEF r
<1> HIDE DEF r
<1>5. Grows(c.as, d.as, {}, {})
  BY <1>1, <1>2 DEF Grows
<1>6. ASSUME r.halt = "no" PROVE Grows(c.as, r.as, {v}, {Entry(v)})
  <2>1. Grows(d.as, r.as, {v} \cup {}, {} \cup {Entry(v)})
    BY <1>3, <1>4, <1>6, GrowsTwice
  <2>2. Grows(c.as, r.as, {} \cup ({v} \cup {}), {} \cup ({} \cup {Entry(v)}))
    BY <1>5, <2>1, GrowsTwice
  <2>3. /\ {} \cup ({v} \cup {}) = {v}
        /\ {} \cup ({} \cup {Entry(v)}) = {Entry(v)}
    OBVIOUS
  <2>4. QED
    BY <2>2, <2>3
<1>7. r = AllocPage(c, v)
  BY Zenon DEF AllocPage, r, e, d
<1>8. QED
  BY <1>3, <1>4, <1>6, <1>7
Entries(V) == {Entry(v) : v \in V}

\* Linear_alloc maps the pages after the last one.
LEMMA LinearAllocIs ==
    ASSUME NEW sp \in Spacings, NEW s \in Slot, NEW c \in Cursors, NEW bytes \in Nat,
           c.halt = "no" =>
              /\ Sound(c, s, sp)
              /\ UserBase <= c.as.last_used_page
              /\ c.as.last_used_page + Pages(bytes) <= MaxVPage
              /\ \A v \in MappedOf(c.as) : v <= c.as.last_used_page
    PROVE  LET r == Linear_alloc(c, bytes)
               l == c.as.last_used_page
               V == l + 1..l + Pages(bytes)
           IN  /\ r \in Cursors /\ r.halt \in {c.halt, "finished"}
               /\ r.halt = "no" =>
                     /\ c.halt = "no" /\ Sound(r, s, sp) /\ Grows(c.as, r.as, V, Entries(V))
                     /\ r.as.last_used_page = l + Pages(bytes)
<1> DEFINE r == Linear_alloc(c, bytes)
           l == c.as.last_used_page
           n == Pages(bytes)
           Run(g) == g = [j \in 0..n |-> IF j = 0 THEN c ELSE AllocPage(g[j - 1], l + j)]
           turn == CHOOSE g : Run(g)
           V(j) == l + 1..l + j
           Good(j, z) == /\ z.halt \in {"no", "finished"}
                         /\ z.halt = "no" => /\ Sound(z, s, sp)
                                             /\ Grows(c.as, z.as, V(j), Entries(V(j)))
                                             /\ z.as.last_used_page = l + j
           G == [j \in 0..n |-> {z \in Cursors : Good(j, z)}]
           F == [j \in 1..n |-> [z \in Cursors |-> AllocPage(z, l + j)]]
<1>1. n \in Nat /\ l \in Int /\ c.as \in Spaces
  BY PagesNat, CursorIs, SpaceIs
<1>2. CASE c.halt # "no"
  <2>1. r = c
    BY <1>2, Zenon DEF Linear_alloc
  <2> HIDE DEF r
  <2>2. QED
    BY <1>2, <2>1 DEF r
<1>3. CASE c.halt = "no" /\ n > c.mem.free_pages
  <2>1. r = [c EXCEPT !.halt = "finished"]
    BY <1>3, Zenon DEF Linear_alloc, n
  <2> HIDE DEF r
  <2>2. r \in Cursors /\ r.halt = "finished"
    BY <2>1, CursorStops DEF Halts
  <2>3. QED
    BY <2>2 DEF r
<1>4. CASE c.halt = "no" /\ ~(n > c.mem.free_pages)
  <2>1. r = turn[n]
    BY <1>4, Zenon DEF Linear_alloc, turn, Run, n, l
  <2> HIDE DEF turn, r, n, l
  <2>2. c \in G[0]
    <3>1. V(0) = {} /\ Entries(V(0)) = {} /\ l + 0 = l
      BY <1>1 DEF Entries
    <3>2. Grows(c.as, c.as, {}, {})
      BY DEF Grows, SameRest
    <3>3. Good(0, c)
      <4> HIDE DEF V
      <4>1. QED
        BY <1>4, <3>1, <3>2 DEF l
    <3>4. QED
      BY <1>1, <3>3
  <2>3. ASSUME NEW j \in 1..n, NEW z \in G[j - 1] PROVE AllocPage(z, l + j) \in G[j]
    <3>1. z \in Cursors /\ Good(j - 1, z) /\ j - 1 \in 0..n /\ j \in 0..n
      BY <1>1
    <3>2. l + j \in VPage /\ l + j \notin V(j - 1) /\ l + j \notin MappedOf(c.as)
      <4>1. UserBase <= l /\ l + n <= MaxVPage /\ \A v \in MappedOf(c.as) : v <= l
        BY <1>4 DEF n, l
      <4>2. l + j \in Int /\ l < l + j /\ l + j <= MaxVPage /\ UserBase <= l + j
        BY <1>1, <4>1, Numbers
      <4>3. l + j \in VPage
        BY <4>2, Numbers DEF VPage
      <4>4. l + j \notin V(j - 1)
        BY <1>1
      <4>5. l + j \notin MappedOf(c.as)
        <5>1. \A v \in MappedOf(c.as) : v \in Int /\ v <= l
          BY <4>1, EntryOf DEF MappedOf
        <5>2. QED
          BY <1>1, <4>2, <5>1
      <4>6. QED
        BY <4>3, <4>4, <4>5
    <3>3. /\ V(j - 1) \cup {l + j} = V(j)
          /\ Entries(V(j - 1)) \cup {Entry(l + j)} = Entries(V(j))
      <4>1. V(j - 1) \cup {l + j} = V(j)
        BY <1>1
      <4> HIDE DEF V
      <4>2. QED
        BY <4>1 DEF Entries
    <3> HIDE DEF V
    <3>4. z.halt = "no" => Sound(z, s, sp) /\ l + j \notin MappedOf(z.as)
      BY <3>1, <3>2 DEF Grows
    <3> DEFINE u == AllocPage(z, l + j)
    <3>5. /\ u \in Cursors /\ u.halt \in {z.halt, "finished"}
          /\ u.halt = "no" => /\ z.halt = "no" /\ Sound(u, s, sp)
                              /\ Grows(z.as, u.as, {l + j}, {Entry(l + j)})
                              /\ u.as.last_used_page = l + j
      BY <3>1, <3>2, <3>4, AllocPageIs
    <3> HIDE DEF u
    <3>6. u.halt = "no" => Grows(c.as, u.as, V(j), Entries(V(j)))
      <4>1. SUFFICES ASSUME u.halt = "no" PROVE Grows(c.as, u.as, V(j), Entries(V(j)))
        OBVIOUS
      <4>2. /\ Grows(c.as, z.as, V(j - 1), Entries(V(j - 1)))
            /\ Grows(z.as, u.as, {l + j}, {Entry(l + j)})
        BY <3>1, <3>5, <4>1
      <4>3. Grows(c.as, u.as, V(j - 1) \cup {l + j}, Entries(V(j - 1)) \cup {Entry(l + j)})
        BY <4>2, GrowsTwice
      <4>4. QED
        BY <3>3, <4>3
    <3>7. Good(j, u)
      BY <3>1, <3>5, <3>6
    <3> HIDE DEF Good
    <3>8. QED
      BY <3>1, <3>5, <3>7 DEF u
  <2>4. \A j \in 1..n : \A z \in G[j - 1] : z \in Cursors /\ F[j][z] = AllocPage(z, l + j)
    BY <1>1
  <2> HIDE DEF G, F
  <2>5. Leads(n, F, G)
    BY <2>3, <2>4 DEF Leads
  <2>6. PICK g : Turns(g, n, c, F, G)
    BY <1>1, <2>2, <2>5, LoopRun
  <2>7. Run(g)
    <3>1. ASSUME NEW j \in 0..n, j # 0 PROVE g[j] = AllocPage(g[j - 1], l + j)
      <4>1. j \in 1..n /\ j - 1 \in 0..n
        BY <1>1, <3>1
      <4>2. QED
        BY <2>4, <2>6, <4>1 DEF Turns
    <3>2. \A j \in 0..n : g[j] = IF j = 0 THEN c ELSE AllocPage(g[j - 1], l + j)
      BY <2>6, <3>1 DEF Turns
    <3>3. QED
      BY <2>6, <3>2 DEF Turns
  <2>8. Run(turn)
    <3> HIDE DEF Run
    <3>1. QED
      BY <2>7, Zenon DEF turn
  <2>9. turn[0] = c /\ \A j \in 1..n : turn[j] = AllocPage(turn[j - 1], l + j)
    <3>1. \A j \in 0..n : turn[j] = IF j = 0 THEN c ELSE AllocPage(turn[j - 1], l + j)
      BY <2>8
    <3>2. 0 \in 0..n /\ \A j \in 1..n : j \in 0..n /\ j # 0
      BY <1>1
    <3>3. QED
      BY <3>1, <3>2, Zenon
  <2>10. \A j \in 1..n : turn[j - 1] \in G[j - 1] => turn[j] \in G[j]
    BY <2>3, <2>9
  <2>11. \A j \in 0..n : turn[j] \in G[j]
    BY <1>1, <2>2, <2>9, <2>10, LoopStays
  <2>12. r \in Cursors /\ Good(n, r)
    BY <1>1, <2>1, <2>11 DEF G
  <2>13. QED
    BY <1>4, <2>12 DEF r, n, l
<1>5. QED
  BY <1>2, <1>3, <1>4

\* UnmapPages frees n pages from v on if all are mapped, and stops if not.
LEMMA UnmapPagesIs ==
    ASSUME NEW sp \in Spacings, NEW s \in Slot, NEW c \in Cursors, NEW v \in Int, NEW n \in Nat,
           c.halt = "no" => Sound(c, s, sp)
    PROVE  LET r == UnmapPages(c, v, n)
               V == v..v + n - 1
           IN  /\ r \in Cursors
               /\ r.halt = "no" =>
                     /\ c.halt = "no" /\ V \subseteq MappedOf(c.as) /\ Sound(r, s, sp)
                     /\ Shrinks(c.as, r.as, V)
               /\ c.halt # "no" \/ V \subseteq MappedOf(c.as) => r.halt = c.halt
<1> DEFINE r == UnmapPages(c, v, n)
           Run(g) == g = [j \in 0..n |-> IF j = 0 THEN c ELSE UnmapPage(g[j - 1], v + j - 1)]
           turn == CHOOSE g : Run(g)
           V(j) == v..v + j - 1
           Good(j, z) ==
              /\ z.halt = "no" => /\ c.halt = "no" /\ V(j) \subseteq MappedOf(c.as)
                                  /\ Sound(z, s, sp) /\ Shrinks(c.as, z.as, V(j))
              /\ c.halt # "no" \/ V(j) \subseteq MappedOf(c.as) => z.halt = c.halt
           G == [j \in 0..n |-> {z \in Cursors : Good(j, z)}]
           F == [j \in 1..n |-> [z \in Cursors |-> UnmapPage(z, v + j - 1)]]
<1>1. r = turn[n]
  BY Zenon DEF UnmapPages, turn, Run
<1> HIDE DEF turn, r
<1>2. c \in G[0]
  <2>1. V(0) = {}
    OBVIOUS
  <2>2. Shrinks(c.as, c.as, {})
    BY DEF Shrinks, SameRest
  <2>3. Good(0, c)
    <3> HIDE DEF V
    <3>1. QED
      BY <2>1, <2>2
  <2>4. QED
    BY <2>3
<1>3. ASSUME NEW j \in 1..n, NEW z \in G[j - 1] PROVE UnmapPage(z, v + j - 1) \in G[j]
  <2> DEFINE w == v + j - 1
             u == UnmapPage(z, w)
  <2>1. z \in Cursors /\ Good(j - 1, z) /\ j - 1 \in 0..n /\ j \in 0..n /\ w \in Int
    OBVIOUS
  <2>2. V(j - 1) \cup {w} = V(j) /\ w \notin V(j - 1)
    OBVIOUS
  <2> HIDE DEF V, w
  <2>3. z.halt = "no" => Sound(z, s, sp)
    BY <2>1
  <2>4. /\ u \in Cursors
        /\ u.halt = "no" => /\ z.halt = "no" /\ w \in MappedOf(z.as) /\ Sound(u, s, sp)
                            /\ Shrinks(z.as, u.as, {w})
        /\ z.halt # "no" \/ w \in MappedOf(z.as) => u.halt = z.halt
    BY <2>1, <2>3, UnmapPageIs
  <2> HIDE DEF u
  <2>5. ASSUME u.halt = "no"
        PROVE  /\ c.halt = "no" /\ V(j) \subseteq MappedOf(c.as) /\ Sound(u, s, sp)
               /\ Shrinks(c.as, u.as, V(j))
    <3>1. /\ c.halt = "no" /\ V(j - 1) \subseteq MappedOf(c.as) /\ Shrinks(c.as, z.as, V(j - 1))
          /\ w \in MappedOf(z.as) /\ Shrinks(z.as, u.as, {w}) /\ Sound(u, s, sp)
      BY <2>1, <2>4, <2>5
    <3>2. V(j) \subseteq MappedOf(c.as)
      BY <2>2, <3>1 DEF Shrinks
    <3>3. Shrinks(c.as, u.as, V(j))
      <4>1. MappedOf(u.as) = MappedOf(c.as) \ V(j)
        BY <2>2, <3>1 DEF Shrinks
      <4>2. QED
        BY <3>1, <4>1 DEF Shrinks, SameRest
    <3>4. QED
      BY <3>1, <3>2, <3>3
  <2>6. ASSUME c.halt # "no" \/ V(j) \subseteq MappedOf(c.as) PROVE u.halt = c.halt
    <3>1. z.halt = c.halt
      BY <2>1, <2>2, <2>6
    <3>2. CASE z.halt # "no"
      BY <2>4, <3>1, <3>2
    <3>3. CASE z.halt = "no"
      <4>1. w \in MappedOf(c.as) /\ Shrinks(c.as, z.as, V(j - 1))
        BY <2>1, <2>2, <2>6, <3>1, <3>3
      <4>2. w \in MappedOf(z.as)
        BY <2>2, <4>1 DEF Shrinks
      <4>3. QED
        BY <2>4, <3>1, <4>2
    <3>4. QED
      BY <3>2, <3>3
  <2>7. Good(j, u)
    BY <2>5, <2>6
  <2> HIDE DEF Good
  <2>8. QED
    BY <2>1, <2>4, <2>7 DEF u, w
<1>4. \A j \in 1..n : \A z \in G[j - 1] : z \in Cursors /\ F[j][z] = UnmapPage(z, v + j - 1)
  OBVIOUS
<1> HIDE DEF G, F
<1>5. Leads(n, F, G)
  BY <1>3, <1>4 DEF Leads
<1>6. PICK g : Turns(g, n, c, F, G)
  BY <1>2, <1>5, LoopRun
<1>7. Run(g)
  <2>1. ASSUME NEW j \in 0..n, j # 0 PROVE g[j] = UnmapPage(g[j - 1], v + j - 1)
    <3>1. j \in 1..n /\ j - 1 \in 0..n
      BY <2>1
    <3>2. QED
      BY <1>4, <1>6, <3>1 DEF Turns
  <2>2. \A j \in 0..n : g[j] = IF j = 0 THEN c ELSE UnmapPage(g[j - 1], v + j - 1)
    BY <1>6, <2>1 DEF Turns
  <2>3. QED
    BY <1>6, <2>2 DEF Turns
<1>8. Run(turn)
  <2> HIDE DEF Run
  <2>1. QED
    BY <1>7, Zenon DEF turn
<1>9. turn[0] = c /\ \A j \in 1..n : turn[j] = UnmapPage(turn[j - 1], v + j - 1)
  <2>1. \A j \in 0..n : turn[j] = IF j = 0 THEN c ELSE UnmapPage(turn[j - 1], v + j - 1)
    BY <1>8
  <2>2. 0 \in 0..n /\ \A j \in 1..n : j \in 0..n /\ j # 0
    OBVIOUS
  <2>3. QED
    BY <2>1, <2>2, Zenon
<1>10. \A j \in 1..n : turn[j - 1] \in G[j - 1] => turn[j] \in G[j]
  BY <1>3, <1>9
<1>11. \A j \in 0..n : turn[j] \in G[j]
  BY <1>2, <1>9, <1>10, LoopStays
<1>12. r \in Cursors /\ Good(n, r)
  BY <1>1, <1>11 DEF G
<1>13. QED
  BY <1>12 DEF r

\* A table and a page for v.
LEMMA LoadPageIs ==
    ASSUME NEW sp \in Spacings, NEW s \in Slot, NEW c \in Cursors, NEW v \in VPage,
           c.halt = "no" => Sound(c, s, sp) /\ v \notin MappedOf(c.as)
    PROVE  LET r == LoadPage(c, v)
           IN  /\ r \in Cursors /\ r.halt \in {c.halt, "finished", "null_table"}
               /\ r.halt = "no" =>
                     /\ c.halt = "no" /\ Sound(r, s, sp) /\ Grows(c.as, r.as, {v}, {Entry(v)})
                     /\ r.as.last_used_page = c.as.last_used_page
<1> DEFINE e == getpagetable(c, v, "null_table")
           r == MapPage(e, v)
<1>1. "null_table" \in Halts \ {"no"}
  BY DEF Halts
<1>2. /\ e \in Cursors /\ e.halt \in {c.halt, "null_table"}
      /\ e.halt = "no" => /\ c.halt = "no" /\ Sound(e, s, sp)
                          /\ Grows(c.as, e.as, {}, {Entry(v)})
                          /\ e.as.last_used_page = c.as.last_used_page
  <2>1. LET u == getpagetable(c, v, "null_table")
        IN  /\ u \in Cursors /\ u.halt \in {c.halt, "null_table"}
            /\ u.halt = "no" => /\ c.halt = "no" /\ Sound(u, s, sp)
                                /\ Grows(c.as, u.as, {}, {Entry(v)})
                                /\ u.as.last_used_page = c.as.last_used_page
    BY <1>1, GetTable
  <2>2. QED
    BY <2>1
<1> HIDE DEF e
<1>3. e.halt = "no" => Sound(e, s, sp) /\ v \notin MappedOf(e.as)
  BY <1>2 DEF Grows
<1>4. /\ r \in Cursors /\ r.halt \in {e.halt, "finished"}
      /\ r.halt = "no" => /\ e.halt = "no" /\ Sound(r, s, sp) /\ Grows(e.as, r.as, {v}, {})
                          /\ r.as.last_used_page = e.as.last_used_page
  BY <1>2, <1>3, MapPageIs
<1> HIDE DEF r
<1>5. ASSUME r.halt = "no" PROVE Grows(c.as, r.as, {v}, {Entry(v)})
  <2>1. Grows(c.as, r.as, {} \cup {v}, {Entry(v)} \cup {})
    BY <1>2, <1>4, <1>5, GrowsTwice
  <2>2. {} \cup {v} = {v} /\ {Entry(v)} \cup {} = {Entry(v)}
    OBVIOUS
  <2>3. QED
    BY <2>1, <2>2
<1>6. r = LoadPage(c, v)
  BY Zenon DEF LoadPage, r, e
<1>7. QED
  BY <1>2, <1>4, <1>5, <1>6

\* Program maps the pages of the program, from UserBase on.
LEMMA ProgramIs ==
    ASSUME NEW sp \in Spacings, NEW s \in Slot, NEW c \in Cursors,
           c.halt = "no" => Sound(c, s, sp) /\ MappedOf(c.as) = {}
    PROVE  LET r == Program(c)
               V == UserBase..UserBase + IMAGE_PAGES - 1
           IN  /\ r \in Cursors /\ r.halt \in {c.halt, "finished", "null_table"}
               /\ r.halt = "no" =>
                     /\ c.halt = "no" /\ Sound(r, s, sp) /\ Grows(c.as, r.as, V, Entries(V))
                     /\ r.as.last_used_page = c.as.last_used_page
<1> DEFINE r == Program(c)
           n == IMAGE_PAGES
           l == UserBase
           Run(g) == g = [j \in 0..n |-> IF j = 0 THEN c ELSE LoadPage(g[j - 1], l + j - 1)]
           turn == CHOOSE g : Run(g)
           V(j) == l..l + j - 1
           Good(j, z) ==
              /\ z.halt \in {c.halt, "finished", "null_table"}
              /\ z.halt = "no" => /\ c.halt = "no" /\ Sound(z, s, sp)
                                  /\ Grows(c.as, z.as, V(j), Entries(V(j)))
                                  /\ z.as.last_used_page = c.as.last_used_page
           G == [j \in 0..n |-> {z \in Cursors : Good(j, z)}]
           F == [j \in 1..n |-> [z \in Cursors |-> LoadPage(z, l + j - 1)]]
<1>1. r = turn[n]
  BY Zenon DEF Program, turn, Run
<1>2. n \in Nat /\ l \in Nat /\ l + n <= MaxVPage /\ MaxVPage \in Nat
  BY Numbers
<1> HIDE DEF turn, r, n, l
<1>3. c \in G[0]
  <2>1. V(0) = {} /\ Entries(V(0)) = {}
    BY <1>2 DEF Entries
  <2>2. Grows(c.as, c.as, {}, {})
    BY DEF Grows, SameRest
  <2>3. Good(0, c)
    <3> HIDE DEF V
    <3>1. QED
      BY <2>1, <2>2
  <2>4. QED
    BY <1>2, <2>3
<1>4. ASSUME NEW j \in 1..n, NEW z \in G[j - 1] PROVE LoadPage(z, l + j - 1) \in G[j]
  <2> DEFINE w == l + j - 1
             u == LoadPage(z, w)
  <2>1. z \in Cursors /\ Good(j - 1, z) /\ j - 1 \in 0..n /\ j \in 0..n /\ w \in Int
    BY <1>2
  <2>2. w \in VPage
    <3>1. UserBase <= w /\ w <= MaxVPage
      BY <1>2 DEF l
    <3>2. QED
      BY <1>2, <2>1, <3>1 DEF VPage, l
  <2>3. V(j - 1) \cup {w} = V(j) /\ w \notin V(j - 1)
    <3>1. \A v : v \in V(j) <=> v \in V(j - 1) \/ v = w
      BY <1>2
    <3>2. w \notin V(j - 1)
      BY <1>2
    <3> HIDE DEF V, w
    <3>3. QED
      BY <3>1, <3>2
  <2> HIDE DEF V, w
  <2>4. Entries(V(j - 1)) \cup {Entry(w)} = Entries(V(j))
    BY <2>3 DEF Entries
  <2>5. z.halt = "no" => Sound(z, s, sp) /\ w \notin MappedOf(z.as)
    BY <2>1, <2>3 DEF Grows
  <2>6. /\ u \in Cursors /\ u.halt \in {z.halt, "finished", "null_table"}
        /\ u.halt = "no" => /\ z.halt = "no" /\ Sound(u, s, sp)
                            /\ Grows(z.as, u.as, {w}, {Entry(w)})
                            /\ u.as.last_used_page = z.as.last_used_page
    BY <2>1, <2>2, <2>5, LoadPageIs
  <2> HIDE DEF u
  <2>7. ASSUME u.halt = "no" PROVE Grows(c.as, u.as, V(j), Entries(V(j)))
    <3>1. /\ Grows(c.as, z.as, V(j - 1), Entries(V(j - 1)))
          /\ Grows(z.as, u.as, {w}, {Entry(w)})
      BY <2>1, <2>6, <2>7
    <3>2. Grows(c.as, u.as, V(j - 1) \cup {w}, Entries(V(j - 1)) \cup {Entry(w)})
      BY <3>1, GrowsTwice
    <3>3. QED
      BY <2>3, <2>4, <3>2
  <2>8. Good(j, u)
    BY <2>1, <2>6, <2>7
  <2> HIDE DEF Good
  <2>9. QED
    BY <2>1, <2>6, <2>8 DEF u, w
<1>5. \A j \in 1..n : \A z \in G[j - 1] : z \in Cursors /\ F[j][z] = LoadPage(z, l + j - 1)
  BY <1>2
<1> HIDE DEF G, F
<1>6. Leads(n, F, G)
  BY <1>4, <1>5 DEF Leads
<1>7. PICK g : Turns(g, n, c, F, G)
  BY <1>2, <1>3, <1>6, LoopRun
<1>8. Run(g)
  <2>1. ASSUME NEW j \in 0..n, j # 0 PROVE g[j] = LoadPage(g[j - 1], l + j - 1)
    <3>1. j \in 1..n /\ j - 1 \in 0..n
      BY <1>2, <2>1
    <3>2. QED
      BY <1>5, <1>7, <3>1 DEF Turns
  <2>2. \A j \in 0..n : g[j] = IF j = 0 THEN c ELSE LoadPage(g[j - 1], l + j - 1)
    BY <1>7, <2>1 DEF Turns
  <2>3. QED
    BY <1>7, <2>2 DEF Turns
<1>9. Run(turn)
  <2> HIDE DEF Run
  <2>1. QED
    BY <1>8, Zenon DEF turn
<1>10. turn[0] = c /\ \A j \in 1..n : turn[j] = LoadPage(turn[j - 1], l + j - 1)
  <2>1. \A j \in 0..n : turn[j] = IF j = 0 THEN c ELSE LoadPage(turn[j - 1], l + j - 1)
    BY <1>9
  <2>2. 0 \in 0..n /\ \A j \in 1..n : j \in 0..n /\ j # 0
    BY <1>2
  <2>3. QED
    BY <2>1, <2>2, Zenon
<1>11. \A j \in 1..n : turn[j - 1] \in G[j - 1] => turn[j] \in G[j]
  BY <1>4, <1>10
<1>12. \A j \in 0..n : turn[j] \in G[j]
  BY <1>2, <1>3, <1>10, <1>11, LoopStays
<1>13. r \in Cursors /\ Good(n, r)
  BY <1>1, <1>2, <1>12 DEF G
<1>14. QED
  BY <1>13 DEF r, n, l

(* Every page that is mapped has a table; the pages mapped by entry d.             *)
Covered(a) == \A v \in MappedOf(a) : Entry(v) \in TablesOf(a)
MappedIn(a, d) == {v \in MappedOf(a) : Entry(v) = d}

\* A page for v if the father has one.
LEMMA CopyPageIs ==
    ASSUME NEW sp \in Spacings, NEW s \in Slot, NEW c \in Cursors, NEW f, NEW v \in Int,
           UserBase <= v, c.halt = "no" => Sound(c, s, sp) /\ v \notin MappedOf(c.as)
    PROVE  LET r == CopyPage(c, f, v)
           IN  /\ r \in Cursors /\ r.halt \in {c.halt, "finished"}
               /\ r.halt = "no" =>
                     /\ c.halt = "no" /\ Sound(r, s, sp)
                     /\ Grows(c.as, r.as, {v} \cap MappedOf(f), {})
                     /\ r.as.last_used_page = c.as.last_used_page
<1> DEFINE r == CopyPage(c, f, v)
<1>1. v <= MaxVPage /\ f.map[v] # NULL <=> v \in MappedOf(f)
  BY Numbers DEF MappedOf, VPage
<1>2. CASE v \in MappedOf(f)
  <2>1. r = MapPage(c, v) /\ v \in VPage /\ {v} \cap MappedOf(f) = {v}
    BY <1>1, <1>2 DEF CopyPage, MappedOf
  <2> HIDE DEF r
  <2>2. LET u == MapPage(c, v)
        IN  /\ u \in Cursors /\ u.halt \in {c.halt, "finished"}
            /\ u.halt = "no" => /\ c.halt = "no" /\ Sound(u, s, sp)
                                /\ Grows(c.as, u.as, {v}, {})
                                /\ u.as.last_used_page = c.as.last_used_page
    BY <2>1, MapPageIs
  <2>3. QED
    BY <2>1, <2>2 DEF r
<1>3. CASE v \notin MappedOf(f)
  <2>1. r = c /\ {v} \cap MappedOf(f) = {}
    BY <1>1, <1>3 DEF CopyPage
  <2>2. Grows(c.as, c.as, {}, {})
    BY DEF Grows, SameRest
  <2> HIDE DEF r
  <2>3. QED
    BY <2>1, <2>2 DEF r
<1>4. QED
  BY <1>2, <1>3

\* The table of entry d and the pages of it, if the father has the table.
LEMMA CopyTableIs ==
    ASSUME NEW sp \in Spacings, NEW s \in Slot, NEW c \in Cursors, NEW f, Covered(f),
           NEW d \in Pde,
           c.halt = "no" => Sound(c, s, sp) /\ MappedIn(c.as, d) = {}
    PROVE  LET r == CopyTable(c, f, d)
           IN  /\ r \in Cursors /\ r.halt \in {c.halt, "finished", "null_table"}
               /\ r.halt = "no" =>
                     /\ c.halt = "no" /\ Sound(r, s, sp)
                     /\ Grows(c.as, r.as, MappedIn(f, d), {d} \cap TablesOf(f))
                     /\ r.as.last_used_page = c.as.last_used_page
<1> DEFINE r == CopyTable(c, f, d)
           n == PTES
           l == d * PTES
           e == getpagetable(c, l, "null_table")
           Run(g) == g = [j \in 0..n |-> IF j = 0 THEN e ELSE CopyPage(g[j - 1], f, l + j - 1)]
           turn == CHOOSE g : Run(g)
           V(j) == (l..l + j - 1) \cap MappedOf(f)
           Good(j, z) ==
              /\ z.halt \in {c.halt, "finished", "null_table"}
              /\ z.halt = "no" => /\ c.halt = "no" /\ Sound(z, s, sp)
                                  /\ Grows(c.as, z.as, V(j), {d})
                                  /\ z.as.last_used_page = c.as.last_used_page
           G == [j \in 0..n |-> {z \in Cursors : Good(j, z)}]
           F == [j \in 1..n |-> [z \in Cursors |-> CopyPage(z, f, l + j - 1)]]
<1>1. f.tables[d] # NULL => r = turn[n]
  BY Zenon DEF CopyTable, turn, Run
<1>2. f.tables[d] = NULL => r = c
  BY Zenon DEF CopyTable
<1>3. n \in Nat \ {0} /\ l \in Nat /\ l \in VPage /\ UserBase <= l /\ UserBase \in Nat
  <2>1. n \in Nat \ {0} /\ UserBase \in Nat /\ MaxVPage \in Nat
    BY Numbers
  <2>2. 0 \in 0..PTES - 1
    BY <2>1
  <2>3. l \in Nat /\ l \in VPage
    BY <2>2, EntryOf
  <2>4. QED
    BY <2>1, <2>3 DEF VPage
<1>4. \A j \in 0..n - 1 : Entry(l + j) = d
  BY EntryOf
<1>5. \A v \in VPage : Entry(v) = d <=> v \in l..l + n - 1
  <2>1. ASSUME NEW v \in VPage, Entry(v) = d PROVE v \in l..l + n - 1
    <3>1. PICK j \in 0..PTES - 1 : v = Entry(v) * PTES + j
      BY EntryOf
    <3>2. v = l + j
      BY <2>1, <3>1
    <3> HIDE DEF l
    <3>3. QED
      BY <1>3, <3>1, <3>2
  <2>2. ASSUME NEW v \in VPage, v \in l..l + n - 1 PROVE Entry(v) = d
    <3> HIDE DEF l, n
    <3>1. v - l \in 0..n - 1 /\ l + (v - l) = v
      BY <1>3, <2>2
    <3>2. QED
      BY <1>4, <3>1
  <2>3. QED
    BY <2>1, <2>2
<1>6. Entry(l) = d
  <2> HIDE DEF l, n
  <2>1. 0 \in 0..n - 1 /\ l + 0 = l
    BY <1>3
  <2>2. QED
    BY <1>4, <2>1
<1> HIDE DEF turn, r, n, l
<1>7. CASE f.tables[d] = NULL
  <2>1. d \notin TablesOf(f) /\ MappedIn(f, d) = {}
    BY <1>7 DEF TablesOf, MappedIn, Covered
  <2>2. {d} \cap TablesOf(f) = {}
    BY <2>1
  <2>3. Grows(c.as, c.as, {}, {})
    BY DEF Grows, SameRest
  <2>4. QED
    BY <1>2, <1>7, <2>1, <2>2, <2>3 DEF r
<1>8. CASE f.tables[d] # NULL
  <2>1. e \in G[0]
    <3>1. "null_table" \in Halts \ {"no"}
      BY DEF Halts
    <3>2. /\ e \in Cursors /\ e.halt \in {c.halt, "null_table"}
          /\ e.halt = "no" => /\ c.halt = "no" /\ Sound(e, s, sp)
                              /\ Grows(c.as, e.as, {}, {d})
                              /\ e.as.last_used_page = c.as.last_used_page
      <4>1. LET u == getpagetable(c, l, "null_table")
            IN  /\ u \in Cursors /\ u.halt \in {c.halt, "null_table"}
                /\ u.halt = "no" => /\ c.halt = "no" /\ Sound(u, s, sp)
                                    /\ Grows(c.as, u.as, {}, {Entry(l)})
                                    /\ u.as.last_used_page = c.as.last_used_page
        BY <1>3, <3>1, GetTable
      <4>2. QED
        BY <1>6, <4>1
    <3> HIDE DEF e
    <3>3. V(0) = {}
      BY <1>3
    <3>4. Good(0, e)
      <4> HIDE DEF V
      <4>1. QED
        BY <3>2, <3>3
    <3>5. QED
      BY <1>3, <3>2, <3>4
  <2> HIDE DEF e
  <2>2. ASSUME NEW j \in 1..n, NEW z \in G[j - 1] PROVE CopyPage(z, f, l + j - 1) \in G[j]
    <3> DEFINE w == l + j - 1
               u == CopyPage(z, f, w)
    <3>1. z \in Cursors /\ Good(j - 1, z) /\ j - 1 \in 0..n /\ j \in 0..n /\ w \in Int
      BY <1>3
    <3>2. UserBase <= w
      BY <1>3
    <3>3. V(j - 1) \cup ({w} \cap MappedOf(f)) = V(j) /\ w \notin V(j - 1)
      BY <1>3
    <3>4. Entry(w) = d
      <4>1. j - 1 \in 0..n - 1 /\ l + (j - 1) = w
        BY <1>3
      <4>2. QED
        BY <1>4, <4>1
    <3> HIDE DEF V, w
    <3>5. z.halt = "no" => Sound(z, s, sp) /\ w \notin MappedOf(z.as)
      BY <1>8, <3>1, <3>3, <3>4 DEF Grows, MappedIn
    <3>6. /\ u \in Cursors /\ u.halt \in {z.halt, "finished"}
          /\ u.halt = "no" => /\ z.halt = "no" /\ Sound(u, s, sp)
                              /\ Grows(z.as, u.as, {w} \cap MappedOf(f), {})
                              /\ u.as.last_used_page = z.as.last_used_page
      BY <3>1, <3>2, <3>5, CopyPageIs
    <3> HIDE DEF u
    <3>7. ASSUME u.halt = "no" PROVE Grows(c.as, u.as, V(j), {d})
      <4>1. /\ Grows(c.as, z.as, V(j - 1), {d})
            /\ Grows(z.as, u.as, {w} \cap MappedOf(f), {})
        BY <3>1, <3>6, <3>7
      <4>2. Grows(c.as, u.as, V(j - 1) \cup ({w} \cap MappedOf(f)), {d} \cup {})
        BY <4>1, GrowsTwice
      <4>3. {d} \cup {} = {d}
        OBVIOUS
      <4>4. QED
        BY <3>3, <4>2, <4>3
    <3>8. Good(j, u)
      BY <3>1, <3>6, <3>7
    <3> HIDE DEF Good
    <3>9. QED
      BY <3>1, <3>6, <3>8 DEF u, w
  <2>3. \A j \in 1..n : \A z \in G[j - 1] : z \in Cursors /\ F[j][z] = CopyPage(z, f, l + j - 1)
    BY <1>3
  <2> HIDE DEF G, F
  <2>4. Leads(n, F, G)
    BY <2>2, <2>3 DEF Leads
  <2>5. PICK g : Turns(g, n, e, F, G)
    BY <1>3, <2>1, <2>4, LoopRun
  <2>6. Run(g)
    <3>1. ASSUME NEW j \in 0..n, j # 0 PROVE g[j] = CopyPage(g[j - 1], f, l + j - 1)
      <4>1. j \in 1..n /\ j - 1 \in 0..n
        BY <1>3, <3>1
      <4>2. QED
        BY <2>3, <2>5, <4>1 DEF Turns
    <3>2. \A j \in 0..n : g[j] = IF j = 0 THEN e ELSE CopyPage(g[j - 1], f, l + j - 1)
      BY <2>5, <3>1 DEF Turns
    <3>3. QED
      BY <2>5, <3>2 DEF Turns
  <2>7. Run(turn)
    <3> HIDE DEF Run
    <3>1. QED
      BY <2>6, Zenon DEF turn
  <2>8. turn[0] = e /\ \A j \in 1..n : turn[j] = CopyPage(turn[j - 1], f, l + j - 1)
    <3>1. \A j \in 0..n : turn[j] = IF j = 0 THEN e ELSE CopyPage(turn[j - 1], f, l + j - 1)
      BY <2>7
    <3>2. 0 \in 0..n /\ \A j \in 1..n : j \in 0..n /\ j # 0
      BY <1>3
    <3>3. QED
      BY <3>1, <3>2, Zenon
  <2>9. \A j \in 1..n : turn[j - 1] \in G[j - 1] => turn[j] \in G[j]
    BY <2>2, <2>8
  <2>10. \A j \in 0..n : turn[j] \in G[j]
    BY <1>3, <2>1, <2>8, <2>9, LoopStays
  <2>11. r \in Cursors /\ Good(n, r)
    <3>1. turn[n] \in G[n] /\ n \in 0..n
      BY <1>3, <2>10
    <3> HIDE DEF Good
    <3>2. turn[n] \in Cursors /\ Good(n, turn[n])
      BY <3>1 DEF G
    <3>3. QED
      BY <1>1, <1>8, <3>2
  <2>12. V(n) = MappedIn(f, d) /\ {d} \cap TablesOf(f) = {d}
    <3>1. V(n) = MappedIn(f, d)
      BY <1>5 DEF MappedIn, MappedOf
    <3>2. QED
      BY <1>8, <3>1 DEF TablesOf
  <2> HIDE DEF V
  <2>13. QED
    BY <2>11, <2>12 DEF r
<1>9. QED
  BY <1>7, <1>8

\* A copy of every page of the father's, and of every table.
LEMMA CopyTablesIs ==
    ASSUME NEW sp \in Spacings, NEW s \in Slot, NEW c \in Cursors, NEW f, Covered(f),
           c.halt = "no" => Sound(c, s, sp) /\ MappedOf(c.as) = {}
    PROVE  LET r == CopyTables(c, f)
           IN  /\ r \in Cursors /\ r.halt \in {c.halt, "finished", "null_table"}
               /\ r.halt = "no" =>
                     /\ c.halt = "no" /\ Sound(r, s, sp)
                     /\ Grows(c.as, r.as, MappedOf(f), TablesOf(f))
                     /\ r.as.last_used_page = c.as.last_used_page
<1> DEFINE r == CopyTables(c, f)
           n == MaxVPage \div PTES - KDIR + 1
           l == KDIR
           Run(g) == g = [k \in 0..n |-> IF k = 0 THEN c ELSE CopyTable(g[k - 1], f, l + k - 1)]
           turn == CHOOSE g : Run(g)
           V(j) == {v \in MappedOf(f) : Entry(v) < l + j}
           D(j) == {d \in TablesOf(f) : d < l + j}
           Good(j, z) ==
              /\ z.halt \in {c.halt, "finished", "null_table"}
              /\ z.halt = "no" => /\ c.halt = "no" /\ Sound(z, s, sp)
                                  /\ Grows(c.as, z.as, V(j), D(j))
                                  /\ z.as.last_used_page = c.as.last_used_page
           G == [j \in 0..n |-> {z \in Cursors : Good(j, z)}]
           F == [j \in 1..n |-> [z \in Cursors |-> CopyTable(z, f, l + j - 1)]]
<1>1. r = turn[n]
  BY Zenon DEF CopyTables, turn, Run
<1>2. n \in Nat /\ l \in Nat /\ Pde = l..l + n - 1
  <2>1. /\ PTES \in Nat \ {0} /\ MaxVPage \in Nat /\ l \in Nat
        /\ UserBase \in Nat /\ UserBase <= MaxVPage
    BY Numbers
  <2>2. MaxVPage \div PTES \in Nat
    BY <2>1, DivIs
  <2>3. UserBase \in VPage
    BY <2>1 DEF VPage
  <2>4. Entry(UserBase) \in Pde
    BY <2>3, EntryOf
  <2> DEFINE q == MaxVPage \div PTES
  <2>5. Pde = l..q /\ n = q - l + 1
    BY DEF Pde
  <2> HIDE DEF l, n, q
  <2>6. q \in Nat
    BY <2>2 DEF q
  <2>7. l <= q
    BY <2>1, <2>4, <2>5, <2>6
  <2>8. QED
    BY <2>1, <2>5, <2>6, <2>7
<1> HIDE DEF turn, r, n, l
<1>3. /\ \A v \in MappedOf(f) : Entry(v) \in Int /\ l <= Entry(v) /\ Entry(v) < l + n
      /\ \A d \in TablesOf(f) : d \in Int /\ l <= d /\ d < l + n
  <2>1. \A d \in Pde : d \in Int /\ l <= d /\ d < l + n
    BY <1>2
  <2>2. QED
    BY <2>1, EntryOf DEF MappedOf, TablesOf
<1>4. c \in G[0]
  <2>1. V(0) = {} /\ D(0) = {}
    BY <1>2, <1>3
  <2>2. Grows(c.as, c.as, {}, {})
    BY DEF Grows, SameRest
  <2>3. Good(0, c)
    <3> HIDE DEF V, D
    <3>1. QED
      BY <2>1, <2>2
  <2>4. QED
    BY <1>2, <2>3
<1>5. ASSUME NEW j \in 1..n, NEW z \in G[j - 1] PROVE CopyTable(z, f, l + j - 1) \in G[j]
  <2> DEFINE d == l + j - 1
             u == CopyTable(z, f, d)
  <2>1. z \in Cursors /\ Good(j - 1, z) /\ j - 1 \in 0..n /\ j \in 0..n
    BY <1>2
  <2>2. d \in Pde
    BY <1>2
  <2>3. V(j - 1) \cup MappedIn(f, d) = V(j)
    BY <1>2, <1>3 DEF MappedIn
  <2>4. D(j - 1) \cup ({d} \cap TablesOf(f)) = D(j)
    BY <1>2, <1>3
  <2>5. \A v \in V(j - 1) : Entry(v) # d
    BY <1>2, <1>3
  <2> HIDE DEF V, D, d
  <2>6. z.halt = "no" => Sound(z, s, sp) /\ MappedIn(z.as, d) = {}
    BY <2>1, <2>5 DEF Grows, MappedIn
  <2>7. /\ u \in Cursors /\ u.halt \in {z.halt, "finished", "null_table"}
        /\ u.halt = "no" => /\ z.halt = "no" /\ Sound(u, s, sp)
                            /\ Grows(z.as, u.as, MappedIn(f, d), {d} \cap TablesOf(f))
                            /\ u.as.last_used_page = z.as.last_used_page
    BY <2>1, <2>2, <2>6, CopyTableIs
  <2> HIDE DEF u
  <2>8. ASSUME u.halt = "no" PROVE Grows(c.as, u.as, V(j), D(j))
    <3>1. /\ Grows(c.as, z.as, V(j - 1), D(j - 1))
          /\ Grows(z.as, u.as, MappedIn(f, d), {d} \cap TablesOf(f))
      BY <2>1, <2>7, <2>8
    <3>2. Grows(c.as, u.as, V(j - 1) \cup MappedIn(f, d), D(j - 1) \cup ({d} \cap TablesOf(f)))
      BY <3>1, GrowsTwice
    <3>3. QED
      BY <2>3, <2>4, <3>2
  <2>9. Good(j, u)
    BY <2>1, <2>7, <2>8
  <2> HIDE DEF Good
  <2>10. QED
    BY <2>1, <2>7, <2>9 DEF u, d
<1>6. \A j \in 1..n : \A z \in G[j - 1] : z \in Cursors /\ F[j][z] = CopyTable(z, f, l + j - 1)
  BY <1>2
<1> HIDE DEF G, F
<1>7. Leads(n, F, G)
  BY <1>5, <1>6 DEF Leads
<1>8. PICK g : Turns(g, n, c, F, G)
  BY <1>2, <1>4, <1>7, LoopRun
<1>9. Run(g)
  <2>1. ASSUME NEW j \in 0..n, j # 0 PROVE g[j] = CopyTable(g[j - 1], f, l + j - 1)
    <3>1. j \in 1..n /\ j - 1 \in 0..n
      BY <1>2, <2>1
    <3>2. QED
      BY <1>6, <1>8, <3>1 DEF Turns
  <2>2. \A j \in 0..n : g[j] = IF j = 0 THEN c ELSE CopyTable(g[j - 1], f, l + j - 1)
    BY <1>8, <2>1 DEF Turns
  <2>3. QED
    BY <1>8, <2>2 DEF Turns
<1>10. Run(turn)
  <2> HIDE DEF Run
  <2>1. QED
    BY <1>9, Zenon DEF turn
<1>11. turn[0] = c /\ \A j \in 1..n : turn[j] = CopyTable(turn[j - 1], f, l + j - 1)
  <2>1. \A j \in 0..n : turn[j] = IF j = 0 THEN c ELSE CopyTable(turn[j - 1], f, l + j - 1)
    BY <1>10
  <2>2. 0 \in 0..n /\ \A j \in 1..n : j \in 0..n /\ j # 0
    BY <1>2
  <2>3. QED
    BY <2>1, <2>2, Zenon
<1>12. \A j \in 1..n : turn[j - 1] \in G[j - 1] => turn[j] \in G[j]
  BY <1>5, <1>11
<1>13. \A j \in 0..n : turn[j] \in G[j]
  BY <1>2, <1>4, <1>11, <1>12, LoopStays
<1>14. r \in Cursors /\ Good(n, r)
  <2>1. turn[n] \in G[n] /\ n \in 0..n
    BY <1>2, <1>13
  <2> HIDE DEF Good
  <2>2. turn[n] \in Cursors /\ Good(n, turn[n])
    BY <2>1 DEF G
  <2>3. QED
    BY <1>1, <2>2
<1>15. V(n) = MappedOf(f) /\ D(n) = TablesOf(f)
  BY <1>3
<1> HIDE DEF V, D
<1>16. QED
  BY <1>14, <1>15 DEF r

(* A space with another directory, or another queue of messages, and what it keeps. *)
DirAt(a, p) == [a EXCEPT !.PageDir = p]
QueueAt(a, p) == [a EXCEPT !.msgqueue = p]
SameOther(a, b) ==
    /\ b.active = a.active /\ b.user = a.user /\ b.threads = a.threads /\ b.mail = a.mail
    /\ b.last_used_page = a.last_used_page /\ b.tables = a.tables /\ b.map = a.map
    /\ b.blocks = a.blocks /\ b.buffers = a.buffers

\* A space with another directory or queue.
LEMMA DirAtIs ==
    ASSUME NEW a \in Spaces, NEW p \in Page
    PROVE  /\ Placed(a, DirAt(a, p), <<"dir", 0>>, p) /\ SameOther(a, DirAt(a, p))
           /\ DirAt(a, p).PageDir = p /\ DirAt(a, p).msgqueue = a.msgqueue
           /\ Placed(a, QueueAt(a, p), <<"queue", 0>>, p) /\ SameOther(a, QueueAt(a, p))
           /\ QueueAt(a, p).msgqueue = p /\ QueueAt(a, p).PageDir = a.PageDir
<1> DEFINE b == DirAt(a, p)
           e == QueueAt(a, p)
<1>0. p \in MaybePage
  BY DEF MaybePage
<1>1. b \in Spaces /\ SameOther(a, b) /\ b.PageDir = p /\ b.msgqueue = a.msgqueue
  BY <1>0 DEF Spaces, SameOther, DirAt
<1>2. e \in Spaces /\ SameOther(a, e) /\ e.msgqueue = p /\ e.PageDir = a.PageDir
  BY <1>0 DEF Spaces, SameOther, QueueAt
<1> HIDE DEF b, e
<1>3. ASSUME NEW y \in Spots
      PROVE  /\ At(b, y) = IF y = <<"dir", 0>> THEN p ELSE At(a, y)
             /\ At(e, y) = IF y = <<"queue", 0>> THEN p ELSE At(a, y)
  <2>1. \/ y = <<"dir", 0>> \/ y = <<"queue", 0>>
        \/ y[1] = "table" \/ y[1] = "map"
    BY DEF Spots
  <2>2. y[1] # "dir" => y # <<"dir", 0>>
    OBVIOUS
  <2>3. y[1] # "queue" => y # <<"queue", 0>>
    OBVIOUS
  <2>4. <<"dir", 0>>[1] = "dir" /\ <<"queue", 0>>[1] = "queue"
    OBVIOUS
  <2>5. At(b, y) = IF y = <<"dir", 0>> THEN p ELSE At(a, y)
    BY <1>1, <2>1, <2>2, <2>3, <2>4 DEF At, SameOther
  <2>6. At(e, y) = IF y = <<"queue", 0>> THEN p ELSE At(a, y)
    BY <1>2, <2>1, <2>2, <2>3, <2>4 DEF At, SameOther
  <2>7. QED
    BY <2>5, <2>6
<1>4. Placed(a, b, <<"dir", 0>>, p) /\ Placed(a, e, <<"queue", 0>>, p)
  BY <1>1, <1>2, <1>3 DEF Placed, SameOther
<1>5. QED
  BY <1>1, <1>2, <1>4 DEF b, e

\* A directory where there is none.
LEMMA PageDirectoryIs ==
    ASSUME NEW sp \in Spacings, NEW s \in Slot, NEW c \in Cursors,
           c.halt = "no" => Sound(c, s, sp) /\ c.as.PageDir = NULL
    PROVE  LET r == PageDirectory(c)
           IN  /\ r \in Cursors /\ r.halt \in {c.halt, "finished"}
               /\ r.halt = "no" =>
                     /\ c.halt = "no" /\ Sound(r, s, sp) /\ SameOther(c.as, r.as)
                     /\ r.as.PageDir # NULL /\ r.as.msgqueue = c.as.msgqueue
<1> DEFINE r == PageDirectory(c)
           i == Found(c.mem)
           b == DirAt(c.as, i)
           x == <<"dir", 0>>
           u == mem_getpage(c, Role(x), b)
<1>1. c.mem \in Mems /\ c.as \in Spaces
  BY CursorIs
<1>2. r = mem_getpage(c, "PDIR", b)
  BY Zenon DEF PageDirectory, DirAt
<1>3. CASE c.halt # "no"
  <2>1. r = c
    BY <1>2, <1>3, Zenon DEF mem_getpage
  <2> HIDE DEF r
  <2>2. QED
    BY <1>3, <2>1 DEF r
<1>4. CASE c.halt = "no"
  <2>1. i \in Page /\ i # NULL
    BY <1>1, <1>4, FoundIs, Numbers DEF Sound, Accounted
  <2>2. /\ Placed(c.as, b, x, i) /\ SameOther(c.as, b) /\ b.PageDir = i
        /\ b.msgqueue = c.as.msgqueue
    BY <1>1, <2>1, DirAtIs
  <2>3. x \in Spots /\ Role(x) = "PDIR" /\ At(c.as, x) = NULL
    BY <1>4 DEF Spots, Role, At
  <2> HIDE DEF r, b, x, i
  <2>4. /\ u \in Cursors /\ u.halt \in {"no", "finished"}
        /\ u.halt = "no" => Sound(u, s, sp) /\ u.as = b
    <3>1. Placed(c.as, b, x, Found(c.mem))
      BY <2>2 DEF i
    <3>2. QED
      BY <1>4, <2>3, <3>1, GetPage
  <2>5. u = r
    BY <1>2, <2>3
  <2> HIDE DEF u
  <2>6. QED
    BY <1>4, <2>1, <2>2, <2>4, <2>5 DEF r
<1>5. QED
  BY <1>3, <1>4

\* A queue of messages where there is none.
LEMMA MessageQueueIs ==
    ASSUME NEW sp \in Spacings, NEW s \in Slot, NEW c \in Cursors,
           c.halt = "no" => Sound(c, s, sp) /\ c.as.msgqueue = NULL
    PROVE  LET r == MessageQueue(c)
           IN  /\ r \in Cursors /\ r.halt \in {c.halt, "finished"}
               /\ r.halt = "no" =>
                     /\ c.halt = "no" /\ Sound(r, s, sp) /\ SameOther(c.as, r.as)
                     /\ r.as.msgqueue # NULL /\ r.as.PageDir = c.as.PageDir
<1> DEFINE r == MessageQueue(c)
           i == Found(c.mem)
           b == QueueAt(c.as, i)
           x == <<"queue", 0>>
           u == mem_getpage(c, Role(x), b)
<1>1. c.mem \in Mems /\ c.as \in Spaces
  BY CursorIs
<1>2. r = mem_getpage(c, "DATA", b)
  BY Zenon DEF MessageQueue, QueueAt
<1>3. CASE c.halt # "no"
  <2>1. r = c
    BY <1>2, <1>3, Zenon DEF mem_getpage
  <2> HIDE DEF r
  <2>2. QED
    BY <1>3, <2>1 DEF r
<1>4. CASE c.halt = "no"
  <2>1. i \in Page /\ i # NULL
    BY <1>1, <1>4, FoundIs, Numbers DEF Sound, Accounted
  <2>2. /\ Placed(c.as, b, x, i) /\ SameOther(c.as, b) /\ b.msgqueue = i
        /\ b.PageDir = c.as.PageDir
    BY <1>1, <2>1, DirAtIs
  <2>3. x \in Spots /\ Role(x) = "DATA" /\ At(c.as, x) = NULL
    BY <1>4 DEF Spots, Role, At
  <2> HIDE DEF r, b, x, i
  <2>4. /\ u \in Cursors /\ u.halt \in {"no", "finished"}
        /\ u.halt = "no" => Sound(u, s, sp) /\ u.as = b
    <3>1. Placed(c.as, b, x, Found(c.mem))
      BY <2>2 DEF i
    <3>2. QED
      BY <1>4, <2>3, <3>1, GetPage
  <2>5. u = r
    BY <1>2, <2>3
  <2> HIDE DEF u
  <2>6. QED
    BY <1>4, <2>1, <2>2, <2>4, <2>5 DEF r
<1>5. QED
  BY <1>3, <1>4

(* A space in order: its own directory and queue, a table for every page that is    *)
(* mapped, and nothing mapped after the last page used.                            *)
InOrder(a) ==
    /\ a.PageDir # NULL /\ a.msgqueue # NULL /\ Covered(a) /\ UserBase <= a.last_used_page
    /\ \A v \in MappedOf(a) : v <= a.last_used_page

\* A space in order stays so when pages are mapped up to its last one.
LEMMA OrderGrows ==
    ASSUME NEW a \in Spaces, NEW b \in Spaces, NEW V, NEW D, InOrder(a), Grows(a, b, V, D),
           \A v \in V : Entry(v) \in D /\ v <= b.last_used_page,
           a.last_used_page <= b.last_used_page
    PROVE  InOrder(b)
<1>1. a.last_used_page \in Int /\ b.last_used_page \in Int /\ UserBase \in Int
  BY SpaceIs, Numbers
<1>2. Covered(b)
  BY DEF InOrder, Covered, Grows
<1>3. \A v \in MappedOf(a) : v \in Int
  BY EntryOf DEF MappedOf
<1>4. \A v \in MappedOf(b) : v <= b.last_used_page
  BY <1>1, <1>3 DEF InOrder, Grows
<1>5. UserBase <= b.last_used_page
  BY <1>1 DEF InOrder
<1>6. QED
  BY <1>2, <1>4, <1>5 DEF InOrder, Grows, SameRest

\* And when pages are unmapped.
LEMMA OrderShrinks ==
    ASSUME NEW a, NEW b, NEW V, InOrder(a), Shrinks(a, b, V)
    PROVE  InOrder(b)
<1>1. Covered(b)
  BY DEF InOrder, Covered, Shrinks
<1>2. \A v \in MappedOf(b) : v <= b.last_used_page
  BY DEF InOrder, Shrinks
<1>3. QED
  BY <1>1, <1>2 DEF InOrder, Shrinks, SameRest

\* Linear_alloc in a space in order: so many pages, new ones, after the last one used.
LEMMA AllocIs ==
    ASSUME NEW sp \in Spacings, NEW s \in Slot, NEW c \in Cursors, NEW bytes \in Nat,
           c.halt = "no" => /\ Sound(c, s, sp) /\ InOrder(c.as)
                            /\ c.as.last_used_page + Pages(bytes) <= MaxVPage
    PROVE  LET r == Linear_alloc(c, bytes)
               l == c.as.last_used_page
               V == l + 1..l + Pages(bytes)
           IN  /\ r \in Cursors /\ r.halt \in {c.halt, "finished"}
               /\ r.halt = "no" =>
                     /\ c.halt = "no" /\ Sound(r, s, sp) /\ InOrder(r.as) /\ SameRest(c.as, r.as)
                     /\ MappedOf(r.as) = MappedOf(c.as) \cup V /\ V \cap MappedOf(c.as) = {}
                     /\ r.as.last_used_page = l + Pages(bytes)
<1> DEFINE r == Linear_alloc(c, bytes)
           l == c.as.last_used_page
           n == Pages(bytes)
           V == l + 1..l + n
<1>1. n \in Nat /\ l \in Int /\ c.as \in Spaces
  BY PagesNat, CursorIs, SpaceIs
<1>2. c.halt = "no" =>
         /\ Sound(c, s, sp) /\ UserBase <= l /\ l + n <= MaxVPage
         /\ \A v \in MappedOf(c.as) : v <= l
  BY DEF InOrder
<1>3. /\ r \in Cursors /\ r.halt \in {c.halt, "finished"}
      /\ r.halt = "no" => /\ c.halt = "no" /\ Sound(r, s, sp) /\ Grows(c.as, r.as, V, Entries(V))
                          /\ r.as.last_used_page = l + n
  BY <1>2, LinearAllocIs
<1> HIDE DEF r, n
<1>4. ASSUME r.halt = "no"
      PROVE  /\ InOrder(r.as) /\ SameRest(c.as, r.as) /\ MappedOf(r.as) = MappedOf(c.as) \cup V
             /\ V \cap MappedOf(c.as) = {}
  <2>1. r.as \in Spaces /\ r.as.last_used_page = l + n /\ InOrder(c.as)
        /\ Grows(c.as, r.as, V, Entries(V))
    BY <1>3, <1>4, CursorIs
  <2>2. \A v \in V : Entry(v) \in Entries(V) /\ v <= l + n
    BY <1>1 DEF Entries
  <2>3. l <= l + n
    BY <1>1
  <2>4. V \cap MappedOf(c.as) = {}
    <3>1. \A v \in MappedOf(c.as) : v \in Int /\ v <= l
      BY <1>2, <1>3, <1>4, EntryOf DEF MappedOf
    <3>2. \A v \in V : v \in Int /\ l < v
      BY <1>1
    <3> HIDE DEF V
    <3>3. QED
      BY <1>1, <3>1, <3>2
  <2> HIDE DEF V
  <2>5. InOrder(r.as)
    BY <1>1, <2>1, <2>2, <2>3, OrderGrows
  <2>6. QED
    BY <2>1, <2>4, <2>5 DEF Grows
<1>5. QED
  BY <1>3, <1>4 DEF r, n

(* The pages of a stack whose gap is page g + 1.                                   *)
StackSpan(g) == g + 2..g + 1 + StackPages

\* A gap and a stack.
LEMMA StackIs ==
    ASSUME NEW sp \in Spacings, NEW s \in Slot, NEW c \in Cursors,
           c.halt = "no" => /\ Sound(c, s, sp) /\ InOrder(c.as)
                            /\ c.as.last_used_page + StackPages + 1 <= MaxVPage
    PROVE  LET r == Linear_alloc(Gap(c), STACKS_SIZE)
               l == c.as.last_used_page
           IN  /\ r \in Cursors /\ r.halt \in {c.halt, "finished"}
               /\ r.halt = "no" =>
                     /\ c.halt = "no" /\ Sound(r, s, sp) /\ InOrder(r.as) /\ SameRest(c.as, r.as)
                     /\ MappedOf(r.as) = MappedOf(c.as) \cup StackSpan(l)
                     /\ StackSpan(l) \cap MappedOf(c.as) = {}
                     /\ r.as.last_used_page = l + 1 + StackPages
<1> DEFINE l == c.as.last_used_page
           d == [c EXCEPT !.as.last_used_page = l + 1]
           r == Linear_alloc(d, STACKS_SIZE)
<1>1. c.as \in Spaces /\ l \in Int /\ l + 1 \in Int /\ StackPages \in Nat /\ STACKS_SIZE \in Nat
  <2>1. c.as \in Spaces
    BY CursorIs
  <2>2. l \in Int
    BY <2>1, SpaceIs
  <2>3. STACKS_SIZE \in Nat
    BY MemoryAssumption
  <2> HIDE DEF l
  <2>4. QED
    BY <2>1, <2>2, <2>3, Numbers
<1>2. /\ d \in Cursors /\ d.halt = c.halt /\ d.as.last_used_page = l + 1 /\ d.as.map = c.as.map
      /\ d.as.tables = c.as.tables /\ SameRest(c.as, d.as) /\ (c.halt = "no" => Sound(d, s, sp))
  BY <1>1, CursorLast
<1>3. Gap(c) = d
  BY Zenon DEF Gap
<1> HIDE DEF d
<1>4. MappedOf(d.as) = MappedOf(c.as) /\ TablesOf(d.as) = TablesOf(c.as) /\ d.as \in Spaces
  BY <1>2, CursorIs DEF MappedOf, TablesOf
<1>5. ASSUME c.halt = "no" PROVE InOrder(d.as) /\ l + 1 + StackPages <= MaxVPage
  <2>1. Grows(c.as, d.as, {}, {})
    BY <1>2, <1>4 DEF Grows
  <2>2. l <= l + 1
    BY <1>1
  <2>3. InOrder(d.as)
    BY <1>1, <1>2, <1>4, <1>5, <2>1, <2>2, OrderGrows
  <2>4. QED
    BY <1>1, <1>5, <2>3, Numbers
<1>6. d.halt = "no" => /\ Sound(d, s, sp) /\ InOrder(d.as)
                       /\ d.as.last_used_page + Pages(STACKS_SIZE) <= MaxVPage
  BY <1>2, <1>5 DEF StackPages
<1>7. LET V == d.as.last_used_page + 1..d.as.last_used_page + Pages(STACKS_SIZE)
      IN  /\ r \in Cursors /\ r.halt \in {d.halt, "finished"}
          /\ r.halt = "no" =>
                /\ d.halt = "no" /\ Sound(r, s, sp) /\ InOrder(r.as) /\ SameRest(d.as, r.as)
                /\ MappedOf(r.as) = MappedOf(d.as) \cup V /\ V \cap MappedOf(d.as) = {}
                /\ r.as.last_used_page = d.as.last_used_page + Pages(STACKS_SIZE)
  BY <1>1, <1>2, <1>6, AllocIs
<1> HIDE DEF r, l
<1>8. /\ d.as.last_used_page + 1..d.as.last_used_page + Pages(STACKS_SIZE) = StackSpan(l)
      /\ d.as.last_used_page + Pages(STACKS_SIZE) = l + 1 + StackPages
  <2>1. d.as.last_used_page = l + 1 /\ Pages(STACKS_SIZE) = StackPages
    BY <1>2 DEF StackPages
  <2>2. l + 1 + 1 = l + 2
    BY <1>1
  <2>3. QED
    BY <2>1, <2>2 DEF StackSpan
<1>9. r.halt = "no" => SameRest(c.as, r.as)
  BY <1>2, <1>7 DEF SameRest
<1>10. QED
  BY <1>2, <1>3, <1>4, <1>7, <1>8, <1>9 DEF r, l

(* The user stack of a thread created when a is the space of its process.          *)
UserSpan(a) == IF a.user THEN StackSpan(a.last_used_page + 1 + StackPages) ELSE {}

\* The stacks of a new thread: new pages, each in one stack.
LEMMA StacksIs ==
    ASSUME NEW sp \in Spacings, NEW s \in Slot, NEW c \in Cursors,
           c.halt = "no" => Sound(c, s, sp) /\ InOrder(c.as) /\ StackRoom(c.as)
    PROVE  LET r == Stacks(c)
               K == StackSpan(c.as.last_used_page)
               U == UserSpan(c.as)
           IN  /\ r \in Cursors /\ r.halt \in {c.halt, "finished"}
               /\ r.halt = "no" =>
                     /\ c.halt = "no" /\ Sound(r, s, sp) /\ InOrder(r.as) /\ SameRest(c.as, r.as)
                     /\ MappedOf(r.as) = MappedOf(c.as) \cup K \cup U
                     /\ K \cap MappedOf(c.as) = {} /\ U \cap MappedOf(c.as) = {} /\ K \cap U = {}
<1> DEFINE l == c.as.last_used_page
           K == StackSpan(l)
           U == UserSpan(c.as)
           k == Linear_alloc(Gap(c), STACKS_SIZE)
           u == Linear_alloc(Gap(k), STACKS_SIZE)
           r == IF c.as.user THEN u ELSE k
<1>0. r = Stacks(c)
  BY Zenon DEF Stacks, r, k, u
<1>1. StackPages \in Nat /\ MaxVPage \in Nat
  BY Numbers
<1>2. c.as \in Spaces /\ l \in Int
  <2>1. c.as \in Spaces
    BY CursorIs
  <2>2. QED
    BY <2>1, SpaceIs
<1>3. c.as.user \in BOOLEAN
  BY <1>2, SpaceIs
<1>4. c.halt = "no" => /\ l + StackPages + 1 <= MaxVPage
                       /\ c.as.user => l + 2 * (StackPages + 1) <= MaxVPage
  <2>1. ASSUME c.halt = "no"
        PROVE  l + (IF c.as.user THEN 2 ELSE 1) * (StackPages + 1) <= MaxVPage
    BY <2>1 DEF StackRoom
  <2> HIDE DEF l
  <2>2. QED
    BY <1>1, <1>2, <2>1
<1>5. /\ k \in Cursors /\ k.halt \in {c.halt, "finished"}
      /\ k.halt = "no" =>
            /\ c.halt = "no" /\ Sound(k, s, sp) /\ InOrder(k.as) /\ SameRest(c.as, k.as)
            /\ MappedOf(k.as) = MappedOf(c.as) \cup K /\ K \cap MappedOf(c.as) = {}
            /\ k.as.last_used_page = l + 1 + StackPages
  <2>1. c.halt = "no" => /\ Sound(c, s, sp) /\ InOrder(c.as)
                         /\ c.as.last_used_page + StackPages + 1 <= MaxVPage
    BY <1>4
  <2>2. QED
    BY <2>1, StackIs
<1> HIDE DEF k
<1>6. CASE ~c.as.user
  <2>1. r = k /\ U = {}
    BY <1>6 DEF UserSpan
  <2> HIDE DEF r, K, U, l
  <2>2. /\ r \in Cursors /\ r.halt \in {c.halt, "finished"}
        /\ r.halt = "no" =>
              /\ c.halt = "no" /\ Sound(r, s, sp) /\ InOrder(r.as) /\ SameRest(c.as, r.as)
              /\ MappedOf(r.as) = MappedOf(c.as) \cup K \cup U
              /\ K \cap MappedOf(c.as) = {} /\ U \cap MappedOf(c.as) = {} /\ K \cap U = {}
    BY <1>5, <2>1
  <2>3. QED
    BY <1>0, <2>2 DEF K, U, l
<1>7. CASE c.as.user
  <2>1. r = u /\ U = StackSpan(l + 1 + StackPages)
    BY <1>7 DEF UserSpan
  <2>2. k.halt = "no" => /\ Sound(k, s, sp) /\ InOrder(k.as)
                         /\ k.as.last_used_page + StackPages + 1 <= MaxVPage
    <3> HIDE DEF l
    <3>1. QED
      BY <1>1, <1>2, <1>4, <1>5, <1>7
  <2>3. LET W == StackSpan(k.as.last_used_page)
        IN  /\ u \in Cursors /\ u.halt \in {k.halt, "finished"}
            /\ u.halt = "no" =>
                  /\ k.halt = "no" /\ Sound(u, s, sp) /\ InOrder(u.as) /\ SameRest(k.as, u.as)
                  /\ MappedOf(u.as) = MappedOf(k.as) \cup W /\ W \cap MappedOf(k.as) = {}
    BY <1>5, <2>2, StackIs
  <2> HIDE DEF r, K, U, l, u
  <2>4. u.halt = "no" => /\ StackSpan(k.as.last_used_page) = U /\ SameRest(c.as, u.as)
    BY <1>5, <2>1, <2>3 DEF SameRest
  <2>5. /\ r \in Cursors /\ r.halt \in {c.halt, "finished"}
        /\ r.halt = "no" =>
              /\ c.halt = "no" /\ Sound(r, s, sp) /\ InOrder(r.as) /\ SameRest(c.as, r.as)
              /\ MappedOf(r.as) = MappedOf(c.as) \cup K \cup U
              /\ K \cap MappedOf(c.as) = {} /\ U \cap MappedOf(c.as) = {} /\ K \cap U = {}
    BY <1>5, <2>1, <2>3, <2>4
  <2>6. QED
    BY <1>0, <2>5 DEF K, U, l
<1>8. QED
  BY <1>3, <1>6, <1>7

(* b has the names, the messages, the blocks and the buffers of a.                 *)
Same(a, b) ==
    /\ b.active = a.active /\ b.user = a.user /\ b.threads = a.threads /\ b.mail = a.mail
    /\ b.blocks = a.blocks /\ b.buffers = a.buffers

(* The space of a process that is being made.                                      *)
Bare(a) ==
    /\ a.PageDir = NULL /\ a.msgqueue = NULL /\ MappedOf(a) = {}

\* The space of a new process, before its stacks.
LEMMA LoadedIs ==
    ASSUME NEW sp \in Spacings, NEW s \in Slot, NEW c \in Cursors,
           c.halt = "no" => Sound(c, s, sp) /\ Bare(c.as)
    PROVE  LET r == Loaded(c)
           IN  /\ r \in Cursors /\ r.halt \in {c.halt, "finished", "null_table"}
               /\ r.as.last_used_page = UserBase + IMAGE_PAGES + 3
               /\ r.halt = "no" => /\ c.halt = "no" /\ Sound(r, s, sp) /\ InOrder(r.as)
                                   /\ Same(c.as, r.as)
<1> DEFINE d == PageDirectory(c)
           p == Program(d)
           q == MessageQueue(p)
           top == UserBase + IMAGE_PAGES + 3
           V == UserBase..UserBase + IMAGE_PAGES - 1
           r == [q EXCEPT !.as.last_used_page = top]
<1>0. r = Loaded(c)
  BY Zenon DEF Loaded, r, q, p, d, top
<1>1. UserBase \in Nat /\ IMAGE_PAGES \in Nat /\ top \in Int
  BY Numbers
<1>2. /\ d \in Cursors /\ d.halt \in {c.halt, "finished"}
      /\ d.halt = "no" => /\ c.halt = "no" /\ Sound(d, s, sp) /\ SameOther(c.as, d.as)
                          /\ d.as.PageDir # NULL /\ d.as.msgqueue = c.as.msgqueue
  <2>1. c.halt = "no" => Sound(c, s, sp) /\ c.as.PageDir = NULL
    BY DEF Bare
  <2>2. QED
    BY <2>1, PageDirectoryIs
<1> HIDE DEF d
<1>3. d.halt = "no" => Sound(d, s, sp) /\ MappedOf(d.as) = {} /\ d.as.msgqueue = NULL
  BY <1>2 DEF SameOther, Bare, MappedOf
<1>4. /\ p \in Cursors /\ p.halt \in {d.halt, "finished", "null_table"}
      /\ p.halt = "no" => /\ d.halt = "no" /\ Sound(p, s, sp) /\ Grows(d.as, p.as, V, Entries(V))
                          /\ p.as.last_used_page = d.as.last_used_page
  <2>1. d.halt = "no" => Sound(d, s, sp) /\ MappedOf(d.as) = {}
    BY <1>3
  <2>2. QED
    BY <1>2, <2>1, ProgramIs
<1> HIDE DEF p, V
<1>5. p.halt = "no" => Sound(p, s, sp) /\ p.as.msgqueue = NULL
  BY <1>3, <1>4 DEF Grows, SameRest
<1>6. /\ q \in Cursors /\ q.halt \in {p.halt, "finished"}
      /\ q.halt = "no" => /\ p.halt = "no" /\ Sound(q, s, sp) /\ SameOther(p.as, q.as)
                          /\ q.as.msgqueue # NULL /\ q.as.PageDir = p.as.PageDir
  BY <1>4, <1>5, MessageQueueIs
<1> HIDE DEF q
<1>7. /\ r \in Cursors /\ r.mem = q.mem /\ r.halt = q.halt
      /\ r.as.last_used_page = top /\ r.as.map = q.as.map /\ r.as.tables = q.as.tables
      /\ SameRest(q.as, r.as) /\ (Sound(q, s, sp) => Sound(r, s, sp))
  BY <1>1, <1>6, CursorLast
<1> HIDE DEF r, top
<1>8. ASSUME r.halt = "no" PROVE Same(c.as, r.as) /\ InOrder(r.as)
  <2>1. /\ SameOther(c.as, d.as) /\ Grows(d.as, p.as, V, Entries(V)) /\ SameOther(p.as, q.as)
        /\ SameRest(q.as, r.as) /\ d.as.PageDir # NULL /\ MappedOf(d.as) = {}
        /\ q.as.msgqueue # NULL /\ q.as.PageDir = p.as.PageDir
    BY <1>2, <1>3, <1>4, <1>6, <1>7, <1>8
  <2>2. Same(c.as, r.as)
    BY <2>1 DEF Same, SameOther, SameRest, Grows
  <2>3. r.as.PageDir # NULL /\ r.as.msgqueue # NULL
    BY <2>1 DEF SameRest, Grows
  <2>4. MappedOf(r.as) = V /\ TablesOf(r.as) = TablesOf(d.as) \cup Entries(V)
    <3>1. MappedOf(r.as) = MappedOf(p.as) /\ TablesOf(r.as) = TablesOf(p.as)
      BY <1>7, <2>1 DEF SameOther, MappedOf, TablesOf
    <3>2. QED
      BY <2>1, <3>1 DEF Grows
  <2>5. Covered(r.as)
    BY <2>4 DEF Covered, Entries
  <2>6. UserBase <= top /\ \A v \in V : v <= top
    BY <1>1 DEF top, V
  <2>7. QED
    BY <1>7, <2>2, <2>3, <2>4, <2>5, <2>6 DEF InOrder
<1>9. r.halt \in {c.halt, "finished", "null_table"} /\ (r.halt = "no" => c.halt = "no")
  BY <1>2, <1>4, <1>6, <1>7
<1>10. r.halt = "no" => Sound(r, s, sp)
  BY <1>6, <1>7
<1>11. QED
  BY <1>0, <1>7, <1>8, <1>9, <1>10 DEF top

--------------------------------------------------------------------------------
(* What the program and its threads hold: blocks, buffers and stacks.              *)

ThreadRecords == [active : BOOLEAN, task : Slot, kernel_stack : Int, user_stack : Int]
ThreadTables == [Thread -> ThreadRecords]

(* What is held is an extent <<kind, number, first page, pages>>.                  *)
PagesOf(x) == x[3]..x[3] + x[4] - 1
BlockX(b) == <<"block", b.size, b.at, Pages(b.size)>>
BufferX(v) == <<"buffer", 0, v, 1>>
KernelX(t, v) == <<"kernel", t, v, StackPages>>
UserX(t, v) == <<"user", t, v, StackPages>>

ThreadsOf(thr, s) == {t \in Thread : thr[t].active /\ thr[t].task = s}
Extents(a, thr, s) ==
    {BlockX(b) : b \in a.blocks} \cup {BufferX(v) : v \in a.buffers}
      \cup {KernelX(t, thr[t].kernel_stack) : t \in {u \in ThreadsOf(thr, s) : thr[u].kernel_stack # 0}}
      \cup {UserX(t, thr[t].user_stack) : t \in {u \in ThreadsOf(thr, s) : thr[u].user_stack # 0}}

(* The extents X are mapped, and no page is in two.                                *)
Proper(X, M) ==
    /\ \A x \in X : PagesOf(x) \subseteq M
    /\ \A x, y \in X : x # y => PagesOf(x) \cap PagesOf(y) = {}

(* The space a of slot s is in order and so is what is held there.                 *)
Well(a, thr, s) ==
    /\ InOrder(a) /\ Proper(Extents(a, thr, s), MappedOf(a))

\* One extent more.
LEMMA ProperMore ==
    ASSUME NEW X, NEW M, NEW e, Proper(X, M), PagesOf(e) \cap M = {}
    PROVE  Proper(X \cup {e}, M \cup PagesOf(e))
  BY Zenon DEF Proper

\* One less: its pages can go.
LEMMA ProperLess ==
    ASSUME NEW X, NEW M, NEW e, Proper(X, M), e \in X
    PROVE  Proper(X \ {e}, M \ PagesOf(e)) /\ PagesOf(e) \subseteq M
  BY DEF Proper

\* Fewer extents, or more pages.
LEMMA ProperSub ==
    ASSUME NEW X, NEW Y, NEW M, NEW N, Proper(X, M), Y \subseteq X, M \subseteq N
    PROVE  Proper(Y, N)
  BY DEF Proper

\* The threads of thr that are left in new know the stacks that they knew, or not.
Fewer(new, thr) ==
    \A t \in Thread : new[t].active =>
       /\ thr[t].active /\ new[t].task = thr[t].task
       /\ new[t].kernel_stack \in {0, thr[t].kernel_stack}
       /\ new[t].user_stack \in {0, thr[t].user_stack}

\* Fewer threads, blocks and buffers hold fewer extents.
LEMMA ExtentsFewer ==
    ASSUME NEW a, NEW b, NEW thr, NEW new, NEW s, Fewer(new, thr),
           b.blocks \subseteq a.blocks, b.buffers \subseteq a.buffers
    PROVE  /\ Extents(b, new, s) \subseteq Extents(a, thr, s)
           /\ \A t \in Thread : ~new[t].active =>
                 \A v : KernelX(t, v) \notin Extents(b, new, s) /\ UserX(t, v) \notin Extents(b, new, s)
<1>1. ASSUME NEW t \in ThreadsOf(new, s)
      PROVE  /\ t \in ThreadsOf(thr, s)
             /\ new[t].kernel_stack # 0 => new[t].kernel_stack = thr[t].kernel_stack
             /\ new[t].user_stack # 0 => new[t].user_stack = thr[t].user_stack
  BY <1>1 DEF Fewer, ThreadsOf
<1>2. {BlockX(c) : c \in b.blocks} \subseteq {BlockX(c) : c \in a.blocks}
  BY DEF BlockX
<1>3. {BufferX(v) : v \in b.buffers} \subseteq {BufferX(v) : v \in a.buffers}
  BY DEF BufferX
<1>4. {KernelX(t, new[t].kernel_stack) : t \in {u \in ThreadsOf(new, s) : new[u].kernel_stack # 0}}
        \subseteq {KernelX(t, thr[t].kernel_stack) :
                     t \in {u \in ThreadsOf(thr, s) : thr[u].kernel_stack # 0}}
  BY <1>1
<1>5. {UserX(t, new[t].user_stack) : t \in {u \in ThreadsOf(new, s) : new[u].user_stack # 0}}
        \subseteq {UserX(t, thr[t].user_stack) :
                     t \in {u \in ThreadsOf(thr, s) : thr[u].user_stack # 0}}
  BY <1>1
<1>6. ASSUME NEW t \in Thread, ~new[t].active, NEW v
      PROVE  KernelX(t, v) \notin Extents(b, new, s) /\ UserX(t, v) \notin Extents(b, new, s)
  BY <1>6 DEF Extents, KernelX, UserX, BlockX, BufferX, ThreadsOf
<1>7. Extents(b, new, s) \subseteq Extents(a, thr, s)
  BY <1>2, <1>3, <1>4, <1>5, Zenon DEF Extents
<1>8. QED
  BY <1>6, <1>7

\* What Linear_free does to an extent.
LEMMA LinearFreeIs ==
    ASSUME NEW sp \in Spacings, NEW s \in Slot, NEW c \in Cursors, NEW bytes \in Nat,
           NEW X, NEW e, e[3] \in Int, Pages(bytes + HEADER) = e[4],
           c.halt = "no" => /\ Sound(c, s, sp) /\ InOrder(c.as) /\ Proper(X, MappedOf(c.as))
                            /\ e \in X
    PROVE  LET r == Linear_free(c, e[3], bytes)
           IN  /\ r \in Cursors /\ r.halt = c.halt
               /\ r.halt = "no" => /\ Sound(r, s, sp) /\ InOrder(r.as) /\ SameRest(c.as, r.as)
                                   /\ MappedOf(r.as) = MappedOf(c.as) \ PagesOf(e)
                                   /\ Proper(X \ {e}, MappedOf(r.as))
<1> DEFINE n == Pages(bytes + HEADER)
           r == UnmapPages(c, e[3], n)
<1>1. n \in Nat
  <2>1. bytes + HEADER \in Nat
    BY DEF HEADER
  <2>2. QED
    BY <2>1, PagesNat
<1>2. e[3]..e[3] + n - 1 = PagesOf(e)
  BY DEF PagesOf
<1>3. r = Linear_free(c, e[3], bytes)
  BY Zenon DEF Linear_free
<1> HIDE DEF n
<1>4. c.halt = "no" => Sound(c, s, sp)
  OBVIOUS
<1>5. LET V == e[3]..e[3] + n - 1
      IN  /\ r \in Cursors
          /\ r.halt = "no" => /\ c.halt = "no" /\ V \subseteq MappedOf(c.as) /\ Sound(r, s, sp)
                              /\ Shrinks(c.as, r.as, V)
          /\ c.halt # "no" \/ V \subseteq MappedOf(c.as) => r.halt = c.halt
  BY <1>1, <1>4, UnmapPagesIs
<1> HIDE DEF r
<1>6. c.halt = "no" => PagesOf(e) \subseteq MappedOf(c.as)
                       /\ Proper(X \ {e}, MappedOf(c.as) \ PagesOf(e))
  BY ProperLess
<1>7. r.halt = c.halt
  BY <1>2, <1>5, <1>6
<1>8. ASSUME r.halt = "no"
      PROVE  /\ Sound(r, s, sp) /\ InOrder(r.as) /\ SameRest(c.as, r.as)
             /\ MappedOf(r.as) = MappedOf(c.as) \ PagesOf(e)
             /\ Proper(X \ {e}, MappedOf(r.as))
  <2>1. Sound(r, s, sp) /\ Shrinks(c.as, r.as, PagesOf(e)) /\ InOrder(c.as)
    BY <1>2, <1>5, <1>8
  <2>2. InOrder(r.as)
    BY <2>1, OrderShrinks
  <2>3. QED
    BY <1>6, <1>5, <1>8, <2>1, <2>2 DEF Shrinks
<1>9. QED
  BY <1>3, <1>5, <1>7, <1>8

\* Something takes a page, and address 0 is the kernel's.
LEMMA Positive ==
    /\ \A b \in Nat : Pages(b + HEADER) \in Nat \ {0}
    /\ UserBase >= 1 /\ 0 \notin VPage
<1>1. DIM_PAGE \in Nat \ {0} /\ PTES \in Nat \ {0} /\ KDIR \in Nat \ {0} /\ HEADER = 4
  BY Numbers
<1>2. ASSUME NEW b \in Nat PROVE Pages(b + HEADER) \in Nat \ {0}
  <2> DEFINE x == b + HEADER + DIM_PAGE - 1
             q == x \div DIM_PAGE
  <2>1. x \in Nat /\ DIM_PAGE <= x
    BY <1>1
  <2> HIDE DEF x
  <2>2. q \in Nat /\ x < DIM_PAGE * q + DIM_PAGE
    BY <1>1, <2>1, DivIs
  <2>3. q # 0
    <3>1. SUFFICES ASSUME q = 0 PROVE FALSE
      OBVIOUS
    <3> HIDE DEF q
    <3>2. DIM_PAGE * q = 0
      BY <1>1, <3>1
    <3>3. QED
      BY <1>1, <2>1, <2>2, <3>2
  <2>4. QED
    BY <2>2, <2>3 DEF Pages, x
<1>3. UserBase >= 1
  <2>1. PICK z \in Nat : KDIR = z + 1
    <3>1. KDIR - 1 \in Nat /\ KDIR = (KDIR - 1) + 1
      BY <1>1
    <3>2. QED
      BY <3>1
  <2>2. KDIR * PTES = z * PTES + PTES /\ z * PTES \in Nat
    BY <1>1, <2>1
  <2>3. QED
    BY <1>1, <2>2 DEF UserBase
<1>4. 0 \notin VPage
  BY <1>3, Numbers DEF VPage
<1>5. QED
  BY <1>2, <1>3, <1>4

(* The space of the cursor is in order and holds X.                                *)
Holds(c, s, sp, X) == Sound(c, s, sp) /\ InOrder(c.as) /\ Proper(X, MappedOf(c.as))

(* The cursor r, after c, does not hold e any more.                                *)
Loses(c, r, s, sp, X, e) ==
    /\ r \in Cursors
    /\ r.halt = "no" => c.halt = "no" /\ Holds(r, s, sp, X \ {e}) /\ SameRest(c.as, r.as)

\* What Linear_free does to a stack, or to address 0.
LEMMA StackFreed ==
    ASSUME NEW sp \in Spacings, NEW s \in Slot, NEW c \in Cursors, NEW X, NEW e, NEW v \in Int,
           e[3] = v, e[4] = StackPages,
           c.halt = "no" => Holds(c, s, sp, X) /\ (v # 0 => e \in X)
    PROVE  /\ Loses(c, Linear_free(c, v, STACKS_SIZE), s, sp, X, e)
           /\ c.halt # "no" \/ v # 0 => Linear_free(c, v, STACKS_SIZE).halt = c.halt
<1> DEFINE r == Linear_free(c, v, STACKS_SIZE)
<1>1. STACKS_SIZE \in Nat /\ Pages(STACKS_SIZE + HEADER) = StackPages
  BY MemoryAssumption, StackAssumption
<1>2. CASE c.halt # "no" \/ v # 0
  <2>1. c.halt = "no" => /\ Sound(c, s, sp) /\ InOrder(c.as) /\ Proper(X, MappedOf(c.as))
                         /\ e \in X
    BY <1>2 DEF Holds
  <2>2. LET u == Linear_free(c, e[3], STACKS_SIZE)
        IN  /\ u \in Cursors /\ u.halt = c.halt
            /\ u.halt = "no" => /\ Sound(u, s, sp) /\ InOrder(u.as) /\ SameRest(c.as, u.as)
                                /\ MappedOf(u.as) = MappedOf(c.as) \ PagesOf(e)
                                /\ Proper(X \ {e}, MappedOf(u.as))
    <3>1. e[3] \in Int /\ Pages(STACKS_SIZE + HEADER) = e[4] /\ STACKS_SIZE \in Nat
      BY <1>1
    <3>2. QED
      BY <2>1, <3>1, LinearFreeIs
  <2>3. e[3] = v
    OBVIOUS
  <2> HIDE DEF r
  <2>4. QED
    BY <2>2, <2>3 DEF r, Loses, Holds
<1>3. CASE c.halt = "no" /\ v = 0
  <2> DEFINE n == Pages(STACKS_SIZE + HEADER)
             u == UnmapPages(c, v, n)
  <2>1. n \in Nat \ {0}
    BY <1>1, Positive
  <2>2. r = u
    BY Zenon DEF Linear_free
  <2> HIDE DEF n
  <2>3. LET V == v..v + n - 1
        IN  /\ u \in Cursors
            /\ u.halt = "no" => /\ c.halt = "no" /\ V \subseteq MappedOf(c.as) /\ Sound(u, s, sp)
                                /\ Shrinks(c.as, u.as, V)
            /\ c.halt # "no" \/ V \subseteq MappedOf(c.as) => u.halt = c.halt
    BY <1>3, <2>1, UnmapPagesIs DEF Holds
  <2>4. v \in v..v + n - 1 /\ v \notin MappedOf(c.as)
    BY <1>3, <2>1, Positive DEF MappedOf
  <2> HIDE DEF r, u
  <2>5. u.halt # "no"
    BY <2>3, <2>4
  <2>6. QED
    BY <1>3, <2>2, <2>3, <2>5 DEF r, Loses
<1>4. QED
  BY <1>2, <1>3

\* The parts of a table of threads.
LEMMA ThreadIs ==
    ASSUME NEW thr \in ThreadTables, NEW t \in Thread
    PROVE  /\ thr[t] \in ThreadRecords /\ thr[t].active \in BOOLEAN /\ thr[t].task \in Slot
           /\ thr[t].kernel_stack \in Int /\ thr[t].user_stack \in Int
  BY DEF ThreadTables, ThreadRecords

\* The first slot.
LEMMA SlotIs == 0 \in Slot /\ NoThread \in ThreadRecords /\ ~NoThread.active
<1>1. 0 \in Slot
  BY MemoryAssumption
<1>2. QED
  BY <1>1 DEF NoThread, ThreadRecords

(* A thread that was destroyed.                                                    *)
Dead(x) == [x EXCEPT !.active = FALSE]

\* What is left of a thread.
LEMMA EndedIs ==
    ASSUME NEW x \in ThreadRecords
    PROVE  /\ Ended(x) \in ThreadRecords /\ ~Ended(x).active
           /\ Dead(x) \in ThreadRecords /\ ~Dead(x).active
<1>1. Ended(x) \in ThreadRecords
  <2> DEFINE gone == [x EXCEPT !.active = FALSE]
             bare == [gone EXCEPT !.kernel_stack = 0]
  <2>1. gone \in ThreadRecords
    BY DEF ThreadRecords
  <2> HIDE DEF gone
  <2>2. bare \in ThreadRecords
    BY <2>1 DEF ThreadRecords
  <2> HIDE DEF bare
  <2>3. [bare EXCEPT !.user_stack = 0] \in ThreadRecords
    BY <2>2 DEF ThreadRecords
  <2>4. QED
    BY <2>3, Zenon DEF Ended, bare, gone
<1>2. ~Ended(x).active
  BY DEF Ended, ThreadRecords
<1>3. Dead(x) \in ThreadRecords
  BY DEF Dead, ThreadRecords
<1>4. ~Dead(x).active
  BY DEF Dead, ThreadRecords
<1>5. QED
  BY <1>1, <1>2, <1>3, <1>4

(* The table of threads that Destroy_Thread(t) by me leaves.                       *)
ThreadGone(thr, me, t) ==
    [thr EXCEPT ![t].active = FALSE, ![me].kernel_stack = 0,
                ![me].user_stack = IF thr[t].user_stack # 0 THEN 0 ELSE @]

\* That table.
LEMMA ThreadGoneIs ==
    ASSUME NEW thr \in ThreadTables, NEW me \in Thread, NEW t \in Thread, me # t
    PROVE  LET new == ThreadGone(thr, me, t)
           IN  /\ new \in ThreadTables /\ ~new[t].active
               /\ \A u \in Thread \ {me, t} : new[u] = thr[u]
               /\ new[me].active = thr[me].active /\ new[me].task = thr[me].task
               /\ Fewer(new, thr)
<1> DEFINE new == ThreadGone(thr, me, t)
           r == [thr[me] EXCEPT !.kernel_stack = 0,
                                !.user_stack = IF thr[t].user_stack # 0 THEN 0 ELSE @]
<1>1. thr[me] \in ThreadRecords /\ thr[t] \in ThreadRecords
  BY ThreadIs
<1>2. /\ r \in ThreadRecords /\ r.active = thr[me].active /\ r.task = thr[me].task
      /\ r.kernel_stack = 0 /\ r.user_stack \in {0, thr[me].user_stack}
  <2> DEFINE w == thr[me]
             z == IF thr[t].user_stack # 0 THEN 0 ELSE w.user_stack
  <2>1. r = [w EXCEPT !.kernel_stack = 0, !.user_stack = z]
    OBVIOUS
  <2>2. w \in ThreadRecords /\ z \in Int /\ z \in {0, w.user_stack}
    BY <1>1, ThreadIs
  <2> HIDE DEF r, w, z
  <2>2a. /\ w = [active |-> w.active, task |-> w.task, kernel_stack |-> w.kernel_stack,
                 user_stack |-> w.user_stack]
         /\ w.active \in BOOLEAN /\ w.task \in Slot
    BY <2>2 DEF ThreadRecords
  <2>2b. r = [active |-> w.active, task |-> w.task, kernel_stack |-> 0, user_stack |-> z]
    BY <2>1, <2>2a
  <2>3. r \in ThreadRecords /\ r.active = w.active /\ r.task = w.task /\ r.kernel_stack = 0
        /\ r.user_stack = z
    BY <2>2, <2>2a, <2>2b DEF ThreadRecords
  <2>4. QED
    BY <2>2, <2>3 DEF w
<1>3. new[me] = r /\ new[t] = Dead(thr[t]) /\ \A u \in Thread \ {me, t} : new[u] = thr[u]
  BY DEF ThreadGone, ThreadTables, Dead
<1>4. DOMAIN new = Thread /\ new = [u \in Thread |-> new[u]]
  BY DEF ThreadGone, ThreadTables
<1>4a. new[t] \in ThreadRecords /\ ~new[t].active
  BY <1>1, <1>3, EndedIs
<1> HIDE DEF r, new
<1>5. new \in ThreadTables
  <2>1. \A u \in Thread : new[u] \in ThreadRecords
    BY <1>2, <1>3, <1>4a, ThreadIs
  <2>2. QED
    BY <1>4, <2>1 DEF ThreadTables
<1>6. Fewer(new, thr)
  <2>1. ASSUME NEW u \in Thread, new[u].active
        PROVE  /\ thr[u].active /\ new[u].task = thr[u].task
               /\ new[u].kernel_stack \in {0, thr[u].kernel_stack}
               /\ new[u].user_stack \in {0, thr[u].user_stack}
    <3>1. CASE u = me
      BY <1>2, <1>3, <2>1, <3>1
    <3>2. CASE u = t
      BY <1>4a, <2>1, <3>2
    <3>3. CASE u \notin {me, t}
      BY <1>3, <2>1, <3>3
    <3>4. QED
      BY <3>1, <3>2, <3>3
  <2>2. QED
    BY <2>1 DEF Fewer
<1>7. QED
  BY <1>2, <1>3, <1>4a, <1>5, <1>6 DEF new

\* A cursor does not hold what is not looked at.
LEMMA NotLost ==
    ASSUME NEW sp, NEW s, NEW c \in Cursors, NEW X, NEW e, c.halt = "no" => Holds(c, s, sp, X)
    PROVE  Loses(c, c, s, sp, X, e)
<1>1. c.halt = "no" => Proper(X \ {e}, MappedOf(c.as))
  BY ProperSub DEF Holds
<1>2. SameRest(c.as, c.as)
  BY DEF SameRest
<1>3. QED
  BY <1>1, <1>2 DEF Loses, Holds

(* A cursor and a table of threads; the space of slot s is well.                   *)
Crews == [c : Cursors, thr : ThreadTables]
Intact(c, thr, s, sp) == Sound(c, s, sp) /\ Well(c.as, thr, s)

\* A space with fewer extents and more order.
LEMMA WellFewer ==
    ASSUME NEW a, NEW b, NEW thr, NEW new, NEW s, NEW Y, Well(a, thr, s), InOrder(b),
           Proper(Y, MappedOf(b)), Extents(b, new, s) \subseteq Y, b.blocks \subseteq a.blocks
    PROVE  Well(b, new, s)
<1>1. Proper(Extents(b, new, s), MappedOf(b))
  BY ProperSub
<1>2. QED
  BY <1>1 DEF Well

\* Destroy_Thread frees the stacks of the thread that it can still find, and those that
\* the thread that runs it had are no longer known.
LEMMA FreeStacksOfIs ==
    ASSUME NEW sp \in Spacings, NEW s \in Slot, NEW x \in Crews,
           NEW me \in Thread, NEW t \in Thread, me # t, x.thr[t].active, x.thr[t].task = s,
           x.c.halt = "no" => Intact(x.c, x.thr, s, sp)
    PROVE  LET r == FreeStacksOf(x, me, t)
           IN  /\ r \in Crews /\ r.thr = ThreadGone(x.thr, me, t)
               /\ r.c.halt = "no" => /\ x.c.halt = "no" /\ Intact(r.c, r.thr, s, sp)
                                     /\ SameRest(x.c.as, r.c.as)
               /\ x.c.halt # "no" \/ x.thr[t].kernel_stack # 0 => r.c.halt = x.c.halt
<1> DEFINE c == x.c
           thr == x.thr
           ks == thr[t].kernel_stack
           us == thr[t].user_stack
           ek == KernelX(t, ks)
           eu == UserX(t, us)
           X == Extents(c.as, thr, s)
           k == IF thr[me].kernel_stack = 0 THEN c ELSE Linear_free(c, ks, STACKS_SIZE)
           u == IF us # 0 THEN Linear_free(k, us, STACKS_SIZE) ELSE k
           new == ThreadGone(thr, me, t)
           r == [c |-> u, thr |-> new]
<1>1. c \in Cursors /\ thr \in ThreadTables
  BY DEF Crews
<1>2. r = FreeStacksOf(x, me, t)
  BY Zenon DEF FreeStacksOf, ThreadGone
<1>3. ks \in Int /\ us \in Int
  BY <1>1, ThreadIs
<1>4. /\ ek[3] = ks /\ ek[4] = StackPages /\ eu[3] = us /\ eu[4] = StackPages /\ ek # eu
      /\ ks # 0 => ek \in X
      /\ us # 0 => eu \in X
  <2>1. t \in ThreadsOf(thr, s)
    BY DEF ThreadsOf
  <2>2. /\ ek[3] = ks /\ ek[4] = StackPages /\ eu[3] = us /\ eu[4] = StackPages /\ ek # eu
    BY DEF KernelX, UserX
  <2>3. ks # 0 => ek \in X
    BY <2>1 DEF Extents
  <2>4. us # 0 => eu \in X
    BY <2>1 DEF Extents
  <2>5. QED
    BY <2>2, <2>3, <2>4
<1>5. c.halt = "no" => Holds(c, s, sp, X)
  BY DEF Intact, Well, Holds
<1> HIDE DEF r, ek, eu, X, ks, us
<1>6. Loses(c, k, s, sp, X, ek) /\ (c.halt # "no" \/ ks # 0 => k.halt = c.halt)
  <2>1. CASE thr[me].kernel_stack = 0
    <3>1. k = c
      BY <2>1
    <3> HIDE DEF k, c
    <3>2. Loses(c, c, s, sp, X, ek)
      BY <1>1, <1>5, NotLost
    <3>3. QED
      BY <3>1, <3>2
  <2>2. CASE thr[me].kernel_stack # 0
    <3>1. k = Linear_free(c, ks, STACKS_SIZE)
      BY <2>2
    <3> HIDE DEF k, c
    <3>2. c.halt = "no" => Holds(c, s, sp, X) /\ (ks # 0 => ek \in X)
      BY <1>4, <1>5
    <3>3. ek[3] = ks /\ ek[4] = StackPages
      BY <1>4
    <3>4. /\ Loses(c, Linear_free(c, ks, STACKS_SIZE), s, sp, X, ek)
          /\ c.halt # "no" \/ ks # 0 => Linear_free(c, ks, STACKS_SIZE).halt = c.halt
      BY <1>1, <1>3, <3>2, <3>3, StackFreed
    <3>5. QED
      BY <3>1, <3>4
  <2>3. QED
    BY <2>1, <2>2
<1> HIDE DEF k
<1> DEFINE Y == X \ {ek}
<1>6a. k \in Cursors /\ (k.halt = "no" => c.halt = "no" /\ Holds(k, s, sp, Y) /\ SameRest(c.as, k.as))
  BY <1>6 DEF Loses
<1>6b. us # 0 /\ k.halt = "no" => eu \in Y
  BY <1>4
<1> HIDE DEF Y
<1>7. Loses(k, u, s, sp, Y, eu) /\ u.halt = k.halt
  <2>1. CASE us = 0
    <3>1. u = k
      BY <2>1
    <3> HIDE DEF u
    <3>2. Loses(k, k, s, sp, Y, eu)
      BY <1>6a, NotLost
    <3>3. QED
      BY <3>1, <3>2
  <2>2. CASE us # 0
    <3>1. u = Linear_free(k, us, STACKS_SIZE)
      BY <2>2
    <3> HIDE DEF u
    <3>2. k.halt = "no" => Holds(k, s, sp, Y) /\ (us # 0 => eu \in Y)
      BY <1>6a, <1>6b
    <3>3. eu[3] = us /\ eu[4] = StackPages
      BY <1>4
    <3>4. /\ Loses(k, Linear_free(k, us, STACKS_SIZE), s, sp, Y, eu)
          /\ k.halt # "no" \/ us # 0 => Linear_free(k, us, STACKS_SIZE).halt = k.halt
      BY <1>3, <1>6a, <3>2, <3>3, StackFreed
    <3>5. QED
      BY <2>2, <3>1, <3>4
  <2>3. QED
    BY <2>1, <2>2
<1> HIDE DEF u, c, thr
<1>8. new \in ThreadTables /\ ~new[t].active /\ Fewer(new, thr)
  BY <1>1, ThreadGoneIs
<1> HIDE DEF new
<1>9. r \in Crews /\ r.c = u /\ r.thr = new
  BY <1>7, <1>8 DEF Crews, r, Loses
<1>9a. u.halt = "no" => /\ c.halt = "no" /\ Holds(u, s, sp, Y \ {eu}) /\ SameRest(k.as, u.as)
                        /\ k.halt = "no" /\ SameRest(c.as, k.as)
  BY <1>6a, <1>7 DEF Loses
<1>10. ASSUME u.halt = "no" PROVE SameRest(c.as, u.as) /\ Well(u.as, new, s)
  <2>1. SameRest(c.as, u.as)
    BY <1>9a, <1>10 DEF SameRest
  <2>2. u.as.blocks \subseteq c.as.blocks /\ u.as.buffers \subseteq c.as.buffers
    BY <2>1 DEF SameRest
  <2>3. /\ Extents(u.as, new, s) \subseteq X
        /\ \A v : KernelX(t, v) \notin Extents(u.as, new, s) /\ UserX(t, v) \notin Extents(u.as, new, s)
    BY <1>8, <2>2, ExtentsFewer DEF X
  <2>4. Extents(u.as, new, s) \subseteq Y \ {eu}
    BY <2>3 DEF ek, eu, Y
  <2>5. Well(c.as, thr, s)
    BY <1>9a, <1>10 DEF Intact, c, thr
  <2>5a. InOrder(u.as) /\ Proper(Y \ {eu}, MappedOf(u.as))
    BY <1>9a, <1>10 DEF Holds
  <2>6. Well(u.as, new, s)
    BY <2>2, <2>4, <2>5, <2>5a, WellFewer
  <2>7. QED
    BY <2>1, <2>6
<1>11. /\ u.halt = "no" => c.halt = "no" /\ Intact(u, new, s, sp) /\ SameRest(c.as, u.as)
       /\ c.halt # "no" \/ ks # 0 => u.halt = c.halt
  BY <1>6, <1>7, <1>9a, <1>10 DEF Intact, Holds
<1>12. QED
  BY <1>2, <1>9, <1>11, Zenon DEF c, thr, ks, new

\* A table of threads without t.
LEMMA ThreadEnds ==
    ASSUME NEW thr \in ThreadTables, NEW t \in Thread
    PROVE  LET new == Put(thr, t, Ended(thr[t]))
           IN  /\ new \in ThreadTables /\ ~new[t].active /\ Fewer(new, thr)
               /\ \A u \in Thread \ {t} : new[u] = thr[u]
<1> DEFINE x == Ended(thr[t])
           new == Put(thr, t, x)
<1>0. x \in ThreadRecords /\ ~x.active
  BY ThreadIs, EndedIs
<1> HIDE DEF x
<1>1. /\ new = [u \in Thread |-> new[u]] /\ new[t] = x
      /\ \A u \in Thread \ {t} : new[u] = thr[u]
  BY DEF ThreadTables, Put
<1> HIDE DEF new
<1>2. \A u \in Thread : new[u] \in ThreadRecords
  BY <1>0, <1>1, ThreadIs
<1>3. new \in ThreadTables
  BY <1>1, <1>2 DEF ThreadTables
<1>4. Fewer(new, thr)
  BY <1>0, <1>1 DEF Fewer
<1>5. QED
  BY <1>0, <1>1, <1>3, <1>4 DEF new, x

\* FreeStacks frees the stacks of a thread.
LEMMA FreeStacksIs ==
    ASSUME NEW sp \in Spacings, NEW s \in Slot, NEW c \in Cursors, NEW thr \in ThreadTables,
           NEW t \in Thread, thr[t].active, thr[t].task = s,
           c.halt = "no" => Intact(c, thr, s, sp)
    PROVE  LET r == FreeStacks(c, thr[t])
           IN  /\ r \in Cursors /\ r.halt = c.halt
               /\ r.halt = "no" => /\ Intact(r, Put(thr, t, Ended(thr[t])), s, sp)
                                   /\ SameRest(c.as, r.as)
<1> DEFINE ks == thr[t].kernel_stack
           us == thr[t].user_stack
           ek == KernelX(t, ks)
           eu == UserX(t, us)
           X == Extents(c.as, thr, s)
           Y == X \ {ek}
           k == IF ks = 0 THEN c ELSE Linear_free(c, ks, STACKS_SIZE)
           r == IF us = 0 THEN k ELSE Linear_free(k, us, STACKS_SIZE)
           new == Put(thr, t, Ended(thr[t]))
<1>1. r = FreeStacks(c, thr[t])
  BY Zenon DEF FreeStacks
<1>2. ks \in Int /\ us \in Int
  BY ThreadIs
<1>3. /\ ek[3] = ks /\ ek[4] = StackPages /\ eu[3] = us /\ eu[4] = StackPages
      /\ ks # 0 => ek \in X
      /\ us # 0 => eu \in Y
  <2>1. t \in ThreadsOf(thr, s)
    BY DEF ThreadsOf
  <2>2. /\ ek[3] = ks /\ ek[4] = StackPages /\ eu[3] = us /\ eu[4] = StackPages /\ ek # eu
    BY DEF KernelX, UserX
  <2>3. ks # 0 => ek \in X
    BY <2>1 DEF Extents
  <2>4. us # 0 => eu \in X
    BY <2>1 DEF Extents
  <2>5. QED
    BY <2>2, <2>3, <2>4
<1>4. c.halt = "no" => Holds(c, s, sp, X)
  BY DEF Intact, Well, Holds
<1> HIDE DEF r, ek, eu, X, Y, ks, us, new
<1>5. Loses(c, k, s, sp, X, ek) /\ k.halt = c.halt
  <2>1. CASE ks = 0
    <3>1. k = c
      BY <2>1
    <3> HIDE DEF k
    <3>2. Loses(c, c, s, sp, X, ek)
      BY <1>4, NotLost
    <3>3. QED
      BY <3>1, <3>2
  <2>2. CASE ks # 0
    <3>1. k = Linear_free(c, ks, STACKS_SIZE)
      BY <2>2
    <3> HIDE DEF k
    <3>2. c.halt = "no" => Holds(c, s, sp, X) /\ (ks # 0 => ek \in X)
      BY <1>3, <1>4
    <3>3. ek[3] = ks /\ ek[4] = StackPages
      BY <1>3
    <3>4. /\ Loses(c, Linear_free(c, ks, STACKS_SIZE), s, sp, X, ek)
          /\ c.halt # "no" \/ ks # 0 => Linear_free(c, ks, STACKS_SIZE).halt = c.halt
      BY <1>2, <3>2, <3>3, StackFreed
    <3>5. QED
      BY <2>2, <3>1, <3>4
  <2>3. QED
    BY <2>1, <2>2
<1> HIDE DEF k
<1>6. k \in Cursors /\ (k.halt = "no" => Holds(k, s, sp, Y) /\ SameRest(c.as, k.as))
  BY <1>5 DEF Loses, Y
<1>7. Loses(k, r, s, sp, Y, eu) /\ r.halt = k.halt
  <2>1. CASE us = 0
    <3>1. r = k
      BY <2>1 DEF r
    <3>2. Loses(k, k, s, sp, Y, eu)
      BY <1>6, NotLost
    <3>3. QED
      BY <3>1, <3>2
  <2>2. CASE us # 0
    <3>1. r = Linear_free(k, us, STACKS_SIZE)
      BY <2>2 DEF r
    <3>2. k.halt = "no" => Holds(k, s, sp, Y) /\ (us # 0 => eu \in Y)
      BY <1>3, <1>6
    <3>3. eu[3] = us /\ eu[4] = StackPages
      BY <1>3
    <3>4. /\ Loses(k, Linear_free(k, us, STACKS_SIZE), s, sp, Y, eu)
          /\ k.halt # "no" \/ us # 0 => Linear_free(k, us, STACKS_SIZE).halt = k.halt
      BY <1>2, <1>6, <3>2, <3>3, StackFreed
    <3>5. QED
      BY <2>2, <3>1, <3>4
  <2>3. QED
    BY <2>1, <2>2
<1>8. ~new[t].active /\ Fewer(new, thr)
  BY ThreadEnds DEF new
<1>9. ASSUME r.halt = "no" PROVE Intact(r, new, s, sp) /\ SameRest(c.as, r.as)
  <2>1. SameRest(c.as, k.as) /\ SameRest(k.as, r.as) /\ Holds(r, s, sp, Y \ {eu}) /\ c.halt = "no"
    BY <1>5, <1>6, <1>7, <1>9 DEF Loses
  <2>2. SameRest(c.as, r.as)
    BY <2>1 DEF SameRest
  <2>3. r.as.blocks \subseteq c.as.blocks /\ r.as.buffers \subseteq c.as.buffers
    BY <2>2 DEF SameRest
  <2>4. /\ Extents(r.as, new, s) \subseteq X
        /\ \A v : KernelX(t, v) \notin Extents(r.as, new, s) /\ UserX(t, v) \notin Extents(r.as, new, s)
    BY <1>8, <2>3, ExtentsFewer DEF X
  <2>5. Extents(r.as, new, s) \subseteq Y \ {eu}
    BY <2>4 DEF ek, eu, Y
  <2>6. Well(c.as, thr, s)
    BY <2>1 DEF Intact
  <2>7. InOrder(r.as) /\ Proper(Y \ {eu}, MappedOf(r.as))
    BY <2>1 DEF Holds
  <2>8. Well(r.as, new, s)
    BY <2>3, <2>5, <2>6, <2>7, WellFewer
  <2>9. QED
    BY <2>1, <2>2, <2>8 DEF Intact, Holds
<1>10. r \in Cursors /\ r.halt = c.halt
  BY <1>5, <1>7 DEF Loses
<1>11. QED
  BY <1>1, <1>9, <1>10, Zenon DEF new

\* Fewer threads, and then fewer still.
LEMMA FewerTwice ==
    ASSUME NEW a, NEW b, NEW e, Fewer(b, a), Fewer(e, b)
    PROVE  Fewer(e, a)
  BY DEF Fewer

(* The kernel with the space of slot s, and the threads, of w.                     *)
KernOf(w, s) ==
    [mem |-> w.c.mem, space |-> With(space, s, w.c.as), thr |-> w.thr, halt |-> w.c.halt]

\* A slot is put in its place once, or twice.
LEMMA WithTwice ==
    ASSUME space \in Spacings, NEW s \in Slot, NEW a, NEW b
    PROVE  /\ [space EXCEPT ![s] = b] = With(space, s, b)
           /\ [With(space, s, a) EXCEPT ![s] = b] = With(space, s, b)
           /\ With(space, s, a)[s] = a
  BY DEF With, Spacings

\* The kernel as the running thread finds it.
LEMMA KernIs ==
    ASSUME space \in Spacings, halt = "no", NEW s \in Slot
    PROVE  Kern = KernOf([c |-> Cursor(space[s]), thr |-> Threads], s)
<1> DEFINE w == [c |-> Cursor(space[s]), thr |-> Threads]
<1>1. w.c = [mem |-> mem, as |-> space[s], halt |-> "no"] /\ w.thr = Threads
  BY DEF Cursor
<1> HIDE DEF w
<1>2. With(space, s, space[s]) = space
  BY DEF With, Spacings
<1>3. KernOf(w, s) = [mem |-> mem, space |-> space, thr |-> Threads, halt |-> halt]
  BY <1>1, <1>2 DEF KernOf
<1>4. QED
  BY <1>3 DEF Kern, w

\* What Destroy_Thread leaves of it, for a thread of slot s, if no table is searched.
LEMMA DestroyIs ==
    ASSUME space \in Spacings, NEW s \in Slot, NEW w \in Crews, NEW me \in Thread,
           NEW t \in Thread, me # t, w.thr[t].task = s, w.c.halt = "no" => w.c.as.active
    PROVE  Destroy_Thread(KernOf(w, s), me, t, NULL) =
              KernOf(IF w.c.halt = "no" THEN FreeStacksOf(w, me, t) ELSE w, s)
<1> DEFINE k == KernOf(w, s)
           y == [c |-> [mem |-> k.mem, as |-> k.space[s], halt |-> k.halt], thr |-> k.thr]
           x == FreeStacksOf(y, me, t)
           r == Destroy_Thread(k, me, t, NULL)
<1>1. /\ k.mem = w.c.mem /\ k.thr = w.thr /\ k.halt = w.c.halt
      /\ k.space = With(space, s, w.c.as) /\ k.space[s] = w.c.as
  BY WithTwice DEF KernOf
<1>2. Unlisted(k.space, NULL, me) = k.space
  BY Zenon DEF Unlisted
<1>3. CASE w.c.halt # "no"
  <2>1. r = k
    BY <1>1, <1>3, Zenon DEF Destroy_Thread
  <2>2. QED
    BY <1>3, <2>1
<1>4. CASE w.c.halt = "no"
  <2>1. k.thr[t].task = s /\ k.space[s].active /\ k.halt = "no"
    BY <1>1, <1>4
  <2>2. r = [mem |-> x.c.mem, space |-> [k.space EXCEPT ![s] = x.c.as], thr |-> x.thr,
             halt |-> x.c.halt]
    BY <1>2, <2>1, Zenon DEF Destroy_Thread
  <2>3. y = w
    <3>1. /\ w.c = [mem |-> w.c.mem, as |-> w.c.as, halt |-> w.c.halt]
          /\ w = [c |-> w.c, thr |-> w.thr]
      BY CursorIs DEF Crews
    <3> HIDE DEF k
    <3>2. QED
      BY <1>1, <3>1
  <2> HIDE DEF y, k, r
  <2>4. [k.space EXCEPT ![s] = x.c.as] = With(space, s, x.c.as)
    BY <1>1, WithTwice
  <2> HIDE DEF x
  <2>5. r = KernOf(x, s) /\ x = FreeStacksOf(w, me, t)
    BY <2>2, <2>3, <2>4 DEF KernOf, x
  <2>6. QED
    BY <1>4, <2>5 DEF r, k
<1>5. QED
  BY <1>3, <1>4

(* What x, left by that loop in slot s, is when t has destroyed the threads O.      *)
OthersGone(x, s, t, O) ==
    /\ x.thr[t].active = Threads[t].active /\ x.thr[t].task = s
    /\ x.c.halt = "no" =>
          /\ Intact(x.c, x.thr, s, space)
          /\ \A u \in O : ~x.thr[u].active
          /\ \A u \in Thread \ (O \cup {t}) : x.thr[u] = Threads[u]
    /\ (\A u \in O : Threads[u].kernel_stack # 0) => x.c.halt = "no"

\* The loop of Exit_Process destroys the other threads of the process, each of which
\* its table names once, and nobody else.
LEMMA DestroyOthersIs ==
    ASSUME NEW s \in Slot, NEW t \in Thread, Threads \in ThreadTables, space \in Spacings,
           task(t) = s, halt = "no", NEW a \in Crews, Kern = KernOf(a, s), a.thr = Threads,
           a.c.halt = "no", Intact(a.c, Threads, s, space), a.c.as.active, Sane(s),
           \A u \in ThreadsOf(Threads, s) : Lists(space[s].threads, u)
    PROVE  \E x \in Crews : /\ DestroyOthers(t, NULL) = KernOf(x, s)
                            /\ OthersGone(x, s, t, ThreadsOf(Threads, s) \ {t})
<1> DEFINE r == DestroyOthers(t, NULL)
           n == MAX_THREADS_PER_PROCESS
           f == space[s].threads
           O == ThreadsOf(Threads, s) \ {t}
           Step(k, i) == IF f[i] \in {NULL, t} THEN k ELSE Destroy_Thread(k, t, f[i], NULL)
           Run(g) == g = [i \in 0..n |-> IF i = 0 THEN Kern
                                         ELSE IF f[i - 1] \in {NULL, t} THEN g[i - 1]
                                         ELSE Destroy_Thread(g[i - 1], t, f[i - 1], NULL)]
           turn == CHOOSE g : Run(g)
           Good(j, x) ==
              /\ x.thr[t].active = Threads[t].active /\ x.thr[t].task = s
              /\ x.c.halt = "no" =>
                    /\ Intact(x.c, x.thr, s, space) /\ x.c.as.active
                    /\ \A i \in Index : i < j /\ f[i] \in O => ~x.thr[f[i]].active
                    /\ \A i \in Index : i >= j /\ f[i] \in O => x.thr[f[i]] = Threads[f[i]]
                    /\ \A u \in Thread \ (O \cup {t}) : x.thr[u] = Threads[u]
              /\ (\A u \in O : Threads[u].kernel_stack # 0) => x.c.halt = "no"
           G == [j \in 0..n |-> {KernOf(x, s) : x \in {z \in Crews : Good(j, z)}}]
           T == UNION {G[j] : j \in 0..n}
           F == [j \in 1..n |-> [k \in T |-> Step(k, j - 1)]]
<1>1. r = turn[n]
  BY Zenon DEF DestroyOthers, turn, Run, task
<1>2. n \in Nat /\ Index = 0..n - 1
  BY MemoryAssumption DEF Index
<1>3. O \subseteq Thread \ {t} /\ \A u \in O : Threads[u].active /\ Threads[u].task = s
  BY DEF ThreadsOf
<1>4. \A i \in Index : f[i] \in {NULL, t} \/ f[i] \in O
  <2>1. ASSUME NEW i \in Index, f[i] # NULL PROVE f[i] \in ThreadsOf(Threads, s)
    <3>1. f[i] \in Named(s) /\ f \in Listing
      BY <2>1, SpaceIs DEF Named, Spacings
    <3>2. f[i] \in Thread
      BY <2>1, <3>1 DEF Listing
    <3>3. QED
      BY <3>1, <3>2 DEF Sane, ThreadsOf, task
  <2>2. QED
    BY <2>1
<1>5. \A i, j \in Index : f[i] = f[j] /\ f[i] \in O => i = j
  BY <1>3, MemoryAssumption DEF Sane, NULL
<1>6. \A u \in O : \E i \in Index : f[i] = u /\ f[i] \notin {NULL, t}
  BY <1>3, MemoryAssumption DEF Lists, NULL
<1> HIDE DEF turn, r, n, O, f
<1>7. Kern \in G[0]
  <2>1. \A i \in Index : i >= 0 /\ ~(i < 0)
    BY <1>2
  <2>2. Threads[t].task = s
    BY DEF task
  <2>3. Good(0, a)
    BY <2>1, <2>2
  <2> HIDE DEF Good
  <2>4. QED
    BY <1>2, <2>3
<1>8. ASSUME NEW j \in 1..n, NEW k \in G[j - 1] PROVE Step(k, j - 1) \in G[j]
  <2> DEFINE i == j - 1
             u == f[i]
  <2>1. j \in 0..n /\ i \in 0..n /\ i \in Index
    BY <1>2
  <2>2. PICK x \in Crews : Good(i, x) /\ k = KernOf(x, s)
    <3> HIDE DEF Good
    <3>1. QED
      BY <2>1
  <2>3. \A v \in Index : (v < j <=> v < i \/ v = i) /\ (v >= j <=> v >= i /\ v # i)
                        /\ (v = i => v >= i)
    BY <1>2
  <2> HIDE DEF i
  <2>4. CASE u \notin O
    <3>1. Step(k, i) = k
      BY <1>4, <2>1, <2>4
    <3>2. Good(j, x)
      BY <2>1, <2>2, <2>3, <2>4
    <3> HIDE DEF Good, Step
    <3>3. QED
      BY <2>1, <2>2, <3>1, <3>2 DEF i
  <2>5. CASE x.c.halt # "no" /\ u \in O
    <3>1. u # NULL /\ u # t
      BY <1>3, <2>5, MemoryAssumption DEF NULL
    <3>2. Step(k, i) = Destroy_Thread(k, t, u, NULL)
      BY <3>1
    <3>3. Good(j, x)
      BY <2>2, <2>5
    <3>4. u \in Thread /\ KernOf(x, s).halt # "no"
      BY <1>3, <2>5 DEF KernOf
    <3> HIDE DEF Good, Step, u
    <3>5. Destroy_Thread(k, t, u, NULL) = k
      BY <2>2, <3>4, Zenon DEF Destroy_Thread
    <3>6. QED
      BY <2>1, <2>2, <3>2, <3>3, <3>5 DEF i
  <2>6. CASE x.c.halt = "no" /\ u \in O
    <3> DEFINE w == FreeStacksOf(x, t, u)
    <3>1. /\ u \in Thread /\ t # u /\ x.thr[u] = Threads[u] /\ Threads[u].active
          /\ Threads[u].task = s /\ u # NULL
      BY <1>3, <2>1, <2>2, <2>3, <2>6, MemoryAssumption DEF NULL
    <3>2. x.thr[u].task = s /\ x.thr[u].active /\ x.c.as.active /\ Intact(x.c, x.thr, s, space)
      BY <2>2, <2>6, <3>1
    <3>3. Step(k, i) = KernOf(w, s)
      <4>1. Step(k, i) = Destroy_Thread(k, t, u, NULL)
        BY <3>1
      <4> HIDE DEF Good, Step, u, w
      <4>2. Destroy_Thread(KernOf(x, s), t, u, NULL) =
               KernOf(IF x.c.halt = "no" THEN FreeStacksOf(x, t, u) ELSE x, s)
        BY <3>1, <3>2, DestroyIs
      <4>3. QED
        BY <2>2, <2>6, <4>1, <4>2 DEF w
    <3>4. /\ w \in Crews /\ w.thr = ThreadGone(x.thr, t, u)
          /\ w.c.halt = "no" => Intact(w.c, w.thr, s, space) /\ w.c.as.active
          /\ x.thr[u].kernel_stack # 0 => w.c.halt = "no"
      <4>1. LET y == FreeStacksOf(x, t, u)
            IN  /\ y \in Crews /\ y.thr = ThreadGone(x.thr, t, u)
                /\ y.c.halt = "no" => /\ x.c.halt = "no" /\ Intact(y.c, y.thr, s, space)
                                      /\ SameRest(x.c.as, y.c.as)
                /\ x.c.halt # "no" \/ x.thr[u].kernel_stack # 0 => y.c.halt = x.c.halt
        <5> HIDE DEF Good, u
        <5>1. QED
          BY <3>1, <3>2, FreeStacksOfIs
      <4> HIDE DEF Good, u
      <4>2. w.c.halt = "no" => w.c.as.active
        BY <3>2, <4>1 DEF SameRest
      <4>3. QED
        BY <2>6, <4>1, <4>2
    <3> HIDE DEF w
    <3>5. /\ ~w.thr[u].active /\ \A v \in Thread \ {t, u} : w.thr[v] = x.thr[v]
          /\ w.thr[t].active = x.thr[t].active /\ w.thr[t].task = x.thr[t].task
      <4>1. x.thr \in ThreadTables
        BY DEF Crews
      <4> HIDE DEF Good, u
      <4>2. LET y == ThreadGone(x.thr, t, u)
            IN  /\ y \in ThreadTables /\ ~y[u].active
                /\ \A v \in Thread \ {t, u} : y[v] = x.thr[v]
                /\ y[t].active = x.thr[t].active /\ y[t].task = x.thr[t].task
                /\ Fewer(y, x.thr)
        BY <3>1, <4>1, ThreadGoneIs, Zenon
      <4>3. QED
        BY <3>4, <4>2
    <3>6. ASSUME NEW v \in Index, v < j, f[v] \in O PROVE ~w.thr[f[v]].active
      BY <1>3, <2>2, <2>3, <2>6, <3>5, <3>6
    <3>7. ASSUME NEW v \in Index, v >= j, f[v] \in O PROVE w.thr[f[v]] = Threads[f[v]]
      <4>1. f[v] # u
        BY <1>5, <2>1, <2>3, <3>7
      <4>2. QED
        BY <1>3, <2>2, <2>3, <2>6, <3>5, <3>7, <4>1
    <3>8. \A v \in Thread \ (O \cup {t}) : w.thr[v] = Threads[v]
      BY <2>2, <2>6, <3>5
    <3>9. (\A v \in O : Threads[v].kernel_stack # 0) => w.c.halt = "no"
      BY <2>6, <3>1, <3>4
    <3>10. Good(j, w)
      BY <2>2, <3>4, <3>5, <3>6, <3>7, <3>8, <3>9
    <3> HIDE DEF Good, Step
    <3>11. QED
      BY <2>1, <3>3, <3>4, <3>10 DEF i
  <2>7. QED
    BY <2>4, <2>5, <2>6 DEF i
<1>9. \A j \in 1..n : \A k \in G[j - 1] : F[j][k] = Step(k, j - 1)
  <2>1. \A j \in 1..n : j - 1 \in 0..n
    BY <1>2
  <2> HIDE DEF G, Step
  <2>2. QED
    BY <2>1
<1> HIDE DEF G, F
<1>10. Leads(n, F, G)
  BY <1>8, <1>9 DEF Leads
<1>11. PICK g : Turns(g, n, Kern, F, G)
  BY <1>2, <1>7, <1>10, LoopRun
<1>12. Run(g)
  <2>1. ASSUME NEW j \in 0..n, j # 0 PROVE g[j] = Step(g[j - 1], j - 1)
    <3>1. j \in 1..n /\ j - 1 \in 0..n
      BY <1>2, <2>1
    <3> HIDE DEF Step
    <3>2. QED
      BY <1>9, <1>11, <3>1 DEF Turns
  <2>2. \A j \in 0..n : g[j] = IF j = 0 THEN Kern ELSE IF f[j - 1] \in {NULL, t} THEN g[j - 1]
                                ELSE Destroy_Thread(g[j - 1], t, f[j - 1], NULL)
    BY <1>11, <2>1 DEF Turns
  <2>3. QED
    BY <1>11, <2>2 DEF Turns
<1>13. Run(turn)
  <2> HIDE DEF Run
  <2>1. QED
    BY <1>12, Zenon DEF turn
<1>14. turn[0] = Kern /\ \A j \in 1..n : turn[j] = Step(turn[j - 1], j - 1)
  <2>1. \A j \in 0..n : turn[j] = IF j = 0 THEN Kern ELSE Step(turn[j - 1], j - 1)
    BY <1>13
  <2>2. 0 \in 0..n /\ \A j \in 1..n : j \in 0..n /\ j # 0
    BY <1>2
  <2>3. QED
    BY <2>1, <2>2, Zenon
<1> HIDE DEF Step
<1>15. \A j \in 1..n : turn[j - 1] \in G[j - 1] => turn[j] \in G[j]
  BY <1>8, <1>14
<1>16. \A j \in 0..n : turn[j] \in G[j]
  BY <1>2, <1>7, <1>14, <1>15, LoopStays
<1>17. PICK x \in Crews : r = KernOf(x, s) /\ Good(n, x)
  <2>1. r \in G[n] /\ n \in 0..n
    BY <1>1, <1>2, <1>16
  <2> HIDE DEF Good
  <2>2. QED
    BY <2>1 DEF G
<1>18. x.c.halt = "no" => \A u \in O : ~x.thr[u].active
  BY <1>2, <1>6, <1>17
<1>19. OthersGone(x, s, t, O)
  <2>1. /\ x.thr[t].active = Threads[t].active /\ x.thr[t].task = s
        /\ x.c.halt = "no" => /\ Intact(x.c, x.thr, s, space)
                              /\ \A u \in Thread \ (O \cup {t}) : x.thr[u] = Threads[u]
        /\ (\A u \in O : Threads[u].kernel_stack # 0) => x.c.halt = "no"
    BY <1>17
  <2> HIDE DEF O, Good
  <2>2. QED
    BY <1>18, <2>1, Zenon DEF OthersGone
<1> HIDE DEF Good
<1>20. QED
  BY <1>17, <1>19, Zenon DEF r, O

\* No space is a space.
LEMMA NoSpaceIs ==
    NoSpace \in Spaces /\ ~NoSpace.active /\ MappedOf(NoSpace) = {}
    /\ NoSpace.threads \in Listing /\ \A i \in Index : NoSpace.threads[i] = NULL
<1>1. NULL \in MaybePage /\ UserBase \in Int
  BY Numbers DEF MaybePage
<1>2. [d \in Pde |-> NULL] \in [Pde -> MaybePage] /\ [v \in VPage |-> NULL] \in [VPage -> MaybePage]
  BY <1>1
<1>3. <<>> \in Seq(Page)
  OBVIOUS
<1>3a. [i \in Index |-> NULL] \in Listing
  BY DEF Listing
<1>4. NoSpace \in Spaces
  BY <1>1, <1>2, <1>3, <1>3a DEF NoSpace, Spaces
<1>5. QED
  BY <1>3a, <1>4 DEF NoSpace, MappedOf

\* GiveBack frees whatever the process has left.
LEMMA GiveBackIs ==
    ASSUME NEW sp \in Spacings, NEW s \in Slot, NEW c \in Cursors,
           c.halt = "no" => Sound(c, s, sp) /\ c.as.PageDir # NULL /\ c.as.msgqueue # NULL
    PROVE  LET r == GiveBack(c)
           IN  /\ r \in Cursors
               /\ r.halt = "no" => c.halt = "no" /\ Sound(r, s, sp) /\ r.as = NoSpace
               /\ KernelTables # KDIR => r.halt = c.halt
<1> DEFINE r == GiveBack(c)
           w == Freed(c.mem, Held(c.as))
           np == With(sp, s, c.as)
<1>1. CASE c.halt # "no"
  <2>1. r = c
    BY <1>1, Zenon DEF GiveBack
  <2> HIDE DEF r
  <2>2. QED
    BY <1>1, <2>1 DEF r
<1>2. CASE c.halt = "no" /\ KernelTables = KDIR
  <2>1. r = [c EXCEPT !.halt = "kernel_freed"]
    BY <1>2, Zenon DEF GiveBack
  <2> HIDE DEF r
  <2>2. r \in Cursors /\ r.halt # "no"
    BY <2>1, CursorStops DEF Halts
  <2>3. QED
    BY <1>2, <2>2 DEF r
<1>3. CASE c.halt = "no" /\ KernelTables # KDIR
  <2>1. r = Going(w, NoSpace)
    BY <1>3, Zenon DEF GiveBack
  <2>2. c.as \in Spaces /\ c.mem \in Mems
    BY CursorIs
  <2>3. np \in Spacings /\ np[s] = c.as
    BY <2>2, WithIs
  <2>4. \A a : With(np, s, a) = With(sp, s, a)
    BY <2>2, WithIs
  <2>5. Accounted(c.mem, np) /\ np[s].PageDir # NULL /\ np[s].msgqueue # NULL
    BY <1>3, <2>3 DEF Sound
  <2> HIDE DEF np, r
  <2>6. w \in Mems /\ Accounted(w, With(np, s, NoSpace))
    <3>1. LET u == Freed(c.mem, Held(np[s]))
          IN  u \in Mems /\ Accounted(u, With(np, s, NoSpace))
      BY <2>2, <2>3, <2>5, GivenBack
    <3>2. QED
      BY <2>3, <3>1
  <2> HIDE DEF w
  <2>7. r \in Cursors /\ r.mem = w /\ r.as = NoSpace /\ r.halt = "no"
    BY <2>1, <2>6, CursorGoes, NoSpaceIs
  <2>8. Sound(r, s, sp)
    BY <2>4, <2>6, <2>7 DEF Sound
  <2>9. QED
    BY <1>3, <2>7, <2>8 DEF r
<1>4. QED
  BY <1>1, <1>2, <1>3

--------------------------------------------------------------------------------
(* The inductive invariant.                                                        *)

(* Every page has one owner; a slot that is not in use has nothing, the others are  *)
(* well; a thread is of a process that is there, and that lists it.                 *)
Settled(m, sp, thr) ==
    /\ sp \in Spacings /\ thr \in ThreadTables /\ Accounted(m, sp)
    /\ \A s \in Slot : IF sp[s].active THEN Well(sp[s], thr, s) ELSE sp[s] = NoSpace
    /\ \A t \in Thread : thr[t].active =>
          sp[thr[t].task].active /\ Lists(sp[thr[t].task].threads, t)

(* Clients free no block that fills its last page, and destroy and end processes    *)
(* whose table names their own threads; they may destroy a thread that has          *)
(* destroyed one, but not to the kernel's good.                                     *)
Careful == Careless \subseteq {"destroyer"}
Own == Careless = {} /\ KernelTables < KDIR

(* What stops the kernel if it looks after its own.                                *)
OwnHalts == Own => halt \in {"no", "finished", "null_table", "panic", "undefined"}

IInv == Settled(mem, space, Threads) /\ halt \in Halts /\ OwnHalts

(* The threads of the other processes than s are those there were, and know no more. *)
Elsewhere(new, thr, s) ==
    \A t \in Thread :
       /\ new[t].active /\ new[t].task # s =>
             /\ thr[t].active /\ thr[t].task = new[t].task
             /\ new[t].kernel_stack \in {0, thr[t].kernel_stack}
             /\ new[t].user_stack \in {0, thr[t].user_stack}
       /\ thr[t].active /\ thr[t].task # s => new[t].active /\ new[t].task = thr[t].task

\* What is held elsewhere is held there still.
LEMMA ExtentsElsewhere ==
    ASSUME NEW a, NEW thr, NEW new, NEW s, NEW q, Elsewhere(new, thr, s), q # s
    PROVE  /\ ThreadsOf(new, q) = ThreadsOf(thr, q)
           /\ Extents(a, new, q) \subseteq Extents(a, thr, q)
<1>1. ThreadsOf(new, q) = ThreadsOf(thr, q)
  BY DEF Elsewhere, ThreadsOf
<1>2. ASSUME NEW t \in ThreadsOf(new, q)
      PROVE  /\ t \in ThreadsOf(thr, q)
             /\ new[t].kernel_stack # 0 => new[t].kernel_stack = thr[t].kernel_stack
             /\ new[t].user_stack # 0 => new[t].user_stack = thr[t].user_stack
  BY <1>1, <1>2 DEF Elsewhere, ThreadsOf
<1>3. {KernelX(t, new[t].kernel_stack) : t \in {u \in ThreadsOf(new, q) : new[u].kernel_stack # 0}}
        \subseteq {KernelX(t, thr[t].kernel_stack) :
                     t \in {u \in ThreadsOf(thr, q) : thr[u].kernel_stack # 0}}
  BY <1>2
<1>4. {UserX(t, new[t].user_stack) : t \in {u \in ThreadsOf(new, q) : new[u].user_stack # 0}}
        \subseteq {UserX(t, thr[t].user_stack) :
                     t \in {u \in ThreadsOf(thr, q) : thr[u].user_stack # 0}}
  BY <1>2
<1>5. Extents(a, new, q) \subseteq Extents(a, thr, q)
  BY <1>3, <1>4, Zenon DEF Extents
<1>6. QED
  BY <1>1, <1>5

\* An operation on slot s leaves all settled if the slot and its threads are.
LEMMA Settles ==
    ASSUME NEW m, NEW sp, NEW thr, Settled(m, sp, thr), NEW s \in Slot, NEW c \in Cursors,
           NEW new \in ThreadTables, Sound(c, s, sp), Elsewhere(new, thr, s),
           IF c.as.active THEN Well(c.as, new, s) ELSE c.as = NoSpace /\ ThreadsOf(new, s) = {},
           \A t \in ThreadsOf(new, s) : Lists(c.as.threads, t)
    PROVE  Settled(c.mem, With(sp, s, c.as), new)
<1> DEFINE np == With(sp, s, c.as)
<1>1. sp \in Spacings /\ c.as \in Spaces
  BY CursorIs DEF Settled
<1>2. np \in Spacings /\ np[s] = c.as /\ \A q \in Slot : q # s => np[q] = sp[q]
  BY <1>1, WithIs
<1>3. Accounted(c.mem, np)
  BY DEF Sound
<1> HIDE DEF np
<1>4. ASSUME NEW q \in Slot PROVE IF np[q].active THEN Well(np[q], new, q) ELSE np[q] = NoSpace
  <2>1. CASE q = s
    BY <1>2, <2>1
  <2>2. CASE q # s
    <3>1. np[q] = sp[q]
      BY <1>2, <2>2
    <3>2. CASE ~sp[q].active
      BY <3>1, <3>2 DEF Settled
    <3>3. CASE sp[q].active
      <4>1. Well(sp[q], thr, q)
        BY <3>3 DEF Settled
      <4>2. Extents(sp[q], new, q) \subseteq Extents(sp[q], thr, q)
        BY <2>2, ExtentsElsewhere
      <4>3. InOrder(sp[q]) /\ Proper(Extents(sp[q], thr, q), MappedOf(sp[q]))
        BY <4>1 DEF Well
      <4>4. Well(sp[q], new, q)
        BY <4>1, <4>2, <4>3, WellFewer
      <4>5. QED
        BY <3>1, <3>3, <4>4
    <3>4. QED
      BY <3>2, <3>3
  <2>3. QED
    BY <2>1, <2>2
<1>5. ASSUME NEW t \in Thread, new[t].active
      PROVE  np[new[t].task].active /\ Lists(np[new[t].task].threads, t)
  <2>1. new[t].task \in Slot
    BY ThreadIs
  <2>2. CASE new[t].task = s
    BY <1>2, <1>5, <2>2 DEF ThreadsOf
  <2>3. CASE new[t].task # s
    <3>1. thr[t].active /\ thr[t].task = new[t].task
      BY <1>5, <2>3 DEF Elsewhere
    <3>2. sp[thr[t].task].active /\ Lists(sp[thr[t].task].threads, t)
      BY <3>1 DEF Settled
    <3>3. QED
      BY <1>2, <2>1, <2>3, <3>1, <3>2
  <2>4. QED
    BY <2>2, <2>3
<1>6. QED
  BY <1>2, <1>3, <1>4, <1>5 DEF Settled, np

--------------------------------------------------------------------------------
(* The steps.                                                                      *)

(* What an operation on slot s must leave.                                         *)
Ready(s, c, new) ==
    /\ new \in ThreadTables /\ Sound(c, s, space) /\ Elsewhere(new, Threads, s)
    /\ IF c.as.active THEN Well(c.as, new, s) ELSE c.as = NoSpace /\ ThreadsOf(new, s) = {}
    /\ \A t \in ThreadsOf(new, s) : Lists(c.as.threads, t)

\* Then its commitment keeps the invariant.
LEMMA Committed ==
    ASSUME IInv, NEW s \in Slot, NEW c \in Cursors, NEW new, Commit(s, c, new),
           c.halt = "no" => Ready(s, c, new),
           Own => c.halt \in {"no", "finished", "null_table", "panic", "undefined"}
    PROVE  IInv'
<1>1. /\ halt' = c.halt
      /\ IF c.halt = "no" THEN mem' = c.mem /\ space' = [space EXCEPT ![s] = c.as] /\ Threads' = new
         ELSE mem' = mem /\ space' = space /\ Threads' = Threads
  BY DEF Commit, Outcome
<1>2. Settled(mem, space, Threads) /\ space \in Spacings
  BY DEF IInv, Settled
<1>3. c.halt \in Halts
  BY CursorIs
<1>4. Settled(mem', space', Threads')
  <2>1. CASE c.halt # "no"
    BY <1>1, <1>2, <2>1
  <2>2. CASE c.halt = "no"
    <3>1. Ready(s, c, new)
      BY <2>2
    <3>2. Settled(c.mem, With(space, s, c.as), new)
      BY <1>2, <3>1, Settles DEF Ready
    <3>3. space' = With(space, s, c.as)
      BY <1>1, <1>2, <2>2 DEF With, Spacings
    <3>4. QED
      BY <1>1, <2>2, <3>2, <3>3
  <2>3. QED
    BY <2>1, <2>2
<1>5. OwnHalts'
  BY <1>1 DEF OwnHalts
<1>6. QED
  BY <1>1, <1>3, <1>4, <1>5 DEF IInv

\* The cursor that an operation of the running thread starts with.
LEMMA CursorOf ==
    ASSUME IInv, NEW s \in Slot, halt = "no"
    PROVE  /\ space \in Spacings /\ Threads \in ThreadTables /\ space[s] \in Spaces
           /\ Cursor(space[s]) \in Cursors /\ Cursor(space[s]).halt = "no"
           /\ Cursor(space[s]).as = space[s] /\ Cursor(space[s]).mem = mem
           /\ Sound(Cursor(space[s]), s, space)
           /\ space[s].active => Well(space[s], Threads, s)
<1> DEFINE c == Cursor(space[s])
<1>1. Settled(mem, space, Threads)
  BY DEF IInv
<1>2. /\ space \in Spacings /\ Threads \in ThreadTables /\ Accounted(mem, space) /\ mem \in Mems
      /\ space[s].active => Well(space[s], Threads, s)
  BY <1>1 DEF Settled, Accounted
<1>3. space[s] \in Spaces
  BY <1>2 DEF Spacings
<1>4. c = [mem |-> mem, as |-> space[s], halt |-> "no"]
  BY DEF Cursor
<1>5. c \in Cursors /\ c.halt = "no" /\ c.as = space[s] /\ c.mem = mem
  BY <1>2, <1>3, <1>4 DEF Cursors, Halts
<1> HIDE DEF c
<1>6. With(space, s, space[s]) = space
  BY <1>2 DEF With, Spacings
<1>7. Sound(c, s, space)
  BY <1>2, <1>5, <1>6 DEF Sound
<1>8. QED
  BY <1>2, <1>3, <1>5, <1>7 DEF c

\* The process of the running thread.
LEMMA TaskOf ==
    ASSUME IInv, NEW t \in Thread, Running(t)
    PROVE  /\ halt = "no" /\ task(t) \in Slot /\ space[task(t)].active
           /\ t \in ThreadsOf(Threads, task(t))
           /\ \A u \in ThreadsOf(Threads, task(t)) : Lists(space[task(t)].threads, u)
<1>1. Settled(mem, space, Threads) /\ Threads \in ThreadTables
  BY DEF IInv, Settled
<1>2. halt = "no" /\ Threads[t].active
  BY DEF Running
<1>3. Threads[t].task \in Slot
  BY <1>1, ThreadIs
<1>4. QED
  BY <1>1, <1>2, <1>3 DEF Settled, task, ThreadsOf

(* A cursor on a space that holds other blocks, or buffers, or lists other threads. *)
BlocksAt(c, B) == [c EXCEPT !.as.blocks = B]
BuffersAt(c, V) == [c EXCEPT !.as.buffers = V]
ListAt(c, f) == [c EXCEPT !.as.threads = f]
SameMap(a, b) ==
    /\ b.active = a.active /\ b.user = a.user /\ b.PageDir = a.PageDir
    /\ b.msgqueue = a.msgqueue /\ b.mail = a.mail /\ b.last_used_page = a.last_used_page
    /\ b.tables = a.tables /\ b.map = a.map

\* Such a cursor.
LEMMA HeldAtIs ==
    ASSUME NEW c \in Cursors
    PROVE  /\ \A B \in SUBSET [at : Int, size : Nat] :
                 LET r == BlocksAt(c, B)
                 IN  /\ r \in Cursors /\ r.mem = c.mem /\ r.halt = c.halt /\ SameMap(c.as, r.as)
                     /\ r.as.blocks = B /\ r.as.buffers = c.as.buffers /\ r.as.threads = c.as.threads
           /\ \A V \in SUBSET Int :
                 LET r == BuffersAt(c, V)
                 IN  /\ r \in Cursors /\ r.mem = c.mem /\ r.halt = c.halt /\ SameMap(c.as, r.as)
                     /\ r.as.blocks = c.as.blocks /\ r.as.buffers = V /\ r.as.threads = c.as.threads
           /\ \A f \in Listing :
                 LET r == ListAt(c, f)
                 IN  /\ r \in Cursors /\ r.mem = c.mem /\ r.halt = c.halt /\ SameMap(c.as, r.as)
                     /\ r.as.blocks = c.as.blocks /\ r.as.buffers = c.as.buffers
                     /\ r.as.threads = f
<1>1. c.as \in Spaces
  BY CursorIs
<1>2. ASSUME NEW B \in SUBSET [at : Int, size : Nat]
      PROVE  LET r == BlocksAt(c, B)
             IN  /\ r \in Cursors /\ r.mem = c.mem /\ r.halt = c.halt /\ SameMap(c.as, r.as)
                 /\ r.as.blocks = B /\ r.as.buffers = c.as.buffers /\ r.as.threads = c.as.threads
  <2> DEFINE a == [c.as EXCEPT !.blocks = B]
             r == BlocksAt(c, B)
  <2>1. /\ a \in Spaces /\ SameMap(c.as, a) /\ a.blocks = B /\ a.buffers = c.as.buffers
        /\ a.threads = c.as.threads
    BY <1>1 DEF Spaces, SameMap
  <2>2. r = [c EXCEPT !.as = a]
    BY DEF Cursors, BlocksAt
  <2> HIDE DEF a, r
  <2>3. r \in Cursors /\ r.mem = c.mem /\ r.as = a /\ r.halt = c.halt
    BY <2>1, <2>2, CursorAs
  <2>4. QED
    BY <2>1, <2>3 DEF r
<1>3. ASSUME NEW V \in SUBSET Int
      PROVE  LET r == BuffersAt(c, V)
             IN  /\ r \in Cursors /\ r.mem = c.mem /\ r.halt = c.halt /\ SameMap(c.as, r.as)
                 /\ r.as.blocks = c.as.blocks /\ r.as.buffers = V /\ r.as.threads = c.as.threads
  <2> DEFINE a == [c.as EXCEPT !.buffers = V]
             r == BuffersAt(c, V)
  <2>1. /\ a \in Spaces /\ SameMap(c.as, a) /\ a.blocks = c.as.blocks /\ a.buffers = V
        /\ a.threads = c.as.threads
    BY <1>1 DEF Spaces, SameMap
  <2>2. r = [c EXCEPT !.as = a]
    BY DEF Cursors, BuffersAt
  <2> HIDE DEF a, r
  <2>3. r \in Cursors /\ r.mem = c.mem /\ r.as = a /\ r.halt = c.halt
    BY <2>1, <2>2, CursorAs
  <2>4. QED
    BY <2>1, <2>3 DEF r
<1>4. ASSUME NEW f \in Listing
      PROVE  LET r == ListAt(c, f)
             IN  /\ r \in Cursors /\ r.mem = c.mem /\ r.halt = c.halt /\ SameMap(c.as, r.as)
                 /\ r.as.blocks = c.as.blocks /\ r.as.buffers = c.as.buffers
                 /\ r.as.threads = f
  <2> DEFINE a == [c.as EXCEPT !.threads = f]
             r == ListAt(c, f)
  <2>1. /\ a \in Spaces /\ SameMap(c.as, a) /\ a.blocks = c.as.blocks
        /\ a.buffers = c.as.buffers /\ a.threads = f
    BY <1>1 DEF Spaces, SameMap
  <2>2. r = [c EXCEPT !.as = a]
    BY DEF Cursors, ListAt
  <2> HIDE DEF a, r
  <2>3. r \in Cursors /\ r.mem = c.mem /\ r.as = a /\ r.halt = c.halt
    BY <2>1, <2>2, CursorAs
  <2>4. QED
    BY <2>1, <2>3 DEF r
<1>5. QED
  BY <1>2, <1>3, <1>4

\* Its space is as sound and as much in order.
LEMMA SameMapIs ==
    ASSUME NEW sp \in Spacings, NEW s \in Slot, NEW c \in Cursors, NEW r \in Cursors,
           r.mem = c.mem, SameMap(c.as, r.as), Sound(c, s, sp)
    PROVE  /\ Sound(r, s, sp) /\ MappedOf(r.as) = MappedOf(c.as) /\ (InOrder(c.as) => InOrder(r.as))
<1>1. /\ r.as.mail = c.as.mail /\ r.as.map = c.as.map /\ r.as.tables = c.as.tables
      /\ r.as.PageDir = c.as.PageDir /\ r.as.msgqueue = c.as.msgqueue
      /\ r.as.last_used_page = c.as.last_used_page
  BY DEF SameMap
<1>2. Sound(r, s, sp)
  BY <1>1, SoundSame
<1>3. MappedOf(r.as) = MappedOf(c.as) /\ TablesOf(r.as) = TablesOf(c.as)
  BY <1>1 DEF MappedOf, TablesOf
<1>4. InOrder(c.as) => InOrder(r.as)
  BY <1>1, <1>3 DEF InOrder, Covered
<1>5. QED
  BY <1>2, <1>3, <1>4

\* A step of a thread that changes no thread.
LEMMA Stepped ==
    ASSUME IInv, NEW t \in Thread, Running(t), NEW c \in Cursors, Commit(task(t), c, Threads),
           c.halt = "no" => /\ Intact(c, Threads, task(t), space)
                            /\ c.as.active = space[task(t)].active
                            /\ c.as.threads = space[task(t)].threads,
           Own => c.halt \in {"no", "finished", "null_table", "panic", "undefined"}
    PROVE  IInv'
<1> DEFINE s == task(t)
<1>1. /\ s \in Slot /\ space[s].active
      /\ \A u \in ThreadsOf(Threads, s) : Lists(space[s].threads, u)
  BY TaskOf
<1>2. Threads \in ThreadTables
  BY DEF IInv, Settled
<1>3. Elsewhere(Threads, Threads, s)
  BY DEF Elsewhere
<1>4. c.halt = "no" => Ready(s, c, Threads)
  BY <1>1, <1>2, <1>3 DEF Ready, Intact
<1>5. QED
  BY <1>1, <1>2, <1>4, Committed

\* One block or one buffer more is one extent more.
LEMMA ExtentsMore ==
    ASSUME NEW a, NEW b, NEW thr, NEW s
    PROVE  /\ \A x : b.blocks = a.blocks \cup {x} /\ b.buffers = a.buffers =>
                 Extents(b, thr, s) \subseteq Extents(a, thr, s) \cup {BlockX(x)}
           /\ \A v : b.blocks = a.blocks /\ b.buffers = a.buffers \cup {v} =>
                 Extents(b, thr, s) \subseteq Extents(a, thr, s) \cup {BufferX(v)}
<1>1. ASSUME NEW x, b.blocks = a.blocks \cup {x}, b.buffers = a.buffers
      PROVE  Extents(b, thr, s) \subseteq Extents(a, thr, s) \cup {BlockX(x)}
  BY <1>1 DEF Extents
<1>2. ASSUME NEW v, b.blocks = a.blocks, b.buffers = a.buffers \cup {v}
      PROVE  Extents(b, thr, s) \subseteq Extents(a, thr, s) \cup {BufferX(v)}
  BY <1>2 DEF Extents
<1>3. QED
  BY <1>1, <1>2

\* mallosso.
LEMMA StepMallosso ==
    ASSUME IInv, NEW t \in Thread, NEW d \in Sizes, mallosso(t, d)
    PROVE  IInv'
<1> DEFINE s == task(t)
           c == Cursor(space[s])
           n == d + HEADER
           l == space[s].last_used_page
           b == [at |-> l + 1, size |-> n]
           r == Linear_alloc(c, n)
           B == r.as.blocks \cup {b}
           q == BlocksAt(r, B)
           X == Extents(space[s], Threads, s)
           e == BlockX(b)
<1>1. Running(t) /\ l + Pages(n) <= MaxVPage /\ Commit(s, q, Threads)
  BY DEF mallosso, Room, BlocksAt
<1>2. s \in Slot /\ halt = "no" /\ space[s].active
  BY <1>1, TaskOf
<1>3. /\ c \in Cursors /\ c.halt = "no" /\ c.as = space[s] /\ Sound(c, s, space)
      /\ space \in Spacings /\ space[s] \in Spaces /\ Well(space[s], Threads, s)
  BY <1>2, CursorOf
<1>4. n \in Nat /\ Pages(n) \in Nat /\ l \in Int
  <2>1. n \in Nat
    BY MemoryAssumption, Numbers
  <2>2. QED
    BY <1>3, <2>1, PagesNat, SpaceIs
<1> HIDE DEF c, n, l, r, s
<1>5. /\ r \in Cursors /\ r.halt \in {"no", "finished"}
      /\ r.halt = "no" =>
            /\ Sound(r, s, space) /\ InOrder(r.as) /\ SameRest(space[s], r.as)
            /\ MappedOf(r.as) = MappedOf(space[s]) \cup (l + 1..l + Pages(n))
            /\ (l + 1..l + Pages(n)) \cap MappedOf(space[s]) = {}
  <2>1. InOrder(c.as) /\ c.as.last_used_page + Pages(n) <= MaxVPage /\ c.as.last_used_page = l
    BY <1>1, <1>3 DEF Well, l
  <2>2. QED
    BY <1>2, <1>3, <1>4, <2>1, AllocIs DEF r
<1>6. b \in [at : Int, size : Nat] /\ PagesOf(e) = l + 1..l + Pages(n)
  <2>1. e[3] = l + 1 /\ e[4] = Pages(n)
    BY DEF BlockX
  <2> HIDE DEF e
  <2>2. PagesOf(e) = l + 1..l + Pages(n)
    BY <1>4, <2>1 DEF PagesOf
  <2>3. QED
    BY <1>4, <2>2
<1>7. B \in SUBSET [at : Int, size : Nat]
  <2>1. r.as.blocks \in SUBSET [at : Int, size : Nat]
    BY <1>5, CursorIs, SpaceIs
  <2>2. QED
    BY <1>6, <2>1
<1> HIDE DEF q, e, b
<1>8. /\ q \in Cursors /\ q.mem = r.mem /\ q.halt = r.halt /\ SameMap(r.as, q.as)
      /\ q.as.blocks = B /\ q.as.buffers = r.as.buffers /\ q.as.threads = r.as.threads
  <2> HIDE DEF B
  <2>1. QED
    BY <1>5, <1>7, HeldAtIs DEF q
<1>9. ASSUME q.halt = "no"
      PROVE  /\ Intact(q, Threads, s, space) /\ q.as.active = space[s].active
             /\ q.as.threads = space[s].threads
  <2>1. /\ Sound(r, s, space) /\ InOrder(r.as) /\ SameRest(space[s], r.as)
        /\ MappedOf(r.as) = MappedOf(space[s]) \cup PagesOf(e)
        /\ PagesOf(e) \cap MappedOf(space[s]) = {}
    BY <1>5, <1>6, <1>8, <1>9
  <2>2. Sound(q, s, space) /\ MappedOf(q.as) = MappedOf(r.as) /\ InOrder(q.as)
    BY <1>2, <1>3, <1>5, <1>8, <2>1, SameMapIs
  <2>3. /\ q.as.blocks = space[s].blocks \cup {b} /\ q.as.buffers = space[s].buffers
        /\ q.as.active = space[s].active /\ q.as.threads = space[s].threads
    BY <1>8, <2>1 DEF SameRest, SameMap
  <2>4. Extents(q.as, Threads, s) \subseteq X \cup {e}
    BY <2>3, ExtentsMore DEF e
  <2>5. Proper(X \cup {e}, MappedOf(q.as))
    <3>1. Proper(X, MappedOf(space[s]))
      BY <1>3 DEF Well
    <3>2. Proper(X \cup {e}, MappedOf(space[s]) \cup PagesOf(e))
      BY <2>1, <3>1, ProperMore
    <3>3. QED
      BY <2>1, <2>2, <3>2
  <2>6. Proper(Extents(q.as, Threads, s), MappedOf(q.as))
    BY <2>4, <2>5, ProperSub
  <2>7. QED
    BY <2>2, <2>3, <2>6 DEF Intact, Well
<1>10. q.halt \in {"no", "finished", "null_table"}
  BY <1>5, <1>8
<1>11. QED
  BY <1>1, <1>8, <1>9, <1>10, Stepped DEF s

\* A step that ends with other blocks or buffers, of which Y is known to be proper.
LEMMA Reheld ==
    ASSUME IInv, NEW t \in Thread, Running(t), NEW r \in Cursors, NEW q \in Cursors, NEW Y,
           Commit(task(t), q, Threads), q.mem = r.mem, q.halt = r.halt, SameMap(r.as, q.as),
           q.as.threads = r.as.threads,
           r.halt = "no" => /\ Holds(r, task(t), space, Y) /\ SameRest(space[task(t)], r.as)
                            /\ Extents(q.as, Threads, task(t)) \subseteq Y,
           Own => r.halt \in {"no", "finished", "null_table", "panic", "undefined"}
    PROVE  IInv'
<1> DEFINE s == task(t)
<1>1. s \in Slot /\ halt = "no" /\ space \in Spacings
  BY TaskOf, CursorOf
<1>2. ASSUME q.halt = "no"
      PROVE  /\ Intact(q, Threads, s, space) /\ q.as.active = space[s].active
             /\ q.as.threads = space[s].threads
  <2>1. /\ Holds(r, s, space, Y) /\ SameRest(space[s], r.as)
        /\ Extents(q.as, Threads, s) \subseteq Y
    BY <1>2
  <2>2. Sound(r, s, space) /\ InOrder(r.as) /\ Proper(Y, MappedOf(r.as))
    BY <2>1 DEF Holds
  <2>3. Sound(q, s, space) /\ MappedOf(q.as) = MappedOf(r.as) /\ InOrder(q.as)
    BY <1>1, <2>2, SameMapIs
  <2>4. Proper(Extents(q.as, Threads, s), MappedOf(q.as))
    BY <2>1, <2>2, <2>3, ProperSub
  <2>5. QED
    BY <2>1, <2>3, <2>4 DEF Intact, Well, SameRest, SameMap
<1>3. QED
  BY <1>2, Stepped

\* One block or one buffer less is one extent less.
LEMMA ExtentsLess ==
    ASSUME NEW a \in Spaces, NEW b, NEW thr, NEW s
    PROVE  /\ \A x \in a.blocks : b.blocks = a.blocks \ {x} /\ b.buffers = a.buffers =>
                 /\ Extents(b, thr, s) \subseteq Extents(a, thr, s) \ {BlockX(x)}
                 /\ BlockX(x) \in Extents(a, thr, s)
           /\ \A v \in a.buffers : b.blocks = a.blocks /\ b.buffers = a.buffers \ {v} =>
                 /\ Extents(b, thr, s) \subseteq Extents(a, thr, s) \ {BufferX(v)}
                 /\ BufferX(v) \in Extents(a, thr, s)
<1>1. a.blocks \in SUBSET [at : Int, size : Nat]
  BY SpaceIs
<1>2. ASSUME NEW x \in a.blocks, b.blocks = a.blocks \ {x}, b.buffers = a.buffers
      PROVE  /\ Extents(b, thr, s) \subseteq Extents(a, thr, s) \ {BlockX(x)}
             /\ BlockX(x) \in Extents(a, thr, s)
  <2>1. ASSUME NEW y \in b.blocks PROVE y \in a.blocks /\ BlockX(y) # BlockX(x)
    <3>1. y \in a.blocks /\ y # x /\ x \in [at : Int, size : Nat] /\ y \in [at : Int, size : Nat]
      BY <1>1, <1>2
    <3>2. y.at # x.at \/ y.size # x.size
      BY <3>1
    <3>3. QED
      BY <3>1, <3>2 DEF BlockX
  <2>2. \A v : BufferX(v) # BlockX(x)
    BY DEF BufferX, BlockX
  <2>3. \A u, v : KernelX(u, v) # BlockX(x) /\ UserX(u, v) # BlockX(x)
    BY DEF KernelX, UserX, BlockX
  <2>4. QED
    BY <1>2, <2>1, <2>2, <2>3, Zenon DEF Extents
<1>3. ASSUME NEW v \in a.buffers, b.blocks = a.blocks, b.buffers = a.buffers \ {v}
      PROVE  /\ Extents(b, thr, s) \subseteq Extents(a, thr, s) \ {BufferX(v)}
             /\ BufferX(v) \in Extents(a, thr, s)
  <2>1. ASSUME NEW w \in b.buffers PROVE w \in a.buffers /\ BufferX(w) # BufferX(v)
    BY <1>3 DEF BufferX
  <2>2. \A x : BlockX(x) # BufferX(v)
    BY DEF BufferX, BlockX
  <2>3. \A u, w : KernelX(u, w) # BufferX(v) /\ UserX(u, w) # BufferX(v)
    BY DEF KernelX, UserX, BufferX
  <2>4. QED
    BY <1>3, <2>1, <2>2, <2>3, Zenon DEF Extents
<1>4. QED
  BY <1>2, <1>3

\* freosso.
LEMMA StepFreosso ==
    ASSUME Careful, IInv, NEW t \in Thread, freosso(t)
    PROVE  IInv'
<1> DEFINE s == task(t)
           c == Cursor(space[s])
           X == Extents(space[s], Threads, s)
<1>0. PICK b \in space[s].blocks :
         /\ HeaderFits(b)
         /\ Commit(s, [Linear_free(c, b.at, b.size) EXCEPT !.as.blocks = @ \ {b}], Threads)
  BY DEF freosso, Careful
<1> DEFINE r == Linear_free(c, b.at, b.size)
           B == r.as.blocks \ {b}
           q == BlocksAt(r, B)
           e == BlockX(b)
<1>1. Running(t) /\ Commit(s, q, Threads)
  BY <1>0 DEF freosso, BlocksAt
<1>2. s \in Slot /\ halt = "no" /\ space[s].active
  BY <1>1, TaskOf
<1>3. /\ c \in Cursors /\ c.halt = "no" /\ c.as = space[s] /\ Sound(c, s, space)
      /\ space \in Spacings /\ space[s] \in Spaces /\ Well(space[s], Threads, s)
  BY <1>2, CursorOf
<1>4. /\ b.size \in Nat /\ b.at \in Int /\ Pages(b.size + HEADER) = Pages(b.size)
  <2>1. b \in [at : Int, size : Nat]
    BY <1>3, SpaceIs
  <2>2. QED
    BY <1>0, <2>1 DEF HeaderFits
<1>5. e[3] = b.at /\ e[4] = Pages(b.size) /\ e \in X /\ Proper(X, MappedOf(space[s]))
  <2>1. e \in X
    BY DEF Extents
  <2>2. QED
    BY <1>3, <2>1 DEF BlockX, Well
<1> HIDE DEF c, s, e, X
<1>6. /\ r \in Cursors /\ r.halt = "no" /\ SameRest(space[s], r.as)
      /\ Holds(r, s, space, X \ {e})
  <2>1. Pages(b.size + HEADER) = e[4] /\ e[3] \in Int /\ InOrder(c.as)
    BY <1>3, <1>4, <1>5 DEF Well
  <2>2. LET u == Linear_free(c, e[3], b.size)
        IN  /\ u \in Cursors /\ u.halt = c.halt
            /\ u.halt = "no" => /\ Sound(u, s, space) /\ InOrder(u.as) /\ SameRest(c.as, u.as)
                                /\ MappedOf(u.as) = MappedOf(c.as) \ PagesOf(e)
                                /\ Proper(X \ {e}, MappedOf(u.as))
    BY <1>2, <1>3, <1>4, <1>5, <2>1, LinearFreeIs
  <2>3. QED
    BY <1>3, <1>5, <2>2 DEF Holds
<1> HIDE DEF r
<1>7. B \in SUBSET [at : Int, size : Nat]
  BY <1>6, CursorIs, SpaceIs
<1> HIDE DEF q
<1>8. /\ q \in Cursors /\ q.mem = r.mem /\ q.halt = r.halt /\ SameMap(r.as, q.as)
      /\ q.as.blocks = B /\ q.as.buffers = r.as.buffers /\ q.as.threads = r.as.threads
  <2> HIDE DEF B
  <2>1. QED
    BY <1>6, <1>7, HeldAtIs DEF q
<1>9. q.as.blocks = space[s].blocks \ {b} /\ q.as.buffers = space[s].buffers
  BY <1>6, <1>8 DEF SameRest
<1>10. Extents(q.as, Threads, s) \subseteq X \ {e}
  BY <1>3, <1>9, ExtentsLess DEF X, e
<1> DEFINE Y == X \ {e}
<1>11. Holds(r, s, space, Y) /\ Extents(q.as, Threads, s) \subseteq Y
  BY <1>6, <1>10
<1> HIDE DEF Y
<1>12. QED
  BY <1>1, <1>6, <1>8, <1>11, Reheld DEF s

\* getbmsg.
LEMMA StepGetbmsg ==
    ASSUME IInv, NEW t \in Thread, getbmsg(t)
    PROVE  IInv'
<1> DEFINE s == task(t)
           c == Cursor(space[s])
           v == space[s].last_used_page + 1
           r == AllocPage(c, v)
           V == r.as.buffers \cup {v}
           q == BuffersAt(r, V)
           X == Extents(space[s], Threads, s)
           e == BufferX(v)
<1>1. Running(t) /\ v <= MaxVPage /\ Commit(s, q, Threads)
  BY DEF getbmsg, Room, BuffersAt
<1>2. s \in Slot /\ halt = "no" /\ space[s].active
  BY <1>1, TaskOf
<1>3. /\ c \in Cursors /\ c.halt = "no" /\ c.as = space[s] /\ Sound(c, s, space)
      /\ space \in Spacings /\ space[s] \in Spaces /\ Well(space[s], Threads, s)
  BY <1>2, CursorOf
<1>4. InOrder(space[s]) /\ Proper(X, MappedOf(space[s]))
  BY <1>3 DEF Well
<1>5. v \in VPage /\ v \in Int /\ space[s].last_used_page \in Int /\ v \notin MappedOf(space[s])
  <2>1. space[s].last_used_page \in Int /\ UserBase \in Int
    BY <1>3, SpaceIs, Numbers
  <2>2. QED
    BY <1>1, <1>4, <2>1 DEF InOrder, VPage
<1>6. PagesOf(e) = {v}
  <2>1. e[3] = v /\ e[4] = 1
    BY DEF BufferX
  <2> HIDE DEF e, v
  <2>2. QED
    BY <1>5, <2>1 DEF PagesOf
<1> HIDE DEF c, s, e, X, r
<1>7. /\ r \in Cursors /\ r.halt \in {"no", "finished"}
      /\ r.halt = "no" => /\ Sound(r, s, space) /\ Grows(space[s], r.as, {v}, {Entry(v)})
                          /\ r.as.last_used_page = v
  <2> HIDE DEF v
  <2>1. QED
    BY <1>2, <1>3, <1>5, AllocPageIs DEF r
<1>8. r.halt = "no" => Holds(r, s, space, X \cup {e}) /\ SameRest(space[s], r.as)
  <2> SUFFICES ASSUME r.halt = "no" PROVE Holds(r, s, space, X \cup {e}) /\ SameRest(space[s], r.as)
    OBVIOUS
  <2>1. /\ Grows(space[s], r.as, {v}, {Entry(v)}) /\ r.as.last_used_page = v
        /\ Sound(r, s, space) /\ r.as \in Spaces
    BY <1>7, CursorIs
  <2>2. \A w \in {v} : Entry(w) \in {Entry(v)} /\ w <= r.as.last_used_page
    BY <1>5, <2>1
  <2>3. space[s].last_used_page <= r.as.last_used_page
    BY <1>5, <2>1
  <2> HIDE DEF v
  <2>4. InOrder(r.as)
    BY <1>3, <1>4, <2>1, <2>2, <2>3, OrderGrows
  <2>5. MappedOf(r.as) = MappedOf(space[s]) \cup PagesOf(e) /\ PagesOf(e) \cap MappedOf(space[s]) = {}
    BY <1>5, <1>6, <2>1 DEF Grows
  <2>6. Proper(X \cup {e}, MappedOf(space[s]) \cup PagesOf(e))
    BY <1>4, <2>5, ProperMore
  <2>7. QED
    BY <2>1, <2>4, <2>5, <2>6 DEF Holds, Grows
<1>9. V \in SUBSET Int
  BY <1>5, <1>7, CursorIs, SpaceIs
<1> HIDE DEF q
<1>10. /\ q \in Cursors /\ q.mem = r.mem /\ q.halt = r.halt /\ SameMap(r.as, q.as)
       /\ q.as.blocks = r.as.blocks /\ q.as.buffers = V /\ q.as.threads = r.as.threads
  <2> HIDE DEF V
  <2>1. QED
    BY <1>7, <1>9, HeldAtIs DEF q
<1> HIDE DEF v
<1>11. ASSUME r.halt = "no" PROVE Extents(q.as, Threads, s) \subseteq X \cup {e}
  <2>1. q.as.blocks = space[s].blocks /\ q.as.buffers = space[s].buffers \cup {v}
    BY <1>8, <1>10, <1>11 DEF SameRest
  <2>2. QED
    BY <2>1, ExtentsMore DEF X, e
<1> DEFINE Y == X \cup {e}
<1>12. r.halt = "no" => /\ Holds(r, s, space, Y) /\ SameRest(space[s], r.as)
                        /\ Extents(q.as, Threads, s) \subseteq Y
  BY <1>8, <1>11
<1> HIDE DEF Y
<1>13. r.halt \in {"no", "finished", "null_table"}
  BY <1>7
<1>14. QED
  BY <1>1, <1>7, <1>10, <1>12, <1>13, Reheld DEF s

\* freemsg.
LEMMA StepFreemsg ==
    ASSUME IInv, NEW t \in Thread, freemsg(t)
    PROVE  IInv'
<1> DEFINE s == task(t)
           c == Cursor(space[s])
           X == Extents(space[s], Threads, s)
<1>0. PICK v \in space[s].buffers :
         Commit(s, [UnmapPage(c, v) EXCEPT !.as.buffers = @ \ {v}], Threads)
  BY DEF freemsg
<1> DEFINE r == UnmapPage(c, v)
           V == r.as.buffers \ {v}
           q == BuffersAt(r, V)
           e == BufferX(v)
<1>1. Running(t) /\ Commit(s, q, Threads)
  BY <1>0 DEF freemsg, BuffersAt
<1>2. s \in Slot /\ halt = "no" /\ space[s].active
  BY <1>1, TaskOf
<1>3. /\ c \in Cursors /\ c.halt = "no" /\ c.as = space[s] /\ Sound(c, s, space)
      /\ space \in Spacings /\ space[s] \in Spaces /\ Well(space[s], Threads, s)
  BY <1>2, CursorOf
<1>4. InOrder(space[s]) /\ Proper(X, MappedOf(space[s]))
  BY <1>3 DEF Well
<1>5. v \in Int /\ e \in X
  <2>1. v \in Int
    BY <1>3, SpaceIs
  <2>2. QED
    BY <2>1 DEF Extents
<1>6. PagesOf(e) = {v}
  <2>1. e[3] = v /\ e[4] = 1
    BY DEF BufferX
  <2> HIDE DEF e
  <2>2. QED
    BY <1>5, <2>1 DEF PagesOf
<1> HIDE DEF c, s, e, X
<1>7. Proper(X \ {e}, MappedOf(space[s]) \ {v}) /\ v \in MappedOf(space[s])
  BY <1>4, <1>5, <1>6, ProperLess
<1> HIDE DEF r
<1>8. /\ r \in Cursors /\ r.halt = "no" /\ Sound(r, s, space) /\ Shrinks(space[s], r.as, {v})
  <2>1. LET u == UnmapPage(c, v)
        IN  /\ u \in Cursors
            /\ u.halt = "no" =>
                  /\ c.halt = "no" /\ v \in MappedOf(c.as) /\ Sound(u, s, space)
                  /\ Shrinks(c.as, u.as, {v})
            /\ c.halt # "no" \/ v \in MappedOf(c.as) => u.halt = c.halt
    BY <1>2, <1>3, <1>5, UnmapPageIs
  <2>2. QED
    BY <1>3, <1>7, <2>1 DEF r
<1>9. Holds(r, s, space, X \ {e}) /\ SameRest(space[s], r.as)
  BY <1>4, <1>7, <1>8, OrderShrinks DEF Holds, Shrinks
<1>10. V \in SUBSET Int
  BY <1>8, CursorIs, SpaceIs
<1> HIDE DEF q
<1>11. /\ q \in Cursors /\ q.mem = r.mem /\ q.halt = r.halt /\ SameMap(r.as, q.as)
       /\ q.as.blocks = r.as.blocks /\ q.as.buffers = V /\ q.as.threads = r.as.threads
  <2> HIDE DEF V
  <2>1. QED
    BY <1>8, <1>10, HeldAtIs DEF q
<1>12. q.as.blocks = space[s].blocks /\ q.as.buffers = space[s].buffers \ {v}
  BY <1>9, <1>11 DEF SameRest
<1>13. Extents(q.as, Threads, s) \subseteq X \ {e}
  BY <1>3, <1>12, ExtentsLess DEF X, e
<1> DEFINE Y == X \ {e}
<1>14. Holds(r, s, space, Y) /\ Extents(q.as, Threads, s) \subseteq Y
  BY <1>9, <1>13
<1> HIDE DEF Y
<1>15. QED
  BY <1>1, <1>8, <1>9, <1>11, <1>14, Reheld DEF s

\* Spaces with the same parts are the same.
LEMMA SpaceParts ==
    ASSUME NEW a \in Spaces, NEW b \in Spaces,
           /\ b.active = a.active /\ b.user = a.user /\ b.threads = a.threads
           /\ b.PageDir = a.PageDir /\ b.msgqueue = a.msgqueue /\ b.mail = a.mail
           /\ b.last_used_page = a.last_used_page /\ b.tables = a.tables /\ b.map = a.map
           /\ b.blocks = a.blocks /\ b.buffers = a.buffers
    PROVE  b = a
<1>1. \A x \in Spaces :
         x = [active |-> x.active, user |-> x.user, threads |-> x.threads, PageDir |-> x.PageDir,
              msgqueue |-> x.msgqueue, mail |-> x.mail, last_used_page |-> x.last_used_page,
              tables |-> x.tables, map |-> x.map, blocks |-> x.blocks, buffers |-> x.buffers]
  BY DEF Spaces
<1>2. QED
  BY <1>1, Zenon

(* The space b is a, with the map and the buffers given, and the mail.               *)
Handed(a, b, f, V, m) ==
    /\ b.active = a.active /\ b.user = a.user /\ b.threads = a.threads /\ b.PageDir = a.PageDir
    /\ b.msgqueue = a.msgqueue /\ b.last_used_page = a.last_used_page /\ b.tables = a.tables
    /\ b.blocks = a.blocks /\ b.map = f /\ b.buffers = V /\ b.mail = m

(* The spaces after a message is sent.                                               *)
Sent(sp, s, d, v, i) ==
    LET sent == [sp EXCEPT ![s].map[v] = NULL, ![s].buffers = @ \ {v}]
    IN  [sent EXCEPT ![d].mail = Append(@, i)]

\* Those spaces.
LEMMA SentIs ==
    ASSUME NEW sp \in Spacings, NEW s \in Slot, NEW d \in Slot, NEW v \in VPage,
           NEW i \in Page, NEW np, np = Sent(sp, s, d, v, i)
    PROVE  /\ np \in Spacings
           /\ \A q \in Slot :
                 Handed(sp[q], np[q], IF q = s THEN Put(sp[q].map, v, NULL) ELSE sp[q].map,
                        IF q = s THEN sp[q].buffers \ {v} ELSE sp[q].buffers,
                        IF q = d THEN Append(sp[q].mail, i) ELSE sp[q].mail)
<1> DEFINE a == [sp[s] EXCEPT !.map = Put(@, v, NULL), !.buffers = @ \ {v}]
           sent == [sp EXCEPT ![s] = a]
           b == [sent[d] EXCEPT !.mail = Append(@, i)]
<1>1. sp[s] \in Spaces /\ \A q \in Slot : sp[q] \in Spaces
  BY DEF Spacings
<1>2. Put(sp[s].map, v, NULL) \in [VPage -> MaybePage] /\ sp[s].buffers \ {v} \in SUBSET Int
  <2>1. sp[s].map \in [VPage -> MaybePage] /\ sp[s].buffers \in SUBSET Int
    BY <1>1, SpaceIs
  <2>2. NULL \in MaybePage
    BY DEF MaybePage
  <2>3. QED
    BY <2>1, <2>2 DEF Put
<1>3. a \in Spaces /\ Handed(sp[s], a, Put(sp[s].map, v, NULL), sp[s].buffers \ {v}, sp[s].mail)
  BY <1>1, <1>2 DEF Spaces, Handed
<1>4. np = [sent EXCEPT ![d] = b]
  BY <1>1, Zenon DEF Put, Sent
<1> HIDE DEF a
<1>5. sent \in Spacings /\ \A q \in Slot : sent[q] = IF q = s THEN a ELSE sp[q]
  BY <1>3 DEF Spacings
<1> HIDE DEF sent
<1>6. sent[d] \in Spaces
  BY <1>5 DEF Spacings
<1>7. Append(sent[d].mail, i) \in Seq(Page)
  <2>1. sent[d].mail \in Seq(Page)
    BY <1>6, SpaceIs
  <2>2. QED
    BY <2>1
<1>8. /\ b \in Spaces
      /\ Handed(sent[d], b, sent[d].map, sent[d].buffers, Append(sent[d].mail, i))
  BY <1>6, <1>7 DEF Spaces, Handed
<1> HIDE DEF b
<1>9. np \in Spacings /\ \A q \in Slot : np[q] = IF q = d THEN b ELSE sent[q]
  BY <1>4, <1>5, <1>8 DEF Spacings
<1>10. ASSUME NEW q \in Slot
       PROVE  Handed(sp[q], np[q], IF q = s THEN Put(sp[q].map, v, NULL) ELSE sp[q].map,
                        IF q = s THEN sp[q].buffers \ {v} ELSE sp[q].buffers,
                        IF q = d THEN Append(sp[q].mail, i) ELSE sp[q].mail)
  <2>1. Handed(sp[q], sent[q], IF q = s THEN Put(sp[q].map, v, NULL) ELSE sp[q].map,
                  IF q = s THEN sp[q].buffers \ {v} ELSE sp[q].buffers, sp[q].mail)
    BY <1>3, <1>5 DEF Handed
  <2>2. CASE q = d
    BY <1>8, <1>9, <2>1, <2>2 DEF Handed
  <2>3. CASE q # d
    BY <1>9, <2>1, <2>3
  <2>4. QED
    BY <2>2, <2>3
<1>11. QED
  BY <1>9, <1>10

\* A space that has given a buffer away, or got mail, is well.
LEMMA HandedWell ==
    ASSUME NEW a \in Spaces, NEW b, NEW thr, NEW s, Well(a, thr, s), NEW m
    PROVE  /\ Handed(a, b, a.map, a.buffers, m) => Well(b, thr, s)
           /\ \A v \in a.buffers :
                 Handed(a, b, Put(a.map, v, NULL), a.buffers \ {v}, m) => Well(b, thr, s)
<1>1. InOrder(a) /\ Proper(Extents(a, thr, s), MappedOf(a))
  BY DEF Well
<1>2. ASSUME Handed(a, b, a.map, a.buffers, m) PROVE Well(b, thr, s)
  <2>1. /\ MappedOf(b) = MappedOf(a) /\ TablesOf(b) = TablesOf(a)
        /\ Extents(b, thr, s) = Extents(a, thr, s)
    BY <1>2 DEF Handed, MappedOf, TablesOf, Extents
  <2>2. InOrder(b)
    BY <1>1, <1>2, <2>1 DEF InOrder, Covered, Handed
  <2>3. QED
    BY <1>1, <1>2, <2>1, <2>2 DEF Well, Handed
<1>3. ASSUME NEW v \in a.buffers, Handed(a, b, Put(a.map, v, NULL), a.buffers \ {v}, m)
      PROVE  Well(b, thr, s)
  <2> DEFINE e == BufferX(v)
             X == Extents(a, thr, s)
  <2>1. b.blocks = a.blocks /\ b.buffers = a.buffers \ {v} /\ TablesOf(b) = TablesOf(a)
    BY <1>3 DEF Handed, TablesOf
  <2>2. Extents(b, thr, s) \subseteq X \ {e} /\ e \in X
    BY <2>1, ExtentsLess
  <2>3. v \in Int
    BY SpaceIs
  <2>4. PagesOf(e) = {v}
    <3>1. e[3] = v /\ e[4] = 1
      BY DEF BufferX
    <3> HIDE DEF e
    <3>2. QED
      BY <2>3, <3>1 DEF PagesOf
  <2> HIDE DEF X, e
  <2>5. Proper(X \ {e}, MappedOf(a) \ {v})
    BY <1>1, <2>2, <2>4, ProperLess DEF X
  <2>6. MappedOf(b) = MappedOf(a) \ {v}
    <3>1. a.map \in [VPage -> MaybePage]
      BY SpaceIs
    <3>2. b.map = Put(a.map, v, NULL)
      BY <1>3 DEF Handed
    <3>3. \A w \in VPage : b.map[w] = IF w = v THEN NULL ELSE a.map[w]
      BY <3>1, <3>2 DEF Put
    <3>4. QED
      BY <3>3 DEF MappedOf
  <2>7. InOrder(b)
    BY <1>1, <1>3, <2>1, <2>6 DEF InOrder, Covered, Handed
  <2>8. Proper(Extents(b, thr, s), MappedOf(b))
    BY <2>2, <2>5, <2>6, ProperSub
  <2>9. QED
    BY <1>3, <2>7, <2>8 DEF Well, Handed
<1>4. QED
  BY <1>2, <1>3

\* sendmsg.
LEMMA StepSendmsg ==
    ASSUME IInv, NEW t \in Thread, NEW d \in Slot, sendmsg(t, d)
    PROVE  IInv'
<1> DEFINE s == task(t)
           np == space'
<1>0. PICK v \in space[s].buffers :
         LET sent == [space EXCEPT ![s].map[v] = NULL, ![s].buffers = @ \ {v}]
         IN  np = [sent EXCEPT ![d].mail = Append(@, space[s].map[v])]
  BY DEF sendmsg
<1> DEFINE i == space[s].map[v]
           x == <<"map", v>>
           e == BufferX(v)
<1>1. Running(t) /\ space[d].active /\ mem' = mem /\ Threads' = Threads /\ halt' = halt
  BY DEF sendmsg
<1>2. s \in Slot /\ halt = "no" /\ space[s].active
  BY <1>1, TaskOf
<1>3. /\ space \in Spacings /\ space[s] \in Spaces /\ Well(space[s], Threads, s)
      /\ Settled(mem, space, Threads) /\ Accounted(mem, space) /\ mem \in Mems
      /\ \A q \in Slot : space[q] \in Spaces
  BY <1>2, CursorOf DEF IInv, Settled, Accounted, Spacings
<1>4. v \in VPage /\ i \in Page /\ v \in Int
  <2>1. v \in Int
    BY <1>3, SpaceIs
  <2>2. e \in Extents(space[s], Threads, s)
    BY DEF Extents
  <2>3. PagesOf(e) \subseteq MappedOf(space[s])
    BY <1>3, <2>2 DEF Well, Proper
  <2>4. e[3] = v /\ e[4] = 1
    BY DEF BufferX
  <2> HIDE DEF e
  <2>5. v \in PagesOf(e)
    BY <2>1, <2>4 DEF PagesOf
  <2>6. v \in VPage /\ i # NULL
    BY <2>3, <2>5 DEF MappedOf
  <2>7. i \in MaybePage
    BY <1>3, <2>6, SpaceIs
  <2>8. QED
    BY <2>1, <2>6, <2>7 DEF MaybePage
<1> HIDE DEF s, i
<1>5. /\ np \in Spacings
      /\ \A q \in Slot :
            Handed(space[q], np[q], IF q = s THEN Put(space[q].map, v, NULL) ELSE space[q].map,
                   IF q = s THEN space[q].buffers \ {v} ELSE space[q].buffers,
                   IF q = d THEN Append(space[q].mail, i) ELSE space[q].mail)
  <2>1. np = Sent(space, s, d, v, i)
    BY <1>0, Zenon DEF i, Sent, s
  <2> HIDE DEF np
  <2>2. QED
    BY <1>2, <1>3, <1>4, <2>1, SentIs
<1> HIDE DEF np
<1>6. \A q \in Slot : np[q].mail = IF q = d THEN Append(space[q].mail, i) ELSE space[q].mail
  BY <1>5 DEF Handed
<1>7. x \in Spots /\ x[1] = "map" /\ At(space[s], x) = i
  BY <1>4, AtIs DEF Spots, At, i
<1>8. ASSUME NEW q \in Slot, NEW y \in Spots
      PROVE  At(np[q], y) = IF q = s /\ y = x THEN NULL ELSE At(space[q], y)
  <2>1. /\ np[q].PageDir = space[q].PageDir /\ np[q].msgqueue = space[q].msgqueue
        /\ np[q].tables = space[q].tables
        /\ np[q].map = IF q = s THEN Put(space[q].map, v, NULL) ELSE space[q].map
    BY <1>5 DEF Handed
  <2>2. space[q].map \in [VPage -> MaybePage]
    BY <1>3, SpaceIs
  <2>3. CASE y[1] # "map"
    <3>1. At(np[q], y) = At(space[q], y)
      BY <2>1, <2>3 DEF Spots, At
    <3>2. QED
      BY <2>3, <3>1
  <2>4. CASE y[1] = "map"
    <3>1. PICK w \in VPage : y = <<"map", w>>
      BY <2>4 DEF Spots
    <3>2. At(np[q], y) = np[q].map[w] /\ At(space[q], y) = space[q].map[w]
      BY <3>1 DEF At
    <3>3. np[q].map[w] = IF q = s /\ w = v THEN NULL ELSE space[q].map[w]
      BY <2>1, <2>2 DEF Put
    <3>4. QED
      BY <3>1, <3>2, <3>3
  <2>5. QED
    BY <2>3, <2>4
<1>9. Accounted(mem, np)
  BY <1>2, <1>3, <1>4, <1>5, <1>6, <1>7, <1>8, PageSent
<1>10. ASSUME NEW q \in Slot
       PROVE  /\ np[q].active = space[q].active /\ np[q].threads = space[q].threads
              /\ IF np[q].active THEN Well(np[q], Threads, q) ELSE np[q] = NoSpace
  <2>1. np[q].active = space[q].active /\ np[q].threads = space[q].threads
    BY <1>5 DEF Handed
  <2>2. CASE space[q].active
    <3>1. Well(space[q], Threads, q)
      BY <1>3, <2>2 DEF Settled
    <3>2. CASE q = s
      <4>1. Handed(space[q], np[q], Put(space[q].map, v, NULL), space[q].buffers \ {v}, np[q].mail)
        BY <1>5, <1>6, <3>2
      <4>2. v \in space[q].buffers
        BY <3>2 DEF s
      <4>3. Well(np[q], Threads, q)
        BY <1>3, <3>1, <4>1, <4>2, HandedWell
      <4>4. QED
        BY <2>1, <2>2, <4>3
    <3>3. CASE q # s
      <4>1. Handed(space[q], np[q], space[q].map, space[q].buffers, np[q].mail)
        BY <1>5, <1>6, <3>3
      <4>2. Well(np[q], Threads, q)
        BY <1>3, <3>1, <4>1, HandedWell
      <4>3. QED
        BY <2>1, <2>2, <4>2
    <3>4. QED
      BY <3>2, <3>3
  <2>3. CASE ~space[q].active
    <3>1. q # s /\ q # d
      BY <1>1, <1>2, <2>3
    <3>2. Handed(space[q], np[q], space[q].map, space[q].buffers, space[q].mail)
      BY <1>5, <3>1
    <3>3. np[q] \in Spaces
      BY <1>5 DEF Spacings
    <3>4. np[q] = space[q]
      <4>1. /\ np[q].active = space[q].active /\ np[q].user = space[q].user
            /\ np[q].threads = space[q].threads /\ np[q].PageDir = space[q].PageDir
            /\ np[q].msgqueue = space[q].msgqueue /\ np[q].mail = space[q].mail
            /\ np[q].last_used_page = space[q].last_used_page
            /\ np[q].tables = space[q].tables /\ np[q].map = space[q].map
            /\ np[q].blocks = space[q].blocks /\ np[q].buffers = space[q].buffers
        BY <3>2 DEF Handed
      <4>2. QED
        BY <1>3, <3>3, <4>1, SpaceParts
    <3>5. QED
      BY <1>3, <2>3, <3>4 DEF Settled
  <2>4. QED
    BY <2>1, <2>2, <2>3
<1>11. Settled(mem, np, Threads)
  BY <1>3, <1>5, <1>9, <1>10, ThreadIs DEF Settled
<1>12. QED
  BY <1>1, <1>11 DEF IInv, OwnHalts, np

\* getpagetable looks at nothing but the memory and the tables, and changes nothing else.
LEMMA SameTable ==
    ASSUME NEW c \in Cursors, NEW e \in Cursors, e.mem = c.mem, e.halt = c.halt,
           e.as.tables = c.as.tables, NEW v \in VPage, NEW h \in Halts,
           c.halt = "no" => Kept(c.mem)
    PROVE  LET r == getpagetable(c, v, h)
               z == getpagetable(e, v, h)
           IN  /\ z \in Cursors /\ z.mem = r.mem /\ z.halt = r.halt /\ z.as.tables = r.as.tables
               /\ SameRest(e.as, z.as) /\ z.as.map = e.as.map
               /\ z.as.last_used_page = e.as.last_used_page
               /\ SameRest(c.as, r.as) /\ r.as.map = c.as.map
<1> DEFINE r == getpagetable(c, v, h)
           z == getpagetable(e, v, h)
           m == c.mem
           i == m.pt_pages
           d == Entry(v)
           b == TableAt(c.as, d, i)
           f == TableAt(e.as, d, i)
<1>1. /\ m \in Mems /\ c.as \in Spaces /\ e.as \in Spaces /\ d \in Pde
      /\ SameRest(c.as, c.as) /\ SameRest(e.as, e.as)
  BY CursorIs, EntryOf DEF SameRest
<1>2. CASE c.halt # "no" \/ c.as.tables[d] # NULL
  <2>1. r = c /\ z = e
    BY <1>2, Zenon DEF getpagetable
  <2> HIDE DEF r, z
  <2>2. QED
    BY <1>1, <2>1 DEF r, z
<1>3. CASE c.halt = "no" /\ c.as.tables[d] = NULL /\ m.pagelist[i] # "FREE"
  <2>1. r = [c EXCEPT !.halt = h] /\ z = [e EXCEPT !.halt = h]
    BY <1>3, Zenon DEF getpagetable
  <2>2. r.mem = c.mem /\ r.as = c.as /\ r.halt = h /\ z.mem = e.mem /\ z.as = e.as /\ z.halt = h
    BY <2>1 DEF Cursors
  <2> HIDE DEF r, z
  <2>3. z \in Cursors
    BY <2>1, CursorStops
  <2>4. QED
    BY <1>1, <2>2, <2>3 DEF r, z
<1>4. CASE c.halt = "no" /\ c.as.tables[d] = NULL /\ m.pagelist[i] = "FREE"
  <2>1. r = Going(TakenTop(m), b) /\ z = Going(TakenTop(m), f)
    BY <1>4, Zenon DEF getpagetable, TableAt
  <2>2. i \in Page /\ TakenTop(m) \in Mems
    BY <1>1, <1>4, TableKept
  <2>3. /\ SameRest(c.as, b) /\ SameRest(e.as, f) /\ b.map = c.as.map /\ f.map = e.as.map
        /\ f.last_used_page = e.as.last_used_page /\ b \in Spaces /\ f \in Spaces
    BY <1>1, <2>2, TableAtIs DEF Placed
  <2>4. b.tables = Put(c.as.tables, d, i) /\ f.tables = Put(e.as.tables, d, i)
    BY <1>1 DEF TableAt, Spaces, Put
  <2> HIDE DEF r, z, b, f, i, d
  <2>5. /\ r.mem = TakenTop(m) /\ r.as = b /\ r.halt = "no"
        /\ z \in Cursors /\ z.mem = TakenTop(m) /\ z.as = f /\ z.halt = "no"
    BY <2>1, <2>2, <2>3, CursorGoes
  <2>6. QED
    BY <2>3, <2>4, <2>5 DEF r, z
<1>5. QED
  BY <1>2, <1>3, <1>4

(* A cursor on a space that has got page i at v, as a buffer.                        *)
Received(r, v, i) == [r EXCEPT !.as.map[v] = i, !.as.buffers = @ \cup {v}]

\* Such a cursor.
LEMMA ReceivedIs ==
    ASSUME NEW r \in Cursors, NEW v \in VPage, NEW i \in Page
    PROVE  LET q == Received(r, v, i)
           IN  /\ q \in Cursors /\ q.mem = r.mem /\ q.halt = r.halt
               /\ Handed(r.as, q.as, Put(r.as.map, v, i), r.as.buffers \cup {v}, r.as.mail)
               /\ \A y \in Spots : At(q.as, y) = IF y = <<"map", v>> THEN i ELSE At(r.as, y)
               /\ MappedOf(q.as) = MappedOf(r.as) \cup {v}
<1> DEFINE a == [r.as EXCEPT !.map = Put(@, v, i), !.buffers = @ \cup {v}]
           q == Received(r, v, i)
<1>1. r.as \in Spaces /\ i \in MaybePage /\ i # NULL /\ v \in Int
  BY CursorIs, Numbers, EntryOf DEF MaybePage
<1>2. Put(r.as.map, v, i) \in [VPage -> MaybePage] /\ r.as.buffers \cup {v} \in SUBSET Int
  <2>1. r.as.map \in [VPage -> MaybePage] /\ r.as.buffers \in SUBSET Int
    BY <1>1, SpaceIs
  <2>2. QED
    BY <1>1, <2>1 DEF Put
<1>3. /\ a \in Spaces
      /\ Handed(r.as, a, Put(r.as.map, v, i), r.as.buffers \cup {v}, r.as.mail)
  BY <1>1, <1>2 DEF Spaces, Handed
<1>4. q = [r EXCEPT !.as = a]
  BY Zenon DEF Received, Put
<1> HIDE DEF a, q
<1>5. q \in Cursors /\ q.mem = r.mem /\ q.as = a /\ q.halt = r.halt
  BY <1>3, <1>4, CursorAs
<1>6. /\ Placed(r.as, MapAt(r.as, v, i), <<"map", v>>, i)
      /\ MappedOf(MapAt(r.as, v, i)) = MappedOf(r.as) \cup {v}
  BY <1>1, MapAtIs
<1>7. /\ a.map = MapAt(r.as, v, i).map /\ a.tables = MapAt(r.as, v, i).tables
      /\ a.PageDir = MapAt(r.as, v, i).PageDir /\ a.msgqueue = MapAt(r.as, v, i).msgqueue
  BY <1>1 DEF Spaces, a, MapAt, Put
<1>8. \A y \in Spots : At(a, y) = At(MapAt(r.as, v, i), y)
  BY <1>7, Zenon DEF At
<1>9. MappedOf(a) = MappedOf(MapAt(r.as, v, i))
  BY <1>7, Zenon DEF MappedOf
<1>10. QED
  BY <1>3, <1>5, <1>6, <1>8, <1>9 DEF Placed, q

\* recmsg: a table may be needed before the page goes from the queue to the map.
LEMMA StepRecmsg ==
    ASSUME IInv, NEW t \in Thread, recmsg(t)
    PROVE  IInv'
<1> DEFINE s == task(t)
           c == Cursor(space[s])
           v == space[s].last_used_page + 1
           i == Head(space[s].mail)
           a == [space[s] EXCEPT !.mail = Tail(@), !.last_used_page = v]
           k == Cursor(a)
           r == getpagetable(c, v, "finished")
           z == getpagetable(k, v, "finished")
           q == Received(z, v, i)
           X == Extents(space[s], Threads, s)
           e == BufferX(v)
           sp == With(space, s, r.as)
           x == <<"map", v>>
<1>1. Running(t) /\ space[s].mail # <<>> /\ v <= MaxVPage /\ Commit(s, q, Threads)
  <2>1. Commit(s, [z EXCEPT !.as.map[v] = i, !.as.buffers = @ \cup {v}], Threads)
    BY Zenon DEF recmsg
  <2>2. QED
    BY <2>1, Zenon DEF recmsg, Room, Received
<1>2. s \in Slot /\ halt = "no" /\ space[s].active
  BY <1>1, TaskOf
<1>3. /\ c \in Cursors /\ c.halt = "no" /\ c.as = space[s] /\ c.mem = mem /\ Sound(c, s, space)
      /\ space \in Spacings /\ space[s] \in Spaces /\ Well(space[s], Threads, s)
  BY <1>2, CursorOf
<1>4. InOrder(space[s]) /\ Proper(X, MappedOf(space[s]))
  BY <1>3 DEF Well
<1>5. v \in VPage /\ v \in Int /\ space[s].last_used_page \in Int /\ v \notin MappedOf(space[s])
  <2>1. space[s].last_used_page \in Int /\ UserBase \in Int
    BY <1>3, SpaceIs, Numbers
  <2>2. QED
    BY <1>1, <1>4, <2>1 DEF InOrder, VPage
<1>6. i \in Page /\ Tail(space[s].mail) \in Seq(Page)
  <2>1. space[s].mail \in Seq(Page)
    BY <1>3, SpaceIs
  <2>2. QED
    BY <1>1, <2>1
<1>7. /\ a \in Spaces
      /\ a.active = space[s].active /\ a.user = space[s].user /\ a.threads = space[s].threads
      /\ a.PageDir = space[s].PageDir /\ a.msgqueue = space[s].msgqueue
      /\ a.blocks = space[s].blocks /\ a.buffers = space[s].buffers
      /\ a.tables = space[s].tables /\ a.map = space[s].map
      /\ a.mail = Tail(space[s].mail) /\ a.last_used_page = v
  <2> HIDE DEF v, s
  <2>1. QED
    BY <1>3, <1>5, <1>6 DEF Spaces
<1> HIDE DEF a
<1>8. k \in Cursors /\ k.mem = c.mem /\ k.halt = c.halt /\ k.as = a
  <2>1. k = [mem |-> mem, as |-> a, halt |-> "no"] /\ mem \in Mems
    BY <1>2, <1>3, CursorIs DEF Cursor
  <2>2. QED
    BY <1>3, <1>7, <2>1 DEF Cursors, Halts
<1> HIDE DEF c, s, e, X, r, v, k, i
<1>9. "finished" \in Halts \ {"no"}
  BY DEF Halts
<1>10. /\ r \in Cursors /\ r.halt \in {"no", "finished"}
       /\ r.halt = "no" => Sound(r, s, space) /\ Grows(space[s], r.as, {}, {Entry(v)})
                           /\ r.as.map = space[s].map
  BY <1>2, <1>3, <1>5, <1>9, GetTable DEF r
<1>11. /\ z \in Cursors /\ z.mem = r.mem /\ z.halt = r.halt /\ z.as.tables = r.as.tables
       /\ SameRest(a, z.as) /\ z.as.map = space[s].map /\ z.as.last_used_page = v
       /\ SameRest(space[s], r.as) /\ r.as.map = space[s].map
  <2>1. Kept(c.mem)
    BY <1>3 DEF Sound, Accounted
  <2>2. k.as.tables = c.as.tables /\ "finished" \in Halts
    BY <1>3, <1>7, <1>8, <1>9
  <2>3. LET u == getpagetable(c, v, "finished")
            w == getpagetable(k, v, "finished")
        IN  /\ w \in Cursors /\ w.mem = u.mem /\ w.halt = u.halt /\ w.as.tables = u.as.tables
            /\ SameRest(k.as, w.as) /\ w.as.map = k.as.map
            /\ w.as.last_used_page = k.as.last_used_page
            /\ SameRest(c.as, u.as) /\ u.as.map = c.as.map
    BY <1>3, <1>5, <1>8, <2>1, <2>2, SameTable
  <2>4. QED
    BY <1>3, <1>7, <1>8, <2>3 DEF r
<1> HIDE DEF z
<1>12. /\ q \in Cursors /\ q.mem = z.mem /\ q.halt = z.halt
       /\ Handed(z.as, q.as, Put(z.as.map, v, i), z.as.buffers \cup {v}, z.as.mail)
       /\ \A y \in Spots : At(q.as, y) = IF y = x THEN i ELSE At(z.as, y)
       /\ MappedOf(q.as) = MappedOf(z.as) \cup {v}
  <2>1. z \in Cursors
    BY <1>11
  <2>2. QED
    BY <1>5, <1>6, <2>1, ReceivedIs, Zenon
<1> HIDE DEF q
<1>13. /\ q.as.active = space[s].active /\ q.as.threads = space[s].threads
       /\ q.as.PageDir = space[s].PageDir /\ q.as.msgqueue = space[s].msgqueue
       /\ q.as.mail = Tail(space[s].mail) /\ q.as.last_used_page = v
       /\ q.as.tables = r.as.tables /\ q.as.blocks = space[s].blocks
       /\ q.as.buffers = space[s].buffers \cup {v}
  BY <1>7, <1>11, <1>12 DEF Handed, SameRest
<1>14. ASSUME q.halt = "no" PROVE Intact(q, Threads, s, space)
  <2>1. r.halt = "no" /\ Sound(r, s, space) /\ Grows(space[s], r.as, {}, {Entry(v)})
    BY <1>10, <1>11, <1>12, <1>14
  <2>2. r.as \in Spaces /\ r.mem \in Mems /\ q.as \in Spaces
    BY <1>10, <1>12, CursorIs
  <2>3. sp \in Spacings /\ sp[s] = r.as /\ With(sp, s, q.as) = With(space, s, q.as)
    BY <1>2, <1>3, <2>2, WithIs
  <2>4. Accounted(r.mem, sp)
    BY <2>1 DEF Sound
  <2>5. x \in Spots /\ x[1] = "map" /\ At(r.as, x) = NULL
    <3>1. space[s].map[v] = NULL
      BY <1>5 DEF MappedOf
    <3>2. QED
      BY <1>5, <1>11, <3>1 DEF Spots, At
  <2>6. \A y \in Spots : At(z.as, y) = At(r.as, y)
    <3>1. /\ z.as.PageDir = r.as.PageDir /\ z.as.msgqueue = r.as.msgqueue
          /\ z.as.tables = r.as.tables /\ z.as.map = r.as.map
      BY <1>7, <1>11 DEF SameRest
    <3>2. QED
      BY <3>1, Zenon DEF At
  <2>7. r.as.mail = space[s].mail
    BY <1>11 DEF SameRest
  <2> HIDE DEF x, sp
  <2>8. Accounted(r.mem, With(sp, s, q.as))
    <3>1. \A y \in Spots : At(q.as, y) = IF y = x THEN Head(sp[s].mail) ELSE At(sp[s], y)
      BY <1>12, <2>3, <2>6, <2>7 DEF i
    <3>2. q.as.mail = Tail(sp[s].mail) /\ sp[s].mail # <<>> /\ At(sp[s], x) = NULL
      BY <1>1, <1>13, <2>3, <2>5, <2>7
    <3>3. QED
      BY <1>2, <2>2, <2>3, <2>4, <2>5, <3>1, <3>2, PageReceived
  <2>9. Sound(q, s, space)
    BY <1>11, <1>12, <2>3, <2>8 DEF Sound
  <2>10. MappedOf(q.as) = MappedOf(space[s]) \cup {v}
    BY <1>11, <1>12, Zenon DEF MappedOf
  <2>11. TablesOf(q.as) = TablesOf(space[s]) \cup {Entry(v)}
    <3>1. TablesOf(q.as) = TablesOf(r.as)
      BY <1>13, Zenon DEF TablesOf
    <3>2. QED
      BY <2>1, <3>1 DEF Grows
  <2>12. InOrder(q.as)
    <3>1. Covered(q.as)
      BY <1>4, <2>10, <2>11 DEF InOrder, Covered
    <3>2. space[s].last_used_page <= v /\ UserBase \in Int /\ \A w \in MappedOf(space[s]) : w \in Int
      BY <1>5, EntryOf, Numbers DEF v, MappedOf
    <3>3. UserBase <= v /\ \A w \in MappedOf(q.as) : w <= v
      BY <1>4, <1>5, <2>10, <3>2 DEF InOrder
    <3>4. QED
      BY <1>4, <1>13, <3>1, <3>3 DEF InOrder
  <2>13. PagesOf(e) = {v}
    <3>1. e[3] = v /\ e[4] = 1
      BY DEF e, BufferX
    <3>2. QED
      BY <1>5, <3>1 DEF PagesOf
  <2>14. Proper(X \cup {e}, MappedOf(q.as))
    <3>1. PagesOf(e) \cap MappedOf(space[s]) = {}
      BY <1>5, <2>13
    <3>2. Proper(X \cup {e}, MappedOf(space[s]) \cup PagesOf(e))
      BY <1>4, <3>1, ProperMore
    <3>3. QED
      BY <2>10, <2>13, <3>2
  <2>15. Extents(q.as, Threads, s) \subseteq X \cup {e}
    BY <1>13, ExtentsMore DEF X, e
  <2>16. Proper(Extents(q.as, Threads, s), MappedOf(q.as))
    BY <2>14, <2>15, ProperSub
  <2>17. Well(q.as, Threads, s)
    BY <1>3, <1>13, <2>12, <2>16 DEF Well
  <2>18. QED
    BY <2>9, <2>17 DEF Intact
<1>15. q.halt \in {"no", "finished", "null_table"}
  BY <1>10, <1>11, <1>12
<1>16. QED
  BY <1>1, <1>12, <1>13, <1>14, <1>15, Stepped DEF s

\* A table of threads with a new thread of slot s.
LEMMA ThreadStarts ==
    ASSUME NEW thr \in ThreadTables, NEW n \in Thread, ~thr[n].active, NEW s \in Slot,
           NEW x \in ThreadRecords, x.active, x.task = s
    PROVE  LET new == Put(thr, n, x)
           IN  /\ new \in ThreadTables /\ new[n] = x /\ \A u \in Thread \ {n} : new[u] = thr[u]
               /\ Elsewhere(new, thr, s) /\ ThreadsOf(new, s) = ThreadsOf(thr, s) \cup {n}
<1> DEFINE new == Put(thr, n, x)
<1>1. /\ new \in [Thread -> ThreadRecords] /\ new[n] = x
      /\ \A u \in Thread \ {n} : new[u] = thr[u]
  BY DEF ThreadTables, Put
<1> HIDE DEF new
<1>2. Elsewhere(new, thr, s)
  BY <1>1 DEF Elsewhere
<1>3. ThreadsOf(new, s) = ThreadsOf(thr, s) \cup {n}
  BY <1>1 DEF ThreadsOf
<1>4. QED
  BY <1>1, <1>2, <1>3 DEF new, ThreadTables

\* What it holds is all that is new.
LEMMA ExtentsStarts ==
    ASSUME NEW a, NEW b, NEW thr \in ThreadTables, NEW n \in Thread, ~thr[n].active,
           NEW s \in Slot, NEW x \in ThreadRecords, x.active, x.task = s,
           b.blocks = a.blocks, b.buffers = a.buffers
    PROVE  Extents(b, Put(thr, n, x), s) \subseteq
              Extents(a, thr, s) \cup {KernelX(n, x.kernel_stack)}
                \cup {UserX(n, v) : v \in {w \in {x.user_stack} : w # 0}}
<1> DEFINE new == Put(thr, n, x)
<1>1. /\ new[n] = x /\ \A u \in Thread \ {n} : new[u] = thr[u]
      /\ ThreadsOf(new, s) = ThreadsOf(thr, s) \cup {n}
  BY ThreadStarts
<1>2. \A u \in ThreadsOf(thr, s) : u \in Thread /\ u # n
  BY DEF ThreadsOf
<1> HIDE DEF new
<1>3. {KernelX(u, new[u].kernel_stack) : u \in {w \in ThreadsOf(new, s) : new[w].kernel_stack # 0}}
        \subseteq {KernelX(u, thr[u].kernel_stack) :
                     u \in {w \in ThreadsOf(thr, s) : thr[w].kernel_stack # 0}}
                  \cup {KernelX(n, x.kernel_stack)}
  BY <1>1, <1>2
<1>4. {UserX(u, new[u].user_stack) : u \in {w \in ThreadsOf(new, s) : new[w].user_stack # 0}}
        \subseteq {UserX(u, thr[u].user_stack) :
                     u \in {w \in ThreadsOf(thr, s) : thr[w].user_stack # 0}}
                  \cup {UserX(n, v) : v \in {w \in {x.user_stack} : w # 0}}
  BY <1>1, <1>2
<1>5. Extents(b, new, s) \subseteq
              Extents(a, thr, s) \cup {KernelX(n, x.kernel_stack)}
                \cup {UserX(n, v) : v \in {w \in {x.user_stack} : w # 0}}
  BY <1>3, <1>4 DEF Extents
<1>6. QED
  BY <1>5 DEF new

\* The thread that gets stacks after the last page of a.
LEMMA StackedIs ==
    ASSUME NEW a \in Spaces, NEW s \in Slot, UserBase <= a.last_used_page, NEW n
    PROVE  LET x == StackedThread(s, a)
           IN  /\ x \in ThreadRecords /\ x.active /\ x.task = s
               /\ PagesOf(KernelX(n, x.kernel_stack)) = StackSpan(a.last_used_page)
               /\ IF a.user THEN PagesOf(UserX(n, x.user_stack)) = UserSpan(a)
                  ELSE x.user_stack = 0
<1> DEFINE l == a.last_used_page
           x == StackedThread(s, a)
           k == KernelX(n, x.kernel_stack)
           u == UserX(n, x.user_stack)
<1>1. l \in Int /\ StackPages \in Nat /\ a.user \in BOOLEAN
  <2>1. STACKS_SIZE \in Nat
    BY MemoryAssumption
  <2>2. QED
    BY <2>1, SpaceIs, PagesNat DEF StackPages
<1>2. /\ x.active /\ x.task = s /\ x.kernel_stack = l + 2
      /\ x.user_stack = IF a.user THEN l + StackPages + 3 ELSE 0
      /\ x = [active |-> x.active, task |-> x.task, kernel_stack |-> x.kernel_stack,
              user_stack |-> x.user_stack]
  BY Zenon DEF StackedThread
<1>3. k[3] = l + 2 /\ k[4] = StackPages /\ u[3] = x.user_stack /\ u[4] = StackPages
  BY <1>2 DEF KernelX, UserX
<1> HIDE DEF x, k, u, l
<1>4. x \in ThreadRecords
  <2>1. x.active \in BOOLEAN /\ x.task \in Slot /\ x.kernel_stack \in Int /\ x.user_stack \in Int
    BY <1>1, <1>2
  <2>2. QED
    BY <1>2, <2>1 DEF ThreadRecords
<1>5. PagesOf(k) = StackSpan(l)
  BY <1>1, <1>3 DEF PagesOf, StackSpan
<1>6. ASSUME a.user PROVE PagesOf(u) = UserSpan(a)
  <2>1. UserSpan(a) = l + 1 + StackPages + 2..l + 1 + StackPages + 1 + StackPages
    BY <1>6 DEF UserSpan, StackSpan, l
  <2>2. PagesOf(u) = l + StackPages + 3..l + StackPages + 3 + StackPages - 1
    BY <1>2, <1>3, <1>6 DEF PagesOf
  <2>3. /\ l + 1 + StackPages + 2 = l + StackPages + 3
        /\ l + 1 + StackPages + 1 + StackPages = l + StackPages + 3 + StackPages - 1
    BY <1>1
  <2>4. QED
    BY <2>1, <2>2, <2>3
<1>7. QED
  BY <1>2, <1>4, <1>5, <1>6 DEF x, k, u, l

\* A space with the stacks of a new thread is well.
LEMMA StackedWell ==
    ASSUME NEW a \in Spaces, NEW b, NEW thr \in ThreadTables, NEW s \in Slot, NEW n \in Thread,
           ~thr[n].active, Well(a, thr, s), InOrder(b), b.blocks = a.blocks, b.buffers = a.buffers,
           LET K == StackSpan(a.last_used_page)
               U == UserSpan(a)
           IN  /\ MappedOf(b) = MappedOf(a) \cup K \cup U
               /\ K \cap MappedOf(a) = {} /\ U \cap MappedOf(a) = {} /\ K \cap U = {}
    PROVE  Well(b, Put(thr, n, StackedThread(s, a)), s)
<1> DEFINE x == StackedThread(s, a)
           new == Put(thr, n, x)
           X == Extents(a, thr, s)
           k == KernelX(n, x.kernel_stack)
           u == UserX(n, x.user_stack)
           K == StackSpan(a.last_used_page)
           U == UserSpan(a)
           M == MappedOf(a)
<1>1. InOrder(a) /\ Proper(X, M) /\ UserBase <= a.last_used_page
  BY DEF Well, InOrder
<1>2. /\ x \in ThreadRecords /\ x.active /\ x.task = s /\ PagesOf(k) = K
      /\ IF a.user THEN PagesOf(u) = U ELSE x.user_stack = 0
  BY <1>1, StackedIs
<1> HIDE DEF x
<1>3. Extents(b, new, s) \subseteq X \cup {k} \cup {UserX(n, v) : v \in {w \in {x.user_stack} : w # 0}}
  BY <1>2, ExtentsStarts
<1> HIDE DEF k, u, X, M, K, U, new
<1>4. /\ MappedOf(b) = M \cup K \cup U
      /\ K \cap M = {} /\ U \cap M = {} /\ K \cap U = {}
  BY DEF M, K, U
<1>5. Proper(X \cup {k}, M \cup K)
  <2>1. PagesOf(k) \cap M = {}
    BY <1>2, <1>4
  <2>2. Proper(X \cup {k}, M \cup PagesOf(k))
    BY <1>1, <2>1, ProperMore
  <2>3. QED
    BY <1>2, <2>2
<1>6. Proper(Extents(b, new, s), MappedOf(b))
  <2>1. CASE ~a.user
    <3>1. Extents(b, new, s) \subseteq X \cup {k}
      BY <1>2, <1>3, <2>1
    <3>2. M \cup K \subseteq MappedOf(b)
      BY <1>4
    <3>3. QED
      BY <1>5, <3>1, <3>2, ProperSub
  <2>2. CASE a.user
    <3>1. PagesOf(u) = U /\ PagesOf(u) \cap (M \cup K) = {}
      BY <1>2, <1>4, <2>2
    <3> DEFINE Y == X \cup {k}
               N == M \cup K
    <3>2. Proper(Y, N) /\ PagesOf(u) \cap N = {}
      BY <1>5, <3>1
    <3> HIDE DEF Y, N
    <3>3. Proper(Y \cup {u}, N \cup PagesOf(u))
      BY <3>2, ProperMore
    <3>4. Extents(b, new, s) \subseteq Y \cup {u}
      <4>1. \A v \in {w \in {x.user_stack} : w # 0} : UserX(n, v) = u
        BY DEF u
      <4>2. QED
        BY <1>3, <4>1 DEF Y
    <3>5. N \cup PagesOf(u) \subseteq MappedOf(b)
      BY <1>4, <3>1 DEF N
    <3>6. QED
      BY <3>3, <3>4, <3>5, ProperSub
  <2>3. QED
    BY <2>1, <2>2
<1>7. QED
  BY <1>6 DEF Well, new, x

\* The table of the threads of a process has no part in what it holds.
LEMMA ListAtIs ==
    ASSUME NEW sp \in Spacings, NEW s \in Slot, NEW r \in Cursors, NEW f \in Listing,
           NEW thr
    PROVE  LET q == ListAt(r, f)
           IN  /\ q \in Cursors /\ q.halt = r.halt /\ q.as.active = r.as.active /\ q.as.threads = f
               /\ Intact(r, thr, s, sp) => Intact(q, thr, s, sp)
<1> DEFINE q == ListAt(r, f)
<1>1. /\ q \in Cursors /\ q.mem = r.mem /\ q.halt = r.halt /\ SameMap(r.as, q.as)
      /\ q.as.blocks = r.as.blocks /\ q.as.buffers = r.as.buffers /\ q.as.threads = f
  BY HeldAtIs
<1> HIDE DEF q
<1>2. ASSUME Intact(r, thr, s, sp) PROVE Intact(q, thr, s, sp)
  <2>1. Sound(r, s, sp) /\ Well(r.as, thr, s)
    BY <1>2 DEF Intact
  <2>2. Sound(q, s, sp) /\ MappedOf(q.as) = MappedOf(r.as) /\ (InOrder(r.as) => InOrder(q.as))
    BY <1>1, <2>1, SameMapIs
  <2>3. Extents(q.as, thr, s) = Extents(r.as, thr, s)
    BY <1>1 DEF Extents
  <2>4. QED
    BY <1>1, <2>1, <2>2, <2>3 DEF Intact, Well
<1>3. QED
  BY <1>1, <1>2 DEF q, SameMap

\* A thread put in the place of another, or of none, in the table of a process.
LEMMA ListsIs ==
    ASSUME NEW f \in Listing, NEW u, NEW x \in Thread \cup {NULL}, Lists(f, u)
    PROVE  LET g == Relist(f, u, x)
           IN  g \in Listing /\ Lists(g, x) /\ \A v : v # u /\ Lists(f, v) => Lists(g, v)
<1> DEFINE I == {i \in Index : f[i] = u}
           m == Min(I)
           g == Relist(f, u, x)
<1>1. I \in SUBSET Nat /\ I # {}
  BY MemoryAssumption DEF Lists, Index
<1>2. m \in Index /\ f[m] = u
  <2>1. m \in I
    BY <1>1, MinIs
  <2>2. QED
    BY <2>1
<1>3. g = [f EXCEPT ![m] = x]
  BY Zenon DEF Relist
<1> HIDE DEF m, g
<1>4. g \in Listing /\ \A i \in Index : g[i] = IF i = m THEN x ELSE f[i]
  BY <1>2, <1>3 DEF Listing
<1>5. QED
  BY <1>2, <1>4 DEF Lists, g

\* The table of a new process.
LEMMA OnlyIs ==
    ASSUME NEW n \in Thread
    PROVE  Only(n) \in Listing /\ Lists(Only(n), n)
<1> DEFINE f == NoSpace.threads
           g == Only(n)
<1>1. f \in Listing /\ 0 \in Index
  BY NoSpaceIs, MemoryAssumption DEF Index
<1>2. g = [f EXCEPT ![0] = n]
  BY Zenon DEF Only
<1> HIDE DEF f, g
<1>3. g \in Listing /\ g[0] = n
  BY <1>1, <1>2 DEF Listing
<1>4. QED
  BY <1>1, <1>3 DEF g, Lists

\* Add_Thread_To_Process: the thread is listed, or there is no entry for it.
LEMMA AddIs ==
    ASSUME NEW sp \in Spacings, NEW s \in Slot, NEW r \in Cursors, NEW n \in Thread, NEW thr
    PROVE  LET q == Add_Thread_To_Process(r, n)
           IN  /\ q \in Cursors /\ q.halt \in {r.halt, "undefined"}
               /\ q.halt = "no" =>
                     /\ r.halt = "no" /\ q.as.active = r.as.active /\ Lists(q.as.threads, n)
                     /\ \A u \in Thread : Lists(r.as.threads, u) => Lists(q.as.threads, u)
                     /\ Intact(r, thr, s, sp) => Intact(q, thr, s, sp)
<1> DEFINE q == Add_Thread_To_Process(r, n)
<1>1. CASE r.halt # "no"
  <2>1. q = r
    BY <1>1, Zenon DEF Add_Thread_To_Process
  <2> HIDE DEF q
  <2>2. QED
    BY <1>1, <2>1 DEF q
<1>2. CASE r.halt = "no" /\ ~Lists(r.as.threads, NULL)
  <2>1. q = [r EXCEPT !.halt = "undefined"]
    BY <1>2, Zenon DEF Add_Thread_To_Process
  <2> HIDE DEF q
  <2>2. q \in Cursors /\ q.halt = "undefined"
    BY <2>1, CursorStops DEF Halts
  <2>3. QED
    BY <2>2 DEF q
<1>3. CASE r.halt = "no" /\ Lists(r.as.threads, NULL)
  <2> DEFINE f == r.as.threads
             g == Relist(f, NULL, n)
  <2>1. q = ListAt(r, g)
    BY <1>3, Zenon DEF Add_Thread_To_Process, ListAt
  <2>2. f \in Listing
    BY CursorIs, SpaceIs
  <2>3. \A u \in Thread : u # NULL
    BY MemoryAssumption DEF NULL
  <2> HIDE DEF q, f
  <2>4. g \in Listing /\ Lists(g, n) /\ \A v : v # NULL /\ Lists(f, v) => Lists(g, v)
    BY <1>3, <2>2, ListsIs DEF f
  <2> HIDE DEF g
  <2>5. /\ q \in Cursors /\ q.halt = r.halt /\ q.as.active = r.as.active /\ q.as.threads = g
        /\ Intact(r, thr, s, sp) => Intact(q, thr, s, sp)
    BY <2>1, <2>4, ListAtIs
  <2>6. QED
    BY <1>3, <2>3, <2>4, <2>5 DEF q, f
<1>4. QED
  BY <1>1, <1>2, <1>3

\* The least free entry of the table of threads.
LEMMA FreeThread ==
    ASSUME FreeThreads # {}
    PROVE  Min(FreeThreads) \in Thread /\ ~Threads[Min(FreeThreads)].active
<1>1. Thread \subseteq Nat
  BY MemoryAssumption
<1>2. FreeThreads \in SUBSET Nat
  BY <1>1 DEF FreeThreads
<1>3. Min(FreeThreads) \in FreeThreads
  BY <1>2, MinIs
<1>4. QED
  BY <1>3 DEF FreeThreads

\* Create_Thread.
LEMMA StepCreate_Thread ==
    ASSUME IInv, NEW t \in Thread, Create_Thread(t)
    PROVE  IInv'
<1> DEFINE s == task(t)
           n == Min(FreeThreads)
           c == Cursor(space[s])
           r == Stacks(c)
           q == Add_Thread_To_Process(r, n)
           x == StackedThread(s, space[s])
           new == Put(Threads, n, x)
<1>1. Running(t) /\ FreeThreads # {} /\ StackRoom(space[s]) /\ Commit(s, q, new)
  BY Zenon DEF Create_Thread, Put
<1>2. /\ s \in Slot /\ halt = "no" /\ space[s].active
      /\ \A u \in ThreadsOf(Threads, s) : Lists(space[s].threads, u)
  BY <1>1, TaskOf
<1>3. /\ c \in Cursors /\ c.halt = "no" /\ c.as = space[s] /\ Sound(c, s, space)
      /\ space \in Spacings /\ space[s] \in Spaces /\ Well(space[s], Threads, s)
      /\ Threads \in ThreadTables
  BY <1>2, CursorOf
<1>4. n \in Thread /\ ~Threads[n].active
  BY <1>1, FreeThread
<1>5. InOrder(space[s]) /\ UserBase <= space[s].last_used_page
  BY <1>3 DEF Well, InOrder
<1> HIDE DEF s, n, c
<1>6. /\ r \in Cursors /\ r.halt \in {"no", "finished"}
      /\ r.halt = "no" =>
            /\ Sound(r, s, space) /\ InOrder(r.as) /\ SameRest(space[s], r.as)
            /\ LET K == StackSpan(space[s].last_used_page)
                   U == UserSpan(space[s])
               IN  /\ MappedOf(r.as) = MappedOf(space[s]) \cup K \cup U
                   /\ K \cap MappedOf(space[s]) = {} /\ U \cap MappedOf(space[s]) = {}
                   /\ K \cap U = {}
  <2>1. c.halt = "no" => Sound(c, s, space) /\ InOrder(c.as) /\ StackRoom(c.as)
    BY <1>1, <1>3, <1>5
  <2>2. LET u == Stacks(c)
            K == StackSpan(c.as.last_used_page)
            U == UserSpan(c.as)
        IN  /\ u \in Cursors /\ u.halt \in {c.halt, "finished"}
            /\ u.halt = "no" =>
                  /\ c.halt = "no" /\ Sound(u, s, space) /\ InOrder(u.as) /\ SameRest(c.as, u.as)
                  /\ MappedOf(u.as) = MappedOf(c.as) \cup K \cup U
                  /\ K \cap MappedOf(c.as) = {} /\ U \cap MappedOf(c.as) = {} /\ K \cap U = {}
    BY <1>2, <1>3, <2>1, StacksIs
  <2>3. QED
    BY <1>3, <2>2
<1> HIDE DEF r
<1>7. /\ x \in ThreadRecords /\ x.active /\ x.task = s
  BY <1>2, <1>3, <1>5, StackedIs
<1>8. /\ new \in ThreadTables /\ Elsewhere(new, Threads, s)
      /\ ThreadsOf(new, s) = ThreadsOf(Threads, s) \cup {n}
  <2> HIDE DEF x
  <2>1. QED
    BY <1>2, <1>3, <1>4, <1>7, ThreadStarts
<1> HIDE DEF q
<1>9. /\ q \in Cursors /\ q.halt \in {r.halt, "undefined"}
      /\ q.halt = "no" =>
            /\ r.halt = "no" /\ q.as.active = r.as.active /\ Lists(q.as.threads, n)
            /\ \A u \in Thread : Lists(r.as.threads, u) => Lists(q.as.threads, u)
            /\ Intact(r, new, s, space) => Intact(q, new, s, space)
  <2> HIDE DEF new
  <2>1. QED
    BY <1>2, <1>3, <1>4, <1>6, AddIs DEF q
<1>10. ASSUME q.halt = "no" PROVE Ready(s, q, new)
  <2>1. r.halt = "no" /\ Sound(r, s, space) /\ InOrder(r.as) /\ SameRest(space[s], r.as)
    BY <1>6, <1>9, <1>10
  <2>2. r.as.blocks = space[s].blocks /\ r.as.buffers = space[s].buffers
    BY <2>1 DEF SameRest
  <2>3. Well(r.as, new, s)
    BY <1>2, <1>3, <1>4, <1>6, <2>1, <2>2, StackedWell
  <2> HIDE DEF new
  <2>4. Intact(q, new, s, space)
    BY <1>9, <1>10, <2>1, <2>3 DEF Intact
  <2>5. q.as.active /\ r.as.threads = space[s].threads
    BY <1>2, <1>9, <1>10, <2>1 DEF SameRest
  <2>6. \A u \in ThreadsOf(new, s) : Lists(q.as.threads, u)
    BY <1>2, <1>8, <1>9, <1>10, <2>5 DEF ThreadsOf
  <2>7. QED
    BY <1>8, <2>4, <2>5, <2>6 DEF Ready, Intact
<1>11. q.halt \in {"no", "finished", "undefined"}
  BY <1>6, <1>9
<1> HIDE DEF new
<1>12. QED
  BY <1>1, <1>2, <1>9, <1>10, <1>11, Committed

\* A table is full: the kernel panics.
LEMMA StepTables_Full ==
    ASSUME IInv, NEW t \in Thread, Tables_Full(t)
    PROVE  IInv'
<1>1. mem' = mem /\ space' = space /\ Threads' = Threads /\ halt' = "panic"
  BY DEF Tables_Full
<1>2. Settled(mem', space', Threads')
  BY <1>1 DEF IInv
<1>3. QED
  BY <1>1, <1>2 DEF IInv, OwnHalts, Halts

\* Exit_Thread.
LEMMA StepExit_Thread ==
    ASSUME IInv, NEW t \in Thread, Exit_Thread(t)
    PROVE  IInv'
<1> DEFINE s == task(t)
           c == Cursor(space[s])
           r == FreeStacks(c, Threads[t])
           f == Relist(r.as.threads, t, NULL)
           q == ListAt(r, f)
           new == Put(Threads, t, Ended(Threads[t]))
<1>1. /\ Running(t)
      /\ Commit(s, IF Lists(space[s].threads, t) THEN q ELSE [c EXCEPT !.halt = "panic"], new)
  BY Zenon DEF Exit_Thread, ListAt, Put
<1>2. /\ s \in Slot /\ halt = "no" /\ space[s].active /\ Threads[t].active /\ Threads[t].task = s
      /\ \A u \in ThreadsOf(Threads, s) : Lists(space[s].threads, u)
  BY <1>1, TaskOf DEF Running, task
<1>2a. Lists(space[s].threads, t) /\ Commit(s, q, new)
  <2>1. t \in ThreadsOf(Threads, s)
    BY <1>2 DEF ThreadsOf
  <2> HIDE DEF q, new, s
  <2>2. QED
    BY <1>1, <1>2, <2>1
<1>3. /\ c \in Cursors /\ c.halt = "no" /\ c.as = space[s] /\ Sound(c, s, space)
      /\ space \in Spacings /\ space[s] \in Spaces /\ Well(space[s], Threads, s)
      /\ Threads \in ThreadTables
  BY <1>2, CursorOf
<1> HIDE DEF s, c
<1>4. Intact(c, Threads, s, space)
  BY <1>3 DEF Intact
<1>5. r \in Cursors /\ r.halt = "no" /\ Intact(r, new, s, space) /\ SameRest(space[s], r.as)
  <2>1. LET u == FreeStacks(c, Threads[t])
        IN  /\ u \in Cursors /\ u.halt = c.halt
            /\ u.halt = "no" => /\ Intact(u, Put(Threads, t, Ended(Threads[t])), s, space)
                                /\ SameRest(c.as, u.as)
    BY <1>2, <1>3, <1>4, FreeStacksIs
  <2>2. QED
    BY <1>3, <2>1
<1> HIDE DEF r
<1>6. /\ new \in ThreadTables /\ ~new[t].active /\ \A u \in Thread \ {t} : new[u] = Threads[u]
  BY <1>3, ThreadEnds
<1> HIDE DEF new
<1>7. Elsewhere(new, Threads, s)
  BY <1>2, <1>6 DEF Elsewhere
<1>8. /\ r.as.active = space[s].active /\ r.as.threads = space[s].threads
      /\ r.as.threads \in Listing
  BY <1>5, CursorIs, SpaceIs DEF SameRest
<1>8a. f \in Listing /\ \A u : u # t /\ Lists(space[s].threads, u) => Lists(f, u)
  BY <1>2a, <1>8, ListsIs
<1> HIDE DEF f, q
<1>9. /\ q \in Cursors /\ q.halt = r.halt /\ q.as.active = r.as.active /\ q.as.threads = f
      /\ Intact(r, new, s, space) => Intact(q, new, s, space)
  BY <1>2, <1>3, <1>5, <1>8a, ListAtIs DEF q
<1>10. \A u \in ThreadsOf(new, s) : u # t /\ Lists(f, u)
  BY <1>2, <1>6, <1>8a DEF ThreadsOf
<1>11. Ready(s, q, new)
  BY <1>2, <1>5, <1>6, <1>7, <1>8, <1>9, <1>10 DEF Ready, Intact
<1>12. QED
  BY <1>2, <1>2a, <1>5, <1>6, <1>9, <1>11, Committed

\* The least free slot: nobody is there.
LEMMA FreeSlot ==
    ASSUME IInv, FreeSlots # {}
    PROVE  LET s == Min(FreeSlots)
           IN  s \in Slot /\ space[s] = NoSpace /\ ThreadsOf(Threads, s) = {}
<1> DEFINE s == Min(FreeSlots)
<1>1. Slot \subseteq Nat
  BY MemoryAssumption
<1>2. FreeSlots \in SUBSET Nat
  BY <1>1 DEF FreeSlots
<1>3. s \in FreeSlots
  BY <1>2, MinIs
<1> HIDE DEF s
<1>4. s \in Slot /\ ~space[s].active
  BY <1>3 DEF FreeSlots
<1>5. Settled(mem, space, Threads)
  BY DEF IInv
<1>6. QED
  BY <1>4, <1>5 DEF Settled, ThreadsOf, s

\* A new process needs no more than the bound on the addresses leaves.
LEMMA NewRoom ==
    ASSUME NEW a \in Spaces, a.last_used_page = UserBase + IMAGE_PAGES + 3
    PROVE  StackRoom(a) /\ UserBase <= a.last_used_page
<1>1. /\ StackPages \in Nat /\ UserBase \in Nat /\ IMAGE_PAGES \in Nat /\ MaxVPage \in Int
      /\ a.user \in BOOLEAN
  <2>1. STACKS_SIZE \in Nat /\ MaxVPage \in Nat
    BY MemoryAssumption
  <2>2. QED
    BY <2>1, SpaceIs, PagesNat, Numbers DEF StackPages
<1>2. UserBase + IMAGE_PAGES + 3 + 2 * (StackPages + 1) <= MaxVPage
  BY RoomAssumption
<1>3. QED
  BY <1>1, <1>2 DEF StackRoom

(* The space of a process that Create_Process_From_ELF begins with.                  *)
Begun(user, n) == [NoSpace EXCEPT !.active = TRUE, !.user = user, !.threads = Only(n)]

\* Such a space.
LEMMA BegunIs ==
    ASSUME NEW user \in BOOLEAN, NEW n \in Thread
    PROVE  LET a == Begun(user, n)
           IN  /\ a \in Spaces /\ a.active /\ a.user = user /\ a.threads = Only(n) /\ Bare(a)
               /\ a.blocks = {} /\ a.buffers = {} /\ a.mail = NoSpace.mail
               /\ a.map = NoSpace.map /\ a.tables = NoSpace.tables
               /\ a.PageDir = NoSpace.PageDir /\ a.msgqueue = NoSpace.msgqueue
<1> DEFINE a == Begun(user, n)
<1>1. /\ NoSpace \in Spaces /\ NoSpace.PageDir = NULL /\ NoSpace.msgqueue = NULL
      /\ NoSpace.blocks = {} /\ NoSpace.buffers = {} /\ MappedOf(NoSpace) = {}
  BY NoSpaceIs DEF NoSpace
<1>2. /\ a \in Spaces /\ a.active /\ a.user = user /\ a.threads = Only(n) /\ a.mail = NoSpace.mail
      /\ a.map = NoSpace.map /\ a.tables = NoSpace.tables /\ a.PageDir = NoSpace.PageDir
      /\ a.msgqueue = NoSpace.msgqueue /\ a.blocks = NoSpace.blocks
      /\ a.buffers = NoSpace.buffers
  <2> DEFINE N == NoSpace
  <2>1. N \in Spaces /\ a = [N EXCEPT !.active = TRUE, !.user = user, !.threads = Only(n)]
    BY <1>1, Zenon DEF Begun
  <2>1a. Only(n) \in Listing
    BY OnlyIs
  <2> HIDE DEF N, a
  <2>2. /\ a \in Spaces /\ a.active /\ a.user = user /\ a.threads = Only(n) /\ a.mail = N.mail
        /\ a.map = N.map /\ a.tables = N.tables /\ a.PageDir = N.PageDir
        /\ a.msgqueue = N.msgqueue /\ a.blocks = N.blocks /\ a.buffers = N.buffers
    BY <2>1, <2>1a DEF Spaces
  <2>3. QED
    BY <2>2 DEF N
<1> HIDE DEF a
<1>3. MappedOf(a) = {}
  BY <1>1, <1>2 DEF MappedOf
<1>4. QED
  BY <1>1, <1>2, <1>3 DEF Bare, a

\* A process of no thread that has no blocks and no buffers holds nothing.
LEMMA NothingHeld ==
    ASSUME NEW a, NEW thr, NEW s, InOrder(a), a.blocks = {}, a.buffers = {},
           ThreadsOf(thr, s) = {}
    PROVE  Well(a, thr, s)
<1>1. Extents(a, thr, s) = {}
  BY DEF Extents
<1>2. Proper({}, MappedOf(a))
  BY DEF Proper
<1>3. QED
  BY <1>1, <1>2 DEF Well

\* A new process: its space, its thread and what they hold.
LEMMA ProcessIs ==
    ASSUME NEW sp \in Spacings, NEW thr \in ThreadTables, NEW s \in Slot, ThreadsOf(thr, s) = {},
           NEW n \in Thread, ~thr[n].active, NEW k \in Cursors, k.halt = "no", Sound(k, s, sp),
           Bare(k.as), k.as.active, k.as.threads = Only(n), k.as.blocks = {}, k.as.buffers = {}
    PROVE  LET c == Loaded(k)
               r == Stacks(c)
               new == Put(thr, n, StackedThread(s, c.as))
           IN  /\ r \in Cursors /\ r.halt \in {"no", "finished", "null_table"}
               /\ new \in ThreadTables /\ Elsewhere(new, thr, s)
               /\ r.halt = "no" => /\ Intact(r, new, s, sp) /\ r.as.active /\ r.as.threads = Only(n)
                                   /\ \A u \in ThreadsOf(new, s) : Lists(r.as.threads, u)
<1> DEFINE c == Loaded(k)
           r == Stacks(c)
           x == StackedThread(s, c.as)
           new == Put(thr, n, x)
<1>1. /\ c \in Cursors /\ c.halt \in {"no", "finished", "null_table"}
      /\ c.as.last_used_page = UserBase + IMAGE_PAGES + 3
      /\ c.halt = "no" => Sound(c, s, sp) /\ InOrder(c.as) /\ Same(k.as, c.as)
  BY LoadedIs
<1> HIDE DEF c
<1>2. c.as \in Spaces /\ StackRoom(c.as) /\ UserBase <= c.as.last_used_page
  BY <1>1, CursorIs, NewRoom
<1>3. /\ r \in Cursors /\ r.halt \in {c.halt, "finished"}
      /\ r.halt = "no" =>
            /\ c.halt = "no" /\ Sound(r, s, sp) /\ InOrder(r.as) /\ SameRest(c.as, r.as)
            /\ LET K == StackSpan(c.as.last_used_page)
                   U == UserSpan(c.as)
               IN  /\ MappedOf(r.as) = MappedOf(c.as) \cup K \cup U
                   /\ K \cap MappedOf(c.as) = {} /\ U \cap MappedOf(c.as) = {} /\ K \cap U = {}
  BY <1>1, <1>2, StacksIs
<1> HIDE DEF r
<1>4. x \in ThreadRecords /\ x.active /\ x.task = s
  BY <1>2, StackedIs
<1>5. /\ new \in ThreadTables /\ Elsewhere(new, thr, s)
      /\ ThreadsOf(new, s) = ThreadsOf(thr, s) \cup {n}
  <2> HIDE DEF x
  <2>1. QED
    BY <1>4, ThreadStarts
<1>6. ASSUME r.halt = "no" PROVE Intact(r, new, s, sp) /\ r.as.active /\ r.as.threads = Only(n)
  <2>1. /\ Sound(r, s, sp) /\ InOrder(r.as) /\ SameRest(c.as, r.as)
        /\ InOrder(c.as) /\ Same(k.as, c.as)
    BY <1>1, <1>3, <1>6
  <2>2. /\ c.as.blocks = {} /\ c.as.buffers = {} /\ r.as.blocks = c.as.blocks
        /\ r.as.buffers = c.as.buffers /\ r.as.active /\ r.as.threads = Only(n)
    BY <2>1 DEF Same, SameRest
  <2>3. Well(c.as, thr, s)
    BY <2>1, <2>2, NothingHeld
  <2>4. Well(r.as, new, s)
    BY <1>2, <1>3, <1>6, <2>1, <2>2, <2>3, StackedWell
  <2>5. QED
    BY <2>1, <2>2, <2>4 DEF Intact
<1> HIDE DEF new, x
<1>7. r.halt = "no" => \A u \in ThreadsOf(new, s) : Lists(r.as.threads, u)
  <2>1. ThreadsOf(new, s) = {n}
    BY <1>5
  <2>2. QED
    BY <1>6, <2>1, OnlyIs
<1>8. QED
  BY <1>1, <1>3, <1>5, <1>6, <1>7 DEF c, r, new, x

\* Create_Process_From_ELF.
LEMMA StepCreate_Process ==
    ASSUME IInv, NEW t \in Thread, NEW user \in BOOLEAN, Create_Process_From_ELF(t, user)
    PROVE  IInv'
<1> DEFINE s == Min(FreeSlots)
           n == Min(FreeThreads)
           a == Begun(user, n)
           k == Cursor(a)
           r == Stacks(Loaded(k))
           new == Put(Threads, n, StackedThread(s, Loaded(k).as))
<1>1. Running(t) /\ FreeSlots # {} /\ FreeThreads # {} /\ Commit(s, r, new)
  BY Zenon DEF Create_Process_From_ELF, Begun, Put
<1>2. halt = "no" /\ n \in Thread /\ ~Threads[n].active
  BY <1>1, FreeThread DEF Running
<1>3. s \in Slot /\ space[s] = NoSpace /\ ThreadsOf(Threads, s) = {}
  BY <1>1, FreeSlot
<1> HIDE DEF s, n, k, r, new
<1> DEFINE c == Cursor(space[s])
<1>4. /\ c \in Cursors /\ c.mem = mem /\ c.as = NoSpace /\ Sound(c, s, space)
      /\ space \in Spacings /\ Threads \in ThreadTables
  BY <1>2, <1>3, CursorOf
<1> HIDE DEF c
<1>5. /\ a \in Spaces /\ a.active /\ a.threads = Only(n) /\ Bare(a) /\ a.blocks = {} /\ a.buffers = {}
      /\ a.mail = NoSpace.mail /\ a.map = NoSpace.map /\ a.tables = NoSpace.tables
      /\ a.PageDir = NoSpace.PageDir /\ a.msgqueue = NoSpace.msgqueue
  BY <1>2, BegunIs
<1> HIDE DEF a
<1>6. k \in Cursors /\ k.mem = mem /\ k.as = a /\ k.halt = "no"
  <2>1. mem \in Mems
    BY <1>4, CursorIs
  <2>2. k = Going(mem, a)
    BY <1>2 DEF k, Cursor, Going
  <2>3. QED
    BY <1>5, <2>1, <2>2, CursorGoes
<1>7. Sound(k, s, space)
  BY <1>3, <1>4, <1>5, <1>6, SoundSame
<1>8. /\ r \in Cursors /\ r.halt \in {"no", "finished", "null_table"}
      /\ new \in ThreadTables /\ Elsewhere(new, Threads, s)
      /\ r.halt = "no" => /\ Intact(r, new, s, space) /\ r.as.active /\ r.as.threads = Only(n)
                          /\ \A u \in ThreadsOf(new, s) : Lists(r.as.threads, u)
  BY <1>2, <1>3, <1>4, <1>5, <1>6, <1>7, ProcessIs DEF r, new
<1>9. r.halt = "no" => Ready(s, r, new)
  BY <1>8 DEF Ready, Intact
<1>10. QED
  BY <1>1, <1>3, <1>8, <1>9, Committed

(* The space of a child, without its pages, and its thread.                          *)
Child(f, n) ==
    [f EXCEPT !.threads = Only(n), !.msgqueue = NULL, !.PageDir = NULL,
              !.mail = <<>>, !.tables = NoSpace.tables, !.map = NoSpace.map]
ChildThread(x, s) == [x EXCEPT !.task = s]

\* Such a space and such a thread.
LEMMA ChildIs ==
    ASSUME NEW f \in Spaces, NEW n \in Thread, NEW x \in ThreadRecords, NEW s \in Slot
    PROVE  LET a == Child(f, n)
               y == ChildThread(x, s)
           IN  /\ a \in Spaces /\ a.threads = Only(n) /\ a.active = f.active /\ a.user = f.user
               /\ a.blocks = f.blocks /\ a.buffers = f.buffers
               /\ a.last_used_page = f.last_used_page /\ a.mail = NoSpace.mail
               /\ a.map = NoSpace.map /\ a.tables = NoSpace.tables
               /\ a.PageDir = NoSpace.PageDir /\ a.msgqueue = NoSpace.msgqueue
               /\ a.PageDir = NULL /\ a.msgqueue = NULL /\ MappedOf(a) = {}
               /\ y \in ThreadRecords /\ y.active = x.active /\ y.task = s
               /\ y.kernel_stack = x.kernel_stack /\ y.user_stack = x.user_stack
<1> DEFINE a == Child(f, n)
           y == ChildThread(x, s)
           T == NoSpace.tables
           M == NoSpace.map
<1>1. /\ NoSpace \in Spaces /\ NoSpace.PageDir = NULL /\ NoSpace.msgqueue = NULL
      /\ NoSpace.mail = <<>> /\ MappedOf(NoSpace) = {}
  BY NoSpaceIs DEF NoSpace
<1>2. T \in [Pde -> MaybePage] /\ M \in [VPage -> MaybePage] /\ NULL \in MaybePage
  BY <1>1, SpaceIs DEF MaybePage
<1>3. a = [f EXCEPT !.threads = Only(n), !.msgqueue = NULL, !.PageDir = NULL, !.mail = <<>>,
                    !.tables = T, !.map = M]
  BY Zenon DEF Child
<1> HIDE DEF a, T, M
<1>4. /\ a \in Spaces /\ a.threads = Only(n) /\ a.active = f.active /\ a.user = f.user
      /\ a.blocks = f.blocks /\ a.buffers = f.buffers /\ a.mail = <<>>
      /\ a.last_used_page = f.last_used_page
      /\ a.map = M /\ a.tables = T /\ a.PageDir = NULL /\ a.msgqueue = NULL
  <2>1. <<>> \in Seq(Page) /\ Only(n) \in Listing
    BY OnlyIs
  <2>2. QED
    BY <1>2, <1>3, <2>1 DEF Spaces
<1>5. MappedOf(a) = {}
  BY <1>1, <1>4 DEF MappedOf, M
<1>6. /\ y \in ThreadRecords /\ y.active = x.active /\ y.task = s
      /\ y.kernel_stack = x.kernel_stack /\ y.user_stack = x.user_stack
  BY DEF ThreadRecords, ChildThread
<1> HIDE DEF y
<1>7. QED
  BY <1>1, <1>4, <1>5, <1>6 DEF a, y, T, M

\* Extents that have the pages of others, each those of another one, are as proper.
LEMMA ProperCopy ==
    ASSUME NEW X, NEW Y, NEW M, NEW g, Proper(X, M),
           \A y \in Y : g[y] \in X /\ PagesOf(g[y]) = PagesOf(y),
           \A y, z \in Y : y # z => g[y] # g[z]
    PROVE  Proper(Y, M)
<1>1. ASSUME NEW y \in Y PROVE PagesOf(y) \subseteq M
  BY DEF Proper
<1>2. ASSUME NEW y \in Y, NEW z \in Y, y # z PROVE PagesOf(y) \cap PagesOf(z) = {}
  <2>1. g[y] # g[z] /\ g[y] \in X /\ g[z] \in X
    BY <1>2
  <2>2. PagesOf(g[y]) \cap PagesOf(g[z]) = {}
    BY <2>1 DEF Proper
  <2>3. QED
    BY <2>2
<1>3. QED
  BY <1>1, <1>2 DEF Proper

\* What a child holds is a copy of what its father and the calling thread hold.
LEMMA ChildHolds ==
    ASSUME NEW f \in Spaces, NEW b, NEW thr \in ThreadTables, NEW p \in Slot, NEW s \in Slot,
           NEW t \in ThreadsOf(thr, p), NEW n \in Thread, ~thr[n].active, ThreadsOf(thr, s) = {},
           Proper(Extents(f, thr, p), MappedOf(f)), b.blocks = f.blocks, b.buffers = f.buffers
    PROVE  Proper(Extents(b, Put(thr, n, ChildThread(thr[t], s)), s), MappedOf(f))
<1> DEFINE x == ChildThread(thr[t], s)
           new == Put(thr, n, x)
           ks == thr[t].kernel_stack
           us == thr[t].user_stack
           X == Extents(f, thr, p)
           Y == Extents(b, new, s)
           g == [y \in Y |-> IF y[1] \in {"kernel", "user"} THEN <<y[1], t, y[3], y[4]>> ELSE y]
<1>1. t \in Thread /\ thr[t].active /\ thr[t] \in ThreadRecords
  BY ThreadIs DEF ThreadsOf
<1>2. /\ x \in ThreadRecords /\ x.active /\ x.task = s /\ x.kernel_stack = ks
      /\ x.user_stack = us
  <2>1. n \in Thread /\ thr[t] \in ThreadRecords
    BY <1>1
  <2>2. QED
    BY <1>1, <2>1, ChildIs
<1> HIDE DEF x
<1>3. /\ new[n] = x /\ \A u \in Thread \ {n} : new[u] = thr[u]
      /\ ThreadsOf(new, s) = {n}
  <2>1. /\ new[n] = x /\ \A u \in Thread \ {n} : new[u] = thr[u]
        /\ ThreadsOf(new, s) = ThreadsOf(thr, s) \cup {n}
    BY <1>2, ThreadStarts
  <2>2. QED
    BY <2>1
<1> HIDE DEF new
<1>4. ASSUME NEW y \in Y
      PROVE  \/ y[1] = "block" /\ y \in X
             \/ y[1] = "buffer" /\ y \in X
             \/ y = <<"kernel", n, ks, StackPages>> /\ <<"kernel", t, ks, StackPages>> \in X
             \/ y = <<"user", n, us, StackPages>> /\ <<"user", t, us, StackPages>> \in X
  <2>1. \/ \E c \in b.blocks : y = BlockX(c)
        \/ \E v \in b.buffers : y = BufferX(v)
        \/ new[n].kernel_stack # 0 /\ y = KernelX(n, new[n].kernel_stack)
        \/ new[n].user_stack # 0 /\ y = UserX(n, new[n].user_stack)
    BY <1>3, <1>4 DEF Extents
  <2>2. ASSUME NEW c \in b.blocks, y = BlockX(c) PROVE y[1] = "block" /\ y \in X
    BY <2>2 DEF Extents, BlockX
  <2>3. ASSUME NEW v \in b.buffers, y = BufferX(v) PROVE y[1] = "buffer" /\ y \in X
    BY <2>3 DEF Extents, BufferX
  <2>4. ASSUME new[n].kernel_stack # 0, y = KernelX(n, new[n].kernel_stack)
        PROVE  y = <<"kernel", n, ks, StackPages>> /\ <<"kernel", t, ks, StackPages>> \in X
    <3>1. ks # 0 /\ y = KernelX(n, ks)
      BY <1>2, <1>3, <2>4
    <3>2. KernelX(t, ks) \in X
      BY <3>1 DEF Extents
    <3>3. QED
      BY <3>1, <3>2 DEF KernelX
  <2>5. ASSUME new[n].user_stack # 0, y = UserX(n, new[n].user_stack)
        PROVE  y = <<"user", n, us, StackPages>> /\ <<"user", t, us, StackPages>> \in X
    <3>1. us # 0 /\ y = UserX(n, us)
      BY <1>2, <1>3, <2>5
    <3>2. UserX(t, us) \in X
      BY <3>1 DEF Extents
    <3>3. QED
      BY <3>1, <3>2 DEF UserX
  <2>6. QED
    BY <2>1, <2>2, <2>3, <2>4, <2>5
<1> HIDE DEF X, Y, ks, us
<1>5. \A y \in Y : g[y] = IF y[1] \in {"kernel", "user"} THEN <<y[1], t, y[3], y[4]>> ELSE y
  OBVIOUS
<1> HIDE DEF g
<1>6. ASSUME NEW y \in Y PROVE g[y] \in X /\ PagesOf(g[y]) = PagesOf(y)
  <2>1. CASE y[1] \in {"block", "buffer"} /\ y \in X
    <3>1. g[y] = y
      BY <1>5, <2>1
    <3>2. QED
      BY <2>1, <3>1
  <2>2. CASE y = <<"kernel", n, ks, StackPages>> /\ <<"kernel", t, ks, StackPages>> \in X
    <3>1. y[1] = "kernel" /\ y[3] = ks /\ y[4] = StackPages
      BY <2>2
    <3>2. g[y] = <<"kernel", t, ks, StackPages>>
      BY <1>5, <3>1
    <3>3. g[y][3] = ks /\ g[y][4] = StackPages
      BY <3>2
    <3>4. QED
      BY <2>2, <3>1, <3>2, <3>3, Zenon DEF PagesOf
  <2>3. CASE y = <<"user", n, us, StackPages>> /\ <<"user", t, us, StackPages>> \in X
    <3>1. y[1] = "user" /\ y[3] = us /\ y[4] = StackPages
      BY <2>3
    <3>2. g[y] = <<"user", t, us, StackPages>>
      BY <1>5, <3>1
    <3>3. g[y][3] = us /\ g[y][4] = StackPages
      BY <3>2
    <3>4. QED
      BY <2>3, <3>1, <3>2, <3>3, Zenon DEF PagesOf
  <2>4. QED
    BY <1>4, <2>1, <2>2, <2>3
<1>7. ASSUME NEW y \in Y, NEW z \in Y, y # z PROVE g[y] # g[z]
  <2>1. CASE y[1] \in {"block", "buffer"}
    <3>1. g[y] = y /\ g[y][1] \in {"block", "buffer"}
      BY <1>5, <2>1
    <3>2. CASE z[1] \in {"block", "buffer"}
      BY <1>5, <1>7, <3>1, <3>2
    <3>3. CASE z[1] \notin {"block", "buffer"}
      <4>1. g[z][1] \in {"kernel", "user"}
        BY <1>4, <1>5, <3>3
      <4>2. QED
        BY <3>1, <4>1
    <3>4. QED
      BY <3>2, <3>3
  <2>2. CASE y[1] \notin {"block", "buffer"}
    <3>1. g[y][1] \in {"kernel", "user"} /\ g[y][1] = y[1]
      BY <1>4, <1>5, <2>2
    <3>2. CASE z[1] \in {"block", "buffer"}
      BY <1>5, <3>1, <3>2
    <3>3. CASE z[1] \notin {"block", "buffer"}
      <4>1. g[z][1] = z[1] /\ y[1] # z[1]
        BY <1>4, <1>5, <1>7, <2>2, <3>3
      <4>2. QED
        BY <3>1, <4>1
    <3>4. QED
      BY <3>2, <3>3
  <2>3. QED
    BY <2>1, <2>2
<1>8. Proper(Y, MappedOf(f))
  BY <1>6, <1>7, ProperCopy DEF X
<1>9. QED
  BY <1>8 DEF Y, new, x

\* fork.
LEMMA StepFork ==
    ASSUME IInv, NEW t \in Thread, fork(t)
    PROVE  IInv'
<1> DEFINE s == Min(FreeSlots)
           n == Min(FreeThreads)
           p == task(t)
           f == space[p]
           a == Child(f, n)
           k == Cursor(a)
           d == PageDirectory(MessageQueue(k))
           r == CopyTables(d, f)
           x == ChildThread(Threads[t], s)
           new == Put(Threads, n, x)
<1>1. Running(t) /\ FreeSlots # {} /\ FreeThreads # {} /\ Commit(s, r, new)
  BY Zenon DEF fork, Child, ChildThread, Put
<1>2. /\ halt = "no" /\ n \in Thread /\ ~Threads[n].active /\ p \in Slot /\ f.active
      /\ t \in ThreadsOf(Threads, p) /\ Threads[t].active
  BY <1>1, FreeThread, TaskOf DEF Running
<1>3. s \in Slot /\ space[s] = NoSpace /\ ThreadsOf(Threads, s) = {}
  BY <1>1, FreeSlot
<1>4. f \in Spaces /\ Well(f, Threads, p) /\ Threads \in ThreadTables
  BY <1>2, CursorOf
<1>5. InOrder(f) /\ Proper(Extents(f, Threads, p), MappedOf(f)) /\ Covered(f)
  BY <1>4 DEF Well, InOrder
<1> DEFINE c == Cursor(space[s])
<1>6. /\ c \in Cursors /\ c.mem = mem /\ c.as = NoSpace /\ Sound(c, s, space)
      /\ space \in Spacings
  BY <1>2, <1>3, CursorOf
<1> HIDE DEF s, n, p, f, k, d, r, c
<1>7. Threads[t] \in ThreadRecords
  BY <1>4, ThreadIs
<1>8. /\ a \in Spaces /\ a.threads = Only(n) /\ a.active /\ a.blocks = f.blocks /\ a.buffers = f.buffers
      /\ a.last_used_page = f.last_used_page /\ a.mail = NoSpace.mail
      /\ a.map = NoSpace.map /\ a.tables = NoSpace.tables
      /\ a.PageDir = NoSpace.PageDir /\ a.msgqueue = NoSpace.msgqueue
      /\ a.PageDir = NULL /\ a.msgqueue = NULL /\ MappedOf(a) = {}
      /\ x \in ThreadRecords /\ x.active /\ x.task = s
  BY <1>2, <1>3, <1>4, <1>7, ChildIs
<1> HIDE DEF a
<1>9. k \in Cursors /\ k.mem = mem /\ k.as = a /\ k.halt = "no"
  <2>1. mem \in Mems
    BY <1>6, CursorIs
  <2>2. k = Going(mem, a)
    BY <1>2 DEF k, Cursor, Going
  <2>3. QED
    BY <1>8, <2>1, <2>2, CursorGoes
<1>10. Sound(k, s, space)
  BY <1>3, <1>6, <1>8, <1>9, SoundSame
<1> DEFINE e == MessageQueue(k)
<1>11. /\ e \in Cursors /\ e.halt \in {"no", "finished"}
       /\ e.halt = "no" => /\ Sound(e, s, space) /\ SameOther(a, e.as) /\ e.as.msgqueue # NULL
                           /\ e.as.PageDir = NULL
  BY <1>3, <1>6, <1>8, <1>9, <1>10, MessageQueueIs
<1> HIDE DEF e
<1>12. /\ d \in Cursors /\ d.halt \in {"no", "finished"}
       /\ d.halt = "no" => /\ e.halt = "no" /\ Sound(d, s, space) /\ SameOther(e.as, d.as)
                           /\ d.as.PageDir # NULL /\ d.as.msgqueue = e.as.msgqueue
  <2>1. d = PageDirectory(e)
    BY DEF d, e
  <2>2. QED
    BY <1>3, <1>6, <1>11, <2>1, PageDirectoryIs
<1>13. d.halt = "no" =>
          /\ Sound(d, s, space) /\ d.as.PageDir # NULL /\ d.as.msgqueue # NULL
          /\ MappedOf(d.as) = {} /\ TablesOf(d.as) = TablesOf(a) /\ d.as.active
          /\ d.as.threads = Only(n) /\ d.as.blocks = f.blocks /\ d.as.buffers = f.buffers
          /\ d.as.last_used_page = f.last_used_page
  <2>1. SUFFICES ASSUME d.halt = "no"
                 PROVE  /\ Sound(d, s, space) /\ d.as.PageDir # NULL /\ d.as.msgqueue # NULL
                        /\ MappedOf(d.as) = {} /\ TablesOf(d.as) = TablesOf(a) /\ d.as.active
                        /\ d.as.threads = Only(n) /\ d.as.blocks = f.blocks /\ d.as.buffers = f.buffers
                        /\ d.as.last_used_page = f.last_used_page
    OBVIOUS
  <2>2. /\ Sound(d, s, space) /\ SameOther(e.as, d.as) /\ d.as.PageDir # NULL
        /\ d.as.msgqueue = e.as.msgqueue /\ SameOther(a, e.as) /\ e.as.msgqueue # NULL
    BY <1>11, <1>12, <2>1
  <2>3. /\ d.as.active = a.active /\ d.as.threads = a.threads /\ d.as.blocks = a.blocks
        /\ d.as.buffers = a.buffers /\ d.as.last_used_page = a.last_used_page
        /\ d.as.map = a.map /\ d.as.tables = a.tables
    BY <2>2, Zenon DEF SameOther
  <2>4. MappedOf(d.as) = MappedOf(a) /\ TablesOf(d.as) = TablesOf(a)
    BY <2>3, Zenon DEF MappedOf, TablesOf
  <2>5. QED
    BY <1>8, <2>2, <2>3, <2>4, Zenon
<1>14. TablesOf(a) = {}
  BY <1>8 DEF TablesOf, NoSpace
<1>15. /\ r \in Cursors /\ r.halt \in {"no", "finished", "null_table"}
       /\ r.halt = "no" => /\ d.halt = "no" /\ Sound(r, s, space)
                           /\ Grows(d.as, r.as, MappedOf(f), TablesOf(f))
                           /\ r.as.last_used_page = d.as.last_used_page
  <2>1. d.halt = "no" => Sound(d, s, space) /\ MappedOf(d.as) = {}
    BY <1>13
  <2>2. LET u == CopyTables(d, f)
        IN  /\ u \in Cursors /\ u.halt \in {d.halt, "finished", "null_table"}
            /\ u.halt = "no" =>
                  /\ d.halt = "no" /\ Sound(u, s, space)
                  /\ Grows(d.as, u.as, MappedOf(f), TablesOf(f))
                  /\ u.as.last_used_page = d.as.last_used_page
    BY <1>3, <1>5, <1>6, <1>12, <2>1, CopyTablesIs
  <2>3. QED
    BY <1>12, <2>2 DEF r
<1> HIDE DEF x
<1>16. /\ new \in ThreadTables /\ Elsewhere(new, Threads, s)
       /\ ThreadsOf(new, s) = ThreadsOf(Threads, s) \cup {n}
  BY <1>2, <1>3, <1>4, <1>8, ThreadStarts
<1>17. ASSUME r.halt = "no" PROVE Ready(s, r, new)
  <2>1. /\ Sound(r, s, space) /\ r.as.PageDir # NULL /\ r.as.msgqueue # NULL
        /\ MappedOf(r.as) = MappedOf(f) /\ TablesOf(r.as) = TablesOf(f)
        /\ r.as.active /\ r.as.threads = Only(n) /\ r.as.blocks = f.blocks /\ r.as.buffers = f.buffers
        /\ r.as.last_used_page = f.last_used_page
    BY <1>13, <1>14, <1>15, <1>17 DEF Grows, SameRest
  <2>2. InOrder(r.as)
    BY <1>5, <2>1 DEF InOrder, Covered
  <2>3. Proper(Extents(r.as, new, s), MappedOf(f))
    BY <1>2, <1>3, <1>4, <1>5, <2>1, ChildHolds DEF x
  <2>4. Well(r.as, new, s)
    BY <1>4, <2>1, <2>2, <2>3 DEF Well
  <2>5. ThreadsOf(new, s) = {n} /\ Lists(Only(n), n)
    BY <1>2, <1>3, <1>16, OnlyIs
  <2> HIDE DEF new
  <2>6. QED
    BY <1>16, <2>1, <2>4, <2>5 DEF Ready
<1> HIDE DEF new
<1>18. QED
  BY <1>1, <1>3, <1>15, <1>16, <1>17, Committed

\* The kernel stops.
LEMMA Stops ==
    ASSUME IInv, NEW m, NEW sp, NEW thr, NEW h \in Halts, h # "no", Outcome(m, sp, thr, h),
           Own => h \in {"no", "finished", "null_table", "panic", "undefined"}
    PROVE  IInv'
<1>1. halt' = h /\ mem' = mem /\ space' = space /\ Threads' = Threads
  BY DEF Outcome
<1>2. Settled(mem', space', Threads')
  BY <1>1 DEF IInv
<1>3. QED
  BY <1>1, <1>2 DEF IInv, OwnHalts

\* The live threads of a process are among those that its table names.
LEMMA NamedIs ==
    ASSUME NEW s, NEW u \in Thread, Lists(space[s].threads, u)
    PROVE  u \in Named(s)
  BY MemoryAssumption DEF Lists, Named, NULL

\* Exit_Process.
LEMMA StepExit_Process ==
    ASSUME Careful, IInv, NEW t \in Thread, Exit_Process(t)
    PROVE  IInv'
<1> DEFINE s == task(t)
           c == Cursor(space[s])
           a == [c |-> c, thr |-> Threads]
           O == ThreadsOf(Threads, s) \ {t}
           k == DestroyOthers(t, NULL)
           kc == [mem |-> k.mem, as |-> k.space[s], halt |-> k.halt]
           l == GiveBack(FreeStacks(kc, k.thr[t]))
<1>1. /\ Running(t) /\ MayDestroy(s, Named(s) \ {t})
      /\ Outcome(l.mem, [k.space EXCEPT ![s] = l.as], [k.thr EXCEPT ![t] = Ended(@)], l.halt)
  <2>1. Searched = {NULL}
    BY DEF Careful, Searched
  <2>2. QED
    BY <2>1, Zenon DEF Exit_Process
<1>2. /\ s \in Slot /\ halt = "no" /\ space[s].active /\ Threads[t].active /\ Threads[t].task = s
      /\ \A u \in ThreadsOf(Threads, s) : Lists(space[s].threads, u)
  BY <1>1, TaskOf DEF Running, task
<1>3. /\ c \in Cursors /\ c.halt = "no" /\ c.as = space[s] /\ Sound(c, s, space)
      /\ space \in Spacings /\ Well(space[s], Threads, s) /\ Threads \in ThreadTables
  BY <1>2, CursorOf
<1>4. Sane(s) /\ (Own => \A u \in Named(s) \ {t} : Threads[u].kernel_stack # 0)
  BY <1>1 DEF Careful, Own, MayDestroy
<1>5. Own => \A u \in O : Threads[u].kernel_stack # 0
  BY <1>2, <1>4, NamedIs DEF ThreadsOf
<1>6. Kern = KernOf(a, s)
  BY <1>2, <1>3, KernIs
<1>7. task(t) = s
  OBVIOUS
<1> HIDE DEF c, s
<1>8. a \in Crews /\ a.thr = Threads /\ a.c = c /\ Intact(a.c, Threads, s, space)
  BY <1>3 DEF Crews, Intact
<1> HIDE DEF a, k
<1>9. PICK x \in Crews :
         /\ k = KernOf(x, s) /\ x.thr[t].active /\ x.thr[t].task = s
         /\ x.c.halt = "no" => /\ Intact(x.c, x.thr, s, space)
                               /\ \A u \in O : ~x.thr[u].active
                               /\ \A u \in Thread \ (O \cup {t}) : x.thr[u] = Threads[u]
         /\ (\A u \in O : Threads[u].kernel_stack # 0) => x.c.halt = "no"
  <2>1. /\ a.c.halt = "no" /\ a.c.as.active
    BY <1>2, <1>3, <1>8
  <2>2. \E x \in Crews : /\ DestroyOthers(t, NULL) = KernOf(x, s)
                         /\ OthersGone(x, s, t, ThreadsOf(Threads, s) \ {t})
    <3> HIDE DEF kc, l
    <3>1. /\ s \in Slot /\ Threads \in ThreadTables /\ space \in Spacings /\ halt = "no"
          /\ a \in Crews /\ a.thr = Threads /\ Intact(a.c, Threads, s, space) /\ Sane(s)
          /\ \A u \in ThreadsOf(Threads, s) : Lists(space[s].threads, u)
      BY <1>2, <1>3, <1>4, <1>8
    <3>2. QED
      BY <1>6, <1>7, <2>1, <3>1, DestroyOthersIs, Zenon
  <2>3. PICK x \in Crews : /\ DestroyOthers(t, NULL) = KernOf(x, s)
                           /\ OthersGone(x, s, t, O)
    BY <2>2, Zenon DEF O
  <2> HIDE DEF O
  <2>4. QED
    BY <1>2, <2>3 DEF k, OthersGone
<1> HIDE DEF O, kc, l
<1> DEFINE y == FreeStacks(x.c, x.thr[t])
           r == GiveBack(y)
           new == Put(x.thr, t, Ended(x.thr[t]))
<1>10. x.c \in Cursors /\ x.thr \in ThreadTables
  BY DEF Crews
<1>11. k.thr = x.thr /\ k.space = With(space, s, x.c.as) /\ kc = x.c
  <2>1. /\ k.mem = x.c.mem /\ k.thr = x.thr /\ k.halt = x.c.halt
        /\ k.space = With(space, s, x.c.as)
    BY <1>9 DEF KernOf
  <2>2. k.space[s] = x.c.as
    BY <1>2, <1>3, <2>1, WithTwice
  <2>3. kc = [mem |-> x.c.mem, as |-> x.c.as, halt |-> x.c.halt]
    BY <2>1, <2>2 DEF kc
  <2>4. QED
    BY <1>10, <2>1, <2>3, CursorIs
<1>12. Commit(s, r, new)
  <2>1. l = r /\ [k.thr EXCEPT ![t] = Ended(@)] = new
    BY <1>11, Zenon DEF l, Put
  <2> HIDE DEF r, new
  <2>2. [k.space EXCEPT ![s] = r.as] = [space EXCEPT ![s] = r.as]
    BY <1>2, <1>3, <1>11, WithTwice
  <2>3. QED
    BY <1>1, <2>1, <2>2 DEF Commit
<1>13. /\ y \in Cursors /\ y.halt = x.c.halt
       /\ y.halt = "no" => Intact(y, new, s, space)
  <2>1. LET u == FreeStacks(x.c, x.thr[t])
        IN  /\ u \in Cursors /\ u.halt = x.c.halt
            /\ u.halt = "no" => /\ Intact(u, Put(x.thr, t, Ended(x.thr[t])), s, space)
                                /\ SameRest(x.c.as, u.as)
    BY <1>2, <1>3, <1>9, <1>10, FreeStacksIs
  <2>2. QED
    BY <2>1
<1> HIDE DEF y
<1>14. /\ r \in Cursors
       /\ r.halt = "no" => y.halt = "no" /\ Sound(r, s, space) /\ r.as = NoSpace
       /\ KernelTables # KDIR => r.halt = y.halt
  <2>1. y.halt = "no" => Sound(y, s, space) /\ y.as.PageDir # NULL /\ y.as.msgqueue # NULL
    BY <1>13 DEF Intact, Well, InOrder
  <2>2. QED
    BY <1>2, <1>3, <1>13, <2>1, GiveBackIs
<1> HIDE DEF r
<1>15. /\ new \in ThreadTables /\ ~new[t].active /\ \A u \in Thread \ {t} : new[u] = x.thr[u]
  BY <1>10, ThreadEnds
<1> HIDE DEF new
<1>16. ASSUME r.halt = "no" PROVE Ready(s, r, new)
  <2>1. x.c.halt = "no"
    BY <1>13, <1>14, <1>16
  <2>2. \A u \in O \cup {t} : ~new[u].active /\ Threads[u].active /\ Threads[u].task = s
    BY <1>2, <1>9, <1>15, <2>1 DEF O, ThreadsOf
  <2>3. \A u \in Thread \ (O \cup {t}) :
           new[u] = Threads[u] /\ ~(Threads[u].active /\ Threads[u].task = s)
    BY <1>9, <1>15, <2>1 DEF O, ThreadsOf
  <2>4. Elsewhere(new, Threads, s)
    BY <2>2, <2>3 DEF Elsewhere
  <2>5. ThreadsOf(new, s) = {}
    BY <2>2, <2>3 DEF ThreadsOf
  <2>6. QED
    BY <1>14, <1>15, <1>16, <2>4, <2>5, NoSpaceIs DEF Ready
<1>17. Own => r.halt = "no"
  <2>1. Own => KernelTables # KDIR
    BY Numbers DEF Own
  <2>2. QED
    BY <1>5, <1>9, <1>13, <1>14, <2>1
<1>18. QED
  BY <1>2, <1>12, <1>14, <1>16, <1>17, Committed

\* SIGNAL_DESTROY.
LEMMA StepSIGNAL_DESTROY ==
    ASSUME Careful, IInv, NEW t \in Thread, NEW s \in Slot, SIGNAL_DESTROY(t, s)
    PROVE  IInv'
<1> DEFINE v == space[s].threads[0]
           c == Cursor(space[s])
           a == [c |-> c, thr |-> Threads]
           k == IF v = NULL THEN [Kern EXCEPT !.halt = "undefined"]
                ELSE Destroy_Thread(Kern, t, v, NULL)
<1>1. /\ Running(t) /\ space[s].active /\ MayDestroy(s, {v} \ {NULL})
      /\ Outcome(k.mem, k.space, k.thr, k.halt)
  <2>1. Searched = {NULL}
    BY DEF Careful, Searched
  <2>2. QED
    BY <2>1, Zenon DEF SIGNAL_DESTROY
<1>2. halt = "no"
  BY <1>1 DEF Running
<1>3. /\ c \in Cursors /\ c.halt = "no" /\ c.as = space[s] /\ Sound(c, s, space)
      /\ space \in Spacings /\ Well(space[s], Threads, s) /\ Threads \in ThreadTables
  BY <1>1, <1>2, CursorOf
<1>4. v # NULL => v \in Thread /\ Threads[v].active /\ Threads[v].task = s
  <2>1. 0 \in Index /\ space[s].threads \in Listing
    BY <1>3, SpaceIs, MemoryAssumption DEF Index, Spacings
  <2>2. Sane(s)
    BY <1>1 DEF Careful, MayDestroy
  <2>3. QED
    BY <2>1, <2>2 DEF Listing, Sane, Named, task
<1>5. Own /\ v # NULL => Threads[v].kernel_stack # 0
  BY <1>1 DEF Own, MayDestroy
<1>6. /\ \A u : Kern.mem = mem /\ Kern.space = space /\ Kern.thr = Threads /\ Kern.halt = "no"
      /\ Kern = KernOf(a, s)
  BY <1>1, <1>2, <1>3, KernIs DEF Kern
<1> HIDE DEF c, v
<1>7. CASE v = NULL
  <2>1. k.halt = "undefined"
    BY <1>7 DEF Kern
  <2> HIDE DEF k
  <2>2. QED
    BY <1>1, <2>1, Stops DEF Halts
<1>8. CASE v # NULL /\ v = t
  <2>1. k = [Kern EXCEPT !.halt = "panic"]
    BY <1>6, <1>8, Zenon DEF Destroy_Thread
  <2>2. k.halt = "panic"
    BY <2>1 DEF Kern
  <2> HIDE DEF k
  <2>3. QED
    BY <1>1, <2>2, Stops DEF Halts
<1>9. CASE v # NULL /\ v # t
  <2> DEFINE x == FreeStacksOf(a, t, v)
             r == x.c
             new == x.thr
  <2>1. /\ a \in Crews /\ a.thr = Threads /\ a.c = c /\ a.c.halt = "no" /\ a.c.as.active
        /\ Intact(a.c, a.thr, s, space)
    BY <1>1, <1>3 DEF Crews, Intact
  <2>2. a.thr[v].active /\ a.thr[v].task = s /\ v \in Thread
    BY <1>4, <1>9, <2>1
  <2> HIDE DEF a
  <2>3. k = KernOf(x, s)
    <3>1. k = Destroy_Thread(KernOf(a, s), t, v, NULL)
      BY <1>6, <1>9
    <3> HIDE DEF k
    <3>2. Destroy_Thread(KernOf(a, s), t, v, NULL) =
             KernOf(IF a.c.halt = "no" THEN FreeStacksOf(a, t, v) ELSE a, s)
      BY <1>3, <1>9, <2>1, <2>2, DestroyIs
    <3>3. QED
      BY <2>1, <3>1, <3>2
  <2>4. /\ x \in Crews /\ x.thr = ThreadGone(Threads, t, v)
        /\ x.c.halt = "no" => Intact(x.c, x.thr, s, space) /\ SameRest(space[s], x.c.as)
        /\ Threads[v].kernel_stack # 0 => x.c.halt = "no"
    <3>1. LET u == FreeStacksOf(a, t, v)
          IN  /\ u \in Crews /\ u.thr = ThreadGone(a.thr, t, v)
              /\ u.c.halt = "no" => /\ a.c.halt = "no" /\ Intact(u.c, u.thr, s, space)
                                    /\ SameRest(a.c.as, u.c.as)
              /\ a.c.halt # "no" \/ a.thr[v].kernel_stack # 0 => u.c.halt = a.c.halt
      BY <1>3, <1>9, <2>1, <2>2, FreeStacksOfIs
    <3>2. QED
      BY <1>3, <2>1, <3>1
  <2> HIDE DEF x, k
  <2>5. Commit(s, r, new)
    <3>1. /\ k.mem = r.mem /\ k.thr = new /\ k.halt = r.halt /\ k.space = With(space, s, r.as)
      BY <2>3 DEF KernOf
    <3>2. [space EXCEPT ![s] = r.as] = With(space, s, r.as)
      BY <1>3, WithTwice
    <3>3. QED
      BY <1>1, <3>1, <3>2 DEF Commit
  <2>6. r \in Cursors /\ new \in ThreadTables
    BY <2>4 DEF Crews
  <2>7. /\ ~new[v].active /\ \A u \in Thread \ {t, v} : new[u] = Threads[u]
        /\ new[t].active = Threads[t].active /\ new[t].task = Threads[t].task
        /\ Fewer(new, Threads)
    <3>1. LET w == ThreadGone(Threads, t, v)
          IN  /\ w \in ThreadTables /\ ~w[v].active
              /\ \A u \in Thread \ {t, v} : w[u] = Threads[u]
              /\ w[t].active = Threads[t].active /\ w[t].task = Threads[t].task
              /\ Fewer(w, Threads)
      BY <1>3, <1>9, <2>2, ThreadGoneIs
    <3>2. QED
      BY <2>4, <3>1
  <2> HIDE DEF r, new
  <2>8. Elsewhere(new, Threads, s)
    <3>1. ASSUME NEW u \in Thread, Threads[u].active, Threads[u].task # s
          PROVE  new[u].active /\ new[u].task = Threads[u].task
      <4>1. u # v
        BY <1>4, <1>9, <3>1
      <4>2. QED
        BY <2>7, <3>1, <4>1
    <3>2. QED
      BY <2>7, <3>1 DEF Elsewhere, Fewer
  <2>9. ASSUME r.halt = "no" PROVE Ready(s, r, new)
    <3>1. Intact(r, new, s, space) /\ SameRest(space[s], r.as)
      BY <2>4, <2>9 DEF r, new
    <3>2. r.as.active /\ r.as.threads = space[s].threads
      BY <1>1, <3>1 DEF SameRest
    <3>3. \A u \in ThreadsOf(new, s) : Lists(space[s].threads, u)
      <4>1. \A u \in ThreadsOf(new, s) : u \in Thread /\ Threads[u].active /\ Threads[u].task = s
        BY <2>7 DEF ThreadsOf, Fewer
      <4>2. QED
        BY <4>1 DEF IInv, Settled
    <3>4. QED
      BY <2>6, <2>8, <3>1, <3>2, <3>3 DEF Ready, Intact
  <2>10. Own => r.halt = "no"
    BY <1>5, <1>9, <2>4 DEF r
  <2>11. QED
    BY <2>5, <2>6, <2>9, <2>10, Committed
<1>10. QED
  BY <1>7, <1>8, <1>9

--------------------------------------------------------------------------------
(* The boot.                                                                         *)

NoSpaces == [q \in Slot |-> NoSpace]
NoThreads == [t \in Thread |-> NoThread]

\* The memory that the kernel has set up is kept.
LEMMA BootKept ==
    /\ BootMem \in Mems /\ Kept(BootMem) /\ 0 \in Page
    /\ \A p \in Page : ~Kernels(p) => BootMem.pagelist[p] = "FREE"
<1> DEFINE m == BootMem
           n == mem_pages - KernelTables - 1
<1>1. KernelTables \in Nat /\ mem_pages \in Nat /\ KernelTables < mem_pages /\ n \in Nat
  BY Numbers, MemoryAssumption, RoomAssumption
<1>2. 0 \in Page /\ \A p \in Page : p \in Int /\ 0 <= p /\ p < mem_pages
  BY <1>1 DEF Page
<1>3. /\ m.free_pages = n /\ m.pt_pages = n
      /\ m.pagelist = [p \in Page |-> IF p = 0 THEN "DATA"
                                      ELSE IF p >= mem_pages - KernelTables THEN "PTAB" ELSE "FREE"]
      /\ m = [pagelist |-> m.pagelist, free_pages |-> m.free_pages, pt_pages |-> m.pt_pages]
  BY Zenon DEF BootMem
<1> HIDE DEF m
<1>4. m \in Mems
  <2>1. m.pagelist \in [Page -> Uses]
    BY <1>3 DEF Uses
  <2>2. QED
    BY <1>1, <1>3, <2>1 DEF Mems
<1>5. FreeOf(m) = 1..n
  BY <1>1, <1>2, <1>3 DEF FreeOf, Page
<1>6. Cardinality(FreeOf(m)) = n
  BY <1>1, <1>5, FS_Interval
<1>7. Kept(m)
  BY <1>1, <1>2, <1>3, <1>6 DEF Kept
<1>8. \A p \in Page : ~Kernels(p) => m.pagelist[p] = "FREE"
  BY <1>2, <1>3 DEF Kernels
<1>9. QED
  BY <1>2, <1>4, <1>7, <1>8 DEF m

\* Before there are processes a page is free or the kernel's.
LEMMA BootAccounted == NoSpaces \in Spacings /\ Accounted(BootMem, NoSpaces)
<1> DEFINE own == [p \in Page |-> IF Kernels(p) THEN Kernel ELSE Free]
<1>1. NoSpaces \in Spacings /\ \A s \in Slot : NoSpaces[s] = NoSpace
  BY NoSpaceIs DEF NoSpaces, Spacings
<1>2. own \in [Page -> Owners] /\ \A p \in Page : own[p] = IF Kernels(p) THEN Kernel ELSE Free
  BY DEF Owners
<1> HIDE DEF own
<1>3. Free # Kernel /\ Role(Free[2]) = "FREE"
  BY DEF Free, Kernel, Role
<1>4. Listed(own, BootMem)
  BY <1>2, <1>3, BootKept DEF Listed
<1>5. \A x \in Spots : At(NoSpace, x) = NULL
  BY DEF Spots, At, NoSpace
<1>6. \A x \in Spots : x[1] # "free" /\ x[1] # "kernel"
  BY DEF Spots
<1>7. ASSUME NEW s \in Slot PROVE Has(own, s, NoSpace)
  <2>1. ASSUME NEW p \in Page, NEW x \in Spots \cup {Mail} PROVE own[p] # <<s, x>>
    <3>1. x[1] # "free" /\ x[1] # "kernel"
      BY <1>6 DEF Mail
    <3>2. own[p] = Free \/ own[p] = Kernel
      BY <1>2
    <3>3. QED
      BY <3>1, <3>2 DEF Free, Kernel
  <2>2. \A p \in Page : p # NULL
    BY Numbers DEF Page, NULL
  <2>3. DOMAIN NoSpace.mail = {}
    BY DEF NoSpace
  <2>4. QED
    BY <1>5, <2>1, <2>2, <2>3 DEF Has
<1>8. QED
  BY <1>1, <1>2, <1>4, <1>7, BootKept DEF Accounted

\* The invariant holds after the boot.
LEMMA InitIInv ==
    ASSUME Init
    PROVE  IInv
<1> DEFINE a == Begun(FALSE, 0)
           k == Going(BootMem, a)
           sp == NoSpaces
           thr == NoThreads
           new == Put(thr, 0, StackedThread(0, Loaded(k).as))
           r == Stacks(Loaded(k))
<1>1. Booted = r /\ FirstLoaded = Loaded(k)
  BY Zenon DEF Booted, FirstLoaded, Begun
<1>2. /\ sp \in Spacings /\ Accounted(BootMem, sp) /\ BootMem \in Mems
      /\ \A s \in Slot : sp[s] = NoSpace
  BY BootAccounted, BootKept DEF NoSpaces
<1>3. thr \in ThreadTables /\ \A t \in Thread : ~thr[t].active
  BY SlotIs DEF NoThreads, ThreadTables
<1>4. 0 \in Slot /\ 0 \in Thread /\ NULL \notin Thread /\ FALSE \in BOOLEAN
  BY SlotIs, MemoryAssumption DEF NULL
<1> HIDE DEF sp, thr
<1>5. Settled(BootMem, sp, thr)
  BY <1>2, <1>3, <1>4, NoSpaceIs DEF Settled
<1>6. /\ a \in Spaces /\ a.active /\ a.threads = Only(0) /\ Bare(a) /\ a.blocks = {} /\ a.buffers = {}
      /\ a.mail = NoSpace.mail /\ a.map = NoSpace.map /\ a.tables = NoSpace.tables
      /\ a.PageDir = NoSpace.PageDir /\ a.msgqueue = NoSpace.msgqueue
  BY <1>4, BegunIs
<1> HIDE DEF a
<1>7. k \in Cursors /\ k.mem = BootMem /\ k.as = a /\ k.halt = "no"
  BY <1>2, <1>6, CursorGoes
<1>8. Sound(k, 0, sp)
  <2>1. a.mail = sp[0].mail /\ \A y \in Spots : At(a, y) = At(sp[0], y)
    BY <1>2, <1>4, <1>6 DEF At
  <2>2. Accounted(BootMem, With(sp, 0, a))
    BY <1>2, <1>4, <2>1, SamePlaces
  <2>3. QED
    BY <1>7, <2>2 DEF Sound
<1> HIDE DEF k
<1>9. ThreadsOf(thr, 0) = {}
  BY <1>3 DEF ThreadsOf
<1>10. /\ r \in Cursors /\ new \in ThreadTables /\ Elsewhere(new, thr, 0)
       /\ r.halt = "no" => /\ Intact(r, new, 0, sp) /\ r.as.active /\ r.as.threads = Only(0)
                           /\ \A u \in ThreadsOf(new, 0) : Lists(r.as.threads, u)
  BY <1>2, <1>3, <1>4, <1>6, <1>7, <1>8, <1>9, ProcessIs
<1>11. r.halt = "no"
  BY <1>1, BootAssumption
<1>12. /\ mem = r.mem /\ halt = "no" /\ space = With(sp, 0, r.as) /\ Threads = new
  <2>1. space = With(sp, 0, r.as)
    BY <1>1, <1>2 DEF Init, With
  <2>2. Threads = new
    BY <1>1, <1>4 DEF Init, Put, thr, NoThreads
  <2>3. QED
    BY <1>1, <1>11, <2>1, <2>2 DEF Init
<1> HIDE DEF r, new
<1>13. Settled(r.mem, With(sp, 0, r.as), new)
  <2>1. /\ Sound(r, 0, sp) /\ Well(r.as, new, 0) /\ r.as.active
        /\ \A u \in ThreadsOf(new, 0) : Lists(r.as.threads, u)
    BY <1>10, <1>11 DEF Intact
  <2>2. QED
    BY <1>4, <1>5, <1>10, <2>1, Settles
<1>14. QED
  BY <1>12, <1>13 DEF IInv, OwnHalts, Halts

--------------------------------------------------------------------------------
(* What the invariant says.                                                          *)

\* Who uses a page that its owner, and nobody else, has.
LEMMA UsersIs ==
    ASSUME Settled(mem, space, Threads), NEW p \in Page, ~Kernels(p)
    PROVE  /\ mem.pagelist[p] = "FREE" => Users(p) = {}
           /\ mem.pagelist[p] # "FREE" => \E u : Users(p) = {u}
           /\ \A u \in Users(p) :
                 mem.pagelist[p] = CASE u[2][1] = "dir" -> "PDIR" [] u[2][1] = "table" -> "PTAB"
                                     [] OTHER -> "DATA"
<1>1. PICK own \in [Page -> Owners] : Listed(own, mem) /\ \A q \in Slot : Has(own, q, space[q])
  BY DEF Settled, Accounted
<1>2. mem \in Mems /\ Kept(mem) /\ \A q \in Slot : space[q] \in Spaces
  BY DEF Settled, Accounted, Spacings
<1>3. ASSUME NEW q \in Slot, space[q].active
      PROVE  /\ \A h \in Held(space[q]) :
                   /\ h[3] \in Page
                   /\ h[1] = "mail" => own[h[3]] = <<q, Mail>>
                   /\ h[1] # "mail" => /\ <<h[1], h[2]>> \in Spots
                                       /\ own[h[3]] = <<q, <<h[1], h[2]>>>>
             /\ \A h, g \in Held(space[q]) : h[3] = g[3] => h = g
             /\ (\E h \in Held(space[q]) : h[3] = p)
                   <=> \E x \in Spots \cup {Mail} : own[p] = <<q, x>>
  <2>1. space[q].PageDir # NULL /\ space[q].msgqueue # NULL
    BY <1>3 DEF Settled, Well, InOrder
  <2>2. QED
    BY <1>1, <1>2, <2>1, HeldOwned
<1>4. \A u \in Users(p) :
         /\ u = <<u[1], u[2]>> /\ u[1] \in Slot /\ space[u[1]].active
         /\ u[2] \in Held(space[u[1]]) /\ u[2][3] = p
  BY DEF Users
<1>5. \A q \in Slot : \A h : space[q].active /\ h \in Held(space[q]) /\ h[3] = p => <<q, h>> \in Users(p)
  BY DEF Users
<1> HIDE DEF Users
<1>6. ASSUME NEW u \in Users(p)
      PROVE  /\ \E x \in Spots \cup {Mail} : own[p] = <<u[1], x>>
             /\ u[2][1] = "mail" => own[p] = <<u[1], Mail>>
             /\ u[2][1] # "mail" => /\ <<u[2][1], u[2][2]>> \in Spots
                                    /\ own[p] = <<u[1], <<u[2][1], u[2][2]>>>>
  BY <1>3, <1>4
<1>7. ASSUME mem.pagelist[p] = "FREE" PROVE Users(p) = {}
  <2>1. SUFFICES ASSUME NEW u \in Users(p) PROVE FALSE
    OBVIOUS
  <2>2. PICK x \in Spots \cup {Mail} : own[p] = <<u[1], x>>
    BY <1>6
  <2>3. u[1] \in Slot
    BY <1>4
  <2>4. \A q \in Slot, y \in Spots \cup {Mail} : own[p] # <<q, y>>
    BY <1>1, <1>2, <1>7, FreeIs
  <2>5. QED
    BY <2>2, <2>3, <2>4
<1>8. ASSUME mem.pagelist[p] # "FREE" PROVE \E u : Users(p) = {u}
  <2>1. own[p] # Kernel /\ mem.pagelist[p] = Role(own[p][2]) /\ own[p] \in Owners
    BY <1>1 DEF Listed
  <2>2. own[p] # Free
    BY <1>8, <2>1 DEF Free, Role
  <2>3. PICK s \in Slot, x \in Spots \cup {Mail} : own[p] = <<s, x>>
    BY <2>1, <2>2 DEF Owners
  <2>4. space[s].active
    <3>1. SUFFICES ASSUME ~space[s].active PROVE FALSE
      OBVIOUS
    <3>2. space[s] = NoSpace /\ Has(own, s, NoSpace)
      BY <1>1, <3>1 DEF Settled
    <3>3. \A y \in Spots : At(NoSpace, y) = NULL
      BY DEF Spots, At, NoSpace
    <3>4. DOMAIN NoSpace.mail = {} /\ p # NULL
      BY Numbers DEF NoSpace
    <3>5. QED
      BY <2>3, <3>2, <3>3, <3>4 DEF Has
  <2>5. PICK h \in Held(space[s]) : h[3] = p
    BY <1>3, <2>3, <2>4
  <2>6. <<s, h>> \in Users(p)
    BY <1>5, <2>4, <2>5
  <2>7. ASSUME NEW u \in Users(p) PROVE u = <<s, h>>
    <3>1. u[1] = s
      <4>1. PICK y \in Spots \cup {Mail} : own[p] = <<u[1], y>>
        BY <1>6
      <4>2. <<u[1], y>>[1] = u[1] /\ <<s, x>>[1] = s
        OBVIOUS
      <4>3. QED
        BY <2>3, <4>1, <4>2
    <3>2. u[2] = h
      BY <1>3, <1>4, <2>4, <2>5, <3>1
    <3>3. QED
      BY <1>4, <3>1, <3>2
  <2>8. Users(p) = {<<s, h>>}
    BY <2>6, <2>7
  <2>9. QED
    BY <2>8
<1>9. ASSUME NEW u \in Users(p)
      PROVE  mem.pagelist[p] = CASE u[2][1] = "dir" -> "PDIR" [] u[2][1] = "table" -> "PTAB"
                                 [] OTHER -> "DATA"
  <2>1. CASE u[2][1] = "mail"
    <3>1. mem.pagelist[p] = Role(Mail)
      <4>1. own[p] = <<u[1], Mail>> /\ u[1] \in Slot
        BY <1>4, <1>6, <2>1
      <4>2. Mail \in Spots \cup {Mail}
        OBVIOUS
      <4>3. QED
        BY <1>1, <1>2, <4>1, <4>2, OwnedIs
    <3>2. Role(Mail) = "DATA"
      BY DEF Role, Mail
    <3>3. QED
      BY <2>1, <3>1, <3>2
  <2>2. CASE u[2][1] # "mail"
    <3> DEFINE x == <<u[2][1], u[2][2]>>
    <3>1. x \in Spots /\ own[p] = <<u[1], x>>
      BY <1>6, <2>2
    <3>2. x[1] = u[2][1] /\ x[1] # "free"
      BY <3>1 DEF Spots
    <3> HIDE DEF x
    <3>3. mem.pagelist[p] = Role(x)
      BY <1>1, <1>2, <1>4, <3>1, OwnedIs
    <3>4. QED
      BY <3>2, <3>3 DEF Role
  <2>3. QED
    BY <2>1, <2>2
<1>10. QED
  BY <1>7, <1>8, <1>9

\* A byte needs a page.
LEMMA OnePage == Pages(1) = 1
<1> DEFINE n == DIM_PAGE
           q == n \div n
<1>1. n \in Nat \ {0}
  BY Numbers
<1>2. Pages(1) = q
  <2>1. 1 + DIM_PAGE - 1 = n
    BY <1>1
  <2>2. QED
    BY <2>1, Zenon DEF Pages
<1> HIDE DEF n
<1>3. q \in Nat /\ n * q <= n /\ n < n * q + n
  BY <1>1, DivIs
<1> HIDE DEF q
<1>4. q # 0
  <2>1. q = 0 => n * q = 0
    BY <1>1
  <2>2. QED
    BY <1>1, <1>3, <2>1
<1>5. q < 2
  <2>1. SUFFICES ASSUME q >= 2 PROVE FALSE
    BY <1>3
  <2>2. n * q >= n * 2
    BY <1>1, <1>3, <2>1
  <2>3. QED
    BY <1>1, <1>3, <2>2
<1>6. QED
  BY <1>2, <1>3, <1>4, <1>5

\* The pages of what a thread, or the program, holds are mapped.
LEMMA MappedIs ==
    ASSUME NEW a, NEW v, NEW bytes, NEW e, e[3] = v, e[4] = Pages(bytes),
           PagesOf(e) \subseteq MappedOf(a)
    PROVE  Mapped(a, v, bytes)
  BY DEF PagesOf, MappedOf, Mapped

\* The invariant implies what it is for.
LEMMA IInvTells ==
    ASSUME IInv
    PROVE  /\ PagesAccounted /\ FreePagesCounted /\ HeldIsMapped
           /\ Own => FreesItsOwn
<1>1. Settled(mem, space, Threads)
  BY DEF IInv
<1>2. PagesAccounted
  <2>1. ASSUME NEW p \in Page, ~Kernels(p)
        PROVE  /\ Cardinality(Users(p)) = (IF mem.pagelist[p] = "FREE" THEN 0 ELSE 1)
               /\ \A u \in Users(p) :
                     mem.pagelist[p] = CASE u[2][1] = "dir" -> "PDIR"
                                         [] u[2][1] = "table" -> "PTAB" [] OTHER -> "DATA"
    <3>1. /\ mem.pagelist[p] = "FREE" => Users(p) = {}
          /\ mem.pagelist[p] # "FREE" => \E u : Users(p) = {u}
          /\ \A u \in Users(p) :
                mem.pagelist[p] = CASE u[2][1] = "dir" -> "PDIR"
                                    [] u[2][1] = "table" -> "PTAB" [] OTHER -> "DATA"
      BY <1>1, <2>1, UsersIs
    <3> HIDE DEF Users
    <3>2. Cardinality(Users(p)) = IF mem.pagelist[p] = "FREE" THEN 0 ELSE 1
      BY <3>1, FS_EmptySet, FS_Singleton
    <3>3. QED
      BY <3>1, <3>2
  <2>2. QED
    BY <2>1, Zenon DEF PagesAccounted
<1>3. FreePagesCounted
  BY <1>1 DEF Settled, Accounted, Kept, FreeOf, FreePagesCounted
<1>4. HeldIsMapped
  <2>1. ASSUME NEW s \in Slot, space[s].active
        PROVE  /\ \A b \in space[s].blocks : Mapped(space[s], b.at, b.size)
               /\ \A v \in space[s].buffers : Mapped(space[s], v, 1)
               /\ \A t \in Thread : Threads[t].active /\ Threads[t].task = s =>
                     /\ Threads[t].kernel_stack # 0 =>
                           Mapped(space[s], Threads[t].kernel_stack, STACKS_SIZE)
                     /\ Threads[t].user_stack # 0 =>
                           Mapped(space[s], Threads[t].user_stack, STACKS_SIZE)
    <3> DEFINE a == space[s]
               X == Extents(a, Threads, s)
    <3>1. \A x \in X : PagesOf(x) \subseteq MappedOf(a)
      BY <1>1, <2>1 DEF Settled, Well, Proper
    <3>2. ASSUME NEW b \in a.blocks PROVE Mapped(a, b.at, b.size)
      <4>1. BlockX(b) \in X
        BY DEF Extents
      <4>2. BlockX(b)[3] = b.at /\ BlockX(b)[4] = Pages(b.size)
        BY DEF BlockX
      <4> HIDE DEF X, a
      <4>3. QED
        BY <3>1, <4>1, <4>2, MappedIs
    <3>3. ASSUME NEW v \in a.buffers PROVE Mapped(a, v, 1)
      <4>1. BufferX(v) \in X
        BY DEF Extents
      <4>2. BufferX(v)[3] = v /\ BufferX(v)[4] = 1
        BY DEF BufferX
      <4>3. Pages(1) = 1
        BY Numbers, OnePage
      <4> HIDE DEF X, a
      <4>4. QED
        BY <3>1, <4>1, <4>2, <4>3, MappedIs
    <3>4. ASSUME NEW t \in Thread, Threads[t].active, Threads[t].task = s
          PROVE  /\ Threads[t].kernel_stack # 0 => Mapped(a, Threads[t].kernel_stack, STACKS_SIZE)
                 /\ Threads[t].user_stack # 0 => Mapped(a, Threads[t].user_stack, STACKS_SIZE)
      <4> DEFINE k == KernelX(t, Threads[t].kernel_stack)
                 u == UserX(t, Threads[t].user_stack)
      <4>1. /\ Threads[t].kernel_stack # 0 => k \in X
            /\ Threads[t].user_stack # 0 => u \in X
        BY <3>4 DEF Extents, ThreadsOf
      <4>2. /\ k[3] = Threads[t].kernel_stack /\ k[4] = Pages(STACKS_SIZE)
            /\ u[3] = Threads[t].user_stack /\ u[4] = Pages(STACKS_SIZE)
        BY DEF KernelX, UserX, StackPages
      <4> HIDE DEF X, a, k, u
      <4>3. QED
        BY <3>1, <4>1, <4>2, MappedIs
    <3>5. QED
      BY <3>2, <3>3, <3>4
  <2>2. QED
    BY <2>1, Zenon DEF HeldIsMapped
<1>5. Own => FreesItsOwn
  BY DEF IInv, OwnHalts, FreesItsOwn
<1>6. QED
  BY <1>2, <1>3, <1>4, <1>5

--------------------------------------------------------------------------------
(* Every step keeps the invariant.                                                 *)

\* The invariant is inductive.
LEMMA StepIInv ==
    ASSUME Careful, IInv, [Next]_vars
    PROVE  IInv'
<1>1. CASE UNCHANGED vars
  BY <1>1 DEF vars, IInv, OwnHalts
<1>2. ASSUME NEW t \in Thread, NEW d \in Sizes, mallosso(t, d) PROVE IInv'
  BY <1>2, StepMallosso
<1>3. ASSUME NEW t \in Thread, freosso(t) PROVE IInv'
  BY <1>3, StepFreosso
<1>4. ASSUME NEW t \in Thread, getbmsg(t) PROVE IInv'
  BY <1>4, StepGetbmsg
<1>5. ASSUME NEW t \in Thread, freemsg(t) PROVE IInv'
  BY <1>5, StepFreemsg
<1>6. ASSUME NEW t \in Thread, recmsg(t) PROVE IInv'
  BY <1>6, StepRecmsg
<1>7. ASSUME NEW t \in Thread, NEW d \in Slot, sendmsg(t, d) PROVE IInv'
  BY <1>7, StepSendmsg
<1>8. ASSUME NEW t \in Thread, Create_Thread(t) PROVE IInv'
  BY <1>8, StepCreate_Thread
<1>9. ASSUME NEW t \in Thread, Exit_Thread(t) PROVE IInv'
  BY <1>9, StepExit_Thread
<1>10. ASSUME NEW t \in Thread, NEW user \in BOOLEAN, Create_Process_From_ELF(t, user) PROVE IInv'
  BY <1>10, StepCreate_Process
<1>11. ASSUME NEW t \in Thread, fork(t) PROVE IInv'
  BY <1>11, StepFork
<1>12. ASSUME NEW t \in Thread, Exit_Process(t) PROVE IInv'
  BY <1>12, StepExit_Process
<1>13. ASSUME NEW t \in Thread, NEW s \in Slot, SIGNAL_DESTROY(t, s) PROVE IInv'
  BY <1>13, StepSIGNAL_DESTROY
<1>14. ASSUME NEW t \in Thread, Tables_Full(t) PROVE IInv'
  BY <1>14, StepTables_Full
<1>15. QED
  BY <1>1, <1>2, <1>3, <1>4, <1>5, <1>6, <1>7, <1>8, <1>9, <1>10, <1>11, <1>12, <1>13, <1>14,
     Zenon DEF Next

\* For careful clients the invariant holds always.
LEMMA Invariance ==
    ASSUME Careful
    PROVE  Spec => []IInv
<1>1. Init => IInv
  BY InitIInv
<1>2. IInv /\ [Next]_vars => IInv'
  BY StepIInv
<1>3. QED
  BY <1>1, <1>2, PTL DEF Spec

--------------------------------------------------------------------------------
(* The theorems.                                                                   *)

\* Every page has one use in every reachable state: whatever is loaded, forked, sent,
\* freed, destroyed and ended, pagelist and what the processes have agree, as long as no
\* block is freed that fills its last page (memory.c:399) and nobody destroys, or ends, a
\* process that still names a destroyed thread (process.c:876).
THEOREM PagesStayAccounted ==
    ASSUME Careful
    PROVE  Spec => []PagesAccounted
<1>1. IInv => PagesAccounted
  BY IInvTells
<1>2. QED
  BY <1>1, Invariance, PTL

\* free_pages is the number of free pages in every reachable state: no page is freed
\* twice, and none is taken that was not free, under the hypothesis of PagesStayAccounted.
THEOREM FreePagesStayCounted ==
    ASSUME Careful
    PROVE  Spec => []FreePagesCounted
<1>1. IInv => FreePagesCounted
  BY IInvTells
<1>2. QED
  BY <1>1, Invariance, PTL

\* The blocks, buffers and stacks that a process has are mapped in every reachable
\* state, under the hypothesis of PagesStayAccounted: a Linear_free takes no page of
\* another block or stack, but for that of a block that fills its last page, which does.
THEOREM HeldStaysMapped ==
    ASSUME Careful
    PROVE  Spec => []HeldIsMapped
<1>1. IInv => HeldIsMapped
  BY IInvTells
<1>2. QED
  BY <1>1, Invariance, PTL

\* The kernel never stops because it frees what is not allocated or is its own, if
\* besides no thread is destroyed that has destroyed one (process.c:882) and the last of
\* the kernel's entries is free (process.c:1216).
THEOREM OnlyItsOwnIsFreed ==
    ASSUME Careless = {}, KernelTables < KDIR
    PROVE  Spec => []FreesItsOwn
<1>1. IInv => FreesItsOwn
  BY IInvTells DEF Own
<1>2. Spec => []IInv
  BY Invariance DEF Careful
<1>3. QED
  BY <1>1, <1>2, PTL
================================================================================
